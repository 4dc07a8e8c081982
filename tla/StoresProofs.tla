---------------------------- MODULE StoresProofs ----------------------------
(***************************************************************************)
(* What the program keeps in files that several writers or several runs    *)
(* share, for any number of them: the lease files of the workers, the index*)
(* of the tasks and their mailbox, the skills that processes install, the  *)
(* index of the sessions, and the diaries of a dream.  The theorems on leases*)
(* are about the Spec of FileLease, the others about MCSpec of MCStores, for*)
(* every value of the constants.                                           *)
(***************************************************************************)
EXTENDS MCStores, TLAPS, FiniteSetTheorems, SequenceTheorems

\* What a process in the middle of a call can rely on: the paths it has leased
\* name it on disk, the file it is filling is its own and unreadable to the
\* others, and no two processes fill the same file.
CallInv ==
  /\ \A c \in Clients : pc[c] \in {"filling", "checking"} => todo[c] # <<>>
  /\ \A c \in Clients : pc[c] = "idle" => acquired[c] = {}
  /\ \A c \in Clients : pc[c] \in InCall => \A n \in acquired[c] : lease[n] = c
  /\ \A c \in Clients : pc[c] = "filling" => lease[Head(todo[c])] = Torn
  /\ \A c, d \in Clients :
       c # d /\ pc[c] = "filling" /\ pc[d] = "filling" => Head(todo[c]) # Head(todo[d])

\* The client's own account covers its files, and is empty when it has left.
HeldInv ==
  /\ \A c \in Clients, n \in Names : lease[n] = c => n \in held[c]
  /\ \A c \in Clients : pc[c] = "exited" => held[c] = {}

\* WritersExclude and ExitReleasesAll only speak of the ends of calls and of
\* processes: this is what holds in between.
LeaseInv == TypeOK /\ CallInv /\ HeldInv

\* The marks of a missing and of a torn file are no task ids.
LEMMA Markers == NoFile \notin Clients /\ Torn \notin Clients /\ NoFile # Torn
  BY LeaseAssumption DEF NoFile, Torn

\* A call's list of paths is a sequence of paths.
LEMMA CallsType == Calls \subseteq Seq(Names)
  BY DEF Calls

\* The initial state satisfies the inductive invariant.
LEMMA LeaseInit == Init => LeaseInv
  BY Markers
  DEF Init, LeaseInv, TypeOK, CallInv, HeldInv, Locations, InCall, NoFile, Torn

\* The path a process is about to lease is a path.
LEMMA NextPath ==
  ASSUME TypeOK, CallInv, NEW c \in Clients, pc[c] \in {"filling", "checking"}
  PROVE  Head(todo[c]) \in Names /\ Tail(todo[c]) \in Seq(Names)
  BY DEF TypeOK, CallInv

\* Releasing a path removes the file if it names the client, and nothing else.
LEMMA ReleaseEffect ==
  ASSUME TypeOK, NEW c \in Clients, NEW n \in Names, ReleasePath(c, n)
  PROVE  /\ lease' \in [Names -> Clients \cup {NoFile, Torn}]
         /\ held' \in [Clients -> SUBSET Names]
         /\ lease'[n] # c
         /\ \A m \in Names : lease'[m] = lease[m] \/ (lease[m] = c /\ lease'[m] = NoFile)
         /\ \A m \in Names \ {n} : lease'[m] = lease[m]
         /\ held'[c] = held[c] \ {n}
         /\ \A d \in Clients \ {c} : held'[d] = held[d]
<1>1. lease'[n] = IF lease[n] = c THEN NoFile ELSE lease[n]
  BY DEF ReleasePath, TypeOK
<1>2. \A m \in Names \ {n} : lease'[m] = lease[m]
  BY DEF ReleasePath, TypeOK
<1>3. lease' \in [Names -> Clients \cup {NoFile, Torn}]
  BY DEF ReleasePath, TypeOK
<1>4. held' = [held EXCEPT ![c] = @ \ {n}]
  BY DEF ReleasePath
<1>5. /\ held' \in [Clients -> SUBSET Names]
      /\ held'[c] = held[c] \ {n}
      /\ \A d \in Clients \ {c} : held'[d] = held[d]
  BY <1>4 DEF TypeOK
<1>6. lease'[n] # c /\ (lease'[n] = lease[n] \/ (lease[n] = c /\ lease'[n] = NoFile))
  BY <1>1, Markers
<1>7. \A m \in Names : lease'[m] = lease[m] \/ (lease[m] = c /\ lease'[m] = NoFile)
  BY <1>2, <1>6
<1>8. QED
  BY <1>2, <1>3, <1>5, <1>6, <1>7

\* A call that ends forgets its paths.
LEMMA GiveUpEffect ==
  ASSUME TypeOK, CallInv, NEW c \in Clients, GiveUp(c), UNCHANGED <<lease, held>>
  PROVE  TypeOK' /\ CallInv'
<1>1. TypeOK'
  BY DEF GiveUp, GoTo, TypeOK, Locations, InCall
<1>2. CallInv'
  BY DEF GiveUp, GoTo, TypeOK, CallInv, InCall
<1>3. QED
  BY <1>1, <1>2

\* A call that goes on has one more path leased, which names the client.
LEMMA AdvanceEffect ==
  ASSUME TypeOK, CallInv, NEW c \in Clients, pc[c] \in {"filling", "checking"},
         Advance(c), lease' \in [Names -> Clients \cup {NoFile, Torn}],
         lease'[Head(todo[c])] = c,
         \A n \in Names \ {Head(todo[c])} : lease'[n] = lease[n],
         pc[c] = "filling" \/ lease[Head(todo[c])] = c
  PROVE  /\ todo' \in [Clients -> Seq(Names)]
         /\ acquired' \in [Clients -> SUBSET Names]
         /\ pc' \in [Clients -> Locations]
         /\ CallInv'
<1>1. Head(todo[c]) \in Names /\ Tail(todo[c]) \in Seq(Names)
  BY NextPath
<1>2. /\ todo' \in [Clients -> Seq(Names)]
      /\ acquired' \in [Clients -> SUBSET Names]
      /\ pc' \in [Clients -> Locations]
  BY <1>1 DEF Advance, GoTo, TypeOK, Locations, InCall
<1>3. /\ pc'[c] = "opening"
      /\ acquired'[c] = acquired[c] \cup {Head(todo[c])}
      /\ \A d \in Clients \ {c} : /\ pc'[d] = pc[d]
                                  /\ todo'[d] = todo[d]
                                  /\ acquired'[d] = acquired[d]
  BY DEF Advance, GoTo, TypeOK
<1>4. \A d \in Clients \ {c} : pc[d] = "filling" => Head(todo[d]) # Head(todo[c])
  BY Markers DEF CallInv
<1>5. \A d \in Clients : pc[d] = "filling" => Head(todo[d]) \in Names
  BY NextPath
<1>6. \A d \in Clients : pc'[d] \in InCall => \A n \in acquired'[d] : lease'[n] = d
  BY <1>1, <1>3, Markers DEF CallInv, TypeOK, InCall
<1>7. \A d \in Clients : pc'[d] = "filling" => lease'[Head(todo'[d])] = Torn
  BY <1>3, <1>4, <1>5 DEF CallInv
<1>8. CallInv'
  BY <1>3, <1>6, <1>7 DEF CallInv
<1>9. QED
  BY <1>2, <1>8

\* A process that only moves on, to where it fills nothing, disturbs no other.
LEMMA MoveEffect ==
  ASSUME TypeOK, CallInv, NEW c \in Clients, NEW location \in Locations,
         GoTo(c, location), UNCHANGED <<lease, held, todo, acquired>>,
         location \in InCall => pc[c] \in InCall,
         location \notin {"filling", "idle"},
         location = "checking" => todo[c] # <<>>
  PROVE  TypeOK' /\ CallInv'
<1>1. TypeOK'
  BY DEF GoTo, TypeOK
<1>2. CallInv'
  BY DEF GoTo, TypeOK, CallInv
<1>3. QED
  BY <1>1, <1>2

\* Every step of a client keeps the types and what calls rely on.
LEMMA StepKeepsCalls ==
  ASSUME TypeOK, CallInv, NEW c \in Clients, Step(c)
  PROVE  TypeOK' /\ CallInv'
<1>1. CASE Call(c)
  <2>1. TypeOK'
    BY <1>1, CallsType DEF Call, GoTo, TypeOK, Locations, InCall
  <2>2. CallInv'
    BY <1>1 DEF Call, GoTo, TypeOK, CallInv, InCall
  <2>3. QED
    BY <2>1, <2>2
<1>2. CASE Create(c)
  <2>1. Head(todo[c]) \in Names /\ lease[Head(todo[c])] = NoFile
    BY <1>2 DEF Create, MayCreate, TypeOK
  <2>2. TypeOK'
    BY <1>2 DEF Create, GoTo, TypeOK, Locations, InCall
  <2>3. CallInv'
    BY <1>2, <2>1, Markers DEF Create, GoTo, TypeOK, CallInv, InCall
  <2>4. QED
    BY <2>2, <2>3
<1>3. CASE Fill(c)
  <2>1. /\ pc[c] = "filling"
        /\ lease' = [lease EXCEPT ![Head(todo[c])] = c]
        /\ held' = Recorded(c, Head(todo[c]))
        /\ Advance(c)
    BY <1>3 DEF Fill
  <2>2. Head(todo[c]) \in Names /\ lease[Head(todo[c])] = Torn
    BY <2>1, NextPath DEF CallInv
  <2>3. /\ lease' \in [Names -> Clients \cup {NoFile, Torn}]
        /\ lease'[Head(todo[c])] = c
        /\ \A n \in Names \ {Head(todo[c])} : lease'[n] = lease[n]
    BY <2>1, <2>2 DEF TypeOK
  <2>4. held' \in [Clients -> SUBSET Names]
    BY <2>1, <2>2 DEF Recorded, TypeOK
  <2>5. QED
    BY <2>1, <2>2, <2>3, <2>4, AdvanceEffect DEF TypeOK
<1>4. CASE FillFails(c)
  <2>1. GiveUp(c) /\ UNCHANGED <<lease, held>>
    BY <1>4 DEF FillFails
  <2>2. QED
    BY <2>1, GiveUpEffect
<1>5. CASE Exists(c)
  BY <1>5, MoveEffect DEF Exists, Locations, InCall
<1>6. CASE Check(c)
  <2>1. pc[c] = "checking" /\ UNCHANGED <<lease, held>>
    BY <1>6 DEF Check
  <2>2. CASE lease[Head(todo[c])] = c /\ Advance(c)
    BY <2>1, <2>2, AdvanceEffect DEF TypeOK
  <2>3. CASE GoTo(c, "undoing") /\ UNCHANGED <<todo, acquired>>
    BY <2>1, <2>3, MoveEffect DEF Locations, InCall
  <2>4. QED
    BY <1>6, <2>2, <2>3 DEF Check
<1>7. CASE Undo(c)
  <2>1. ASSUME NEW n \in acquired[c], pc[c] = "undoing", ReleasePath(c, n),
               acquired' = [acquired EXCEPT ![c] = @ \ {n}],
               UNCHANGED <<pc, todo>>
        PROVE  TypeOK' /\ CallInv'
    <3>1. n \in Names /\ lease[n] = c
      BY <2>1 DEF TypeOK, CallInv, InCall
    <3>2. acquired' \in [Clients -> SUBSET Names]
      BY <2>1 DEF TypeOK
    <3>3. TypeOK'
      BY <2>1, <3>1, <3>2, ReleaseEffect DEF TypeOK
    <3>4. \A d \in Clients : pc[d] \in InCall => \A m \in acquired'[d] : lease'[m] = d
      BY <2>1, <3>1, ReleaseEffect DEF TypeOK, CallInv
    <3>5. \A d \in Clients : pc[d] = "filling" => lease'[Head(todo[d])] = Torn
      BY <2>1, <3>1, ReleaseEffect, NextPath, Markers DEF CallInv
    <3>6. CallInv'
      BY <2>1, <3>4, <3>5 DEF CallInv, TypeOK
    <3>7. QED
      BY <3>3, <3>6
  <2>2. CASE GiveUp(c) /\ UNCHANGED <<lease, held>>
    BY <2>2, GiveUpEffect
  <2>3. QED
    BY <1>7, <2>1, <2>2 DEF Undo
<1>8. CASE Grant(c)
  BY <1>8, MoveEffect DEF Grant, Locations, InCall
<1>9. CASE Written(c)
  BY <1>9, GiveUpEffect DEF Written
<1>10. CASE Leave(c)
  BY <1>10, MoveEffect DEF Leave, Locations, InCall
<1>11. CASE ReleaseAll(c)
  <2>1. ASSUME NEW n \in held[c], pc[c] = "leaving", ReleasePath(c, n),
               UNCHANGED <<pc, todo, acquired>>
        PROVE  TypeOK' /\ CallInv'
    <3>1. n \in Names
      BY DEF TypeOK
    <3>2. TypeOK'
      BY <2>1, <3>1, ReleaseEffect DEF TypeOK
    <3>3. \A d \in Clients : pc[d] \in InCall => \A m \in acquired[d] : lease'[m] = d
      BY <2>1, <3>1, ReleaseEffect DEF TypeOK, CallInv, InCall
    <3>4. \A d \in Clients : pc[d] = "filling" => lease'[Head(todo[d])] = Torn
      BY <2>1, <3>1, ReleaseEffect, NextPath, Markers DEF CallInv
    <3>5. CallInv'
      BY <2>1, <3>3, <3>4 DEF CallInv, TypeOK
    <3>6. QED
      BY <3>2, <3>5
  <2>2. CASE GoTo(c, "exited") /\ UNCHANGED <<lease, held, todo, acquired>>
    BY <2>2, MoveEffect DEF Locations, InCall
  <2>3. QED
    BY <1>11, <2>1, <2>2 DEF ReleaseAll
<1>12. CASE Kill(c)
  <2>1. GoTo(c, "killed") /\ UNCHANGED <<lease, held, todo, acquired>>
    BY <1>12 DEF Kill
  <2>2. QED
    BY <2>1, MoveEffect DEF Locations, InCall
<1>13. QED
  BY <1>1, <1>2, <1>3, <1>4, <1>5, <1>6, <1>7, <1>8, <1>9, <1>10, <1>11, <1>12 DEF Step

\* What a step does to the files and the account of them.
LEMMA StepEffect ==
  ASSUME LeaseInv, NEW c \in Clients, Step(c)
  PROVE  \/ UNCHANGED <<lease, held>>
         \/ /\ UNCHANGED held
            /\ \E n \in Names : lease[n] = NoFile /\ lease' = [lease EXCEPT ![n] = Torn]
         \/ \E n \in Names : /\ lease[n] = Torn
                             /\ lease' = [lease EXCEPT ![n] = c]
                             /\ held' = [held EXCEPT ![c] = @ \cup {n}]
         \/ pc[c] \in {"undoing", "leaving"} /\ \E n \in Names : ReleasePath(c, n)
<1>1. CASE Create(c)
  BY <1>1 DEF Create, MayCreate, LeaseInv, TypeOK
<1>2. CASE Fill(c)
  <2>1. Head(todo[c]) \in Names /\ lease[Head(todo[c])] = Torn
    BY <1>2, NextPath DEF Fill, LeaseInv, CallInv
  <2>2. QED
    BY <1>2, <2>1 DEF Fill, Recorded
<1>3. CASE Undo(c)
  BY <1>3 DEF Undo, LeaseInv, TypeOK
<1>4. CASE ReleaseAll(c)
  BY <1>4 DEF ReleaseAll, LeaseInv, TypeOK
<1>5. CASE UNCHANGED <<lease, held>>
  BY <1>5
<1>6. QED
  BY <1>1, <1>2, <1>3, <1>4, <1>5
  DEF Step, Call, FillFails, Exists, Check, Grant, Written, Leave, Kill

\* The account only changes when a file is filled or released.
LEMMA StepHeld ==
  ASSUME LeaseInv, NEW c \in Clients, Step(c)
  PROVE  UNCHANGED held \/ Fill(c) \/ \E n \in Names : ReleasePath(c, n)
  BY DEF Step, Call, Create, FillFails, Exists, Check, Undo, Grant, Written, Leave,
         ReleaseAll, Kill, LeaseInv, TypeOK

\* Nobody leaves with a file in its account.
LEMMA ExitEffect ==
  ASSUME LeaseInv, NEW c \in Clients, Step(c), NEW d \in Clients, pc'[d] = "exited"
  PROVE  held[d] = {}
<1>1. CASE pc[d] = "exited"
  BY <1>1 DEF LeaseInv, HeldInv
<1>2. CASE ReleaseAll(c)
  BY <1>2 DEF ReleaseAll, GoTo, LeaseInv, HeldInv, TypeOK
<1>3. CASE pc[d] # "exited" /\ ~ReleaseAll(c)
  BY <1>3
  DEF Step, Call, Create, Fill, FillFails, Exists, Check, Undo, Grant, Written, Leave,
      Kill, Advance, GiveUp, GoTo, LeaseInv, TypeOK
<1>4. QED
  BY <1>1, <1>2, <1>3

\* A file that names a client was filled by it, or is in its account already.
LEMMA StepKeepsAccount ==
  ASSUME LeaseInv, NEW c \in Clients, Step(c)
  PROVE  HeldInv'
<1> USE DEF LeaseInv, TypeOK, HeldInv
<1>1. \A d \in Clients, n \in Names : lease'[n] = d => n \in held'[d]
  <2>1. CASE UNCHANGED <<lease, held>>
    BY <2>1
  <2>2. ASSUME NEW n \in Names, lease' = [lease EXCEPT ![n] = Torn], UNCHANGED held
        PROVE  \A d \in Clients, m \in Names : lease'[m] = d => m \in held'[d]
    BY <2>2, Markers
  <2>3. ASSUME NEW n \in Names, lease' = [lease EXCEPT ![n] = c],
               held' = [held EXCEPT ![c] = @ \cup {n}]
        PROVE  \A d \in Clients, m \in Names : lease'[m] = d => m \in held'[d]
    BY <2>3
  <2>4. ASSUME NEW n \in Names, ReleasePath(c, n)
        PROVE  \A d \in Clients, m \in Names : lease'[m] = d => m \in held'[d]
    BY <2>4, ReleaseEffect, Markers
  <2>5. QED
    BY <2>1, <2>2, <2>3, <2>4, StepEffect
<1>2. ASSUME NEW d \in Clients, pc'[d] = "exited" PROVE held'[d] = {}
  <2>1. held[d] = {}
    BY <1>2, ExitEffect
  <2>2. CASE UNCHANGED held
    BY <2>1, <2>2
  <2>3. ASSUME NEW n \in Names, ReleasePath(c, n) PROVE held'[d] = {}
    <3>1. held'[d] = held[d] \/ held'[d] = held[d] \ {n}
      BY <2>3, ReleaseEffect
    <3>2. QED
      BY <2>1, <3>1
  <2>4. CASE Fill(c)
    <3>1. d # c
      BY <1>2, <2>4 DEF Fill, Advance, GoTo
    <3>2. QED
      BY <2>1, <2>4, <3>1 DEF Fill, Recorded
  <2>5. QED
    BY <2>2, <2>3, <2>4, StepHeld
<1>3. QED
  BY <1>1, <1>2

\* The invariant is inductive.
LEMMA LeaseNext == LeaseInv /\ [Next]_vars => LeaseInv'
<1> SUFFICES ASSUME LeaseInv, [Next]_vars PROVE LeaseInv'
  OBVIOUS
<1>1. ASSUME NEW c \in Clients, Step(c) PROVE LeaseInv'
  BY <1>1, StepKeepsCalls, StepKeepsAccount DEF LeaseInv
<1>2. CASE UNCHANGED vars
  BY <1>2 DEF LeaseInv, TypeOK, CallInv, HeldInv, vars
<1>3. QED
  BY <1>1, <1>2 DEF Next

\* The inductive invariant holds in every behaviour.
THEOREM LeaseInvariant == Spec => []LeaseInv
  BY LeaseInit, LeaseNext, PTL DEF Spec
-----------------------------------------------------------------------------
\* Two workers never write the same file at the same time, if every file has
\* only one name in the tools' calls.
THEOREM WritersAlwaysExclude ==
  ASSUME \A m, n \in Names : FileOf[m] = FileOf[n] => m = n
  PROVE  Spec => []WritersExclude
<1>1. LeaseInv => WritersExclude
  BY DEF LeaseInv, TypeOK, CallInv, WritersExclude, InCall
<1>2. QED
  BY <1>1, LeaseInvariant, PTL

\* A worker that left through main's finally clause left no lease behind,
\* whichever of its calls were refused or failed.
THEOREM ExitAlwaysReleasesAll == Spec => []ExitReleasesAll
<1>1. LeaseInv => ExitReleasesAll
  BY DEF LeaseInv, HeldInv, ExitReleasesAll
<1>2. QED
  BY <1>1, LeaseInvariant, PTL

\* A lease is only given up by its holder, when it leaves or is refused.
THEOREM OnlyHolderEverReleases == Spec => OnlyHolderReleases
<1> DEFINE Given == \A n \in Names, c \in Clients :
                      lease[n] = c /\ lease'[n] # c => pc[c] \in {"undoing", "leaving"}
<1>1. ASSUME LeaseInv, [Next]_vars PROVE Given
  <2>1. ASSUME NEW d \in Clients, Step(d) PROVE Given
    <3>1. lease \in [Names -> Clients \cup {NoFile, Torn}]
      BY <1>1 DEF LeaseInv, TypeOK
    <3>2. ASSUME NEW n \in Names, ReleasePath(d, n), pc[d] \in {"undoing", "leaving"}
          PROVE  Given
      BY <1>1, <3>2, ReleaseEffect DEF LeaseInv
    <3>3. ASSUME NEW n \in Names, lease[n] \in {NoFile, Torn}, NEW x,
                 lease' = [lease EXCEPT ![n] = x]
          PROVE  Given
      BY <3>1, <3>3, Markers
    <3>4. QED
      BY <1>1, <2>1, <3>2, <3>3, StepEffect
  <2>2. CASE UNCHANGED vars
    BY <2>2 DEF vars
  <2>3. QED
    BY <1>1, <2>1, <2>2 DEF Next
<1>2. Given <=> \A n \in Names, c \in Clients :
        lease[n] = c /\ lease'[n] # c => pc[c] \in {"undoing", "leaving"}
  OBVIOUS
<1>3. QED
  BY <1>1, <1>2, LeaseInvariant, PTL DEF Spec, OnlyHolderReleases
-----------------------------------------------------------------------------
\* The directory of lease files implements the table of WriteLeaseServer: filling
\* a file acquires one path, removing it releases one, and nothing else shows.
THEOREM LeaseFilesImplementTable == Spec => ImplementsTable
<1>1. Init => Table!Init
  BY DEF Init, Table!Init, holder, Torn, NoFile
<1>2. ASSUME LeaseInv, [Next]_vars PROVE [Table!Next]_holder
  <2>1. ASSUME NEW c \in Clients, Step(c) PROVE [Table!Next]_holder
    <3>1. lease \in [Names -> Clients \cup {NoFile, Torn}]
      BY <1>2 DEF LeaseInv, TypeOK
    <3>2. ASSUME NEW n \in Names, lease[n] = NoFile, lease' = [lease EXCEPT ![n] = Torn]
          PROVE  UNCHANGED holder
      BY <3>1, <3>2 DEF holder
    <3>3. ASSUME NEW n \in Names, lease[n] = Torn, lease' = [lease EXCEPT ![n] = c]
          PROVE  Table!Acquire(c, {n})
      <4>1. holder[n] = NoFile
        BY <3>3 DEF holder
      <4>2. \A m \in Names : holder'[m] = IF m \in {n} THEN c ELSE holder[m]
        BY <3>1, <3>3, Markers DEF holder
      <4>3. holder' = [m \in Names |-> IF m \in {n} THEN c ELSE holder[m]]
        BY <4>2 DEF holder
      <4>4. QED
        BY <4>1, <4>3 DEF Table!Acquire
    <3>4. ASSUME NEW n \in Names, ReleasePath(c, n)
          PROVE  Table!Release(c, {n})
      <4>1. /\ lease'[n] # c
            /\ \A m \in Names : lease'[m] = lease[m] \/ (lease[m] = c /\ lease'[m] = NoFile)
            /\ \A m \in Names \ {n} : lease'[m] = lease[m]
        BY <1>2, <3>4, ReleaseEffect DEF LeaseInv
      <4>2. \A m \in Names : holder'[m] = IF m \in {n} /\ holder[m] = c
                                            THEN NoFile ELSE holder[m]
        BY <4>1, Markers DEF holder
      <4>3. holder' = [m \in Names |-> IF m \in {n} /\ holder[m] = c
                                         THEN NoFile ELSE holder[m]]
        BY <4>2 DEF holder
      <4>4. QED
        BY <4>3 DEF Table!Release
    <3>5. ASSUME NEW n \in Names, Table!Acquire(c, {n}) \/ Table!Release(c, {n})
          PROVE  Table!Next
      BY <3>5 DEF Table!Next
    <3>6. CASE UNCHANGED <<lease, held>>
      BY <3>6 DEF holder
    <3>7. QED
      BY <1>2, <2>1, <3>2, <3>3, <3>4, <3>5, <3>6, StepEffect
  <2>2. CASE UNCHANGED vars
    BY <2>2 DEF vars, holder
  <2>3. QED
    BY <1>2, <2>1, <2>2 DEF Next
<1>3. QED
  BY <1>1, <1>2, LeaseInvariant, PTL DEF Spec, Table!Spec, ImplementsTable


Marks == {"pending", "answered", "cancelled"}
Steps == {"free", "start", "truncate index", "fill index", "truncate mailbox", "fill mailbox"}

\* The coordinator in use and the files have their shape.
FilesType ==
    /\ status \in [Tasks -> Saved!Statuses]
    /\ mail \in [Tasks -> Seq(Marks)]
    /\ at \in Steps
    /\ late = Saved!NoSave \/ late \in [at : Steps \ {"free"}, status : [Tasks -> Saved!Statuses],
                                  mail : [Tasks -> Seq(Marks)]]
    /\ taskIndex = Saved!Torn \/ taskIndex \in [Tasks -> Saved!Statuses]
    /\ box = Saved!Torn \/ box \in [Tasks -> Seq(Marks)]
    /\ ended \in [Tasks -> Saved!TerminalStatuses \union {"none"}]
    /\ disturbed \in BOOLEAN

Begun(s) == s \notin {"absent", "waiting"}

\* An outcome that the index was given is still there.
OutcomeIsInTheIndex ==
    \A t \in Tasks :
      ended[t] # "none" => status[t] = ended[t] /\ (taskIndex # Saved!Torn => taskIndex[t] = ended[t])

\* What asks, in memory or in the mailbox on disk, has begun.
AskersHaveBegun ==
    \A t \in Tasks :
      /\ Saved!HasPending(mail[t]) => Begun(status[t])
      /\ box # Saved!Torn /\ Saved!HasPending(box[t]) =>
           Begun(status[t]) /\ (taskIndex # Saved!Torn => Begun(taskIndex[t]))

\* What has begun on disk has begun in memory, which is on disk before the mailbox.
IndexIsOlder ==
    /\ taskIndex # Saved!Torn => \A t \in Tasks : Begun(taskIndex[t]) => Begun(status[t])
    /\ at \in {"truncate mailbox", "fill mailbox"} => taskIndex = status

\* A coordinator that starts has just withdrawn the questions of what has ended.
StartAsksForTheLiving ==
    at = "start" =>
      \A t \in Tasks : Saved!HasPending(mail[t]) => status[t] = "needs_user_decision"

Undisturbed ==
    /\ late = Saved!NoSave
    /\ OutcomeIsInTheIndex /\ AskersHaveBegun /\ IndexIsOlder /\ StartAsksForTheLiving

FilesInv == FilesType /\ (~disturbed => Undisturbed)
---------------------------------------------------------------------------
\* Withdrawn messages do not ask, and are messages.
LEMMA CancelledAsksNothing ==
  ASSUME NEW m \in Seq(Marks)
  PROVE  Saved!Cancelled(m) \in Seq(Marks) /\ ~Saved!HasPending(Saved!Cancelled(m))
BY DEF Saved!Cancelled, Saved!HasPending, Saved!IsPending, Marks

LEMMA FilesInit == Saved!Init => FilesInv
<1>1. ~Saved!HasPending(<<>>)
  BY DEF Saved!HasPending
<1>2. ASSUME Saved!Init
      PROVE  FilesType
  <2>1. Saved!Nothing \in [Tasks -> Saved!Statuses]
    BY DEF Saved!Nothing, Saved!Statuses
  <2>2. Saved!NoMail \in [Tasks -> Seq(Marks)]
    BY DEF Saved!NoMail
  <2>3. [t \in Tasks |-> "none"] \in [Tasks -> Saved!TerminalStatuses \union {"none"}]
    OBVIOUS
  <2> QED BY <1>2, <2>1, <2>2, <2>3 DEF Saved!Init, FilesType, Steps
<1>3. Saved!Init => Undisturbed
  BY <1>1 DEF Saved!Init, Undisturbed, OutcomeIsInTheIndex, AskersHaveBegun, IndexIsOlder,
              StartAsksForTheLiving, Saved!Nothing, Saved!NoMail
<1> QED BY <1>2, <1>3 DEF FilesInv

\* A handler that moves a task that has not ended, or only answers for one, and never
\* back to where it had not begun.  Its save has not begun.
LEMMA HandlerKeeps ==
  ASSUME FilesInv, NEW t \in Tasks, NEW s \in Saved!Statuses, NEW m \in Seq(Marks),
         Saved!Becomes(t, s, m),
         ended' \in [Tasks -> Saved!TerminalStatuses \union {"none"}],
         \A u \in Tasks : u # t => ended'[u] = ended[u],
         ~disturbed =>
           /\ ended'[t] # "none" => ended'[t] = ended[t] /\ s = status[t]
           /\ Begun(status[t]) \/ Saved!HasPending(m) => Begun(s)
  PROVE  FilesInv'
<1>1. FilesType'
  BY DEF FilesInv, FilesType, Saved!Becomes, Saved!memory, Saved!files, Steps
<1>2. ASSUME ~disturbed'
      PROVE  Undisturbed'
  <2>1. ~disturbed /\ Undisturbed /\ FilesType
    BY <1>2 DEF FilesInv, Saved!Becomes
  <2>2. \A u \in Tasks : /\ status'[u] = IF u = t THEN s ELSE status[u]
                         /\ mail'[u] = IF u = t THEN m ELSE mail[u]
    BY <2>1 DEF FilesType, Saved!Becomes
  <2>3. at' = "truncate index" /\ UNCHANGED <<late, taskIndex, box>>
    BY DEF Saved!Becomes, Saved!files
  <2>4. OutcomeIsInTheIndex'
    BY <2>1, <2>2, <2>3 DEF Undisturbed, OutcomeIsInTheIndex
  <2>5. AskersHaveBegun'
    BY <2>1, <2>2, <2>3 DEF Undisturbed, AskersHaveBegun
  <2>6. IndexIsOlder'
    BY <2>1, <2>2, <2>3 DEF Undisturbed, IndexIsOlder
  <2>7. StartAsksForTheLiving'
    BY <2>3 DEF StartAsksForTheLiving
  <2> QED BY <2>1, <2>3, <2>4, <2>5, <2>6, <2>7 DEF Undisturbed
<1> QED BY <1>1, <1>2 DEF FilesInv

\* One step per handler: what it does to its task is what HandlerKeeps asks for.
LEMMA HandlersKeep ==
  ASSUME FilesInv, NEW t \in Tasks,
         Saved!Schedule(t) \/ Saved!Proceed(t) \/ Saved!Ask(t) \/ Saved!Reply(t) \/ Saved!End(t) \/ Saved!Cancel(t)
  PROVE  FilesInv'
<1> USE OutcomesAreTerminal DEF Saved!Statuses, Saved!Underway, Saved!Stale,
     Saved!TerminalStatuses, Begun
<1>1. /\ status[t] \in Saved!Statuses /\ mail[t] \in Seq(Marks)
      /\ ended \in [Tasks -> Saved!TerminalStatuses \union {"none"}]
  BY DEF FilesInv, FilesType
<1>2. ASSUME ~disturbed
      PROVE  /\ ended[t] # "none" => status[t] = ended[t] /\ status[t] \in Saved!TerminalStatuses
             /\ Saved!HasPending(mail[t]) => Begun(status[t])
  BY <1>2, <1>1 DEF FilesInv, FilesType, Undisturbed, OutcomeIsInTheIndex, AskersHaveBegun
<1>3. CASE Saved!Schedule(t)
  <2>1. PICK s \in {"running", "waiting"} : Saved!Becomes(t, s, mail[t])
    BY <1>3 DEF Saved!Schedule
  <2>2. status[t] = "absent" /\ ended' = ended
    BY <1>3 DEF Saved!Schedule
  <2>3. s \in Saved!Statuses
    OBVIOUS
  <2>4. ~disturbed => ended[t] = "none" /\ ~Saved!HasPending(mail[t])
    BY <1>2, <2>2
  <2> QED BY <1>1, <2>1, <2>2, <2>3, <2>4, HandlerKeeps
<1>4. CASE Saved!Proceed(t)
  <2>1. PICK s \in Saved!Underway \ {"needs_user"} : Saved!Becomes(t, s, mail[t])
    BY <1>4 DEF Saved!Proceed
  <2>2. status[t] \in Saved!Underway \union {"waiting"} /\ ended' = ended
    BY <1>4 DEF Saved!Proceed
  <2>3. s \in Saved!Statuses /\ Begun(s)
    OBVIOUS
  <2>4. ~disturbed => ended[t] = "none"
    BY <1>2, <2>2
  <2> QED BY <1>1, <2>1, <2>2, <2>3, <2>4, HandlerKeeps
<1>5. CASE Saved!Ask(t)
  <2>1. /\ Saved!Becomes(t, "needs_user", Append(mail[t], "pending"))
        /\ ended' = [ended EXCEPT ![t] = "none"]
    BY <1>5 DEF Saved!Ask
  <2>2. Append(mail[t], "pending") \in Seq(Marks)
    BY <1>1 DEF Marks
  <2>3. "needs_user" \in Saved!Statuses /\ Begun("needs_user")
    OBVIOUS
  <2>4. ended' \in [Tasks -> Saved!TerminalStatuses \union {"none"}] /\ ended'[t] = "none"
        /\ \A u \in Tasks : u # t => ended'[u] = ended[u]
    BY <1>1, <2>1
  <2> QED BY <1>1, <2>1, <2>2, <2>3, <2>4, HandlerKeeps
<1>6. CASE Saved!Reply(t)
  <2>1. PICK i \in DOMAIN mail[t] :
          LET messages == [mail[t] EXCEPT ![i] = "answered"] IN
          /\ Saved!IsPending(mail[t][i])
          /\ Saved!Becomes(t, IF status[t] = "needs_user" /\ ~Saved!HasPending(messages)
                        THEN "running" ELSE status[t], messages)
          /\ UNCHANGED ended
    BY <1>6 DEF Saved!Reply
  <2> DEFINE messages == [mail[t] EXCEPT ![i] = "answered"]
             s == IF status[t] = "needs_user" /\ ~Saved!HasPending(messages)
                  THEN "running" ELSE status[t]
  <2>2. messages \in Seq(Marks) /\ Saved!HasPending(mail[t])
    BY <1>1, <2>1 DEF Marks, Saved!HasPending
  <2>3. Saved!Becomes(t, s, messages) /\ ended' = ended
    BY <2>1
  <2>4. s \in Saved!Statuses /\ (Begun(status[t]) => Begun(s))
    BY <1>1
  <2>5. ~disturbed => Begun(status[t]) /\ (ended[t] # "none" => s = status[t])
    BY <1>2, <2>2
  <2> HIDE DEF messages, s
  <2> QED BY <1>1, <2>2, <2>3, <2>4, <2>5, HandlerKeeps
<1>7. CASE Saved!End(t)
  <2>1. PICK s \in Outcomes : Saved!Becomes(t, s, mail[t])
    BY <1>7 DEF Saved!End
  <2>2. status[t] \in Saved!Underway /\ ended' = ended
    BY <1>7 DEF Saved!End
  <2>3. s \in Saved!Statuses /\ Begun(s)
    OBVIOUS
  <2>4. ~disturbed => ended[t] = "none"
    BY <1>2, <2>2
  <2> QED BY <1>1, <2>1, <2>2, <2>3, <2>4, HandlerKeeps
<1>8. CASE Saved!Cancel(t)
  <2>1. Saved!Becomes(t, "cancelled", Saved!Cancelled(mail[t]))
    BY <1>8 DEF Saved!Cancel
  <2>2. status[t] \in Saved!Underway \union {"waiting"} /\ ended' = ended
    BY <1>8 DEF Saved!Cancel
  <2>3. "cancelled" \in Saved!Statuses /\ Begun("cancelled")
    OBVIOUS
  <2>4. ~disturbed => ended[t] = "none"
    BY <1>2, <2>2
  <2> QED BY <1>1, <2>1, <2>2, <2>3, <2>4, HandlerKeeps, CancelledAsksNothing
<1> QED BY <1>3, <1>4, <1>5, <1>6, <1>7, <1>8
---------------------------------------------------------------------------
\* The four steps of a save.
LEMMA SaveKeeps ==
  ASSUME FilesInv, Saved!TruncateIndex \/ Saved!FillIndex \/ Saved!TruncateMailbox \/ Saved!FillMailbox
  PROVE  FilesInv'
<1> USE DEF FilesInv, Saved!memory, Saved!files
<1>1. FilesType
  OBVIOUS
<1>2. CASE Saved!TruncateIndex
  <2>1. FilesType'
    BY <1>1, <1>2 DEF FilesType, Saved!TruncateIndex, Steps
  <2>2. Undisturbed => Undisturbed'
    BY <1>2 DEF Saved!TruncateIndex, Undisturbed, OutcomeIsInTheIndex, AskersHaveBegun,
                IndexIsOlder, StartAsksForTheLiving
  <2> QED BY <1>2, <2>1, <2>2 DEF Saved!TruncateIndex
<1>3. CASE Saved!FillIndex
  <2>1. ended' \in [Tasks -> Saved!TerminalStatuses \union {"none"}]
    BY <1>3 DEF Saved!FillIndex
  <2>2. FilesType'
    BY <1>1, <1>3, <2>1 DEF FilesType, Saved!FillIndex, Steps
  <2>3. \A t \in Tasks : ended'[t] # "none" => ended'[t] = status[t]
    BY <1>3 DEF Saved!FillIndex
  <2>4. Undisturbed => Undisturbed'
    BY <1>3, <2>3 DEF Saved!FillIndex, Undisturbed, OutcomeIsInTheIndex, AskersHaveBegun,
                      IndexIsOlder, StartAsksForTheLiving
  <2> QED BY <1>3, <2>2, <2>4 DEF Saved!FillIndex
<1>4. CASE Saved!TruncateMailbox
  <2>1. FilesType'
    BY <1>1, <1>4 DEF FilesType, Saved!TruncateMailbox, Steps
  <2>2. Undisturbed => Undisturbed'
    BY <1>4 DEF Saved!TruncateMailbox, Undisturbed, OutcomeIsInTheIndex, AskersHaveBegun,
                IndexIsOlder, StartAsksForTheLiving
  <2> QED BY <1>4, <2>1, <2>2 DEF Saved!TruncateMailbox
<1>5. CASE Saved!FillMailbox
  <2>1. FilesType'
    BY <1>1, <1>5 DEF FilesType, Saved!FillMailbox, Steps
  <2>2. Undisturbed => Undisturbed'
    BY <1>5 DEF Saved!FillMailbox, Undisturbed, OutcomeIsInTheIndex, AskersHaveBegun,
                IndexIsOlder, StartAsksForTheLiving
  <2> QED BY <1>5, <2>1, <2>2 DEF Saved!FillMailbox
<1> QED BY <1>2, <1>3, <1>4, <1>5

\* A late save: there is one only where nothing is claimed.
LEMMA LateSaveKeeps ==
  ASSUME FilesInv, Saved!LateSave
  PROVE  FilesInv'
<1>1. late # Saved!NoSave
  <2>1. late.at # "free"
    BY DEF Saved!LateSave
  <2>2. Saved!NoSave.at = "free"
    BY DEF Saved!NoSave
  <2> QED BY <2>1, <2>2
<1>2. disturbed /\ disturbed'
  BY <1>1 DEF FilesInv, FilesType, Undisturbed, Saved!LateSave
<1>3. late \in [at : Steps \ {"free"}, status : [Tasks -> Saved!Statuses], mail : [Tasks -> Seq(Marks)]]
  BY <1>1 DEF FilesInv, FilesType
<1>4. FilesType'
  BY <1>3 DEF FilesInv, FilesType, Saved!LateSave, Saved!memory, Steps
<1> QED BY <1>2, <1>4 DEF FilesInv

\* A coordinator that starts on an index that is not truncated.
LEMMA LoadKeeps ==
  ASSUME FilesInv, Saved!Load, UNCHANGED ended, ~disturbed, late' = Saved!NoSave, taskIndex # Saved!Torn
  PROVE  Undisturbed'
<1> DEFINE registry == Saved!Registry
<1>1. registry = taskIndex /\ registry \in [Tasks -> Saved!Statuses] /\ Undisturbed
  BY DEF FilesInv, FilesType, Saved!Registry
<1>2. Saved!Mailbox \in [Tasks -> Seq(Marks)]
  BY DEF FilesInv, FilesType, Saved!Mailbox, Saved!NoMail
<1>3. \A t \in Tasks : Saved!HasPending(Saved!Mailbox[t]) => Begun(taskIndex[t])
  <2>1. ~Saved!HasPending(<<>>)
    BY DEF Saved!HasPending
  <2> QED BY <1>1, <2>1 DEF Saved!Mailbox, Saved!NoMail, Undisturbed, AskersHaveBegun
<1>4. /\ status' = Saved!Recovered(registry) /\ mail' = Saved!CancelForTerminal(registry, Saved!Mailbox)
      /\ at' = "start" /\ taskIndex' = taskIndex /\ box' = box
  BY DEF Saved!Load, Saved!files
<1>5. \A t \in Tasks : status'[t] = IF taskIndex[t] \in Saved!Stale THEN "failed" ELSE taskIndex[t]
  BY <1>1, <1>4 DEF Saved!Recovered
<1>6. \A t \in Tasks : Saved!HasPending(mail'[t]) =>
        status'[t] \notin Saved!TerminalStatuses /\ Saved!HasPending(Saved!Mailbox[t])
  BY <1>2, <1>4, CancelledAsksNothing DEF Saved!CancelForTerminal
<1>7. \A t \in Tasks : (Begun(taskIndex[t]) => Begun(status'[t]))
                       /\ (taskIndex[t] \in Saved!TerminalStatuses => status'[t] = taskIndex[t])
  BY <1>5 DEF Begun, Saved!Stale, Saved!TerminalStatuses
<1>8. OutcomeIsInTheIndex'
  <2>1. \A t \in Tasks : ended[t] \in Saved!TerminalStatuses \union {"none"}
    BY DEF FilesInv, FilesType
  <2> QED BY <1>1, <1>4, <1>7, <2>1 DEF Undisturbed, OutcomeIsInTheIndex
<1>9. AskersHaveBegun'
  BY <1>1, <1>3, <1>4, <1>6, <1>7 DEF Undisturbed, AskersHaveBegun
<1>10. IndexIsOlder'
  BY <1>4, <1>7 DEF IndexIsOlder
<1>11. StartAsksForTheLiving'
  <2>1. ASSUME NEW t \in Tasks, Saved!HasPending(mail'[t])
        PROVE  status'[t] = "needs_user_decision"
    <3>1. Begun(taskIndex[t]) /\ status'[t] \notin Saved!TerminalStatuses
      BY <1>3, <1>6, <2>1
    <3>2. taskIndex[t] \in Saved!Statuses
      BY <1>1
    <3> QED BY <1>5, <3>1, <3>2 DEF Begun, Saved!Statuses, Saved!Underway, Saved!Stale,
         Saved!TerminalStatuses
  <2> QED BY <2>1 DEF StartAsksForTheLiving
<1> QED BY <1>8, <1>9, <1>10, <1>11 DEF Undisturbed

LEMMA StartsKeep ==
  ASSUME FilesInv, Saved!Restart \/ Saved!Replace
  PROVE  FilesInv'
<1>1. Saved!Load /\ UNCHANGED ended
  BY DEF Saved!Restart, Saved!Replace
<1>2. /\ Saved!Registry \in [Tasks -> Saved!Statuses] /\ Saved!Mailbox \in [Tasks -> Seq(Marks)]
  BY DEF FilesInv, FilesType, Saved!Registry, Saved!Mailbox, Saved!Nothing, Saved!NoMail,
       Saved!Statuses
<1>3. Saved!Recovered(Saved!Registry) \in [Tasks -> Saved!Statuses]
  BY <1>2 DEF Saved!Recovered, Saved!Statuses, Saved!TerminalStatuses
<1>4. Saved!CancelForTerminal(Saved!Registry, Saved!Mailbox) \in [Tasks -> Seq(Marks)]
  BY <1>2, CancelledAsksNothing DEF Saved!CancelForTerminal
<1>5. late' = Saved!NoSave \/ late' \in [at : Steps \ {"free"}, status : [Tasks -> Saved!Statuses],
                                   mail : [Tasks -> Seq(Marks)]]
  BY DEF FilesInv, FilesType, Saved!Restart, Saved!Replace
<1>6. disturbed' \in BOOLEAN
  BY DEF FilesInv, FilesType, Saved!Restart, Saved!Replace
<1>7. FilesType'
  BY <1>1, <1>3, <1>4, <1>5, <1>6 DEF FilesInv, FilesType, Saved!Load, Saved!files, Steps
<1>8. ASSUME ~disturbed'
      PROVE  Undisturbed'
  <2>1. CASE Saved!Restart
    <3>1. ~disturbed /\ late' = Saved!NoSave /\ taskIndex # Saved!Torn
      BY <1>8, <2>1 DEF Saved!Restart
    <3> QED BY <1>1, <3>1, LoadKeeps
  <2>2. CASE Saved!Replace
    <3>1. ~disturbed /\ late' = Saved!NoSave /\ taskIndex # Saved!Torn
      BY <1>8, <2>2 DEF Saved!Replace
    <3> QED BY <1>1, <3>1, LoadKeeps
  <2> QED BY <2>1, <2>2
<1> QED BY <1>7, <1>8 DEF FilesInv

LEMMA StartKeeps ==
  ASSUME FilesInv, Saved!Start
  PROVE  FilesInv'
<1>1. FilesType'
  BY DEF FilesInv, FilesType, Saved!Start, Saved!files, Steps, Saved!Statuses, Saved!Underway,
       Saved!Stale
<1>2. \A t \in Tasks : status[t] # "waiting" => status'[t] = status[t]
  BY DEF FilesInv, FilesType, Saved!Start
<1>3. \A t \in Tasks : Begun(status[t]) => Begun(status'[t])
  BY <1>2 DEF Begun
<1>4. ASSUME ~disturbed'
      PROVE  Undisturbed'
  <2>1. Undisturbed /\ at' = "truncate index" /\ UNCHANGED <<mail, late, taskIndex, box, ended>>
    BY <1>4 DEF FilesInv, Saved!Start, Saved!files
  <2>2. OutcomeIsInTheIndex'
    <3>1. \A t \in Tasks : ended[t] # "waiting"
      BY DEF FilesInv, FilesType, Saved!TerminalStatuses
    <3> QED BY <1>2, <2>1, <3>1 DEF Undisturbed, OutcomeIsInTheIndex
  <2>3. AskersHaveBegun' /\ IndexIsOlder' /\ StartAsksForTheLiving'
    BY <1>3, <2>1 DEF Undisturbed, AskersHaveBegun, IndexIsOlder, StartAsksForTheLiving
  <2> QED BY <2>1, <2>2, <2>3 DEF Undisturbed
<1> QED BY <1>1, <1>4 DEF FilesInv
---------------------------------------------------------------------------
\* The invariant of the files is inductive.
LEMMA FilesStep == FilesInv /\ Saved!Next => FilesInv'
<1> SUFFICES ASSUME FilesInv, Saved!Next
             PROVE  FilesInv'
  OBVIOUS
<1>1. ASSUME NEW t \in Tasks,
             Saved!Schedule(t) \/ Saved!Proceed(t) \/ Saved!Ask(t) \/ Saved!Reply(t)
               \/ Saved!End(t) \/ Saved!Cancel(t)
      PROVE  FilesInv'
  BY <1>1, HandlersKeep
<1>2. CASE Saved!TruncateIndex \/ Saved!FillIndex \/ Saved!TruncateMailbox \/ Saved!FillMailbox
  BY <1>2, SaveKeeps
<1>3. CASE Saved!LateSave
  BY <1>3, LateSaveKeeps
<1>4. CASE Saved!Restart \/ Saved!Replace
  BY <1>4, StartsKeep
<1>5. CASE Saved!Start
  BY <1>5, StartKeeps
<1> QED BY <1>1, <1>2, <1>3, <1>4, <1>5 DEF Saved!Next

\* Files and memory agree as FilesInv says in every reachable state.
THEOREM FilesInvariant == MCSpec => []FilesInv
<1>1. MCInit => FilesInv
  BY FilesInit DEF MCInit
<1>2. FilesInv /\ UNCHANGED taskVars => FilesInv'
  <2> SUFFICES ASSUME FilesInv, UNCHANGED taskVars PROVE FilesInv'
    OBVIOUS
  <2> USE DEF taskVars
  <2>1. FilesType'
    BY DEF FilesInv, FilesType
  <2>2. UNCHANGED <<disturbed, late>> /\ (Undisturbed => OutcomeIsInTheIndex')
    BY DEF Undisturbed, OutcomeIsInTheIndex
  <2>3. Undisturbed => AskersHaveBegun'
    BY DEF Undisturbed, AskersHaveBegun
  <2>4. Undisturbed => IndexIsOlder' /\ StartAsksForTheLiving'
    BY DEF Undisturbed, IndexIsOlder, StartAsksForTheLiving
  <2> QED BY <2>1, <2>2, <2>3, <2>4 DEF FilesInv, Undisturbed
<1>3. FilesInv /\ [MCNext]_<<store, vars, sessionVars, dreamVars, taskVars, skillVars>>
        => FilesInv'
  BY <1>2, FilesStep DEF MCNext
<1> QED BY <1>1, <1>3, PTL DEF MCSpec

\* What the index was given as ended stays ended over every crash and restart, and no
\* coordinator starts with a question of a task that has ended, was never started or
\* does not exist - but for the two disturbances RestartKeepsTheOutcome names.
THEOREM OutcomeIsAlwaysKept == MCSpec => []RestartKeepsTheOutcome
<1>1. FilesInv => RestartKeepsTheOutcome
  BY DEF FilesInv, Undisturbed, OutcomeIsInTheIndex, StartAsksForTheLiving,
         RestartKeepsTheOutcome, Saved!RestartKeepsTheOutcome, Saved!OutcomesAreKept,
         Saved!QuestionsHaveATask
<1> QED BY <1>1, FilesInvariant, PTL

---------------------------------------------------------------------------
(* Skills *)

\* The values of the variables: what a directory and a call hold, and where a call is.
Directories == [skill : Skills, written : SUBSET [file : Skill!SkillFiles, call : Nat]]
Contents(S) == [S -> Skill!Contents]
Jobs == [number : Nat, paths : Seq(Skills), missing : Seq(Skills),
         content : UNION {Contents(S) : S \in SUBSET Skills},
         pos : Nat, left : SUBSET Skill!SkillFiles, broken : BOOLEAN]
Places == {"idle", "look", "check", "fetch", "plan", "make", "copy", "refresh", "dead"}

\* What the variables hold.
\* The variables hold what the code's can.
SkillTyped ==
    /\ dirs \in [DOMAIN dirs -> Directories]
    /\ DOMAIN library = Installers
    /\ installing \in [Installers -> Places] /\ job \in [Installers -> Jobs]
    /\ answer \in [Installers -> {"none", "installed", "denied", "error"}] /\ calls \in Nat

\* The directory of the k-th skill of a call, and the files it is to have.
Dir(i, k) == NameOf[job[i].missing[k]]
Checked(i, k) == job[i].content[job[i].missing[k]].files
OfCall(i, files) == {[file |-> f, call |-> job[i].number] : f \in files}

\* Where a call is.
\* Whether a call copies now, and whether all its skills are in place.
Copying(i) == installing[i] = "copy"
Installed(i) == installing[i] = "refresh" \/ answer[i] = "installed"
\* The k-th skill of a call is in its directory.
IsDone(i, k) ==
    \/ Installed(i)
    \/ installing[i] \in {"make", "copy"} /\ k < job[i].pos

\* Where a call is in its paths.
PositionOf(i) ==
    /\ installing[i] = "look" => job[i].pos \in DOMAIN job[i].paths
    /\ installing[i] \in {"check", "make", "copy"} => job[i].pos \in DOMAIN job[i].missing
    /\ installing[i] = "plan" => job[i].pos = 1
    /\ installing[i] \in {"fetch", "plan"} => job[i].missing # <<>>
    /\ answer[i] = "installed" => installing[i] = "idle"

\* What a call copies was checked.
CheckedOf(i) ==
    installing[i] \in {"make", "copy"} \/ Installed(i) =>
      \A k \in DOMAIN job[i].missing :
        /\ Checked(i, k) \subseteq Skill!SkillFiles /\ Skill!SKILL \in Checked(i, k)
        /\ Cardinality(Checked(i, k)) <= MaxFiles

\* A directory belongs to the call that made it: nobody else copies into it.
CopyOf(i) ==
    Copying(i) =>
      /\ Dir(i, job[i].pos) \in DOMAIN dirs
      /\ dirs[Dir(i, job[i].pos)].skill = Skill!Path(i)
      /\ job[i].left \subseteq Checked(i, job[i].pos)
      /\ ~job[i].broken => dirs[Dir(i, job[i].pos)].written =
                             OfCall(i, Checked(i, job[i].pos) \ job[i].left)
      /\ \A j \in Installers \ {i} : Copying(j) => Dir(j, job[j].pos) # Dir(i, job[i].pos)

\* A skill that is in its directory is whole, and nobody copies into it any more.
DoneOf(i) ==
    \A k \in DOMAIN job[i].missing : IsDone(i, k) =>
      /\ Dir(i, k) \in DOMAIN dirs
      /\ dirs[Dir(i, k)].skill = job[i].missing[k]
      /\ dirs[Dir(i, k)].written = OfCall(i, Checked(i, k))
      /\ \A j \in Installers : Copying(j) => Dir(j, job[j].pos) # Dir(i, k)

\* The skill in directory n can be loaded by this name, or another one has taken it.
LoadsAs(skills, n) ==
    \/ Skill!Loads(skills, n) = {n}
    \/ \E m \in Skill!Found \ {n} : Skill!TitleIn(m) \in {n, Skill!TitleIn(n)}

\* What a call has reported is in the library of its process.
LoadOf(i) ==
    answer[i] = "installed" =>
      \A k \in DOMAIN job[i].missing : LoadsAs(library[i], Dir(i, k))

\* All that holds of a call, and of every call: the inductive invariant.
CallOf(i) == PositionOf(i) /\ CheckedOf(i) /\ CopyOf(i) /\ DoneOf(i) /\ LoadOf(i)
SkillInv == SkillTyped /\ \A i \in Installers : CallOf(i)

\* What a step of process i leaves alone: the others' calls, and every directory but the
\* one it copies into, which keeps its skill and loses no file.
Others(i) ==
    \A j \in Installers \ {i} :
      /\ installing'[j] = installing[j] /\ job'[j] = job[j]
      /\ answer'[j] = answer[j] /\ library'[j] = library[j]
OwnDirectory(i) ==
    \A n \in DOMAIN dirs :
      /\ n \in DOMAIN dirs' /\ dirs'[n].skill = dirs[n].skill
      /\ Skill!FilesIn(n) \subseteq Skill!FilesIn(n)'
      /\ dirs'[n] = dirs[n] \/ (Copying(i) /\ n = Dir(i, job[i].pos))
Enters(i) ==
    Copying(i)' => \/ Copying(i) /\ Dir(i, job[i].pos)' = Dir(i, job[i].pos)
                   \/ Dir(i, job[i].pos)' \notin DOMAIN dirs
Moves(i) == Others(i) /\ OwnDirectory(i) /\ Enters(i)

\* What was found stays found, with its title.
LEMMA FoundStays ==
  ASSUME SkillTyped, NEW i \in Installers, OwnDirectory(i)
  PROVE  \A n \in Skill!Found : n \in Skill!Found' /\ Skill!TitleIn(n)' = Skill!TitleIn(n)
  BY DEF OwnDirectory, Skill!Found, Skill!TitleIn

\* What a library loaded it still loads, unless a later find has the name.
LEMMA LoadsStays ==
  ASSUME SkillTyped, NEW i \in Installers, OwnDirectory(i), NEW skills, NEW n \in DOMAIN dirs,
         LoadsAs(skills, n)
  PROVE  \/ Skill!Loads(skills, n) = {n}
         \/ \E m \in Skill!Found' \ {n} : Skill!TitleIn(m)' \in {n, Skill!TitleIn(n)'}
<1>1. Skill!TitleIn(n)' = Skill!TitleIn(n)
  BY DEF OwnDirectory, Skill!TitleIn
<1> QED BY <1>1, FoundStays DEF LoadsAs

\* A step of one process disturbs no other's call.
LEMMA OthersKeep ==
  ASSUME SkillInv, NEW i \in Installers, Moves(i), NEW j \in Installers \ {i}
  PROVE  CallOf(j)'
<1>1. /\ job'[j] = job[j] /\ installing'[j] = installing[j]
      /\ answer'[j] = answer[j] /\ library'[j] = library[j]
  BY DEF Moves, Others
<1>2. \A k : /\ Dir(j, k)' = Dir(j, k) /\ Checked(j, k)' = Checked(j, k)
             /\ IsDone(j, k)' = IsDone(j, k)
  BY <1>1 DEF Dir, Checked, IsDone, Installed
<1>3. /\ Copying(j)' = Copying(j) /\ Skill!Path(j)' = Skill!Path(j)
      /\ Dir(j, job[j].pos)' = Dir(j, job[j].pos)
      /\ Checked(j, job[j].pos)' = Checked(j, job[j].pos)
      /\ \A S : OfCall(j, S)' = OfCall(j, S)
      /\ OfCall(j, Checked(j, job[j].pos) \ job[j].left)' = OfCall(j, Checked(j, job[j].pos) \ job[j].left)
      /\ \A k : OfCall(j, Checked(j, k))' = OfCall(j, Checked(j, k))
  BY <1>1 DEF Copying, Skill!Path, Dir, Checked, OfCall
<1>4. \A h \in Installers \ {i} :
        /\ Copying(h)' = Copying(h)
        /\ Dir(h, job[h].pos)' = Dir(h, job[h].pos)
  BY DEF Moves, Others, Copying, Dir
<1>5. ASSUME NEW n \in DOMAIN dirs, Copying(i) => Dir(i, job[i].pos) # n
      PROVE  /\ n \in DOMAIN dirs' /\ dirs'[n] = dirs[n]
             /\ Copying(i)' => Dir(i, job[i].pos)' # n
  BY <1>5 DEF Moves, OwnDirectory, Enters
<1>6. ASSUME Copying(j)
      PROVE  LET n == Dir(j, job[j].pos) IN
             /\ n \in DOMAIN dirs /\ (Copying(i) => Dir(i, job[i].pos) # n)
             /\ \A h \in Installers \ {j} : Copying(h) => Dir(h, job[h].pos) # n
  BY <1>6 DEF SkillInv, CallOf, CopyOf
<1>7. ASSUME NEW k \in DOMAIN job[j].missing, IsDone(j, k)
      PROVE  /\ Dir(j, k) \in DOMAIN dirs /\ dirs[Dir(j, k)].skill = job[j].missing[k]
             /\ dirs[Dir(j, k)].written = OfCall(j, Checked(j, k))
             /\ \A h \in Installers : Copying(h) => Dir(h, job[h].pos) # Dir(j, k)
  BY <1>7 DEF SkillInv, CallOf, DoneOf
<1>8. ASSUME Copying(j)'
      PROVE  /\ Dir(j, job[j].pos)' \in DOMAIN dirs'
             /\ dirs'[Dir(j, job[j].pos)'].skill = Skill!Path(j)'
             /\ job'[j].left \subseteq Checked(j, job[j].pos)'
             /\ ~job'[j].broken => dirs'[Dir(j, job[j].pos)'].written =
                                     OfCall(j, Checked(j, job[j].pos) \ job[j].left)'
             /\ \A h \in Installers \ {j} : Copying(h)' => Dir(h, job[h].pos)' # Dir(j, job[j].pos)'
  <2> DEFINE n == Dir(j, job[j].pos)
  <2>1. Copying(j) /\ n' = n
    BY <1>3, <1>8
  <2>2. /\ n \in DOMAIN dirs /\ (Copying(i) => Dir(i, job[i].pos) # n)
        /\ \A h \in Installers \ {j} : Copying(h) => Dir(h, job[h].pos) # n
    BY <1>6, <2>1
  <2>3. /\ n \in DOMAIN dirs' /\ dirs'[n] = dirs[n] /\ (Copying(i)' => Dir(i, job[i].pos)' # n)
    BY <1>5, <2>2
  <2>4. /\ dirs[n].skill = Skill!Path(j) /\ job[j].left \subseteq Checked(j, job[j].pos)
        /\ ~job[j].broken => dirs[n].written = OfCall(j, Checked(j, job[j].pos) \ job[j].left)
    BY <2>1 DEF SkillInv, CallOf, CopyOf
  <2>5. \A h \in Installers \ {j} : Copying(h)' => Dir(h, job[h].pos)' # n
    BY <1>4, <2>2, <2>3
  <2> HIDE DEF n
  <2> QED BY <1>1, <1>3, <2>1, <2>3, <2>4, <2>5 DEF n
<1>9. ASSUME NEW k \in DOMAIN job'[j].missing, IsDone(j, k)'
      PROVE  /\ Dir(j, k)' \in DOMAIN dirs'
             /\ dirs'[Dir(j, k)'].skill = job'[j].missing[k]
             /\ dirs'[Dir(j, k)'].written = OfCall(j, Checked(j, k))'
             /\ \A h \in Installers : Copying(h)' => Dir(h, job[h].pos)' # Dir(j, k)'
  <2> DEFINE n == Dir(j, k)
  <2>1. IsDone(j, k) /\ n' = n /\ k \in DOMAIN job[j].missing
    BY <1>1, <1>2, <1>9
  <2>2. /\ n \in DOMAIN dirs /\ dirs[n].skill = job[j].missing[k]
        /\ dirs[n].written = OfCall(j, Checked(j, k))
        /\ \A h \in Installers : Copying(h) => Dir(h, job[h].pos) # n
    BY <1>7, <2>1
  <2>3. /\ n \in DOMAIN dirs' /\ dirs'[n] = dirs[n] /\ (Copying(i)' => Dir(i, job[i].pos)' # n)
    BY <1>5, <2>2
  <2>4. \A h \in Installers : Copying(h)' => Dir(h, job[h].pos)' # n
    BY <1>4, <2>2, <2>3
  <2> HIDE DEF n
  <2> QED BY <1>1, <1>3, <2>1, <2>2, <2>3, <2>4 DEF n
<1>10. ASSUME answer'[j] = "installed", NEW k \in DOMAIN job'[j].missing
       PROVE  LoadsAs(library[j], Dir(j, k))'
  <2>1. answer[j] = "installed" /\ k \in DOMAIN job[j].missing
    BY <1>1, <1>10
  <2>2. PICK n : n = Dir(j, k)
    OBVIOUS
  <2>3. n \in DOMAIN dirs /\ LoadsAs(library[j], n)
    BY <1>7, <2>1, <2>2 DEF IsDone, Installed, SkillInv, CallOf, LoadOf
  <2>4. \/ Skill!Loads(library[j], n) = {n}
        \/ \E m \in Skill!Found' \ {n} : Skill!TitleIn(m)' \in {n, Skill!TitleIn(n)'}
    BY <2>3, LoadsStays DEF Moves, SkillInv
  <2>5. n = Dir(j, k)' /\ library'[j] = library[j]
    BY <1>1, <1>2, <2>2
  <2>6. LoadsAs(library[j], n)'
    BY <2>4, <2>5 DEF LoadsAs, Skill!Loads
  <2> QED BY <2>5, <2>6 DEF LoadsAs, Skill!Loads, Skill!TitleIn, Skill!Found
<1>11. (PositionOf(j) /\ CheckedOf(j))'
  BY <1>1, <1>2 DEF SkillInv, CallOf, PositionOf, CheckedOf, Installed
<1>12. CopyOf(j)' /\ DoneOf(j)' /\ LoadOf(j)'
  BY <1>8, <1>9, <1>10 DEF CopyOf, DoneOf, LoadOf
<1> QED BY <1>11, <1>12 DEF CallOf

\* Steps that copy nothing and end no call.
LEMMA QuietMoves ==
  ASSUME SkillInv, NEW i \in Installers, UNCHANGED <<dirs, library>>, ~Copying(i)',
         job' = [job EXCEPT ![i] = job'[i]], installing' = [installing EXCEPT ![i] = installing'[i]],
         answer' = [answer EXCEPT ![i] = answer'[i]]
  PROVE  Moves(i)
<1>1. Others(i)
  BY DEF Others, SkillInv, SkillTyped
<1>2. OwnDirectory(i)
  BY DEF OwnDirectory, Skill!FilesIn
<1> QED BY <1>1, <1>2 DEF Moves, Enters

\* A call that ends in an error, or is killed, has nothing any more.
LEMMA NoJobTyped == Skill!NoJob \in Jobs
<1>1. <<>> \in Contents({})
  BY DEF Contents
<1>2. <<>> \in UNION {Contents(S) : S \in SUBSET Skills}
  BY <1>1
<1>3. <<>> \in Seq(Skills)
  OBVIOUS
<1> QED BY <1>2, <1>3 DEF Skill!NoJob, Jobs

\* A call that ends with no skill installed disturbs nothing.
LEMMA EndsWithout ==
  ASSUME SkillInv, NEW i \in Installers, UNCHANGED <<dirs, library>>, calls' \in Nat,
         NEW place \in {"idle", "dead"}, NEW result \in {"none", "denied", "error"},
         installing' = [installing EXCEPT ![i] = place],
         answer' = [answer EXCEPT ![i] = result] \/ (answer[i] # "installed" /\ answer' = answer),
         job' = [job EXCEPT ![i] = Skill!NoJob]
  PROVE  SkillTyped' /\ Moves(i) /\ CallOf(i)'
<1>1. /\ installing'[i] = place /\ answer'[i] # "installed" /\ job'[i] = Skill!NoJob
      /\ place \in Places
  BY DEF SkillInv, SkillTyped, Places
<1>2. SkillTyped'
  BY <1>1, NoJobTyped DEF SkillInv, SkillTyped
<1>3. ~Copying(i)' /\ answer' = [answer EXCEPT ![i] = answer'[i]]
  BY <1>1 DEF Copying, SkillInv, SkillTyped
<1>4. Moves(i)
  BY <1>1, <1>3, QuietMoves
<1>5. job'[i].missing = <<>>
  BY <1>1 DEF Skill!NoJob
<1>6. CallOf(i)'
  BY <1>1, <1>3, <1>5 DEF CallOf, PositionOf, CheckedOf, CopyOf, DoneOf, LoadOf, Installed, IsDone
<1> QED BY <1>2, <1>4, <1>6

\* A call that fails.
LEMMA FailKeeps ==
  ASSUME SkillInv, NEW i \in Installers, Skill!Fail(i)
  PROVE  SkillTyped' /\ Moves(i) /\ CallOf(i)'
<1>1. /\ UNCHANGED <<dirs, library>> /\ calls' \in Nat
      /\ installing' = [installing EXCEPT ![i] = "idle"]
      /\ answer' = [answer EXCEPT ![i] = "error"]
      /\ job' = [job EXCEPT ![i] = Skill!NoJob]
  BY DEF Skill!Fail, Skill!End, Skill!GoTo, SkillInv, SkillTyped
<1> QED BY <1>1, EndsWithout

\* A step that only moves a call on, before it has made a directory.
LEMMA Prepares ==
  ASSUME SkillInv, NEW i \in Installers, UNCHANGED <<dirs, library>>, calls' \in Nat,
         NEW place \in {"look", "check", "fetch", "plan"}, NEW J \in Jobs,
         installing' = [installing EXCEPT ![i] = place],
         answer' = [answer EXCEPT ![i] = "none"] \/ (answer[i] # "installed" /\ answer' = answer),
         job' = [job EXCEPT ![i] = J],
         place = "look" => J.pos \in DOMAIN J.paths,
         place = "check" => J.pos \in DOMAIN J.missing,
         place = "plan" => J.pos = 1,
         place \in {"fetch", "plan"} => J.missing # <<>>
  PROVE  SkillTyped' /\ Moves(i) /\ CallOf(i)'
<1>1. /\ installing'[i] = place /\ answer'[i] # "installed" /\ job'[i] = J
      /\ place \in Places
  BY DEF SkillInv, SkillTyped, Places
<1>2. SkillTyped'
  BY <1>1 DEF SkillInv, SkillTyped
<1>3. ~Copying(i)' /\ answer' = [answer EXCEPT ![i] = answer'[i]]
  BY <1>1 DEF Copying, SkillInv, SkillTyped
<1>4. Moves(i)
  BY <1>1, <1>3, QuietMoves
<1>5. CallOf(i)'
  BY <1>1, <1>3 DEF CallOf, PositionOf, CheckedOf, CopyOf, DoneOf, LoadOf, Installed, IsDone
<1> QED BY <1>2, <1>4, <1>5

\* A call that starts, from the tool or from the user's command.
LEMMA CallKeeps ==
  ASSUME SkillInv, NEW i \in Installers, Skill!Call(i)
  PROVE  SkillTyped' /\ Moves(i) /\ CallOf(i)'
<1>1. UNCHANGED <<dirs, library>> /\ calls \in Nat /\ calls' = calls + 1 /\ calls' \in Nat
  BY DEF Skill!Call, SkillInv, SkillTyped
<1>2. CASE Skill!ByTool(i)
  <2>1. PICK p \in Skills, q \in Skills : \E paths \in {<<p>>, <<p, q>>} :
          job' = [job EXCEPT ![i] = [Skill!NoJob EXCEPT !.number = calls + 1, !.paths = paths, !.pos = 1]]
    BY <1>2 DEF Skill!ByTool
  <2>2. PICK paths \in {<<p>>, <<p, q>>} :
          job' = [job EXCEPT ![i] = [Skill!NoJob EXCEPT !.number = calls + 1, !.paths = paths, !.pos = 1]]
    BY <2>1
  <2> DEFINE J == [Skill!NoJob EXCEPT !.number = calls + 1, !.paths = paths, !.pos = 1]
  <2>3. paths \in Seq(Skills) /\ 1 \in DOMAIN paths
    <3>1. <<p>> \in Seq(Skills) /\ 1 \in DOMAIN <<p>>
      OBVIOUS
    <3>2. <<p, q>> \in Seq(Skills) /\ 1 \in DOMAIN <<p, q>>
      OBVIOUS
    <3> QED BY <3>1, <3>2
  <2>4. J \in Jobs /\ J.pos = 1 /\ J.paths = paths
    BY <1>1, <2>3, NoJobTyped DEF Jobs
  <2>5. installing' = [installing EXCEPT ![i] = "look"] /\ answer' = [answer EXCEPT ![i] = "none"]
    BY <1>2 DEF Skill!ByTool, Skill!GoTo
  <2> HIDE DEF J
  <2>6. job' = [job EXCEPT ![i] = J]
    BY <2>2 DEF J
  <2> QED BY <1>1, <2>3, <2>4, <2>5, <2>6, Prepares
<1>3. CASE Skill!ByCommand(i)
  <2>1. PICK p \in Skills :
          job' = [job EXCEPT ![i] = [Skill!NoJob EXCEPT !.number = calls + 1, !.missing = <<p>>, !.pos = 1]]
    BY <1>3 DEF Skill!ByCommand
  <2> DEFINE J == [Skill!NoJob EXCEPT !.number = calls + 1, !.missing = <<p>>, !.pos = 1]
  <2>2. <<p>> \in Seq(Skills) /\ 1 \in DOMAIN <<p>>
    OBVIOUS
  <2>3. J \in Jobs /\ J.pos = 1 /\ J.missing = <<p>>
    BY <1>1, <2>2, NoJobTyped DEF Jobs
  <2>4. installing' = [installing EXCEPT ![i] = "check"] /\ answer' = [answer EXCEPT ![i] = "none"]
    BY <1>3 DEF Skill!ByCommand, Skill!GoTo
  <2> HIDE DEF J
  <2>5. job' = [job EXCEPT ![i] = J]
    BY <2>1 DEF J
  <2> QED BY <1>1, <2>2, <2>3, <2>4, <2>5, Prepares
<1>4. CASE Skill!End(i, "denied")
  <2>1. /\ installing' = [installing EXCEPT ![i] = "idle"]
        /\ answer' = [answer EXCEPT ![i] = "denied"]
        /\ job' = [job EXCEPT ![i] = Skill!NoJob]
    BY <1>4 DEF Skill!End, Skill!GoTo
  <2> QED BY <1>1, <2>1, EndsWithout
<1> QED BY <1>2, <1>3, <1>4 DEF Skill!Call

\* A call that is not idle has installed nothing yet.
LEMMA NotYet ==
  ASSUME SkillInv, NEW i \in Installers, installing[i] # "idle"
  PROVE  answer[i] # "installed"
  BY DEF SkillInv, CallOf, PositionOf

\* A path is looked up among the directories.
LEMMA LookKeeps ==
  ASSUME SkillInv, NEW i \in Installers, Skill!Look(i)
  PROVE  SkillTyped' /\ Moves(i) /\ CallOf(i)'
<1> DEFINE p == job[i].paths[job[i].pos]
           found == NameOf[p] \in DOMAIN dirs
           rest == IF found THEN job[i].missing ELSE Append(job[i].missing, p)
           last == job[i].pos = Len(job[i].paths)
           J == [job[i] EXCEPT !.missing = rest, !.pos = IF last THEN 1 ELSE @ + 1]
           place == IF ~last THEN "look" ELSE IF rest = <<>> THEN "refresh" ELSE "check"
<1>1. /\ job[i] \in Jobs /\ job[i].pos \in 1..Len(job[i].paths) /\ job[i].paths \in Seq(Skills)
      /\ job[i].missing \in Seq(Skills) /\ job[i].pos \in Nat /\ answer[i] # "installed"
  BY NotYet DEF Skill!Look, SkillInv, SkillTyped, CallOf, PositionOf, Jobs
<1>2. p \in Skills /\ rest \in Seq(Skills) /\ Len(job[i].paths) \in Nat
  BY <1>1
<1> HIDE DEF p, found, rest
<1>3. /\ J \in Jobs /\ J.missing = rest /\ J.paths = job[i].paths
      /\ J.pos = IF last THEN 1 ELSE job[i].pos + 1
  <2>1. PICK n \in Nat : n = IF last THEN 1 ELSE job[i].pos + 1
    BY <1>1
  <2>2. J = [job[i] EXCEPT !.missing = rest, !.pos = n]
    BY <2>1
  <2>3. [job[i] EXCEPT !.missing = rest, !.pos = n] \in Jobs
    BY <1>1, <1>2 DEF Jobs
  <2>4. J.missing = rest /\ J.paths = job[i].paths /\ J.pos = n
    BY <1>1, <2>2 DEF Jobs
  <2> QED BY <2>1, <2>2, <2>3, <2>4
<1>4. \/ Skill!Fail(i)
      \/ /\ job' = [job EXCEPT ![i].missing = rest, ![i].pos = IF last THEN 1 ELSE @ + 1]
         /\ installing' = [installing EXCEPT ![i] = place]
         /\ UNCHANGED <<dirs, library, answer, calls>>
  BY DEF Skill!Look, Skill!GoTo, p, found, rest
<1>5. ASSUME job' = [job EXCEPT ![i].missing = rest, ![i].pos = IF last THEN 1 ELSE @ + 1],
             installing' = [installing EXCEPT ![i] = place],
             UNCHANGED <<dirs, library, answer, calls>>
      PROVE  SkillTyped' /\ Moves(i) /\ CallOf(i)'
  <2>1. job' = [job EXCEPT ![i] = J]
    BY <1>5 DEF SkillInv, SkillTyped
  <2>2. calls' \in Nat
    BY <1>5 DEF SkillInv, SkillTyped
  <2>3. CASE place # "refresh"
    <3>1. place = "look" => J.pos \in DOMAIN J.paths
      BY <1>1, <1>2, <1>3
    <3>2. place = "check" => J.pos \in DOMAIN J.missing
      BY <1>2, <1>3
    <3>3. place \in {"look", "check", "fetch", "plan"} /\ place \notin {"plan", "fetch"}
      BY <2>3
    <3> HIDE DEF J, place
    <3> QED BY <1>1, <1>3, <1>5, <2>1, <2>2, <3>1, <3>2, <3>3, Prepares
  <2>4. CASE place = "refresh"
    <3>1. J.missing = <<>>
      BY <1>3, <2>4
    <3> HIDE DEF J, place
    <3>0. installing' = [installing EXCEPT ![i] = "refresh"] /\ "refresh" \in Places
      BY <1>5, <2>4 DEF Places
    <3>2. installing'[i] = "refresh" /\ job'[i] = J /\ answer'[i] # "installed"
      BY <1>1, <1>5, <2>1, <2>4 DEF SkillInv, SkillTyped
    <3>3. SkillTyped'
      <4>1. job' \in [Installers -> Jobs] /\ installing' \in [Installers -> Places]
        BY <1>3, <2>1, <3>0 DEF SkillInv, SkillTyped
      <4> QED BY <1>5, <2>2, <4>1 DEF SkillInv, SkillTyped
    <3>4. ~Copying(i)'
      BY <3>2 DEF Copying
    <3>5. answer' = [answer EXCEPT ![i] = answer'[i]]
      BY <1>5 DEF SkillInv, SkillTyped
    <3>6. Moves(i)
      BY <1>5, <2>1, <2>4, <3>2, <3>4, <3>5, QuietMoves
    <3>7. CallOf(i)'
      BY <3>1, <3>2, <3>4 DEF CallOf, PositionOf, CheckedOf, CopyOf, DoneOf, LoadOf
    <3> QED BY <3>3, <3>6, <3>7
  <2> QED BY <2>3, <2>4
<1> QED BY <1>4, <1>5, FailKeeps

\* A missing skill is checked for.
LEMMA CheckKeeps ==
  ASSUME SkillInv, NEW i \in Installers, Skill!Check(i)
  PROVE  SkillTyped' /\ Moves(i) /\ CallOf(i)'
<1> DEFINE last == job[i].pos = Len(job[i].missing)
           J == [job[i] EXCEPT !.pos = IF last THEN 1 ELSE @ + 1]
           place == IF last THEN "fetch" ELSE "check"
<1>1. /\ job[i] \in Jobs /\ job[i].missing \in Seq(Skills) /\ Len(job[i].missing) \in Nat
      /\ job[i].pos \in 1..Len(job[i].missing) /\ answer[i] # "installed"
  BY NotYet DEF Skill!Check, SkillInv, SkillTyped, CallOf, PositionOf, Jobs
<1>2. J \in Jobs /\ J.missing = job[i].missing /\ J.pos = IF last THEN 1 ELSE job[i].pos + 1
  BY <1>1 DEF Jobs
<1>3. CASE Skill!Fail(i)
  BY <1>3, FailKeeps
<1>4. CASE Skill!Advance(i, job[i].missing, "check", "fetch")
  <2>1. job' = [job EXCEPT ![i] = J]
    BY <1>4 DEF Skill!Advance, SkillInv, SkillTyped
  <2>2. /\ installing' = [installing EXCEPT ![i] = place]
        /\ UNCHANGED <<dirs, library, answer>> /\ calls' \in Nat
    BY <1>4 DEF Skill!Advance, Skill!GoTo, SkillInv, SkillTyped
  <2>3. place = "check" => J.pos \in DOMAIN J.missing
    BY <1>1, <1>2
  <2>4. J.missing # <<>> /\ place \in {"check", "fetch"}
    BY <1>1, <1>2
  <2> HIDE DEF J, place
  <2> QED BY <1>1, <1>2, <2>1, <2>2, <2>3, <2>4, Prepares
<1> QED BY <1>3, <1>4 DEF Skill!Check

\* The archive is fetched, or another path is tried.
LEMMA FetchKeeps ==
  ASSUME SkillInv, NEW i \in Installers, Skill!Fetch(i)
  PROVE  SkillTyped' /\ Moves(i) /\ CallOf(i)'
<1> DEFINE K(n) == [job[i] EXCEPT !.pos = n]
<1>1. /\ job[i] \in Jobs /\ job[i].missing # <<>> /\ job[i].pos \in Nat
      /\ answer[i] # "installed" /\ calls \in Nat
  BY NotYet DEF Skill!Fetch, SkillInv, SkillTyped, CallOf, PositionOf, Jobs
<1>2. \A n \in Nat : K(n) \in Jobs /\ K(n).missing = job[i].missing /\ K(n).pos = n
  BY <1>1 DEF Jobs
<1>3. CASE Skill!Fail(i)
  BY <1>3, FailKeeps
<1>4. ASSUME NEW place \in {"fetch", "plan"}, NEW n \in Nat, place = "plan" => n = 1,
             job' = [job EXCEPT ![i].pos = n], installing' = [installing EXCEPT ![i] = place],
             UNCHANGED <<dirs, library, answer, calls>>
      PROVE  SkillTyped' /\ Moves(i) /\ CallOf(i)'
  <2>1. job' = [job EXCEPT ![i] = K(n)]
    BY <1>4 DEF SkillInv, SkillTyped
  <2>2. K(n) \in Jobs /\ K(n).missing # <<>> /\ K(n).pos = n
    BY <1>1, <1>2
  <2> HIDE DEF K
  <2> QED BY <1>1, <1>4, <2>1, <2>2, Prepares
<1>5. CASE Skill!Advance(i, Skill!Sources, "fetch", "fetch")
  <2>1. PICK n \in Nat : n = IF job[i].pos = Len(Skill!Sources) THEN 1 ELSE job[i].pos + 1
    BY <1>1
  <2>2. /\ job' = [job EXCEPT ![i].pos = n] /\ installing' = [installing EXCEPT ![i] = "fetch"]
        /\ UNCHANGED <<dirs, library, answer, calls>>
    BY <1>5, <2>1 DEF Skill!Advance, Skill!GoTo
  <2> QED BY <1>4, <2>2
<1> QED BY <1>3, <1>4, <1>5 DEF Skill!Fetch, Skill!GoTo

\* Of one definition in two modules.
LEMMA SameCount == \A S : Skill!Cardinality(S) = Cardinality(S)
  BY Zenon DEF Skill!Cardinality, Skill!IsFiniteSet, Cardinality, IsFiniteSet

\* What is accepted are skills of files that are not too many, each for itself.
LEMMA AcceptedFiles ==
  ASSUME NEW paths \in Seq(Skills), NEW content \in Contents(Skill!Range(paths)),
         Skill!Acceptable(paths, content), NEW k \in DOMAIN paths
  PROVE  /\ content[paths[k]].files \subseteq Skill!SkillFiles
         /\ Skill!SKILL \in content[paths[k]].files
         /\ Cardinality(content[paths[k]].files) <= MaxFiles
<1> DEFINE files == content[paths[k]].files
           copies == {c \in (DOMAIN paths) \X Skill!SkillFiles : c[2] \in content[paths[c[1]]].files}
           put == [f \in files |-> <<k, f>>]
<1>1. paths[k] \in Skill!Range(paths)
  BY DEF Skill!Range
<1>2. files \subseteq Skill!SkillFiles /\ Skill!SKILL \in files
  BY <1>1 DEF Contents, Skill!Contents, Skill!Content, Skill!Acceptable, Skill!SkillFiles
<1>3. IsFiniteSet(copies) /\ Cardinality(copies) \in Nat
  <2>1. IsFiniteSet(DOMAIN paths)
    BY FS_Interval
  <2>2. IsFiniteSet(Skill!SkillFiles)
    <3>1. IsFiniteSet({Skill!SKILL})
      BY FS_Singleton
    <3>2. IsFiniteSet({Skill!SKILL} \union {"extra"})
      BY <3>1, FS_AddElement
    <3> QED BY <3>2 DEF Skill!SkillFiles
  <2>3. IsFiniteSet((DOMAIN paths) \X Skill!SkillFiles)
    BY <2>1, <2>2, FS_Product
  <2> QED BY <2>3, FS_Subset, FS_CardinalityType
<1>4. put \in Injection(files, copies)
  BY <1>2 DEF Injection, IsInjective
<1>5. Cardinality(files) <= Cardinality(copies) /\ IsFiniteSet(files)
  BY <1>3, <1>4, FS_Injection
<1>6. Cardinality(files) \in Nat
  BY <1>5, FS_CardinalityType
<1>7. Cardinality(copies) <= MaxFiles
  BY SameCount DEF Skill!Acceptable
<1> HIDE DEF copies, put
<1>8. Cardinality(files) <= MaxFiles
  BY <1>3, <1>5, <1>6, <1>7, SkillsAssumption
<1> QED BY <1>2, <1>8

\* The plan of the copies, checked as a whole.
LEMMA PlanKeeps ==
  ASSUME SkillInv, NEW i \in Installers, Skill!Plan(i)
  PROVE  SkillTyped' /\ Moves(i) /\ CallOf(i)'
<1>1. CASE Skill!Fail(i)
  BY <1>1, FailKeeps
<1>2. ASSUME NEW content \in Contents(Skill!Range(job[i].missing)),
             Skill!Acceptable(job[i].missing, content),
             job' = [job EXCEPT ![i].content = content],
             installing' = [installing EXCEPT ![i] = "make"],
             UNCHANGED <<dirs, library, answer, calls>>
      PROVE  SkillTyped' /\ Moves(i) /\ CallOf(i)'
  <2>1. /\ job[i] \in Jobs /\ job[i].missing \in Seq(Skills) /\ job[i].missing # <<>>
        /\ job[i].pos = 1 /\ answer[i] # "installed" /\ "make" \in Places
    BY NotYet DEF Skill!Plan, SkillInv, SkillTyped, CallOf, PositionOf, Jobs, Places
  <2>2. content \in UNION {Contents(S) : S \in SUBSET Skills}
    <3>1. Skill!Range(job[i].missing) \subseteq Skills
      BY <2>1 DEF Skill!Range
    <3> QED BY <1>2, <3>1
  <2> DEFINE J == [job[i] EXCEPT !.content = content]
  <2>3. J \in Jobs /\ J.missing = job[i].missing /\ J.pos = 1 /\ J.content = content
    BY <2>1, <2>2 DEF Jobs
  <2>4. job' = [job EXCEPT ![i] = J]
    BY <1>2 DEF SkillInv, SkillTyped
  <2> HIDE DEF J
  <2>5. job'[i] = J /\ installing'[i] = "make" /\ answer'[i] # "installed" /\ ~Copying(i)'
    BY <1>2, <2>1, <2>4 DEF SkillInv, SkillTyped, Copying
  <2>6. SkillTyped'
    <3>1. job' \in [Installers -> Jobs] /\ installing' \in [Installers -> Places]
      BY <1>2, <2>1, <2>3, <2>4 DEF SkillInv, SkillTyped
    <3> QED BY <1>2, <3>1 DEF SkillInv, SkillTyped
  <2>7. Moves(i)
    <3>1. answer' = [answer EXCEPT ![i] = answer'[i]]
      BY <1>2 DEF SkillInv, SkillTyped
    <3> QED BY <1>2, <2>4, <2>5, <3>1, QuietMoves
  <2>8. (PositionOf(i) /\ CopyOf(i) /\ LoadOf(i))'
    <3>1. 1 \in DOMAIN J.missing
      BY <2>1, <2>3
    <3> QED BY <2>3, <2>5, <3>1 DEF PositionOf, CopyOf, LoadOf
  <2>9. DoneOf(i)'
    <3>1. \A k \in DOMAIN job'[i].missing : ~(k < job'[i].pos)
      BY <2>1, <2>3, <2>5
    <3> QED BY <2>5, <3>1 DEF DoneOf, IsDone, Installed
  <2>10. CheckedOf(i)'
    <3>1. \A k \in DOMAIN job'[i].missing : Checked(i, k)' = content[job[i].missing[k]].files
      BY <2>3, <2>5 DEF Checked
    <3>2. job'[i].missing = job[i].missing
      BY <2>3, <2>5
    <3> QED BY <1>2, <2>1, <3>1, <3>2, AcceptedFiles DEF CheckedOf
  <2> QED BY <2>6, <2>7, <2>8, <2>9, <2>10 DEF CallOf
<1> QED BY <1>1, <1>2 DEF Skill!Plan, Skill!GoTo, Contents

\* What is typed at a directory a call makes or fills.
LEMMA BusyTyped ==
  ASSUME SkillInv, NEW i \in Installers, installing[i] \in {"make", "copy"}
  PROVE  /\ job[i] \in Jobs /\ job[i].missing \in Seq(Skills) /\ Len(job[i].missing) \in Nat
         /\ job[i].pos \in 1..Len(job[i].missing) /\ job[i].pos \in DOMAIN job[i].missing
         /\ Skill!Path(i) \in Skills /\ answer[i] # "installed"
         /\ Dir(i, job[i].pos) = NameOf[Skill!Path(i)]
         /\ job[i].content[Skill!Path(i)].files = Checked(i, job[i].pos)
         /\ job[i].number \in Nat /\ job[i].left \in SUBSET Skill!SkillFiles
         /\ ~Installed(i)
         /\ Checked(i, job[i].pos) \subseteq Skill!SkillFiles
<1>1. /\ job[i] \in Jobs /\ job[i].missing \in Seq(Skills) /\ Len(job[i].missing) \in Nat
      /\ job[i].pos \in 1..Len(job[i].missing) /\ job[i].pos \in DOMAIN job[i].missing
      /\ job[i].number \in Nat /\ job[i].left \in SUBSET Skill!SkillFiles
  BY DEF SkillInv, SkillTyped, CallOf, PositionOf, Jobs
<1>2. answer[i] # "installed" /\ ~Installed(i)
  BY NotYet DEF Installed
<1>3. Checked(i, job[i].pos) \subseteq Skill!SkillFiles
  BY <1>1 DEF SkillInv, CallOf, CheckedOf
<1> QED BY <1>1, <1>2, <1>3 DEF Skill!Path, Dir, Checked

\* A skill that is in its directory stays there.
LEMMA DoneStays ==
  ASSUME SkillInv, NEW i \in Installers, Moves(i), job'[i].missing = job[i].missing,
         job'[i].content = job[i].content, job'[i].number = job[i].number,
         NEW k \in DOMAIN job[i].missing, IsDone(i, k)
  PROVE  /\ Dir(i, k)' \in DOMAIN dirs'
         /\ dirs'[Dir(i, k)'].skill = job'[i].missing[k]
         /\ dirs'[Dir(i, k)'].written = OfCall(i, Checked(i, k))'
         /\ \A j \in Installers : Copying(j)' => Dir(j, job[j].pos)' # Dir(i, k)'
<1>1. Dir(i, k)' = Dir(i, k) /\ OfCall(i, Checked(i, k))' = OfCall(i, Checked(i, k))
  BY DEF Dir, Checked, OfCall
<1>2. /\ Dir(i, k) \in DOMAIN dirs /\ dirs[Dir(i, k)].skill = job[i].missing[k]
      /\ dirs[Dir(i, k)].written = OfCall(i, Checked(i, k))
      /\ \A j \in Installers : Copying(j) => Dir(j, job[j].pos) # Dir(i, k)
  BY DEF SkillInv, CallOf, DoneOf
<1>3. dirs'[Dir(i, k)] = dirs[Dir(i, k)] /\ Dir(i, k) \in DOMAIN dirs'
  BY <1>2 DEF Moves, OwnDirectory
<1>4. ASSUME NEW j \in Installers, Copying(j)' PROVE Dir(j, job[j].pos)' # Dir(i, k)
  <2>1. CASE j = i
    BY <1>2, <1>4, <2>1 DEF Moves, Enters
  <2>2. CASE j # i
    <3>1. job'[j] = job[j] /\ installing'[j] = installing[j]
      BY <2>2 DEF Moves, Others
    <3>2. Copying(j) /\ Dir(j, job[j].pos)' = Dir(j, job[j].pos)
      BY <1>4, <3>1 DEF Copying, Dir
    <3> QED BY <1>2, <3>2
  <2> QED BY <2>1, <2>2
<1> QED BY <1>1, <1>2, <1>3, <1>4

\* The directory of a skill is made, if nobody has it.
LEMMA MakeKeeps ==
  ASSUME SkillInv, NEW i \in Installers, Skill!MakeDirectory(i)
  PROVE  SkillTyped' /\ Moves(i) /\ CallOf(i)'
<1> DEFINE p == Skill!Path(i)
           n == NameOf[p]
           J == [job[i] EXCEPT !.left = job[i].content[p].files, !.broken = FALSE]
<1>1. CASE Skill!Fail(i)
  BY <1>1, FailKeeps
<1>2. CASE ~Skill!Fail(i)
  <2>1. /\ installing[i] = "make" /\ n \notin DOMAIN dirs
        /\ dirs' = [m \in DOMAIN dirs \union {n} |->
                      IF m \in DOMAIN dirs THEN dirs[m] ELSE [skill |-> p, written |-> {}]]
        /\ job' = [job EXCEPT ![i].left = job[i].content[p].files, ![i].broken = FALSE]
        /\ installing' = [installing EXCEPT ![i] = "copy"]
        /\ UNCHANGED <<library, answer, calls>>
    BY <1>2 DEF Skill!MakeDirectory, Skill!MayMake, Skill!GoTo
  <2>2. /\ job[i] \in Jobs /\ job[i].missing \in Seq(Skills) /\ Len(job[i].missing) \in Nat
        /\ job[i].pos \in 1..Len(job[i].missing) /\ job[i].pos \in DOMAIN job[i].missing
        /\ p \in Skills /\ answer[i] # "installed" /\ "copy" \in Places
        /\ Dir(i, job[i].pos) = n
        /\ job[i].content[p].files = Checked(i, job[i].pos)
        /\ ~Installed(i) /\ Checked(i, job[i].pos) \subseteq Skill!SkillFiles
    BY <2>1, BusyTyped DEF Places
  <2>3. /\ J \in Jobs /\ J.missing = job[i].missing /\ J.pos = job[i].pos /\ ~J.broken
        /\ J.content = job[i].content /\ J.left = Checked(i, job[i].pos)
        /\ J.number = job[i].number
    BY <2>2 DEF Jobs
  <2>4. job' = [job EXCEPT ![i] = J]
    BY <2>1 DEF SkillInv, SkillTyped
  <2> HIDE DEF J, p, n
  <2>5. job'[i] = J /\ installing'[i] = "copy" /\ answer'[i] # "installed" /\ Copying(i)'
    BY <2>1, <2>2, <2>4 DEF SkillInv, SkillTyped, Copying
  <2>6. SkillTyped'
    <3>1. job' \in [Installers -> Jobs] /\ installing' \in [Installers -> Places]
      BY <2>1, <2>2, <2>3, <2>4 DEF SkillInv, SkillTyped
    <3>2. [skill |-> p, written |-> {}] \in Directories
      BY <2>2 DEF Directories
    <3>3. dirs' \in [DOMAIN dirs' -> Directories]
      BY <2>1, <3>2 DEF SkillInv, SkillTyped
    <3> QED BY <2>1, <3>1, <3>3 DEF SkillInv, SkillTyped
  <2>7. \A k : /\ Dir(i, k)' = Dir(i, k) /\ Checked(i, k)' = Checked(i, k)
               /\ \A S : OfCall(i, S)' = OfCall(i, S)
               /\ OfCall(i, Checked(i, k))' = OfCall(i, Checked(i, k))
    BY <2>3, <2>5 DEF Dir, Checked, OfCall
  <2>8. Dir(i, job[i].pos)' = n /\ Checked(i, job[i].pos)' = Checked(i, job[i].pos)
    BY <2>2, <2>3, <2>5 DEF Dir, Checked
  <2>9. Moves(i)
    <3>1. Others(i)
      BY <2>1, <2>4 DEF Others, SkillInv, SkillTyped
    <3>2. \A m \in DOMAIN dirs : m \in DOMAIN dirs' /\ dirs'[m] = dirs[m]
      BY <2>1
    <3>3. OwnDirectory(i)
      BY <3>2 DEF OwnDirectory, Skill!FilesIn
    <3> QED BY <2>1, <2>8, <3>1, <3>3 DEF Moves, Enters
  <2>10. \A j \in Installers \ {i} : Copying(j)' => Dir(j, job[j].pos)' \in DOMAIN dirs
    <3>1. \A j \in Installers \ {i} : job'[j] = job[j] /\ installing'[j] = installing[j]
      BY <2>9 DEF Moves, Others
    <3>2. \A j \in Installers \ {i} : Copying(j)' = Copying(j) /\ Dir(j, job[j].pos)' = Dir(j, job[j].pos)
      BY <3>1 DEF Copying, Dir
    <3> QED BY <3>2 DEF SkillInv, CallOf, CopyOf
  <2>11. CopyOf(i)'
    <3>1. dirs'[n] = [skill |-> p, written |-> {}] /\ n \in DOMAIN dirs'
      BY <2>1
    <3>2. Skill!Path(i)' = p
      BY <2>3, <2>5 DEF Skill!Path, p
    <3>3. OfCall(i, Checked(i, job[i].pos) \ job[i].left)' = {}
      BY <2>3, <2>5, <2>8 DEF OfCall
    <3>4. job'[i].left = Checked(i, job[i].pos)'
      BY <2>3, <2>5, <2>8
    <3> QED BY <2>1, <2>8, <2>10, <3>1, <3>2, <3>3, <3>4 DEF CopyOf
  <2>12. DoneOf(i)'
    <3> SUFFICES ASSUME NEW k \in DOMAIN job'[i].missing, IsDone(i, k)'
                 PROVE  /\ Dir(i, k)' \in DOMAIN dirs'
                        /\ dirs'[Dir(i, k)'].skill = job'[i].missing[k]
                        /\ dirs'[Dir(i, k)'].written = OfCall(i, Checked(i, k))'
                        /\ \A j \in Installers : Copying(j)' => Dir(j, job[j].pos)' # Dir(i, k)'
      BY DEF DoneOf
    <3>1. k < job[i].pos /\ k \in DOMAIN job[i].missing /\ job'[i].missing = job[i].missing
      BY <2>3, <2>5 DEF IsDone, Installed
    <3>2. IsDone(i, k)
      BY <2>1, <3>1 DEF IsDone
    <3> QED BY <2>3, <2>5, <2>9, <3>1, <3>2, DoneStays
  <2>13. (PositionOf(i) /\ CheckedOf(i) /\ LoadOf(i))'
    <3>1. \A k \in DOMAIN job[i].missing :
            /\ Checked(i, k) \subseteq Skill!SkillFiles /\ Skill!SKILL \in Checked(i, k)
            /\ Cardinality(Checked(i, k)) <= MaxFiles
      BY <2>1 DEF SkillInv, CallOf, CheckedOf
    <3>2. CheckedOf(i)'
      BY <2>3, <2>5, <2>7, <3>1 DEF CheckedOf
    <3>3. PositionOf(i)' /\ LoadOf(i)'
      BY <2>2, <2>3, <2>5 DEF PositionOf, LoadOf
    <3> QED BY <3>2, <3>3
  <2> QED BY <2>6, <2>9, <2>11, <2>12, <2>13 DEF CallOf
<1> QED BY <1>1, <1>2

\* A file is copied into the directory the call has made.
LEMMA CopyKeeps ==
  ASSUME SkillInv, NEW i \in Installers, Skill!CopyFile(i)
  PROVE  SkillTyped' /\ Moves(i) /\ CallOf(i)'
<1>0. PICK n : n = Dir(i, job[i].pos)
  OBVIOUS
<1>1. PICK f \in job[i].left :
        /\ \/ /\ dirs' = [dirs EXCEPT ![NameOf[Skill!Path(i)]].written =
                            {w \in @ : w.file # f} \union {[file |-> f, call |-> job[i].number]}]
              /\ job' = [job EXCEPT ![i].left = @ \ {f}]
           \/ job' = [job EXCEPT ![i].left = @ \ {f}, ![i].broken = TRUE] /\ UNCHANGED dirs
        /\ installing[i] = "copy" /\ UNCHANGED <<library, installing, answer, calls>>
  BY DEF Skill!CopyFile
<1>2. /\ job[i] \in Jobs /\ job[i].missing \in Seq(Skills)
      /\ job[i].pos \in DOMAIN job[i].missing /\ answer[i] # "installed"
      /\ n = NameOf[Skill!Path(i)] /\ job[i].number \in Nat /\ job[i].left \in SUBSET Skill!SkillFiles
      /\ ~Installed(i)
  BY <1>0, <1>1, BusyTyped
<1>3. /\ n \in DOMAIN dirs /\ dirs[n].skill = Skill!Path(i)
      /\ job[i].left \subseteq Checked(i, job[i].pos)
      /\ ~job[i].broken => dirs[n].written = OfCall(i, Checked(i, job[i].pos) \ job[i].left)
      /\ \A j \in Installers \ {i} : Copying(j) => Dir(j, job[j].pos) # n
  BY <1>0, <1>1 DEF SkillInv, CallOf, CopyOf, Copying
<1> DEFINE added == [file |-> f, call |-> job[i].number]
           more == {w \in dirs[n].written : w.file # f} \union {added}
           K(b) == [job[i] EXCEPT !.left = @ \ {f}, !.broken = b]
<1>4. PICK b \in BOOLEAN :
        /\ job' = [job EXCEPT ![i] = K(b)]
        /\ \/ b = job[i].broken /\ dirs' = [dirs EXCEPT ![n].written = more]
           \/ b = TRUE /\ UNCHANGED dirs
  <2>1. job \in [Installers -> Jobs] /\ job[i].broken \in BOOLEAN
    BY <1>2 DEF SkillInv, SkillTyped, Jobs
  <2>2. CASE /\ dirs' = [dirs EXCEPT ![NameOf[Skill!Path(i)]].written =
                            {w \in @ : w.file # f} \union {[file |-> f, call |-> job[i].number]}]
             /\ job' = [job EXCEPT ![i].left = @ \ {f}]
    <3>1. [job[i] EXCEPT !.left = @ \ {f}] = K(job[i].broken)
      BY <1>2, <2>1 DEF Jobs
    <3>2. job' = [job EXCEPT ![i] = K(job[i].broken)]
      BY <2>1, <2>2, <3>1
    <3>3. dirs' = [dirs EXCEPT ![n].written = more]
      BY <1>2, <1>3, <2>2
    <3> QED BY <2>1, <3>2, <3>3
  <2>3. CASE job' = [job EXCEPT ![i].left = @ \ {f}, ![i].broken = TRUE] /\ UNCHANGED dirs
    <3>1. job' = [job EXCEPT ![i] = K(TRUE)]
      BY <2>1, <2>3
    <3> QED BY <2>3, <3>1
  <2> QED BY <1>1, <2>2, <2>3
<1> DEFINE J == K(b)
<1>5. /\ J \in Jobs /\ J.missing = job[i].missing /\ J.pos = job[i].pos
      /\ J.content = job[i].content /\ J.number = job[i].number
      /\ J.left = job[i].left \ {f} /\ J.broken = b
  BY <1>2, <1>4 DEF Jobs
<1>6. job' = [job EXCEPT ![i] = J]
  BY <1>4
<1> HIDE DEF J, K
<1>7. job'[i] = J /\ installing'[i] = "copy" /\ answer'[i] # "installed" /\ Copying(i) /\ Copying(i)'
  BY <1>1, <1>2, <1>6 DEF SkillInv, SkillTyped, Copying
<1>8. /\ DOMAIN dirs' = DOMAIN dirs /\ dirs' \in [DOMAIN dirs -> Directories]
      /\ \A m \in DOMAIN dirs : m # n => dirs'[m] = dirs[m]
      /\ dirs'[n].skill = dirs[n].skill
      /\ dirs'[n].written = dirs[n].written \/ (b = job[i].broken /\ dirs'[n].written = more)
      /\ b = job[i].broken \/ b = TRUE
      /\ dirs'[n].written = more \/ b = TRUE
  <2>1. dirs \in [DOMAIN dirs -> Directories] /\ dirs[n] \in Directories
    BY <1>3 DEF SkillInv, SkillTyped
  <2>2. more \in SUBSET [file : Skill!SkillFiles, call : Nat]
    BY <1>2, <2>1 DEF Directories
  <2> HIDE DEF more
  <2>3. CASE b = job[i].broken /\ dirs' = [dirs EXCEPT ![n].written = more]
    <3>1. [dirs[n] EXCEPT !.written = more] \in Directories
      BY <2>1, <2>2 DEF Directories
    <3>2. dirs' = [dirs EXCEPT ![n] = [dirs[n] EXCEPT !.written = more]]
      BY <1>3, <2>3
    <3>3. dirs'[n] = [dirs[n] EXCEPT !.written = more]
      BY <1>3, <2>1, <3>2
    <3>4. dirs'[n].written = more /\ dirs'[n].skill = dirs[n].skill
      BY <2>1, <3>3 DEF Directories
    <3> QED BY <1>3, <2>1, <2>3, <3>1, <3>2, <3>4
  <2>4. CASE b = TRUE /\ UNCHANGED dirs
    BY <2>1, <2>4
  <2> QED BY <1>4, <2>3, <2>4
<1>9. SkillTyped'
  <2>1. job' \in [Installers -> Jobs]
    BY <1>5, <1>6 DEF SkillInv, SkillTyped
  <2> QED BY <1>1, <1>8, <2>1 DEF SkillInv, SkillTyped
<1>10. \A k : /\ Dir(i, k)' = Dir(i, k) /\ Checked(i, k)' = Checked(i, k)
              /\ \A S : OfCall(i, S)' = OfCall(i, S)
  BY <1>5, <1>7 DEF Dir, Checked, OfCall
<1>11. Dir(i, job[i].pos)' = n /\ Checked(i, job[i].pos)' = Checked(i, job[i].pos)
  BY <1>0, <1>5, <1>7 DEF Dir, Checked
<1>12. Moves(i)
  <2>1. Others(i)
    BY <1>1, <1>6 DEF Others, SkillInv, SkillTyped
  <2>2. \A m \in DOMAIN dirs : m # n => Skill!FilesIn(m)' = Skill!FilesIn(m)
    BY <1>8 DEF Skill!FilesIn
  <2>3. Skill!FilesIn(n) \subseteq Skill!FilesIn(n)'
    <3>1. CASE dirs'[n].written = dirs[n].written
      BY <3>1 DEF Skill!FilesIn
    <3>2. CASE dirs'[n].written = more
      <4>1. added \in more /\ added.file = f
        OBVIOUS
      <4>2. \A w \in dirs[n].written : w \in more \/ w.file = added.file
        BY <4>1
      <4> QED BY <3>2, <4>1, <4>2 DEF Skill!FilesIn
    <3> QED BY <1>8, <3>1, <3>2
  <2>4. OwnDirectory(i)
    <3> SUFFICES ASSUME NEW m \in DOMAIN dirs
                 PROVE  /\ m \in DOMAIN dirs' /\ dirs'[m].skill = dirs[m].skill
                        /\ Skill!FilesIn(m) \subseteq Skill!FilesIn(m)'
                        /\ dirs'[m] = dirs[m] \/ (Copying(i) /\ m = n)
      BY <1>0 DEF OwnDirectory
    <3>1. CASE m = n
      BY <1>7, <1>8, <2>3, <3>1
    <3>2. CASE m # n
      BY <1>8, <2>2, <3>2
    <3> QED BY <3>1, <3>2
  <2> QED BY <1>0, <1>7, <1>11, <2>1, <2>4 DEF Moves, Enters
<1>13. CopyOf(i)'
  <2>1. Skill!Path(i)' = Skill!Path(i)
    BY <1>5, <1>7 DEF Skill!Path
  <2>2. job'[i].left \subseteq Checked(i, job[i].pos)'
    BY <1>3, <1>5, <1>7, <1>11
  <2>3. ~job'[i].broken => dirs'[n].written = OfCall(i, Checked(i, job[i].pos) \ job[i].left)'
    <3> SUFFICES ASSUME ~b PROVE dirs'[n].written = OfCall(i, Checked(i, job[i].pos) \ job[i].left)'
      BY <1>5, <1>7
    <3>1. dirs'[n].written = more /\ ~job[i].broken
      BY <1>8
    <3>2. dirs[n].written = {[file |-> g, call |-> job[i].number] : g \in Checked(i, job[i].pos) \ job[i].left}
      BY <1>3, <3>1 DEF OfCall
    <3>3. more = {[file |-> g, call |-> job[i].number] : g \in Checked(i, job[i].pos) \ (job[i].left \ {f})}
      BY <1>1, <1>3, <3>2
    <3>4. OfCall(i, Checked(i, job[i].pos) \ job[i].left)' =
            {[file |-> g, call |-> job[i].number] : g \in Checked(i, job[i].pos) \ (job[i].left \ {f})}
      BY <1>5, <1>7, <1>11 DEF OfCall
    <3> QED BY <3>1, <3>3, <3>4
  <2>4. \A j \in Installers \ {i} : Copying(j)' => Dir(j, job[j].pos)' # n
    <3>1. \A j \in Installers \ {i} : job'[j] = job[j] /\ installing'[j] = installing[j]
      BY <1>12 DEF Moves, Others
    <3>2. \A j \in Installers \ {i} : Copying(j)' = Copying(j) /\ Dir(j, job[j].pos)' = Dir(j, job[j].pos)
      BY <3>1 DEF Copying, Dir
    <3> QED BY <1>3, <3>2
  <2> QED BY <1>3, <1>8, <1>11, <2>1, <2>2, <2>3, <2>4 DEF CopyOf
<1>14. DoneOf(i)'
  <2>1. ASSUME NEW k \in DOMAIN job'[i].missing, IsDone(i, k)' PROVE k \in DOMAIN job[i].missing /\ IsDone(i, k)
    BY <1>1, <1>5, <1>7, <2>1 DEF IsDone, Installed
  <2> QED BY <1>5, <1>7, <1>12, <2>1, DoneStays DEF DoneOf
<1>15. (PositionOf(i) /\ CheckedOf(i) /\ LoadOf(i))'
  <2>1. \A k \in DOMAIN job[i].missing :
          /\ Checked(i, k) \subseteq Skill!SkillFiles /\ Skill!SKILL \in Checked(i, k)
          /\ Cardinality(Checked(i, k)) <= MaxFiles
    BY <1>1 DEF SkillInv, CallOf, CheckedOf
  <2>2. CheckedOf(i)'
    BY <1>5, <1>7, <1>10, <2>1 DEF CheckedOf
  <2>3. PositionOf(i)' /\ LoadOf(i)'
    BY <1>2, <1>5, <1>7 DEF PositionOf, LoadOf
  <2> QED BY <2>2, <2>3
<1> QED BY <1>9, <1>12, <1>13, <1>14, <1>15 DEF CallOf

\* All files of a skill are copied.
LEMMA CopyDoneKeeps ==
  ASSUME SkillInv, NEW i \in Installers, Skill!CopyDone(i)
  PROVE  SkillTyped' /\ Moves(i) /\ CallOf(i)'
<1> DEFINE last == job[i].pos = Len(job[i].missing)
           J == [job[i] EXCEPT !.pos = IF last THEN 1 ELSE @ + 1]
           place == IF last THEN "refresh" ELSE "make"
<1>1. CASE Skill!Fail(i)
  BY <1>1, FailKeeps
<1>2. CASE ~Skill!Fail(i)
  <2>1. /\ installing[i] = "copy" /\ job[i].left = {} /\ ~job[i].broken
        /\ Skill!Advance(i, job[i].missing, "make", "refresh")
    BY <1>2 DEF Skill!CopyDone
  <2>2. /\ job[i] \in Jobs /\ job[i].missing \in Seq(Skills) /\ Len(job[i].missing) \in Nat
        /\ job[i].pos \in 1..Len(job[i].missing) /\ job[i].pos \in DOMAIN job[i].missing
        /\ answer[i] # "installed" /\ ~Installed(i)
    BY <2>1, BusyTyped
  <2>3. /\ J \in Jobs /\ J.missing = job[i].missing /\ J.content = job[i].content
        /\ J.number = job[i].number /\ J.pos = IF last THEN 1 ELSE job[i].pos + 1
    BY <2>2 DEF Jobs
  <2>4. /\ job' = [job EXCEPT ![i] = J]
        /\ installing' = [installing EXCEPT ![i] = place]
        /\ UNCHANGED <<dirs, library, answer, calls>>
    BY <2>1 DEF Skill!Advance, Skill!GoTo, SkillInv, SkillTyped
  <2>5. place \in {"refresh", "make"} /\ place \in Places /\ (~last => place = "make")
    BY DEF Places
  <2>6. place = "make" => J.pos = job[i].pos + 1 /\ J.pos \in DOMAIN J.missing
    BY <2>2, <2>3
  <2> HIDE DEF J, place
  <2>7. job'[i] = J /\ installing'[i] = place /\ answer'[i] # "installed" /\ ~Copying(i)'
    BY <2>2, <2>4, <2>5 DEF SkillInv, SkillTyped, Copying
  <2>8. SkillTyped'
    <3>1. job' \in [Installers -> Jobs] /\ installing' \in [Installers -> Places]
      BY <2>3, <2>4, <2>5 DEF SkillInv, SkillTyped
    <3> QED BY <2>4, <3>1 DEF SkillInv, SkillTyped
  <2>9. Moves(i)
    <3>1. answer' = [answer EXCEPT ![i] = answer'[i]]
      BY <2>4 DEF SkillInv, SkillTyped
    <3> QED BY <2>4, <2>7, <3>1, QuietMoves
  <2>10. \A k : /\ Dir(i, k)' = Dir(i, k) /\ Checked(i, k)' = Checked(i, k)
                /\ OfCall(i, Checked(i, k))' = OfCall(i, Checked(i, k))
    BY <2>3, <2>7 DEF Dir, Checked, OfCall
  <2>11. DoneOf(i)'
    <3> SUFFICES ASSUME NEW k \in DOMAIN job[i].missing, IsDone(i, k)'
                 PROVE  /\ Dir(i, k)' \in DOMAIN dirs'
                        /\ dirs'[Dir(i, k)'].skill = job'[i].missing[k]
                        /\ dirs'[Dir(i, k)'].written = OfCall(i, Checked(i, k))'
                        /\ \A j \in Installers : Copying(j)' => Dir(j, job[j].pos)' # Dir(i, k)'
      BY <2>3, <2>7 DEF DoneOf
    <3>1. CASE IsDone(i, k)
      BY <2>3, <2>7, <2>9, <3>1, DoneStays
    <3>2. CASE k = job[i].pos
      <4>1. /\ Dir(i, k) \in DOMAIN dirs /\ dirs[Dir(i, k)].skill = job[i].missing[k]
            /\ dirs[Dir(i, k)].written = OfCall(i, Checked(i, k) \ {})
            /\ \A j \in Installers \ {i} : Copying(j) => Dir(j, job[j].pos) # Dir(i, k)
        BY <2>1, <3>2 DEF SkillInv, CallOf, CopyOf, Copying, Skill!Path
      <4>2. Checked(i, k) \ {} = Checked(i, k)
        OBVIOUS
      <4>3. ASSUME NEW j \in Installers, Copying(j)' PROVE Dir(j, job[j].pos)' # Dir(i, k)
        <5>1. j # i
          BY <2>7, <4>3
        <5>2. job'[j] = job[j] /\ installing'[j] = installing[j]
          BY <2>9, <5>1 DEF Moves, Others
        <5>3. Copying(j) /\ Dir(j, job[j].pos)' = Dir(j, job[j].pos)
          BY <4>3, <5>2 DEF Copying, Dir
        <5> QED BY <4>1, <5>1, <5>3
      <4> QED BY <2>3, <2>4, <2>7, <2>10, <4>1, <4>2, <4>3
    <3>3. IsDone(i, k) \/ k = job[i].pos
      <4>1. k \in 1..Len(job[i].missing)
        BY <2>2
      <4>2. CASE place = "make"
        <5>1. k < job[i].pos + 1
          BY <2>2, <2>6, <2>7, <4>2 DEF IsDone, Installed
        <5> QED BY <2>1, <2>2, <4>1, <5>1 DEF IsDone
      <4>3. CASE place = "refresh"
        <5>1. last
          BY <2>5, <4>3
        <5> QED BY <2>1, <2>2, <4>1, <5>1 DEF IsDone
      <4> QED BY <2>5, <4>2, <4>3
    <3> QED BY <3>1, <3>2, <3>3
  <2>12. (PositionOf(i) /\ CheckedOf(i) /\ CopyOf(i) /\ LoadOf(i))'
    <3>1. \A k \in DOMAIN job[i].missing :
            /\ Checked(i, k) \subseteq Skill!SkillFiles /\ Skill!SKILL \in Checked(i, k)
            /\ Cardinality(Checked(i, k)) <= MaxFiles
      BY <2>1 DEF SkillInv, CallOf, CheckedOf
    <3>2. CheckedOf(i)'
      BY <2>3, <2>7, <2>10, <3>1 DEF CheckedOf
    <3> QED BY <2>5, <2>6, <2>7, <3>2 DEF PositionOf, CopyOf, LoadOf
  <2> QED BY <2>8, <2>9, <2>11, <2>12 DEF CallOf
<1> QED BY <1>1, <1>2

\* The library loads a skill that was found, unless another one has its name.
LEMMA DiscoveredLoads ==
  ASSUME SkillTyped, NEW n \in Skill!Found, n \in Nat
  PROVE  LoadsAs(Skill!Discovered, n)
<1> SUFFICES ASSUME \A m \in Skill!Found \ {n} : Skill!TitleIn(m) \notin {n, Skill!TitleIn(n)}
             PROVE  Skill!Loads(Skill!Discovered, n) = {n}
  BY DEF LoadsAs
<1> DEFINE first == {m \in Skill!Found : \A h \in Skill!Found : h < m => Skill!TitleIn(h) # Skill!TitleIn(m)}
<1>1. Skill!Discovered = [m \in first |-> Skill!TitleIn(m)]
  BY DEF Skill!Discovered, Skill!Restrict
<1>2. n \in first
  <2>1. ~(n < n)
    OBVIOUS
  <2> QED BY <2>1
<1>3. first \subseteq Skill!Found
  OBVIOUS
<1> HIDE DEF first
<1> DEFINE D == [m \in first |-> Skill!TitleIn(m)]
<1>4. DOMAIN D = first /\ \A m \in first : D[m] = Skill!TitleIn(m)
  OBVIOUS
<1> HIDE DEF D
<1>5. CASE n \in Skill!Range(D)
  <2>1. PICK m \in first : D[m] = n
    BY <1>4, <1>5 DEF Skill!Range
  <2>2. m = n /\ \A h \in first : D[h] = n => h = n
    BY <1>3, <1>4, <2>1
  <2>3. {h \in DOMAIN D : D[h] = n} = {n}
    BY <1>4, <2>1, <2>2
  <2> QED BY <1>1, <1>5, <2>3 DEF Skill!Loads, D
<1>6. CASE n \notin Skill!Range(D)
  <2>1. DOMAIN D \intersect {n} = {n}
    BY <1>2, <1>4
  <2> QED BY <1>1, <1>6, <2>1 DEF Skill!Loads, D
<1> QED BY <1>5, <1>6

\* A process that reads the library again finds every skill its call has installed.
LEMMA LibraryRead ==
  ASSUME SkillInv, NEW i \in Installers, Installed(i), NEW k \in DOMAIN job[i].missing
  PROVE  LoadsAs(Skill!Discovered, Dir(i, k))
<1>1. PICK n : n = Dir(i, k)
  OBVIOUS
<1>2. /\ n \in DOMAIN dirs /\ dirs[n].written = OfCall(i, Checked(i, k))
      /\ Skill!SKILL \in Checked(i, k)
  BY <1>1 DEF SkillInv, CallOf, DoneOf, CheckedOf, IsDone
<1>3. n \in Skill!Found
  <2>1. [file |-> Skill!SKILL, call |-> job[i].number] \in dirs[n].written
    BY <1>2 DEF OfCall
  <2>2. Skill!SKILL \in Skill!FilesIn(n)
    BY <2>1 DEF Skill!FilesIn
  <2> QED BY <1>2, <2>2 DEF Skill!Found
<1>4. n \in Nat
  <2>1. job[i].missing[k] \in Skills
    BY DEF SkillInv, SkillTyped, Jobs
  <2> QED BY <1>1, <2>1, SkillsAssumption DEF Dir
<1> QED BY <1>1, <1>3, <1>4, DiscoveredLoads DEF SkillInv

\* The library is read again.
LEMMA RefreshKeeps ==
  ASSUME SkillInv, NEW i \in Installers, Skill!Refresh(i) \/ Skill!Reload(i)
  PROVE  SkillTyped' /\ Moves(i) /\ CallOf(i)'
<1>1. /\ library' = [library EXCEPT ![i] = Skill!Discovered]
      /\ installing' = [installing EXCEPT ![i] = "idle"] /\ UNCHANGED <<dirs, job, calls>>
      /\ \/ installing[i] = "refresh" /\ answer' = [answer EXCEPT ![i] = "installed"]
         \/ installing[i] = "idle" /\ UNCHANGED answer
  BY DEF Skill!Refresh, Skill!Reload, Skill!End, Skill!GoTo, SkillInv, SkillTyped
<1>2. /\ installing'[i] = "idle" /\ ~Copying(i) /\ ~Copying(i)'
      /\ answer'[i] = "installed" => Installed(i)
  BY <1>1 DEF SkillInv, SkillTyped, Copying, Installed
<1>3. SkillTyped'
  BY <1>1 DEF SkillInv, SkillTyped, Places
<1>4. Moves(i)
  BY <1>1, <1>2 DEF Moves, Others, OwnDirectory, Enters, Skill!FilesIn, SkillInv, SkillTyped
<1>5. DoneOf(i)'
  <2>1. ASSUME NEW k \in DOMAIN job'[i].missing, IsDone(i, k)' PROVE k \in DOMAIN job[i].missing /\ IsDone(i, k)
    BY <1>1, <1>2, <2>1 DEF IsDone, Installed
  <2> QED BY <1>1, <1>4, <2>1, DoneStays DEF DoneOf
<1>6. CheckedOf(i)'
  <2>1. \A k : Checked(i, k)' = Checked(i, k)
    BY <1>1 DEF Checked
  <2> QED BY <1>1, <1>2, <2>1 DEF SkillInv, CallOf, CheckedOf, Installed
<1>7. PositionOf(i)' /\ CopyOf(i)'
  BY <1>2 DEF PositionOf, CopyOf
<1>8. LoadOf(i)'
  <2> SUFFICES ASSUME answer'[i] = "installed", NEW k \in DOMAIN job'[i].missing
               PROVE  LoadsAs(library[i], Dir(i, k))'
    BY DEF LoadOf
  <2>1. LoadsAs(Skill!Discovered, Dir(i, k))
    BY <1>1, <1>2, LibraryRead
  <2>2. PICK skills : skills = Skill!Discovered /\ library'[i] = skills
    BY <1>1 DEF SkillInv, SkillTyped
  <2>3. LoadsAs(skills, Dir(i, k))
    BY <2>1, <2>2
  <2>4. LoadsAs(library[i], Dir(i, k))' = LoadsAs(skills, Dir(i, k))
    BY <1>1, <2>2 DEF LoadsAs, Skill!Loads, Skill!Found, Skill!FilesIn, Skill!TitleIn, Dir
  <2> QED BY <2>3, <2>4
<1> QED BY <1>3, <1>4, <1>5, <1>6, <1>7, <1>8 DEF CallOf

\* The process is killed.
LEMMA KillKeeps ==
  ASSUME SkillInv, NEW i \in Installers, Skill!Kill(i)
  PROVE  SkillTyped' /\ Moves(i) /\ CallOf(i)'
<1>1. /\ UNCHANGED <<dirs, library>> /\ calls' \in Nat /\ answer[i] # "installed"
      /\ installing' = [installing EXCEPT ![i] = "dead"]
      /\ answer' = answer /\ job' = [job EXCEPT ![i] = Skill!NoJob]
  BY NotYet DEF Skill!Kill, Skill!GoTo, SkillInv, SkillTyped
<1> QED BY <1>1, EndsWithout

\* The invariant is inductive.
LEMMA SkillNext == SkillInv /\ Skill!Next => SkillInv'
<1> SUFFICES ASSUME SkillInv, Skill!Next PROVE SkillInv'
  OBVIOUS
<1>1. PICK i \in Installers :
        \/ Skill!Call(i) \/ Skill!Look(i) \/ Skill!Check(i) \/ Skill!Fetch(i) \/ Skill!Plan(i)
        \/ Skill!MakeDirectory(i) \/ Skill!CopyFile(i) \/ Skill!CopyDone(i)
        \/ Skill!Refresh(i) \/ Skill!Reload(i) \/ Skill!Kill(i)
  BY DEF Skill!Next
<1>2. SkillTyped' /\ Moves(i) /\ CallOf(i)'
  BY <1>1, CallKeeps, LookKeeps, CheckKeeps, FetchKeeps, PlanKeeps, MakeKeeps, CopyKeeps,
     CopyDoneKeeps, RefreshKeeps, KillKeeps
<1>3. \A j \in Installers \ {i} : CallOf(j)'
  BY <1>2, OthersKeep
<1> QED BY <1>2, <1>3 DEF SkillInv

\* Steps of the other stores leave the skills alone.
LEMMA SkillStays == SkillInv /\ UNCHANGED skillVars => SkillInv'
<1> SUFFICES ASSUME SkillInv, UNCHANGED skillVars PROVE SkillInv'
  OBVIOUS
<1> USE DEF skillVars
<1>1. SkillTyped'
  BY DEF SkillInv, SkillTyped
<1>2. \A i, k : /\ Dir(i, k)' = Dir(i, k) /\ Checked(i, k)' = Checked(i, k)
                /\ Copying(i)' = Copying(i) /\ Installed(i)' = Installed(i)
                /\ IsDone(i, k)' = IsDone(i, k) /\ Dir(i, job[i].pos)' = Dir(i, job[i].pos)
                /\ Checked(i, job[i].pos)' = Checked(i, job[i].pos)
                /\ Skill!Path(i)' = Skill!Path(i)
                /\ LoadsAs(library[i], Dir(i, k))' = LoadsAs(library[i], Dir(i, k))
  BY DEF Dir, Checked, Copying, Installed, IsDone, Skill!Path, LoadsAs, Skill!Loads, Skill!Found,
         Skill!FilesIn, Skill!TitleIn
<1>3. \A i \in Installers : CallOf(i)'
  <2> TAKE i \in Installers
  <2>1. (PositionOf(i) /\ CheckedOf(i) /\ LoadOf(i))'
    BY <1>2 DEF SkillInv, CallOf, PositionOf, CheckedOf, LoadOf
  <2>2. CopyOf(i)'
    BY <1>2 DEF SkillInv, CallOf, CopyOf, OfCall
  <2>3. DoneOf(i)'
    BY <1>2 DEF SkillInv, CallOf, DoneOf, OfCall
  <2> QED BY <2>1, <2>2, <2>3 DEF CallOf
<1> QED BY <1>1, <1>3 DEF SkillInv

\* There are no skills, and no calls, at first.
LEMMA SkillInit == MCInit => SkillInv
<1> SUFFICES ASSUME MCInit PROVE SkillInv
  OBVIOUS
<1> USE DEF MCInit, Skill!Init
<1>1. job \in [Installers -> Jobs] /\ \A i \in Installers : job[i] = Skill!NoJob
  BY NoJobTyped
<1>2. \A i \in Installers : job[i].missing = <<>>
  BY <1>1 DEF Skill!NoJob
<1>3. SkillTyped
  <2>1. dirs \in [DOMAIN dirs -> Directories]
    OBVIOUS
  <2> QED BY <1>1, <2>1 DEF SkillTyped, Places
<1>4. \A i \in Installers : CallOf(i)
  BY <1>2 DEF CallOf, PositionOf, CheckedOf, CopyOf, DoneOf, LoadOf, Installed, IsDone, Copying
<1> QED BY <1>3, <1>4 DEF SkillInv

\* For any number of processes, calls and skills, with copies that fail and processes that
\* are killed anywhere: a skill that is reported as installed is whole and from one call,
\* and can be loaded unless another skill has its name.
THEOREM InstalledSkillsWork == MCSpec => []InstalledSkillWorks
<1>1. SkillInv => InstalledSkillWorks
  <2> SUFFICES ASSUME SkillInv, NEW i \in Installers, answer[i] = "installed",
                      NEW p \in Skill!Range(job[i].missing)
               PROVE  LET n == NameOf[p]
                      IN  /\ dirs[n].written = {[file |-> f, call |-> job[i].number] : f \in job[i].content[p].files}
                          /\ Skill!SKILL \in Skill!FilesIn(n)
                          /\ Skill!Cardinality(Skill!FilesIn(n)) <= MaxFiles
                          /\ \/ Skill!Loads(library[i], n) = {n}
                             \/ \E m \in Skill!Found \ {n} : Skill!TitleIn(m) \in {n, TitleOf[p]}
    BY DEF InstalledSkillWorks, Skill!InstalledSkillWorks
  <2>1. PICK k \in DOMAIN job[i].missing : job[i].missing[k] = p
    BY DEF Skill!Range
  <2>2. Dir(i, k) = NameOf[p] /\ Checked(i, k) = job[i].content[p].files
    BY <2>1 DEF Dir, Checked
  <2>3. /\ Dir(i, k) \in DOMAIN dirs /\ dirs[Dir(i, k)].skill = p
        /\ dirs[Dir(i, k)].written = OfCall(i, Checked(i, k))
    BY <2>1 DEF SkillInv, CallOf, DoneOf, IsDone, Installed
  <2>4. Skill!SKILL \in Checked(i, k) /\ Cardinality(Checked(i, k)) <= MaxFiles
    BY DEF SkillInv, CallOf, CheckedOf, Installed
  <2>5. Skill!FilesIn(Dir(i, k)) = Checked(i, k)
    <3>1. \A w \in dirs[Dir(i, k)].written : w.file \in Checked(i, k)
      BY <2>3 DEF OfCall
    <3>2. ASSUME NEW f \in Checked(i, k)
          PROVE  \E w \in dirs[Dir(i, k)].written : w.file = f
      <4>1. [file |-> f, call |-> job[i].number] \in dirs[Dir(i, k)].written
        BY <2>3 DEF OfCall
      <4> QED BY <4>1
    <3> QED BY <3>1, <3>2 DEF Skill!FilesIn
  <2>6. LoadsAs(library[i], Dir(i, k))
    BY DEF SkillInv, CallOf, LoadOf
  <2>7. Skill!TitleIn(Dir(i, k)) = TitleOf[p]
    BY <2>3 DEF Skill!TitleIn
  <2> QED BY <2>2, <2>3, <2>4, <2>5, <2>6, <2>7, SameCount DEF LoadsAs, OfCall
<1>2. SkillInv /\ [MCNext]_<<store, vars, sessionVars, dreamVars, taskVars, skillVars>> => SkillInv'
  <2>1. CASE Skill!Next
    BY <2>1, SkillNext
  <2>2. CASE UNCHANGED skillVars
    BY <2>2, SkillStays
  <2> QED BY <2>1, <2>2 DEF MCNext
<1> QED BY <1>1, <1>2, SkillInit, PTL DEF MCSpec

---------------------------------------------------------------------------
(* The index of the sessions *)

\* While one thread has the index in hand, what it has read is all there is, and nobody
\* else has read it.
ListedInv ==
    /\ writerAt \in [Writers -> {"idle", "write", "read", "truncate", "fill"}]
    /\ DOMAIN using = Writers /\ DOMAIN seen = Writers /\ readable \in BOOLEAN
    /\ ~raced =>
         /\ \A v, w \in Writers : Session!Holds(v) /\ Session!Holds(w) => v = w
         /\ readable => created \subseteq index
         /\ ~readable => \E w \in Writers : writerAt[w] = "fill"
         /\ \A w \in Writers : Session!Holds(w) => created \subseteq seen[w]

\* Every step of the sessions' threads keeps the index as ListedInv says.
LEMMA ListedNext == ListedInv /\ Session!Next => ListedInv'
<1> SUFFICES ASSUME ListedInv, Session!Next PROVE ListedInv'
  OBVIOUS
<1> USE DEF ListedInv, Session!Holds, Session!Goto, Session!indexVars, Session!fileVars,
     Session!history
<1>1. ASSUME NEW w \in Writers, Session!Create(w) PROVE ListedInv'
  BY <1>1 DEF Session!Create
<1>2. ASSUME NEW w \in Writers, Session!WriteEvent(w) PROVE ListedInv'
  BY <1>2 DEF Session!WriteEvent
<1>3. ASSUME NEW w \in Writers, Session!ReadIndex(w) PROVE ListedInv'
  <2>1. /\ writerAt[w] = "read" /\ writerAt' = [writerAt EXCEPT ![w] = "truncate"]
        /\ seen' = [seen EXCEPT ![w] = Session!Index]
        /\ raced' = (raced \/ \E v \in Writers : Session!Holds(v))
        /\ UNCHANGED <<index, readable, using, created>>
    BY <1>3 DEF Session!ReadIndex
  <2>2. ASSUME ~raced'
        PROVE  /\ readable /\ \A v \in Writers : v # w => ~Session!Holds(v)'
               /\ created \subseteq Session!Index
    BY <2>1, <2>2 DEF Session!Index
  <2> QED BY <2>1, <2>2
<1>4. ASSUME NEW w \in Writers, Session!Truncate(w) PROVE ListedInv'
  BY <1>4 DEF Session!Truncate
<1>5. ASSUME NEW w \in Writers, Session!Fill(w) PROVE ListedInv'
  <2>1. /\ writerAt[w] = "fill" /\ writerAt' = [writerAt EXCEPT ![w] = "idle"]
        /\ index' = {using[w]} \union (seen[w] \ {using[w]}) /\ readable' = TRUE
        /\ created' = created \union {using[w]} /\ raced' = raced
        /\ DOMAIN using' = Writers /\ DOMAIN seen' = Writers
    BY <1>5 DEF Session!Fill, Session!Others
  <2>2. ASSUME ~raced PROVE created \subseteq seen[w] /\ \A v \in Writers : ~Session!Holds(v)'
    BY <2>1, <2>2
  <2> QED BY <2>1, <2>2
<1>6. ASSUME NEW w \in Writers, NEW s \in Ids, Session!LookUp(w, s) PROVE ListedInv'
  BY <1>6 DEF Session!LookUp
<1>7. CASE Session!Crash
  BY <1>7 DEF Session!Crash
<1> QED BY <1>1, <1>2, <1>3, <1>4, <1>5, <1>6, <1>7 DEF Session!Next

\* For any number of threads, sessions, events and crashes: no session leaves the index
\* that create has put there, unless two threads had it in hand at once or a crash hit
\* it truncated.
THEOREM SessionsAlwaysStayListed == MCSpec => []SessionsStayListed
<1>1. MCInit => ListedInv
  BY DEF MCInit, Session!Init, ListedInv, Session!Holds
<1>2. ListedInv /\ UNCHANGED sessionVars => ListedInv'
  BY DEF ListedInv, sessionVars, Session!Holds
<1>3. ListedInv /\ [MCNext]_<<store, vars, sessionVars, dreamVars, taskVars, skillVars>> => ListedInv'
  BY <1>2, ListedNext DEF MCNext
<1>4. ListedInv => SessionsStayListed
  BY DEF ListedInv, SessionsStayListed, Session!SessionsStayListed, Session!Holds, Session!Index
<1> QED BY <1>1, <1>3, <1>4, PTL DEF MCSpec

---------------------------------------------------------------------------
(* The events of a session *)

\* Events are numbered in the order in which they are appended.
Increasing(seq) == \A j, k \in DOMAIN seq : j < k => seq[j] < seq[k]

\* A thread is about to write the last event of this session.
Writing(s) == \E w \in Writers : using[w] = s /\ writerAt[w] = "write"

\* How many events of this session a file lacks, and will lack for a line cut short.
InHand(s) == IF Writing(s) THEN 1 ELSE 0
Glued(s) == IF s \in tornLines THEN 1 ELSE 0
Lost(s) == Len(given[s]) - Len(lines[s]) - InHand(s) + Glued(s)

\* The events of a session: numbered, read back in order, and few of them lost.
EventsOf(s) ==
    /\ Increasing(given[s]) /\ Increasing(lines[s])
    /\ \A k \in DOMAIN given[s] : given[s][k] <= events
    /\ \A k \in DOMAIN lines[s] : \E j \in DOMAIN given[s] : given[s][j] = lines[s][k]
    /\ Writing(s) => given[s] # <<>> /\ \A k \in DOMAIN lines[s] : lines[s][k] < given[s][Len(given[s])]
    /\ ~raced => Lost(s) <= 2 * crashes

\* The types, that no two threads write in one session, and the events of each.
EventTyped ==
    /\ events \in Nat /\ crashes \in Nat
    /\ given \in [Ids -> Seq(Nat)] /\ lines \in [Ids -> Seq(Nat)]
    /\ DOMAIN using = Writers /\ DOMAIN writerAt = Writers
    /\ \A w \in Writers : writerAt[w] = "write" => using[w] \in Ids
    /\ \A v, w \in Writers :
         writerAt[v] = "write" /\ writerAt[w] = "write" /\ using[v] = using[w] => v = w
EventInv == EventTyped /\ \A s \in Ids : EventsOf(s)

\* What a sequence holds when an element is appended.
LEMMA Appended ==
  ASSUME NEW S, NEW seq \in Seq(S), NEW e \in S, NEW new, new = seq \o <<e>>
  PROVE  /\ new \in Seq(S) /\ new # <<>> /\ new[Len(new)] = e /\ Len(new) \in DOMAIN new
         /\ Len(new) = Len(seq) + 1 /\ DOMAIN new = 1..(Len(seq) + 1) /\ DOMAIN seq = 1..Len(seq)
         /\ \A k \in DOMAIN seq : k \in DOMAIN new /\ new[k] = seq[k]
         /\ \A k \in DOMAIN new : new[k] = e \/ (k \in DOMAIN seq /\ new[k] = seq[k])
<1>1. Len(seq) \in Nat /\ DOMAIN seq = 1..Len(seq) /\ <<e>> \in Seq(S) /\ Len(<<e>>) = 1
  OBVIOUS
<1>2. new \in Seq(S) /\ Len(new) = Len(seq) + 1 /\ DOMAIN new = 1..Len(new)
  BY <1>1
<1>3. \A k \in 1..Len(new) : new[k] = IF k <= Len(seq) THEN seq[k] ELSE e
  BY <1>1, <1>2
<1> QED BY <1>1, <1>2, <1>3

\* What the events of a session depend on.
LEMMA EventsStay ==
  ASSUME EventInv, NEW s \in Ids, events' \in Nat, events <= events', UNCHANGED crashes, given'[s] = given[s],
         lines'[s] = lines[s], Writing(s)' <=> Writing(s), s \in tornLines' <=> s \in tornLines,
         raced => raced'
  PROVE  EventsOf(s)'
<1>1. Lost(s)' = Lost(s)
  BY DEF Lost, InHand, Glued
<1>2. EventsOf(s) /\ (~raced' => ~raced)
  BY DEF EventInv
<1>0. given[s] \in Seq(Nat) /\ lines[s] \in Seq(Nat) /\ events \in Nat
  BY DEF EventInv, EventTyped
<1>3. Increasing(given[s])' /\ Increasing(lines[s])'
  <2>1. Increasing(given[s]) /\ Increasing(lines[s])
    BY <1>2 DEF EventsOf
  <2> QED BY <1>0, <2>1 DEF Increasing
<1>4. \A k \in DOMAIN given'[s] : given'[s][k] <= events'
  BY <1>0, <1>2 DEF EventsOf
<1>5. \A k \in DOMAIN lines'[s] : \E j \in DOMAIN given'[s] : given'[s][j] = lines'[s][k]
  BY <1>2 DEF EventsOf
<1>6. Writing(s)' => given'[s] # <<>> /\ \A k \in DOMAIN lines'[s] : lines'[s][k] < given'[s][Len(given'[s])]
  BY <1>2 DEF EventsOf
<1>7. ~raced' => Lost(s)' <= 2 * crashes'
  BY <1>1, <1>2 DEF EventsOf
<1> QED BY <1>3, <1>4, <1>5, <1>6, <1>7 DEF EventsOf

\* The steps on the index alone.
LEMMA EventsQuiet ==
  ASSUME EventInv, DOMAIN using' = Writers, DOMAIN writerAt' = Writers,
         UNCHANGED <<lines, tornLines, events, crashes, given>>, raced => raced',
         \A w \in Writers : (writerAt'[w] = "write" <=> writerAt[w] = "write")
                            /\ (writerAt[w] = "write" => using'[w] = using[w])
  PROVE  EventInv'
<1>1. \A s \in Ids : Writing(s)' <=> Writing(s)
  BY DEF Writing
<1>2. EventTyped'
  BY DEF EventInv, EventTyped
<1>3. ASSUME NEW s \in Ids PROVE EventsOf(s)'
  <2>1. events' \in Nat /\ events <= events'
    BY DEF EventInv, EventTyped
  <2> QED BY <1>1, <2>1, EventsStay
<1> QED BY <1>2, <1>3 DEF EventInv

\* The session is found, unless the index is in another thread's hands, and its new event
\* is the last.
LEMMA EventsLookUp ==
  ASSUME EventInv, ListedInv, NEW w \in Writers, NEW s \in Ids, Session!LookUp(w, s)
  PROVE  EventInv'
<1>1. /\ writerAt[w] = "idle" /\ \A v \in Writers : using[v] # s
      /\ events \in Nat /\ events' = events + 1 /\ events' \in Nat /\ s \in created
      /\ given' = [given EXCEPT ![s] = @ \o <<events'>>]
      /\ \/ writerAt' = [writerAt EXCEPT ![w] = "write"] /\ using' = [using EXCEPT ![w] = s]
         \/ s \notin Session!Index /\ UNCHANGED <<writerAt, using>>
      /\ raced' = (raced \/ \E v \in Writers : Session!Holds(v))
      /\ UNCHANGED <<lines, tornLines, crashes>>
  BY DEF EventInv, EventTyped, Session!LookUp, Session!Goto, Session!indexVars, Session!fileVars
<1>2. given[s] \in Seq(Nat) /\ Len(given[s]) \in Nat /\ lines[s] \in Seq(Nat) /\ Len(lines[s]) \in Nat
  BY DEF EventInv, EventTyped
<1>3. /\ given'[s] = given[s] \o <<events'>> /\ given'[s] \in Seq(Nat)
      /\ Len(given'[s]) = Len(given[s]) + 1 /\ given'[s] # <<>>
      /\ given'[s][Len(given'[s])] = events'
      /\ DOMAIN given'[s] = 1..(Len(given[s]) + 1) /\ DOMAIN given[s] = 1..Len(given[s])
      /\ \A k \in DOMAIN given[s] : given'[s][k] = given[s][k]
  <2>1. given'[s] = given[s] \o <<events'>>
    BY <1>1 DEF EventInv, EventTyped
  <2> QED BY <1>1, <1>2, <2>1, Appended
<1>4. \A r \in Ids \ {s} : given'[r] = given[r]
  BY <1>1 DEF EventInv, EventTyped
<1>5. EventTyped'
  <2>1. given' \in [Ids -> Seq(Nat)]
    BY <1>1, <1>3 DEF EventInv, EventTyped
  <2>2. /\ lines' \in [Ids -> Seq(Nat)] /\ events' \in Nat /\ crashes' \in Nat
        /\ DOMAIN using' = Writers /\ DOMAIN writerAt' = Writers
    BY <1>1 DEF EventInv, EventTyped
  <2>3. CASE UNCHANGED <<writerAt, using>>
    BY <2>1, <2>2, <2>3 DEF EventInv, EventTyped
  <2>4. CASE writerAt' = [writerAt EXCEPT ![w] = "write"] /\ using' = [using EXCEPT ![w] = s]
    <3>1. \A v \in Writers \ {w} : writerAt'[v] = writerAt[v] /\ using'[v] = using[v] /\ using[v] # s
      BY <1>1, <2>4 DEF EventInv, EventTyped
    <3>2. using'[w] = s
      BY <2>4 DEF EventInv, EventTyped
    <3> QED BY <2>1, <2>2, <3>1, <3>2 DEF EventInv, EventTyped
  <2> QED BY <1>1, <2>3, <2>4
<1>6. ASSUME NEW r \in Ids \ {s} PROVE EventsOf(r)'
  <2>1. Writing(r)' <=> Writing(r)
    BY <1>1, <1>6 DEF Writing, EventInv, EventTyped
  <2>2. /\ events' \in Nat /\ events <= events' /\ UNCHANGED crashes /\ (raced => raced')
        /\ given'[r] = given[r] /\ lines'[r] = lines[r] /\ (r \in tornLines' <=> r \in tornLines)
    <3>1. events' \in Nat /\ events <= events'
      BY <1>1
    <3> QED BY <1>1, <1>4, <1>6, <3>1
  <2> QED BY <1>6, <2>1, <2>2, EventsStay
<1>7. EventsOf(s)'
  <2>1. ~Writing(s) /\ (writerAt'[w] = "write" /\ using'[w] = s <=> Writing(s)')
    BY <1>1 DEF Writing, EventInv, EventTyped
  <2>2. \A k \in DOMAIN given[s] : given[s][k] \in Nat /\ given[s][k] <= events
    BY DEF EventInv, EventTyped, EventsOf
  <2>3. Increasing(given'[s])
    BY <1>1, <1>2, <1>3, <2>2 DEF EventInv, EventsOf, Increasing
  <2>4. \A k \in DOMAIN given'[s] : given'[s][k] <= events'
    BY <1>1, <1>2, <1>3, <2>2
  <2>5. \A k \in DOMAIN lines[s] : \E j \in DOMAIN given[s] : given[s][j] = lines[s][k]
    BY DEF EventInv, EventsOf
  <2>6. ASSUME NEW k \in DOMAIN lines[s]
        PROVE  (\E j \in DOMAIN given'[s] : given'[s][j] = lines[s][k]) /\ lines[s][k] < events'
    <3>1. PICK j \in DOMAIN given[s] : given[s][j] = lines[s][k]
      BY <2>5
    <3>2. j \in DOMAIN given'[s] /\ given'[s][j] = lines[s][k]
      BY <1>2, <1>3, <3>1
    <3>3. lines[s][k] \in Nat /\ lines[s][k] <= events
      BY <2>2, <3>1
    <3> QED BY <1>1, <3>2, <3>3
  <2>7. ASSUME ~raced' PROVE Lost(s)' <= 2 * crashes
    <3>1. ~raced /\ s \in Session!Index
      <4>1. ~raced /\ \A v \in Writers : ~Session!Holds(v)
        BY <1>1, <2>7
      <4> QED BY <1>1, <4>1 DEF ListedInv, Session!Holds, Session!Index
    <3>2. Writing(s)'
      BY <1>1, <2>1, <3>1 DEF EventInv, EventTyped
    <3>3. Lost(s) <= 2 * crashes
      BY <3>1 DEF EventInv, EventsOf
    <3>4. InHand(s) = 0 /\ InHand(s)' = 1 /\ Glued(s)' = Glued(s) /\ Glued(s) \in Nat
      BY <1>1, <2>1, <3>2 DEF InHand, Glued
    <3>5. Lost(s)' = Lost(s)
      <4>1. Len(given'[s]) = Len(given[s]) + 1 /\ Len(lines'[s]) = Len(lines[s])
        BY <1>1, <1>3
      <4>2. PICK g \in Nat, l \in Nat, c \in Nat :
              g = Len(given[s]) /\ l = Len(lines[s]) /\ c = Glued(s)
        BY <1>2, <3>4
      <4>3. Lost(s) = g - l - 0 + c
        BY <3>4, <4>2 DEF Lost
      <4>4. Lost(s)' = (g + 1) - l - 1 + c
        BY <3>4, <4>1, <4>2 DEF Lost
      <4> QED BY <4>3, <4>4
    <3> QED BY <1>1, <3>3, <3>5
  <2>8. Increasing(lines[s])
    BY DEF EventInv, EventsOf
  <2>9. Increasing(lines[s])'
    BY <1>1, <2>8 DEF Increasing
  <2>10. /\ Increasing(given[s])'
         /\ \A k \in DOMAIN given'[s] : given'[s][k] <= events'
         /\ \A k \in DOMAIN lines'[s] : \E j \in DOMAIN given'[s] : given'[s][j] = lines'[s][k]
         /\ given'[s] # <<>>
         /\ \A k \in DOMAIN lines'[s] : lines'[s][k] < given'[s][Len(given'[s])]
    <3>1. Increasing(given[s])'
      BY <2>3 DEF Increasing
    <3>2. lines'[s] = lines[s]
      BY <1>1
    <3>3. \A k \in DOMAIN lines'[s] : /\ \E j \in DOMAIN given'[s] : given'[s][j] = lines'[s][k]
                                     /\ lines'[s][k] < events'
      BY <2>6, <3>2
    <3>4. given'[s] # <<>> /\ given'[s][Len(given'[s])] = events'
      BY <1>3
    <3> QED BY <2>4, <3>1, <3>3, <3>4
  <2>11. ~raced' => Lost(s)' <= 2 * crashes'
    BY <1>1, <2>7
  <2> QED BY <2>9, <2>10, <2>11 DEF EventsOf
<1> QED BY <1>5, <1>6, <1>7 DEF EventInv

\* A line is written, or glued to one that was cut short.
LEMMA EventsWrite ==
  ASSUME EventInv, NEW w \in Writers, Session!WriteEvent(w)
  PROVE  EventInv'
<1>0. PICK s : s = using[w]
  OBVIOUS
<1>1. /\ writerAt[w] = "write" /\ s \in Ids /\ s = using[w] /\ writerAt' = [writerAt EXCEPT ![w] = "read"]
      /\ lines' = IF s \in tornLines THEN lines
                  ELSE [lines EXCEPT ![s] = @ \o <<given[s][Len(given[s])]>>]
      /\ tornLines' = tornLines \ {s}
      /\ UNCHANGED <<using, events, crashes, given, raced>>
  BY <1>0 DEF EventInv, EventTyped, Session!WriteEvent, Session!Goto, Session!Last,
       Session!indexVars,
         Session!history
<1>2. /\ given[s] \in Seq(Nat) /\ Len(given[s]) \in Nat /\ lines[s] \in Seq(Nat) /\ Len(lines[s]) \in Nat
      /\ Writing(s) /\ given[s] # <<>> /\ Len(given[s]) \in DOMAIN given[s]
      /\ given[s][Len(given[s])] \in Nat /\ crashes \in Nat
  BY <1>1 DEF EventInv, EventTyped, EventsOf, Writing
<1>3. ~Writing(s)' /\ \A r \in Ids \ {s} : Writing(r)' <=> Writing(r)
  BY <1>1 DEF EventInv, EventTyped, Writing
<1>4. lines' \in [Ids -> Seq(Nat)] /\ \A r \in Ids \ {s} : lines'[r] = lines[r]
  BY <1>1, <1>2 DEF EventInv, EventTyped
<1>5. EventTyped'
  BY <1>1, <1>4 DEF EventInv, EventTyped
<1>6. ASSUME NEW r \in Ids \ {s} PROVE EventsOf(r)'
  <2>1. /\ events' \in Nat /\ events <= events' /\ UNCHANGED <<crashes, given>> /\ (raced => raced')
        /\ lines'[r] = lines[r] /\ (r \in tornLines' <=> r \in tornLines)
    BY <1>1, <1>4, <1>6 DEF EventInv, EventTyped
  <2> QED BY <1>3, <1>6, <2>1, EventsStay
<1>7. EventsOf(s)'
  <2>1. CASE s \in tornLines
    <3>1. lines' = lines
      BY <1>1, <2>1
    <3>2. InHand(s) = 1 /\ InHand(s)' = 0 /\ Glued(s) = 1 /\ Glued(s)' = 0
      BY <1>1, <1>2, <1>3, <2>1 DEF InHand, Glued
    <3>3. Lost(s)' = Lost(s)
      <4>1. PICK g \in Nat, l \in Nat : g = Len(given[s]) /\ l = Len(lines[s])
        BY <1>2
      <4>2. Lost(s) = g - l - 1 + 1
        BY <1>1, <3>2, <4>1 DEF Lost
      <4>3. Lost(s)' = g - l - 0 + 0
        BY <1>1, <3>1, <3>2, <4>1 DEF Lost
      <4> QED BY <4>2, <4>3
    <3>4. EventsOf(s)
      BY <1>1 DEF EventInv
    <3>5. Increasing(given[s])' /\ Increasing(lines[s])'
      BY <1>1, <3>1, <3>4 DEF EventsOf, Increasing
    <3> QED BY <1>1, <1>3, <3>1, <3>3, <3>4, <3>5 DEF EventsOf
  <2>2. CASE s \notin tornLines
    <3> DEFINE e == given[s][Len(given[s])]
    <3>1. /\ Len(lines'[s]) = Len(lines[s]) + 1
          /\ DOMAIN lines'[s] = 1..(Len(lines[s]) + 1) /\ DOMAIN lines[s] = 1..Len(lines[s])
          /\ \A k \in DOMAIN lines[s] : lines'[s][k] = lines[s][k]
          /\ lines'[s][Len(lines[s]) + 1] = e
      <4>1. lines'[s] = lines[s] \o <<e>>
        BY <1>1, <2>2 DEF EventInv, EventTyped
      <4>2. lines[s] \in Seq(Nat) /\ e \in Nat
        BY <1>2
      <4> HIDE DEF e
      <4> QED BY <4>1, <4>2, Appended
    <3>2. \A k \in DOMAIN lines[s] : lines[s][k] \in Nat /\ lines[s][k] < e
      <4>1. \A k \in DOMAIN lines[s] : lines[s][k] < e
        BY <1>1, <1>2 DEF EventInv, EventsOf
      <4>2. \A k \in DOMAIN lines[s] : lines[s][k] \in Nat
        BY <1>2
      <4> QED BY <4>1, <4>2
    <3>3. Increasing(lines'[s])
      <4>1. Increasing(lines[s])
        BY <1>1 DEF EventInv, EventsOf
      <4>2. ASSUME NEW j \in DOMAIN lines'[s], NEW k \in DOMAIN lines'[s], j < k
            PROVE  lines'[s][j] < lines'[s][k]
        <5>1. j \in DOMAIN lines[s] /\ (k \in DOMAIN lines[s] \/ k = Len(lines[s]) + 1)
          <6>1. PICK l \in Nat : l = Len(lines[s])
            BY <1>2
          <6>2. j \in 1..(l + 1) /\ k \in 1..(l + 1) /\ DOMAIN lines[s] = 1..l
            BY <3>1, <6>1
          <6> QED BY <4>2, <6>1, <6>2
        <5>2. CASE k \in DOMAIN lines[s]
          BY <3>1, <4>1, <4>2, <5>1, <5>2 DEF Increasing
        <5>3. CASE k = Len(lines[s]) + 1
          BY <3>1, <3>2, <5>1, <5>3
        <5> QED BY <5>1, <5>2, <5>3
      <4> QED BY <4>2 DEF Increasing
    <3>4. \A k \in DOMAIN lines'[s] : \E j \in DOMAIN given[s] : given[s][j] = lines'[s][k]
      <4>1. \A k \in DOMAIN lines[s] : \E j \in DOMAIN given[s] : given[s][j] = lines[s][k]
        BY <1>1 DEF EventInv, EventsOf
      <4> SUFFICES ASSUME NEW k \in DOMAIN lines'[s]
                   PROVE  \E j \in DOMAIN given[s] : given[s][j] = lines'[s][k]
        OBVIOUS
      <4>2. CASE k \in DOMAIN lines[s]
        BY <3>1, <4>1, <4>2
      <4>3. CASE k = Len(lines[s]) + 1
        BY <1>2, <3>1, <4>3
      <4> QED BY <1>2, <3>1, <4>2, <4>3
    <3>5. InHand(s) = 1 /\ InHand(s)' = 0 /\ Glued(s) = 0 /\ Glued(s)' = 0
      BY <1>1, <1>2, <1>3, <2>2 DEF InHand, Glued
    <3>6. Lost(s)' = Lost(s)
      <4>1. PICK g \in Nat, l \in Nat : g = Len(given[s]) /\ l = Len(lines[s])
        BY <1>2
      <4>2. Lost(s) = g - l - 1 + 0
        BY <1>1, <3>5, <4>1 DEF Lost
      <4>3. Lost(s)' = g - (l + 1) - 0 + 0
        BY <1>1, <3>1, <3>5, <4>1 DEF Lost
      <4> QED BY <4>2, <4>3
    <3>7. EventsOf(s)
      BY <1>1 DEF EventInv
    <3>8. Increasing(given[s])' /\ Increasing(lines[s])'
      <4>1. Increasing(given[s])
        BY <3>7 DEF EventsOf
      <4>2. Increasing(given[s])'
        BY <1>1, <4>1 DEF Increasing
      <4>3. Increasing(lines[s])'
        BY <1>1, <3>3 DEF Increasing
      <4> QED BY <4>2, <4>3
    <3> QED BY <1>1, <1>3, <3>4, <3>6, <3>7, <3>8 DEF EventsOf
  <2> QED BY <2>1, <2>2
<1> QED BY <1>5, <1>6, <1>7 DEF EventInv

\* A crash costs the event that was being written, and the next if its line is cut short.
LEMMA EventsCrash ==
  ASSUME EventInv, Session!Crash
  PROVE  EventInv'
<1>1. /\ crashes \in Nat /\ crashes' = crashes + 1
      /\ tornLines' \in {tornLines, tornLines \union {using[w] : w \in {v \in Writers : writerAt[v] = "write"}}}
      /\ raced' = (raced \/ ~readable)
      /\ writerAt' = [w \in Writers |-> "idle"] /\ using' = [w \in Writers |-> NoId]
      /\ UNCHANGED <<lines, events, given>>
  BY DEF EventInv, EventTyped, Session!Crash, Session!indexVars
<1>2. EventTyped'
  BY <1>1 DEF EventInv, EventTyped
<1>3. ASSUME NEW s \in Ids PROVE EventsOf(s)'
  <2>1. ~Writing(s)' /\ (s \in tornLines' => s \in tornLines \/ Writing(s)) /\ (s \in tornLines => s \in tornLines')
    BY <1>1 DEF Writing
  <2>2. Len(given[s]) \in Nat /\ Len(lines[s]) \in Nat
    BY DEF EventInv, EventTyped
  <2>3. ASSUME ~raced' PROVE Lost(s)' <= 2 * crashes'
    <3>1. Lost(s) <= 2 * crashes
      BY <1>1, <2>3 DEF EventInv, EventsOf
    <3>2. /\ InHand(s) \in {0, 1} /\ InHand(s)' = 0 /\ Glued(s) \in {0, 1} /\ Glued(s)' \in {0, 1}
          /\ Glued(s)' <= Glued(s) + 1
      BY <2>1 DEF InHand, Glued
    <3>3. PICK g \in Nat, l \in Nat, h \in {0, 1}, c \in {0, 1}, d \in {0, 1} :
            g = Len(given[s]) /\ l = Len(lines[s]) /\ h = InHand(s) /\ c = Glued(s) /\ d = Glued(s)'
      BY <2>2, <3>2
    <3>4. Lost(s) = g - l - h + c
      BY <3>3 DEF Lost
    <3>5. Lost(s)' = g - l - 0 + d
      BY <1>1, <3>2, <3>3 DEF Lost
    <3>6. Lost(s)' <= Lost(s) + 2
      BY <3>4, <3>5
    <3>7. PICK n \in Nat : n = crashes /\ crashes' = n + 1
      BY <1>1
    <3> QED BY <3>1, <3>4, <3>5, <3>6, <3>7
  <2> QED BY <1>1, <2>1, <2>3 DEF EventInv, EventsOf, Increasing
<1> QED BY <1>2, <1>3 DEF EventInv

\* For any number of sessions, threads, events and crashes: while the index is whole, a
\* session's events are read back in their order, but for two for each crash.
THEOREM EventsAreAlwaysReadBack == MCSpec => []EventsAreReadBack
<1>1. MCInit => ListedInv /\ EventInv
  <2> SUFFICES ASSUME MCInit PROVE ListedInv /\ EventInv
    OBVIOUS
  <2> USE DEF MCInit, Session!Init
  <2>1. ListedInv
    BY DEF ListedInv, Session!Holds
  <2>2. EventTyped
    BY DEF EventTyped
  <2>3. ASSUME NEW s \in Ids PROVE EventsOf(s)
    <3>1. given[s] = <<>> /\ lines[s] = <<>> /\ ~Writing(s) /\ InHand(s) = 0 /\ Glued(s) = 0 /\ crashes = 0
      BY DEF Writing, InHand, Glued
    <3>2. Lost(s) = 0
      BY <3>1 DEF Lost
    <3> QED BY <3>1, <3>2 DEF EventsOf, Increasing
  <2> QED BY <2>1, <2>2, <2>3 DEF EventInv
<1>2. ASSUME ListedInv, EventInv, Session!Next PROVE EventInv'
  <2>1. CASE Session!Crash
    BY <1>2, <2>1, EventsCrash
  <2>2. ASSUME NEW w \in Writers, NEW s \in Ids, Session!LookUp(w, s) PROVE EventInv'
    BY <1>2, <2>2, EventsLookUp
  <2>3. ASSUME NEW w \in Writers, Session!WriteEvent(w) PROVE EventInv'
    BY <1>2, <2>3, EventsWrite
  <2>4. ASSUME NEW w \in Writers,
               Session!Create(w) \/ Session!ReadIndex(w) \/ Session!Truncate(w) \/ Session!Fill(w)
        PROVE  EventInv'
    <3>1. /\ UNCHANGED <<lines, tornLines, events, crashes, given>> /\ (raced => raced')
      <4>1. CASE Session!Create(w)
        BY <4>1 DEF Session!Create, Session!indexVars, Session!fileVars, Session!history
      <4>2. CASE Session!ReadIndex(w)
        BY <4>2 DEF Session!ReadIndex, Session!indexVars, Session!fileVars
      <4>3. CASE Session!Truncate(w)
        BY <4>3 DEF Session!Truncate, Session!fileVars, Session!history
      <4>4. CASE Session!Fill(w)
        BY <4>4 DEF Session!Fill, Session!fileVars
      <4> QED BY <2>4, <4>1, <4>2, <4>3, <4>4
    <3>2. /\ DOMAIN using' = Writers /\ DOMAIN writerAt' = Writers
          /\ \A v \in Writers : (writerAt'[v] = "write" <=> writerAt[v] = "write")
                                /\ (writerAt[v] = "write" => using'[v] = using[v])
      BY <1>2, <2>4 DEF EventInv, EventTyped, Session!Create, Session!ReadIndex, Session!Truncate,
                        Session!Fill, Session!Goto, Session!fileVars, Session!history
    <3> QED BY <1>2, <3>1, <3>2, EventsQuiet
  <2> QED BY <1>2, <2>1, <2>2, <2>3, <2>4 DEF Session!Next
<1>3. ListedInv /\ EventInv /\ UNCHANGED sessionVars => ListedInv' /\ EventInv'
  <2> SUFFICES ASSUME ListedInv, EventInv, UNCHANGED sessionVars PROVE ListedInv' /\ EventInv'
    OBVIOUS
  <2>1. ListedInv'
    BY DEF ListedInv, sessionVars, Session!Holds
  <2>2. EventInv'
    BY EventsQuiet DEF sessionVars, EventInv, EventTyped
  <2> QED BY <2>1, <2>2
<1>4. ListedInv /\ EventInv /\ [MCNext]_<<store, vars, sessionVars, dreamVars, taskVars, skillVars>>
        => ListedInv' /\ EventInv'
  BY <1>2, <1>3, ListedNext DEF MCNext
<1>5. EventInv => EventsAreReadBack
  <2> SUFFICES ASSUME EventInv, ~raced, NEW s \in Ids,
                      NEW written, written = IF Writing(s) THEN Session!Front(given[s]) ELSE given[s]
               PROVE  /\ Len(written) - Len(lines[s]) <= 2 * crashes
                      /\ Session!ToSet(lines[s]) \subseteq Session!ToSet(written)
                      /\ \A j, k \in DOMAIN lines[s] : j < k => lines[s][j] < lines[s][k]
    BY DEF EventsAreReadBack, Session!EventsAreReadBack, Writing
  <2>1. /\ given[s] \in Seq(Nat) /\ Len(given[s]) \in Nat /\ lines[s] \in Seq(Nat)
        /\ Len(lines[s]) \in Nat /\ crashes \in Nat /\ Lost(s) <= 2 * crashes
    BY DEF EventInv, EventTyped, EventsOf
  <2>2. /\ written \in Seq(Nat) /\ Len(written) = Len(given[s]) - (IF Writing(s) THEN 1 ELSE 0)
        /\ \A j \in 1..Len(written) : written[j] = given[s][j]
    BY <2>1 DEF Session!Front, EventInv, EventsOf
  <2>3. Len(written) - Len(lines[s]) <= 2 * crashes
    <3>1. Len(written) = Len(given[s]) - InHand(s) /\ InHand(s) \in Nat /\ Glued(s) \in Nat
      BY <2>2 DEF InHand, Glued
    <3>2. PICK g \in Nat, l \in Nat, h \in Nat, c \in Nat :
            g = Len(given[s]) /\ l = Len(lines[s]) /\ h = InHand(s) /\ c = Glued(s)
      BY <2>1, <3>1
    <3>3. Lost(s) = g - l - h + c
      BY <3>2 DEF Lost
    <3>4. Lost(s) <= 2 * crashes /\ crashes \in Nat
      BY <2>1
    <3>5. Len(written) = g - h
      BY <3>1, <3>2
    <3>6. PICK n \in Nat : n = crashes
      BY <2>1
    <3>7. PICK m : m = Len(written)
      OBVIOUS
    <3>8. m = g - h /\ g - l - h + c <= 2 * n
      BY <3>3, <3>4, <3>5, <3>6, <3>7
    <3>9. m - l <= 2 * n
      BY <3>8
    <3> QED BY <3>2, <3>6, <3>7, <3>9
  <2>4. ASSUME NEW k \in DOMAIN lines[s] PROVE lines[s][k] \in Session!ToSet(written)
    <3>1. PICK j \in DOMAIN given[s] : given[s][j] = lines[s][k]
      BY DEF EventInv, EventsOf
    <3>2. ASSUME Writing(s) PROVE j # Len(given[s])
      <4>1. \A i \in DOMAIN lines[s] : lines[s][i] < given[s][Len(given[s])]
        BY <3>2 DEF EventInv, EventsOf
      <4>2. given[s][j] < given[s][Len(given[s])] /\ given[s][j] \in Nat
        <5>1. lines[s][k] < given[s][Len(given[s])]
          BY <4>1
        <5>2. given[s][j] \in Nat
          BY <2>1, <3>1
        <5> QED BY <3>1, <5>1, <5>2
      <4> QED BY <4>2
    <3>3. j \in 1..Len(written)
      <4>1. PICK g \in Nat, h \in {0, 1} :
              g = Len(given[s]) /\ h = (IF Writing(s) THEN 1 ELSE 0) /\ Len(written) = g - h
        BY <2>1, <2>2
      <4>2. j \in 1..g
        BY <2>1, <3>1, <4>1
      <4>3. h = 1 => j # g
        BY <3>2, <4>1
      <4>4. j \in 1..(g - h)
        BY <4>2, <4>3
      <4> QED BY <4>1, <4>4
    <3>4. j \in DOMAIN written /\ written[j] = lines[s][k]
      BY <2>2, <3>1, <3>3
    <3> QED BY <3>4 DEF Session!ToSet
  <2>5. Session!ToSet(lines[s]) \subseteq Session!ToSet(written)
    BY <2>4 DEF Session!ToSet
  <2> QED BY <2>3, <2>5 DEF EventInv, EventsOf, Increasing
<1> QED BY <1>1, <1>4, <1>5, PTL DEF MCSpec

---------------------------------------------------------------------------
(* Dreams *)

\* The statuses of a dream and the records of the session file.
Statuses == {"none", "running", "accepted", "rejected", "failed"}
Records == [kind : {"run"}, dream : Nat, status : Statuses]
             \union [kind : {"diary"}, dream : Nat, number : Nat, revision : {0, 1}]

\* The variables hold what the code's can.
DreamTyped ==
    /\ dreamAt \in {"idle", "model", "tools", "save"} /\ dream \in 0..MaxDreams
    /\ drafts \in Seq({0, 1}) /\ saved \in Nat /\ torn \in BOOLEAN /\ log \in Seq(Records)
    /\ diaries \subseteq Records /\ runs \in [1..MaxDreams -> Statuses] /\ cut \subseteq 1..dream

\* The diaries in the log, those of the last dream, and its first n drafts; the dream is
\* not accepted anywhere; memory and log hold its first n drafts and no other.
InLog == {r \in Dream!ToSet(log) : r.kind = "diary"}
OfDream(set) == {d \in set : d.dream = dream}
Drafts(n) == {Dream!Diary(dream, k, drafts[k]) : k \in 1..n}
Unaccepted ==
    /\ runs[dream] # "accepted"
    /\ \A k \in DOMAIN log : ~(log[k].kind = "run" /\ log[k].dream = dream /\ log[k].status = "accepted")
Holding(n) == OfDream(diaries) = Drafts(n) /\ OfDream(InLog) = Drafts(n)

\* Memory and log agree on the last dream, at every step of its way.
DreamInv ==
    /\ DreamTyped
    /\ \A r \in diaries \union Dream!ToSet(log) : r.dream <= dream
    /\ dreamAt # "idle" => dream > 0 /\ dream \notin cut /\ ~torn /\ Unaccepted
    /\ dreamAt \in {"model", "tools"} => saved = 0 /\ Holding(0)
    /\ dreamAt = "save" => saved <= Len(drafts) /\ Holding(saved)
    /\ dreamAt = "idle" /\ dream > 0 /\ dream \notin cut =>
         \/ Unaccepted /\ Holding(0)
         \/ /\ runs[dream] = "accepted" /\ Holding(Len(drafts))
            /\ log # <<>>
            /\ LET r == log[Len(log)]
               IN r.kind = "run" /\ r.dream = dream /\ r.status = "accepted"
\* A record is the last line of the log, or is lost in one that was cut short.
LEMMA RecordWritten ==
  ASSUME DreamTyped, NEW e \in Records, Dream!Record(e)
  PROVE  /\ torn' = FALSE /\ log' \in Seq(Records)
         /\ torn => log' = log
         /\ ~torn => /\ log' = log \o <<e>> /\ log' # <<>> /\ Len(log') = Len(log) + 1
                     /\ log'[Len(log')] = e
                     /\ \A k \in DOMAIN log' : log'[k] = e \/ (k \in DOMAIN log /\ log'[k] = log[k])
                     /\ Dream!ToSet(log)' = Dream!ToSet(log) \union {e}
<1>1. torn' = FALSE /\ (torn => log' = log) /\ (~torn => log' = log \o <<e>>)
  BY DEF Dream!Record
<1>2. log \in Seq(Records)
  BY DEF DreamTyped
<1>3. ASSUME ~torn
      PROVE  /\ log' \in Seq(Records) /\ log' # <<>> /\ Len(log') = Len(log) + 1
             /\ log'[Len(log')] = e
             /\ \A k \in DOMAIN log' : log'[k] = e \/ (k \in DOMAIN log /\ log'[k] = log[k])
             /\ \A k \in DOMAIN log : k \in DOMAIN log' /\ log'[k] = log[k]
             /\ Len(log') \in DOMAIN log'
  BY <1>1, <1>2, <1>3, Appended
<1>4. ASSUME ~torn PROVE Dream!ToSet(log)' = Dream!ToSet(log) \union {e}
  BY <1>3, <1>4 DEF Dream!ToSet
<1> QED BY <1>1, <1>2, <1>3, <1>4

\* The last record of a dream that was accepted gives its status back.
LEMMA ReplayedStatus ==
  ASSUME DreamTyped, dream > 0
  PROVE  LET r == log[Len(log)] IN
         /\ log # <<>> /\ r.kind = "run" /\ r.dream = dream /\ r.status = "accepted"
              => Dream!StatusIn(log, dream) = "accepted"
         /\ (\A k \in DOMAIN log : ~(log[k].kind = "run" /\ log[k].dream = dream /\ log[k].status = "accepted"))
              => Dream!StatusIn(log, dream) # "accepted"
<1> DEFINE of == Dream!RunsOf(log, dream)
           r == log[Len(log)]
<1>1. log \in Seq(Records) /\ DOMAIN log = 1..Len(log) /\ Len(log) \in Nat
  BY DEF DreamTyped
<1>2. of \subseteq 1..Len(log)
  BY <1>1 DEF Dream!RunsOf
<1>3. ASSUME log # <<>>, r.kind = "run", r.dream = dream, r.status = "accepted"
      PROVE  Dream!StatusIn(log, dream) = "accepted"
  <2>1. Len(log) \in of
    BY <1>1, <1>3 DEF Dream!RunsOf
  <2>2. \A k \in of : (\A l \in of : k >= l) <=> k = Len(log)
    BY <1>1, <1>2, <2>1
  <2>3. {k \in of : \A l \in of : k >= l} = {Len(log)}
    BY <2>1, <2>2
  <2> QED BY <1>3, <2>3 DEF Dream!StatusIn, Dream!StatusAt
<1>4. ASSUME \A k \in DOMAIN log : ~(log[k].kind = "run" /\ log[k].dream = dream /\ log[k].status = "accepted")
      PROVE  Dream!StatusIn(log, dream) # "accepted"
  BY <1>4 DEF Dream!StatusIn, Dream!StatusAt, Dream!RunsOf
<1> QED BY <1>3, <1>4

\* Of a new record, neither memory nor log has anything.
LEMMA NoDiary ==
  ASSUME NEW n \in Nat, n = 0
  PROVE  Drafts(n) = {} /\ Drafts(n)' = {}
  BY DEF Drafts

\* A dream that starts has no record but its own, and no diary.
LEMMA DreamStart == DreamInv /\ Dream!Start => DreamInv'
<1> SUFFICES ASSUME DreamInv, Dream!Start PROVE DreamInv'
  OBVIOUS
<1> DEFINE d == dream + 1
           e == [kind |-> "run", dream |-> d, status |-> "running"]
<1>1. /\ dream \in Nat /\ d \in 1..MaxDreams /\ d > dream /\ d \in Nat
      /\ dream' = d /\ dreamAt' = "model" /\ saved' = 0 /\ drafts' = <<>>
      /\ runs' = [runs EXCEPT ![d] = "running"] /\ Dream!Record(e)
      /\ UNCHANGED <<diaries, cut>>
  BY DreamsAssumption DEF DreamInv, DreamTyped, Dream!Start, Dream!SaveRun
<1>2. e \in Records /\ e.kind = "run" /\ e.dream = d /\ e.status = "running"
  BY <1>1 DEF Records, Statuses
<1> HIDE DEF e
<1>3. /\ torn' = FALSE /\ log' \in Seq(Records)
      /\ \A k \in DOMAIN log' : log'[k] = e \/ (k \in DOMAIN log /\ log'[k] = log[k])
      /\ Dream!ToSet(log)' \subseteq Dream!ToSet(log) \union {e}
  <2>1. CASE torn
    BY <1>1, <1>2, <2>1, RecordWritten DEF DreamInv, Dream!ToSet
  <2>2. CASE ~torn
    BY <1>1, <1>2, <2>2, RecordWritten DEF DreamInv
  <2> QED BY <2>1, <2>2 DEF DreamInv, DreamTyped
<1>4. DreamTyped'
  <2>1. drafts' \in Seq({0, 1}) /\ saved' \in Nat
    BY <1>1
  <2>2. runs' \in [1..MaxDreams -> Statuses]
    BY <1>1 DEF DreamInv, DreamTyped, Statuses
  <2>3. cut' \subseteq 1..dream' /\ dream' \in 0..MaxDreams
    BY <1>1 DEF DreamInv, DreamTyped
  <2>4. diaries' \subseteq Records /\ torn' \in BOOLEAN /\ dreamAt' \in {"idle", "model", "tools", "save"}
    BY <1>1, <1>3 DEF DreamInv, DreamTyped
  <2> QED BY <1>3, <2>1, <2>2, <2>3, <2>4 DEF DreamTyped
<1>5. \A r \in diaries \union Dream!ToSet(log) : r.dream \in Nat /\ r.dream <= dream
  <2>1. diaries \union Dream!ToSet(log) \subseteq Records
    BY DEF DreamInv, DreamTyped, Dream!ToSet
  <2> QED BY <2>1 DEF DreamInv, Records
<1>6. \A r \in diaries' \union Dream!ToSet(log)' : r.dream <= d
  BY <1>1, <1>2, <1>3, <1>5
<1>7. Unaccepted'
  <2>1. \A k \in DOMAIN log : log[k].dream # d
    BY <1>1, <1>5 DEF Dream!ToSet
  <2>2. runs'[d] = "running"
    BY <1>1 DEF DreamInv, DreamTyped
  <2> QED BY <1>1, <1>2, <1>3, <2>1, <2>2 DEF Unaccepted
<1>8. Holding(0)'
  <2>1. \A r \in diaries' : r.dream # d
    BY <1>1, <1>5
  <2>2. \A r \in Dream!ToSet(log)' : r.kind = "diary" => r.dream # d
    BY <1>1, <1>2, <1>3, <1>5
  <2> QED BY <1>1, <2>1, <2>2, NoDiary DEF Holding, OfDream, InLog
<1>9. d \notin cut'
  BY <1>1 DEF DreamInv, DreamTyped
<1> QED BY <1>1, <1>3, <1>4, <1>6, <1>7, <1>8, <1>9 DEF DreamInv

\* What memory and log hold of a dream depends on nothing else.
LEMMA Untouched ==
  ASSUME UNCHANGED <<dream, diaries, runs, log>>
  PROVE  /\ Unaccepted' <=> Unaccepted
         /\ Holding(0)' <=> Holding(0)
         /\ drafts' = drafts /\ saved' = saved => (Holding(saved)' <=> Holding(saved))
         /\ drafts' = drafts => (Holding(Len(drafts))' <=> Holding(Len(drafts)))
<1>1. InLog' = InLog /\ OfDream(diaries)' = OfDream(diaries) /\ OfDream(InLog)' = OfDream(InLog)
  BY DEF InLog, OfDream, Dream!ToSet
<1>2. Drafts(0) = {} /\ Drafts(0)' = {}
  BY NoDiary
<1>3. drafts' = drafts => \A n \in Nat : Drafts(n)' = Drafts(n)
  BY DEF Drafts, Dream!Diary
<1>4. ASSUME drafts' = drafts, saved' = saved PROVE Drafts(saved)' = Drafts(saved)
  BY <1>4 DEF Drafts, Dream!Diary
<1>5. ASSUME drafts' = drafts PROVE Drafts(Len(drafts))' = Drafts(Len(drafts))
  BY <1>5 DEF Drafts, Dream!Diary
<1> QED BY <1>1, <1>2, <1>4, <1>5 DEF Holding, Unaccepted

\* The steps that write neither memory nor log.
LEMMA DreamQuiet ==
  DreamInv /\ (Dream!Respond \/ Dream!ModelFails \/ Dream!WriteDiaryDraft \/ Dream!ReviseDiaryDraft
                \/ Dream!Decide \/ Dream!OtherEvent \/ UNCHANGED dreamVars) => DreamInv'
<1> SUFFICES ASSUME DreamInv,
                    Dream!Respond \/ Dream!ModelFails \/ Dream!WriteDiaryDraft \/ Dream!ReviseDiaryDraft
                    \/ Dream!Decide \/ Dream!OtherEvent \/ UNCHANGED dreamVars
             PROVE  DreamInv'
  OBVIOUS
<1> USE DEF Dream!memory, Dream!file
<1>1. UNCHANGED <<dream, diaries, runs, log, cut, saved>> /\ (torn' = torn \/ ~torn')
  BY DEF Dream!Respond, Dream!ModelFails, Dream!WriteDiaryDraft, Dream!ReviseDiaryDraft,
         Dream!Decide, Dream!OtherEvent, dreamVars
<1>2. Dream!ToSet(log)' = Dream!ToSet(log)
  BY <1>1 DEF Dream!ToSet
<1>3. \A r \in (diaries \union Dream!ToSet(log))' : r.dream <= dream'
  BY <1>1, <1>2 DEF DreamInv
<1>4. CASE Dream!Respond
  BY <1>1, <1>3, <1>4, Untouched DEF Dream!Respond, DreamInv, DreamTyped
<1>5. CASE Dream!ModelFails
  <2>1. dreamAt = "model" /\ dreamAt' = "idle" /\ UNCHANGED <<dream, drafts, saved, diaries, runs, log, torn, cut>>
    BY <1>5 DEF Dream!ModelFails
  <2> QED BY <1>3, <2>1, Untouched DEF DreamInv, DreamTyped
<1>6. CASE Dream!WriteDiaryDraft
  <2>1. /\ dreamAt = "tools" /\ drafts' = drafts \o <<0>>
        /\ UNCHANGED <<dreamAt, dream, saved, diaries, runs, log, torn, cut>>
    BY <1>6 DEF Dream!WriteDiaryDraft
  <2>2. drafts' \in Seq({0, 1})
    BY <2>1 DEF DreamInv, DreamTyped
  <2> QED BY <1>3, <2>1, <2>2, Untouched DEF DreamInv, DreamTyped
<1>7. CASE Dream!ReviseDiaryDraft
  <2>1. /\ dreamAt = "tools" /\ UNCHANGED <<dreamAt, dream, saved, diaries, runs, log, torn, cut>>
        /\ \E n \in DOMAIN drafts : drafts' = [drafts EXCEPT ![n] = 1]
    BY <1>7 DEF Dream!ReviseDiaryDraft
  <2>2. drafts' \in Seq({0, 1})
    <3>1. PICK n \in DOMAIN drafts : drafts' = [drafts EXCEPT ![n] = 1]
      BY <2>1
    <3>2. drafts \in Seq({0, 1}) /\ DOMAIN drafts = 1..Len(drafts) /\ Len(drafts) \in Nat
      BY DEF DreamInv, DreamTyped
    <3> QED BY <3>1, <3>2
  <2> QED BY <1>3, <2>1, <2>2, Untouched DEF DreamInv, DreamTyped
<1>8. CASE Dream!Decide
  BY <1>1, <1>3, <1>8, Untouched DEF Dream!Decide, DreamInv, DreamTyped
<1>9. CASE Dream!OtherEvent
  <2>1. dreamAt = "idle" /\ dreamAt' = "idle" /\ torn' = FALSE
        /\ UNCHANGED <<dream, drafts, saved, diaries, runs, log, cut>>
    BY <1>9 DEF Dream!OtherEvent
  <2> QED BY <1>3, <2>1, Untouched DEF DreamInv, DreamTyped
<1>10. CASE UNCHANGED dreamVars
  <2>1. UNCHANGED <<dreamAt, dream, drafts, saved, diaries, runs, log, torn, cut>>
    BY <1>10 DEF dreamVars
  <2> QED BY <1>3, <2>1, Untouched DEF DreamInv, DreamTyped
<1> QED BY <1>4, <1>5, <1>6, <1>7, <1>8, <1>9, <1>10

\* A dream that ends without being accepted leaves no diary.
LEMMA DreamEndOfResponse == DreamInv /\ Dream!EndOfResponse => DreamInv'
<1> SUFFICES ASSUME DreamInv, Dream!EndOfResponse PROVE DreamInv'
  OBVIOUS
<1>1. /\ dreamAt = "tools" /\ dream > 0 /\ dream \in 1..MaxDreams /\ ~torn /\ dream \notin cut
      /\ Unaccepted /\ Holding(0) /\ UNCHANGED <<dream, drafts, saved, diaries, cut>>
  BY DreamsAssumption DEF DreamInv, DreamTyped, Dream!EndOfResponse
<1>2. CASE UNCHANGED <<runs, log, torn>> /\ dreamAt' \in {"model", "save"}
  <2>1. saved = 0 /\ 0 <= Len(drafts) /\ saved' = saved /\ drafts' = drafts
    BY <1>1 DEF DreamInv, DreamTyped, Dream!EndOfResponse
  <2>2. \A r \in (diaries \union Dream!ToSet(log))' : r.dream <= dream'
    BY <1>1, <1>2 DEF DreamInv, Dream!ToSet
  <2>3. Unaccepted' /\ Holding(0)' /\ Holding(saved)'
    BY <1>1, <1>2, <2>1, Untouched
  <2>4. DreamTyped'
    BY <1>1, <1>2 DEF DreamInv, DreamTyped
  <2> QED BY <1>1, <1>2, <2>1, <2>2, <2>3, <2>4 DEF DreamInv
<1>3. CASE \E s \in {"rejected", "failed"} : Dream!SaveRun(dream, s) /\ dreamAt' = "idle"
  <2>1. PICK s \in {"rejected", "failed"} : Dream!SaveRun(dream, s) /\ dreamAt' = "idle"
    BY <1>3
  <2> DEFINE e == [kind |-> "run", dream |-> dream, status |-> s]
  <2>2. e \in Records /\ e.kind = "run" /\ e.dream = dream /\ e.status = s
    BY <1>1, DreamsAssumption DEF Records, Statuses
  <2>3. runs' = [runs EXCEPT ![dream] = s] /\ Dream!Record(e)
    BY <2>1 DEF Dream!SaveRun
  <2> HIDE DEF e
  <2>4. /\ torn' = FALSE /\ log' \in Seq(Records)
        /\ \A k \in DOMAIN log' : log'[k] = e \/ (k \in DOMAIN log /\ log'[k] = log[k])
        /\ Dream!ToSet(log)' = Dream!ToSet(log) \union {e}
    BY <1>1, <2>2, <2>3, RecordWritten DEF DreamInv
  <2>5. DreamTyped'
    <3>1. runs' \in [1..MaxDreams -> Statuses]
      BY <2>3, <1>1 DEF DreamInv, DreamTyped, Statuses
    <3> QED BY <1>1, <2>1, <2>4, <3>1 DEF DreamInv, DreamTyped
  <2>6. \A r \in (diaries \union Dream!ToSet(log))' : r.dream <= dream'
    BY <1>1, <2>2, <2>4 DEF DreamInv
  <2>7. Unaccepted'
    <3>1. runs'[dream] = s
      BY <1>1, <2>3 DEF DreamInv, DreamTyped
    <3> QED BY <1>1, <2>2, <2>4, <3>1 DEF Unaccepted
  <2>8. Holding(0)'
    <3>1. InLog' = InLog
      BY <2>2, <2>4 DEF InLog
    <3> QED BY <1>1, <3>1, NoDiary DEF Holding, OfDream
  <2> QED BY <1>1, <2>1, <2>4, <2>5, <2>6, <2>7, <2>8 DEF DreamInv
<1> QED BY <1>2, <1>3 DEF Dream!EndOfResponse, Dream!file

\* Every diary that is saved is in memory and in the log.
LEMMA DreamSaveDiary == DreamInv /\ Dream!SaveDiary => DreamInv'
<1> SUFFICES ASSUME DreamInv, Dream!SaveDiary PROVE DreamInv'
  OBVIOUS
<1> DEFINE e == Dream!Diary(dream, saved + 1, drafts[saved + 1])
<1>1. /\ dreamAt = "save" /\ dreamAt' = "save" /\ dream > 0 /\ dream \in Nat
      /\ ~torn /\ dream \notin cut /\ Unaccepted /\ Holding(saved)
      /\ saved \in Nat /\ saved < Len(drafts) /\ Len(drafts) \in Nat /\ saved' = saved + 1
      /\ diaries' = diaries \union {e} /\ Dream!Record(e)
      /\ UNCHANGED <<dream, drafts, runs, cut>>
  BY DreamsAssumption DEF DreamInv, DreamTyped, Dream!SaveDiary
<1>2. drafts[saved + 1] \in {0, 1}
  BY <1>1 DEF DreamInv, DreamTyped
<1>3. e \in Records /\ e.kind = "diary" /\ e.dream = dream
  BY <1>1, <1>2 DEF Records, Dream!Diary
<1>4. Drafts(saved)' = Drafts(saved) \union {e}
  <2>1. 1..saved' = 1..saved \union {saved + 1}
    BY <1>1
  <2> QED BY <1>1, <2>1 DEF Drafts, Dream!Diary
<1> HIDE DEF e
<1>5. /\ torn' = FALSE /\ log' \in Seq(Records)
      /\ \A k \in DOMAIN log' : log'[k] = e \/ (k \in DOMAIN log /\ log'[k] = log[k])
      /\ Dream!ToSet(log)' = Dream!ToSet(log) \union {e}
  BY <1>1, <1>3, RecordWritten DEF DreamInv
<1>6. DreamTyped'
  <2>1. diaries' \subseteq Records /\ saved' \in Nat
    BY <1>1, <1>3 DEF DreamInv, DreamTyped
  <2>2. drafts' \in Seq({0, 1}) /\ runs' \in [1..MaxDreams -> Statuses] /\ cut' \subseteq 1..dream'
        /\ dream' \in 0..MaxDreams
    BY <1>1 DEF DreamInv, DreamTyped
  <2> QED BY <1>1, <1>5, <2>1, <2>2 DEF DreamTyped
<1>7. \A r \in (diaries \union Dream!ToSet(log))' : r.dream <= dream'
  BY <1>1, <1>3, <1>5 DEF DreamInv
<1>8. Unaccepted'
  BY <1>1, <1>3, <1>5 DEF Unaccepted
<1>9. Holding(saved)'
  <2>1. InLog' = InLog \union {e}
    BY <1>3, <1>5 DEF InLog
  <2>2. OfDream(diaries)' = OfDream(diaries) \union {e}
    BY <1>1, <1>3 DEF OfDream
  <2>3. OfDream(InLog)' = OfDream(InLog) \union {e}
    BY <1>1, <1>3, <2>1 DEF OfDream
  <2> QED BY <1>1, <1>4, <2>2, <2>3 DEF Holding
<1> QED BY <1>1, <1>5, <1>6, <1>7, <1>8, <1>9 DEF DreamInv

\* The dream is accepted when all of its diaries are.
LEMMA DreamSaveAccepted == DreamInv /\ Dream!SaveAccepted => DreamInv'
<1> SUFFICES ASSUME DreamInv, Dream!SaveAccepted PROVE DreamInv'
  OBVIOUS
<1> DEFINE e == [kind |-> "run", dream |-> dream, status |-> "accepted"]
<1>1. /\ dreamAt = "save" /\ dreamAt' = "idle" /\ dream > 0 /\ dream \in 1..MaxDreams
      /\ ~torn /\ dream \notin cut /\ Holding(saved) /\ saved = Len(drafts)
      /\ runs' = [runs EXCEPT ![dream] = "accepted"] /\ Dream!Record(e)
      /\ UNCHANGED <<dream, drafts, saved, diaries, cut>>
  BY DreamsAssumption DEF DreamInv, DreamTyped, Dream!SaveAccepted, Dream!SaveRun
<1>2. e \in Records /\ e.kind = "run" /\ e.dream = dream /\ e.status = "accepted"
  BY <1>1, DreamsAssumption DEF Records, Statuses
<1> HIDE DEF e
<1>3. /\ torn' = FALSE /\ log' \in Seq(Records) /\ log' # <<>> /\ log'[Len(log')] = e
      /\ Dream!ToSet(log)' = Dream!ToSet(log) \union {e}
  BY <1>1, <1>2, RecordWritten DEF DreamInv
<1>4. DreamTyped' /\ runs'[dream] = "accepted"
  <2>1. runs' \in [1..MaxDreams -> Statuses] /\ runs'[dream] = "accepted"
    BY <1>1 DEF DreamInv, DreamTyped, Statuses
  <2> QED BY <1>1, <1>3, <2>1 DEF DreamInv, DreamTyped
<1>5. \A r \in (diaries \union Dream!ToSet(log))' : r.dream <= dream'
  BY <1>1, <1>2, <1>3 DEF DreamInv
<1>6. Holding(Len(drafts))'
  <2>1. InLog' = InLog
    BY <1>2, <1>3 DEF InLog
  <2>2. Drafts(Len(drafts))' = Drafts(saved)
    BY <1>1 DEF Drafts, Dream!Diary
  <2>3. OfDream(diaries)' = OfDream(diaries) /\ OfDream(InLog)' = OfDream(InLog)
    BY <1>1, <2>1 DEF OfDream
  <2> QED BY <1>1, <2>2, <2>3 DEF Holding
<1> QED BY <1>1, <1>2, <1>3, <1>4, <1>5, <1>6 DEF DreamInv

\* A restart reads back what the log has of the dream.
LEMMA DreamCrash == DreamInv /\ Dream!Crash => DreamInv'
<1> SUFFICES ASSUME DreamInv, Dream!Crash PROVE DreamInv'
  OBVIOUS
<1>1. /\ dreamAt' = "idle" /\ torn' \in BOOLEAN /\ diaries' = InLog
      /\ runs' = [d \in 1..MaxDreams |-> Dream!StatusIn(log, d)]
      /\ cut' = IF dreamAt = "save" THEN cut \union {dream} ELSE cut
      /\ UNCHANGED <<dream, drafts, saved, log>>
  BY DEF Dream!Crash, Dream!Replay, InLog, DreamInv, DreamTyped
<1>2. /\ log \in Seq(Records) /\ Dream!ToSet(log) \subseteq Records
      /\ dream \in Nat /\ dream \in 0..MaxDreams
  BY DreamsAssumption DEF DreamInv, DreamTyped, Dream!ToSet
<1>3. runs' \in [1..MaxDreams -> Statuses]
  <2> SUFFICES ASSUME NEW d \in 1..MaxDreams PROVE Dream!StatusIn(log, d) \in Statuses
    BY <1>1
  <2>1. \A k \in Dream!RunsOf(log, d) : log[k].status \in Statuses
    BY <1>2 DEF Dream!RunsOf, Records
  <2> QED BY <2>1 DEF Dream!StatusIn, Dream!StatusAt, Statuses
<1>4. DreamTyped'
  <2>1. cut' \subseteq 1..dream'
    BY <1>1, <1>2 DEF DreamInv, DreamTyped
  <2> QED BY <1>1, <1>2, <1>3, <2>1 DEF DreamInv, DreamTyped, InLog
<1>5. \A r \in (diaries \union Dream!ToSet(log))' : r.dream <= dream'
  BY <1>1 DEF DreamInv, InLog, Dream!ToSet
<1>6. InLog' = InLog /\ OfDream(InLog)' = OfDream(InLog) /\ OfDream(diaries)' = OfDream(InLog)
  BY <1>1 DEF InLog, OfDream, Dream!ToSet
<1>7. ASSUME dream > 0, dream \notin cut'
      PROVE  \/ Unaccepted' /\ Holding(0)'
             \/ /\ runs'[dream] = "accepted" /\ Holding(Len(drafts))' /\ log' # <<>>
                /\ LET r == log'[Len(log')]
                   IN r.kind = "run" /\ r.dream = dream /\ r.status = "accepted"
  <2>1. dreamAt # "save" /\ dream \notin cut /\ runs'[dream] = Dream!StatusIn(log, dream)
    BY <1>1, <1>2, <1>7
  <2>2. CASE Unaccepted /\ Holding(0)
    <3>1. runs'[dream] # "accepted"
      BY <1>7, <2>1, <2>2, ReplayedStatus DEF Unaccepted, DreamInv
    <3>2. Unaccepted'
      BY <1>1, <2>2, <3>1 DEF Unaccepted
    <3>3. Holding(0)'
      BY <1>6, <2>2, NoDiary DEF Holding
    <3> QED BY <3>2, <3>3
  <2>3. CASE /\ Holding(Len(drafts)) /\ log # <<>>
             /\ LET r == log[Len(log)]
                IN r.kind = "run" /\ r.dream = dream /\ r.status = "accepted"
    <3>1. runs'[dream] = "accepted"
      BY <1>7, <2>1, <2>3, ReplayedStatus DEF DreamInv
    <3>2. Drafts(Len(drafts))' = Drafts(Len(drafts))
      BY <1>1 DEF Drafts, Dream!Diary
    <3>3. Holding(Len(drafts))'
      BY <1>6, <2>3, <3>2 DEF Holding
    <3> QED BY <1>1, <2>3, <3>1, <3>3
  <2> QED BY <1>7, <2>1, <2>2, <2>3 DEF DreamInv, DreamTyped
<1> QED BY <1>1, <1>4, <1>5, <1>7 DEF DreamInv

\* For any number of dreams, diaries, responses and crashes: of the last dream memory
\* holds all the diaries as they were last revised, or none, unless a crash hit it
\* while they were saved.
THEOREM DreamsAreAlwaysAtomic == MCSpec => []DreamsAreAtomic
<1>1. MCInit => DreamInv
  <2> SUFFICES ASSUME MCInit PROVE DreamInv
    OBVIOUS
  <2>1. /\ dreamAt = "idle" /\ dream = 0 /\ drafts = <<>> /\ saved = 0 /\ diaries = {}
        /\ runs = [d \in 1..MaxDreams |-> "none"] /\ log = <<>> /\ torn = FALSE /\ cut = {}
    BY DEF MCInit, Dream!Init
  <2>2. DreamTyped /\ Dream!ToSet(log) = {}
    <3>1. log \in Seq(Records) /\ drafts \in Seq({0, 1}) /\ Dream!ToSet(log) = {}
      BY <2>1 DEF Dream!ToSet
    <3>2. runs \in [1..MaxDreams -> Statuses]
      BY <2>1 DEF Statuses
    <3>3. dream \in 0..MaxDreams
      BY <2>1, DreamsAssumption
    <3> QED BY <2>1, <3>1, <3>2, <3>3 DEF DreamTyped
  <2> QED BY <2>1, <2>2 DEF DreamInv
<1>2. DreamInv /\ Dream!Next => DreamInv'
  BY DreamStart, DreamQuiet, DreamEndOfResponse, DreamSaveDiary, DreamSaveAccepted, DreamCrash
     DEF Dream!Next
<1>3. DreamInv /\ [MCNext]_<<store, vars, sessionVars, dreamVars, taskVars, skillVars>> => DreamInv'
  BY <1>2, DreamQuiet DEF MCNext
<1>4. DreamInv => DreamsAreAtomic
  <2> SUFFICES ASSUME DreamInv, dream > 0, dream \notin cut, dreamAt # "save"
               PROVE  {d \in diaries : d.dream = dream} =
                        IF runs[dream] = "accepted"
                        THEN {Dream!Diary(dream, n, drafts[n]) : n \in DOMAIN drafts} ELSE {}
    BY DEF DreamsAreAtomic, Dream!DreamsAreAtomic
  <2>1. DOMAIN drafts = 1..Len(drafts)
    BY DEF DreamInv, DreamTyped
  <2>2. Drafts(Len(drafts)) = {Dream!Diary(dream, n, drafts[n]) : n \in DOMAIN drafts}
    BY <2>1 DEF Drafts
  <2>3. Drafts(0) = {}
    BY NoDiary
  <2>4. CASE Unaccepted /\ Holding(0)
    BY <2>3, <2>4 DEF Unaccepted, Holding, OfDream
  <2>5. CASE runs[dream] = "accepted" /\ Holding(Len(drafts))
    BY <2>2, <2>5 DEF Holding, OfDream
  <2> QED BY <2>4, <2>5 DEF DreamInv, DreamTyped
<1> QED BY <1>1, <1>3, <1>4, PTL DEF MCSpec

=============================================================================
