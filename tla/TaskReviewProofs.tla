--------------------------- MODULE TaskReviewProofs ---------------------------
(***************************************************************************)
(* Theorems about the review of submissions and the workers behind it, which *)
(* rest on what TaskCoordinatorProofs shows of each handler, and about what  *)
(* brings a task back that has ended.                                        *)
(***************************************************************************)
EXTENDS TaskCoordinatorProofs, FiniteSetTheorems

-----------------------------------------------------------------------------
(* Verdicts are counted *)

Of(t, V) == {v \in V : v.task = t}
Judging(t) == attempts[t] + Cardinality(Of(t, verifiers)) <= subs[t]

\* In memory and on disk no task has more revisions than submissions, with the
\* verifiers that are still at work.
JudgedInv ==
  /\ IsFiniteSet(verifiers)
  /\ \A t \in Tasks : Judging(t)
  /\ \A t \in Tasks : disk.attempts[t] <= disk.subs[t]

\* Dropping verifiers leaves fewer of each task, and one less if it is its own.
LEMMA FewerVerifiers ==
  ASSUME IsFiniteSet(verifiers), NEW V \in SUBSET verifiers, NEW t
  PROVE  /\ IsFiniteSet(V)
         /\ Cardinality(Of(t, V)) \in Nat /\ Cardinality(Of(t, verifiers)) \in Nat
         /\ Cardinality(Of(t, V)) <= Cardinality(Of(t, verifiers))
<1>1. IsFiniteSet(V)
  BY FS_Subset
<1>2. Of(t, V) \subseteq Of(t, verifiers) /\ Of(t, verifiers) \subseteq verifiers
  BY DEF Of
<1>3. IsFiniteSet(Of(t, verifiers))
  BY <1>2, FS_Subset
<1>4. IsFiniteSet(Of(t, V)) /\ Cardinality(Of(t, V)) <= Cardinality(Of(t, verifiers))
  BY <1>2, <1>3, FS_Subset
<1> QED BY <1>1, <1>3, <1>4, FS_CardinalityType

LEMMA OneLess ==
  ASSUME IsFiniteSet(verifiers), NEW v \in verifiers
  PROVE  Cardinality(Of(v.task, verifiers \ {v})) + 1 = Cardinality(Of(v.task, verifiers))
<1>1. v \in Of(v.task, verifiers) /\ Of(v.task, verifiers \ {v}) = Of(v.task, verifiers) \ {v}
  BY DEF Of
<1>2. IsFiniteSet(Of(v.task, verifiers))
  BY FS_Subset DEF Of
<1>3. Cardinality(Of(v.task, verifiers)) \in Nat
  BY <1>2, FS_CardinalityType
<1>4. Cardinality(Of(v.task, verifiers) \ {v}) = Cardinality(Of(v.task, verifiers)) - 1
  BY <1>1, <1>2, FS_RemoveElement
<1>5. Cardinality(Of(v.task, verifiers \ {v})) = Cardinality(Of(v.task, verifiers)) - 1
  BY <1>1, <1>4, Zenon
<1> QED BY <1>3, <1>5

LEMMA OneMore ==
  ASSUME IsFiniteSet(verifiers), NEW v, NEW t
  PROVE  /\ IsFiniteSet(verifiers \cup {v})
         /\ v.task # t => Of(t, verifiers \cup {v}) = Of(t, verifiers)
         /\ Cardinality(Of(t, verifiers \cup {v})) \in Nat
         /\ Cardinality(Of(t, verifiers)) \in Nat
         /\ Cardinality(Of(t, verifiers \cup {v})) <= Cardinality(Of(t, verifiers)) + 1
<1>1. IsFiniteSet(verifiers \cup {v})
  BY FS_AddElement
<1>2. IsFiniteSet(Of(t, verifiers))
  BY FS_Subset DEF Of
<1>3. Cardinality(Of(t, verifiers)) \in Nat
  BY <1>2, FS_CardinalityType
<1>4. CASE v.task # t
  BY <1>1, <1>3, <1>4 DEF Of
<1>5. CASE v.task = t
  <2>1. Of(t, verifiers \cup {v}) = Of(t, verifiers) \cup {v}
    BY <1>5 DEF Of
  <2>2. Cardinality(Of(t, verifiers) \cup {v}) \in
          {Cardinality(Of(t, verifiers)), Cardinality(Of(t, verifiers)) + 1}
    BY <1>2, <1>3, FS_AddElement
  <2>3. Cardinality(Of(t, verifiers \cup {v})) \in
          {Cardinality(Of(t, verifiers)), Cardinality(Of(t, verifiers)) + 1}
    BY <2>1, <2>2, Zenon
  <2> QED BY <1>1, <1>3, <1>5, <2>3
<1> QED BY <1>4, <1>5

\* A handler that saves, or not, keeps the saved counts in order.
LEMMA SavedCounts ==
  ASSUME TypeOK, TypeOK', JudgedInv, IsFiniteSet(verifiers'), \A t \in Tasks : Judging(t)',
         Persist \/ PersistUnlessAborted \/ UNCHANGED disk
  PROVE  JudgedInv'
<1>1. \A t \in Tasks : attempts'[t] <= subs'[t]
  <2> TAKE t \in Tasks
  <2>1. IsFiniteSet(Of(t, verifiers'))
    BY FS_Subset DEF Of
  <2>2. Cardinality(Of(t, verifiers')) \in Nat
    BY <2>1, FS_CardinalityType
  <2>3. attempts'[t] \in Nat /\ subs'[t] \in Nat
    BY DEF TypeOK
  <2> QED BY <2>2, <2>3 DEF Judging
<1>2. CASE Persist
  BY <1>1, <1>2 DEF Persist, JudgedInv
<1>3. CASE UNCHANGED disk
  BY <1>3 DEF JudgedInv
<1> QED BY <1>2, <1>3 DEF PersistUnlessAborted

\* Nothing is counted, and no verifier is added.
LEMMA NothingCounted ==
  ASSUME TypeOK, JudgedInv, UNCHANGED <<attempts, subs>>, verifiers' \subseteq verifiers
  PROVE  IsFiniteSet(verifiers') /\ \A t \in Tasks : Judging(t)'
<1>1. \A t \in Tasks : attempts[t] \in Nat /\ subs[t] \in Nat
  BY DEF TypeOK
<1> QED BY <1>1, FewerVerifiers DEF JudgedInv, Judging

\* A review adds one revision at most, and to the task it is about.
LEMMA ReviewCounts ==
  ASSUME TypeOK, NEW t \in Tasks, Accept(t) \/ Revise(t)
  PROVE  /\ attempts'[t] \in {attempts[t], attempts[t] + 1}
         /\ \A u \in Tasks \ {t} : attempts'[u] = attempts[u]
<1>1. attempts' = attempts \/ attempts' = [attempts EXCEPT ![t] = @ + 1]
  BY DEF Accept, Revise
<1> QED BY <1>1 DEF TypeOK

LEMMA JudgedStep == TypeOK /\ TypeOK' /\ JudgedInv /\ [Next]_vars => JudgedInv'
<1> SUFFICES ASSUME TypeOK, TypeOK', JudgedInv, [Next]_vars
             PROVE  JudgedInv'
  OBVIOUS
<1> DEFINE Quiet == UNCHANGED <<attempts, subs>> /\ verifiers' \subseteq verifiers
           Saves == Persist \/ PersistUnlessAborted \/ UNCHANGED disk
<1>0. Quiet /\ Saves => JudgedInv'
  BY NothingCounted, SavedCounts
<1>1. CASE UserStep
  <2>1. ASSUME NEW isThread \in BOOLEAN, StartNewTask(isThread)
        PROVE  Quiet /\ Saves
    BY <2>1 DEF StartNewTask
  <2>2. ASSUME NEW C \in SUBSET (1..added), QueueTask(C)
        PROVE  Quiet /\ Saves
    BY <2>2 DEF QueueTask, peerVars
  <2>3. ASSUME NEW u \in Tasks, AttachToTask(u) \/ TalkDecision(u)
        PROVE  Quiet /\ Saves
    BY <2>3 DEF AttachToTask, TalkDecision, boardVars, peerVars
  <2>4. ASSUME NEW T \in SUBSET Tasks, CancelAndStartNext(T)
        PROVE  Quiet /\ Saves
    BY <2>4 DEF CancelAndStartNext, CancelTasks, Spared
  <2>5. ASSUME NEW u \in Tasks, CancelAndRestart(u)
        PROVE  Quiet /\ Saves
    BY <2>5 DEF CancelAndRestart, CancelTasks, Spared
  <2>6. ASSUME NEW u \in Tasks, NEW k \in DOMAIN mail[u],
               NEW reply \in {"usable", "void"}, ReplyMailbox(u, k, reply)
        PROVE  Quiet /\ Saves
    BY <2>6 DEF ReplyMailbox
  <2> QED
    BY <1>0, <1>1, <2>1, <2>2, <2>3, <2>4, <2>5, <2>6 DEF UserStep, CancelTask, CancelAll
<1>2. ASSUME NEW u \in Tasks, HandleEvent(u) PROVE JudgedInv'
  <2>1. CASE HandleQuestion(u) \/ HandleQuestionByNote(u)
    BY <1>0, <2>1 DEF HandleQuestion, HandleQuestionByNote
  <2>2. ASSUME NEW kind \in LateKinds, HandleLateEvent(u, kind) \/ HandleEnded(u, kind)
        PROVE  Quiet /\ Saves
    BY <2>2 DEF HandleLateEvent, HandleEnded, boardVars, peerVars
  <2>3. CASE HandleCompleted(u)
    <3>1. /\ subs'[u] = subs[u] + 1 /\ \A t \in Tasks \ {u} : subs'[t] = subs[t]
          /\ Saves
      BY <2>3 DEF HandleCompleted, TypeOK
    <3>2. \A t \in Tasks : attempts[t] \in Nat /\ subs[t] \in Nat /\ Judging(t)
      BY DEF TypeOK, JudgedInv
    <3>3. CASE /\ verifiers' = verifiers \cup {[task |-> u, round |-> subs[u] + 1]}
               /\ UNCHANGED attempts
      <4> DEFINE v == [task |-> u, round |-> subs[u] + 1]
      <4>1. \A t : /\ IsFiniteSet(verifiers \cup {v})
                   /\ v.task # t => Of(t, verifiers \cup {v}) = Of(t, verifiers)
                   /\ Cardinality(Of(t, verifiers \cup {v})) \in Nat
                   /\ Cardinality(Of(t, verifiers)) \in Nat
                   /\ Cardinality(Of(t, verifiers \cup {v})) <= Cardinality(Of(t, verifiers)) + 1
        BY OneMore DEF JudgedInv
      <4>2. v.task = u
        OBVIOUS
      <4> HIDE DEF v
      <4>3. ASSUME NEW t \in Tasks PROVE Judging(t)'
        <5>1. CASE t = u
          <6>1. /\ Cardinality(Of(u, verifiers')) \in Nat /\ Cardinality(Of(u, verifiers)) \in Nat
                /\ Cardinality(Of(u, verifiers')) <= Cardinality(Of(u, verifiers)) + 1
            BY <3>3, <4>1, Zenon DEF v
          <6>2. /\ subs'[u] = subs[u] + 1 /\ attempts'[u] = attempts[u]
                /\ attempts[u] \in Nat /\ subs[u] \in Nat /\ Judging(u)
            BY <3>1, <3>2, <3>3
          <6>3. Judging(u)'
            BY <6>1, <6>2 DEF Judging
          <6> QED BY <5>1, <6>3
        <5>2. CASE t # u
          BY <3>1, <3>2, <3>3, <4>1, <4>2, <5>2 DEF Judging, v
        <5> QED BY <5>1, <5>2
      <4>4. IsFiniteSet(verifiers')
        BY <3>3, <4>1 DEF v
      <4> QED BY <3>1, <4>3, <4>4, SavedCounts
    <3>4. CASE (Accept(u) \/ Revise(u)) /\ UNCHANGED verifiers
      <4>1. IsFiniteSet(verifiers') /\ \A t \in Tasks : Cardinality(Of(t, verifiers)) \in Nat
        BY <3>4, FewerVerifiers DEF JudgedInv
      <4>2. \A t \in Tasks : Judging(t)'
        BY <3>1, <3>2, <3>4, <4>1, ReviewCounts DEF Judging
      <4> QED BY <3>1, <4>1, <4>2, SavedCounts
    <3> QED BY <2>3, <3>3, <3>4 DEF HandleCompleted
  <2> QED BY <1>0, <1>2, <2>1, <2>2, <2>3 DEF HandleEvent
<1>3. ASSUME NEW v \in verifiers, NEW verdict, HandleVerdict(v, verdict) PROVE JudgedInv'
  <2>1. /\ verifiers' = verifiers \ {v} /\ subs' = subs /\ v.task \in Tasks
        /\ Saves
    BY <1>3 DEF HandleVerdict, Retire, TypeOK, Verifiers
  <2>2. /\ attempts'[v.task] \in {attempts[v.task], attempts[v.task] + 1}
        /\ \A u \in Tasks \ {v.task} : attempts'[u] = attempts[u]
    BY <1>3, <2>1, ReviewCounts DEF HandleVerdict
  <2>3. \A t \in Tasks : attempts[t] \in Nat /\ subs[t] \in Nat /\ Judging(t)
    BY DEF TypeOK, JudgedInv
  <2>4. /\ IsFiniteSet(verifiers')
        /\ \A t \in Tasks : /\ Cardinality(Of(t, verifiers')) \in Nat
                            /\ Cardinality(Of(t, verifiers)) \in Nat
                            /\ Cardinality(Of(t, verifiers')) <= Cardinality(Of(t, verifiers))
    BY <2>1, FewerVerifiers DEF JudgedInv
  <2>5. Cardinality(Of(v.task, verifiers')) + 1 = Cardinality(Of(v.task, verifiers))
    BY <2>1, OneLess DEF JudgedInv
  <2>6. ASSUME NEW t \in Tasks PROVE Judging(t)'
    <3>1. /\ subs'[t] = subs[t] /\ attempts[t] \in Nat /\ subs[t] \in Nat
          /\ Cardinality(Of(t, verifiers')) \in Nat /\ Cardinality(Of(t, verifiers)) \in Nat
          /\ attempts[t] + Cardinality(Of(t, verifiers)) <= subs[t]
      BY <2>1, <2>3, <2>4 DEF Judging
    <3>2. \/ /\ attempts'[t] \in {attempts[t], attempts[t] + 1}
             /\ Cardinality(Of(t, verifiers')) + 1 = Cardinality(Of(t, verifiers))
          \/ /\ attempts'[t] = attempts[t]
             /\ Cardinality(Of(t, verifiers')) <= Cardinality(Of(t, verifiers))
      BY <2>2, <2>4, <2>5, Zenon
    <3>3. attempts'[t] + Cardinality(Of(t, verifiers')) <= subs'[t]
      BY <3>1, <3>2
    <3> QED BY <3>3 DEF Judging
  <2> QED BY <2>1, <2>4, <2>6, SavedCounts
<1>4. ASSUME NEW u \in Tasks, WorkerStep(u) \/ WorkerDies(u)
      PROVE  Quiet /\ Saves
  BY <1>4 DEF WorkerStep, WorkerDies, WorkerAsk, WorkerAnswered, WorkerDiscards,
    WorkerCompletes, WorkerTakesFollowup, WorkerFails, CoordinatorUnchanged,
    boardVars, peerVars
<1>5. ASSUME NEW v \in verifiers, VerifierStalls(v)
      PROVE  Quiet /\ Saves
  BY <1>5 DEF VerifierStalls, boardVars
<1>6. CASE Restart
  <2>1. verifiers' = {} /\ attempts' = disk.attempts /\ subs' = disk.subs /\ Saves
    BY <1>6 DEF Restart
  <2>2. IsFiniteSet(verifiers') /\ \A t \in Tasks : Of(t, verifiers') = {} /\ Cardinality({}) = 0
    BY <2>1, FS_EmptySet DEF Of
  <2>3. \A t \in Tasks : disk.attempts[t] \in Nat /\ disk.attempts[t] <= disk.subs[t]
    BY DEF TypeOK, DiskImage, JudgedInv
  <2>4. \A t \in Tasks : Judging(t)'
    BY <2>1, <2>2, <2>3 DEF Judging
  <2> QED BY <2>1, <2>2, <2>4, SavedCounts
<1>7. CASE UNCHANGED vars
  BY <1>0, <1>7 DEF vars, boardVars, peerVars
<1> QED
  BY <1>0, <1>1, <1>2, <1>3, <1>4, <1>5, <1>6, <1>7 DEF Next, VerifierVerdict

\* However often the worker submits, the coordinator restarts and verdicts come
\* late, no submission is sent back twice.
THEOREM SubmissionsJudgedOnce == Spec => []EachSubmissionJudgedOnce
<1>1. Init => JudgedInv
  <2> SUFFICES ASSUME Init PROVE JudgedInv
    OBVIOUS
  <2>1. IsFiniteSet(verifiers) /\ \A t : Cardinality(Of(t, verifiers)) = 0
    <3>1. verifiers = {} /\ \A t : Of(t, verifiers) = {}
      BY DEF Init, Of
    <3> QED BY <3>1, FS_EmptySet
  <2> QED BY <2>1 DEF Init, JudgedInv, Judging
<1>2. JudgedInv => EachSubmissionJudgedOnce
  BY DEF JudgedInv, Judging, EachSubmissionJudgedOnce, Of
<1> QED BY <1>1, <1>2, InitType, NextType, JudgedStep, PTL DEF Spec
-----------------------------------------------------------------------------
(* Which tasks have workers *)

\* A waiting task that starts, and any other task, at the end of a handler.
LEMMA TryStartAlters ==
  ASSUME NEW S \in [Tasks -> Statuses], NEW C, NEW W \in SUBSET Tasks,
         NEW P \in [Tasks -> ProcStates], TryStartWaiting(S, C, W, P)
  PROVE  \A t \in Tasks :
           \/ status'[t] = S[t] /\ proc'[t] = P[t] /\ (t \in workers' <=> t \in W)
           \/ S[t] = "waiting" /\ status'[t] = "running" /\ proc'[t] = "busy"
  BY DEF TryStartWaiting, Startable

\* What a handler that judges or ends task u does to the workers of all.
WorkersAfter(u) ==
  \A t \in Tasks :
    \/ /\ proc'[t] = proc[t] /\ (t \in workers' => t \in workers)
       /\ t # u /\ t \in workers => t \in workers'
    \/ t # u /\ status[t] = "waiting" /\ status'[t] = "running" /\ proc'[t] = "busy"

LEMMA SettleAlters ==
  ASSUME TypeOK, NEW u \in Tasks, NEW s \in Statuses \ {"waiting"}, NEW W \in SUBSET workers,
         workers \ {u} \subseteq W, Settle(SetStatus(u, s), W)
  PROVE  WorkersAfter(u)
<1>1. SetStatus(u, s) \in [Tasks -> Statuses] /\ W \in SUBSET Tasks
  BY SetStatusType DEF TypeOK
<1>2. \A t \in Tasks :
        \/ status'[t] = SetStatus(u, s)[t] /\ proc'[t] = proc[t] /\ (t \in workers' <=> t \in W)
        \/ SetStatus(u, s)[t] = "waiting" /\ status'[t] = "running" /\ proc'[t] = "busy"
  <2>1. TryStartWaiting(SetStatus(u, s), conflicts, W, proc) /\ proc \in [Tasks -> ProcStates]
    BY DEF Settle, TypeOK
  <2> QED BY <1>1, <2>1, TryStartAlters
<1>3. SetStatus(u, s)[u] = s /\ \A t \in Tasks \ {u} : SetStatus(u, s)[t] = status[t]
  BY DEF SetStatus, TypeOK
<1> QED BY <1>2, <1>3 DEF WorkersAfter

LEMMA ReviewAlters ==
  ASSUME TypeOK, NEW u \in Tasks, Accept(u) \/ Revise(u)
  PROVE  WorkersAfter(u)
<1>1. CASE \E S : AbortHandler(S)
  BY <1>1 DEF AbortHandler, WorkersAfter
<1>2. CASE \E s \in Statuses \ {"waiting"}, W \in SUBSET workers :
             workers \ {u} \subseteq W /\ Settle(SetStatus(u, s), W)
  BY <1>2, SettleAlters
<1>3. /\ {"accepted", "needs_revision", "needs_user_decision", "rejected"} \subseteq
            Statuses \ {"waiting"}
      /\ Drop(u) \in SUBSET workers /\ workers \in SUBSET workers
      /\ workers \ {u} \subseteq Drop(u)
  BY DEF Statuses, ActiveStatuses, TerminalStatuses, Drop
<1>4. CASE Accept(u)
  BY <1>1, <1>2, <1>3, <1>4 DEF Accept
<1>5. CASE Revise(u)
  <2>1. Refused \in {"needs_user_decision", "rejected"}
    BY DEF Refused
  <2>2. \/ \E S : AbortHandler(S)
        \/ \E s \in {"needs_revision", "needs_user_decision", "rejected"} :
             Settle(SetStatus(u, s), workers)
    BY <1>5, <2>1 DEF Revise, Escalate
  <2> QED BY <1>1, <1>2, <1>3, <2>2
<1> QED BY <1>4, <1>5

LEMMA VerdictAlters ==
  ASSUME TypeOK, NEW v \in verifiers, NEW verdict, HandleVerdict(v, verdict)
  PROVE  v.task \in Tasks /\ WorkersAfter(v.task)
<1>1. v.task \in Tasks
  BY DEF TypeOK, Verifiers
<1>2. CASE Accept(v.task) \/ Revise(v.task)
  BY <1>1, <1>2, ReviewAlters
<1>3. CASE Settle(Escalate(v.task), workers)
  BY <1>1, <1>3, SettleAlters DEF Escalate, Statuses, ActiveStatuses
<1>4. CASE UNCHANGED <<workers, proc>>
  BY <1>1, <1>4 DEF WorkersAfter
<1> QED BY <1>1, <1>2, <1>3, <1>4 DEF HandleVerdict

LEMMA EndedAlters ==
  ASSUME TypeOK, NEW u \in Tasks, NEW kind \in LateKinds, HandleEnded(u, kind)
  PROVE  WorkersAfter(u)
<1>1. /\ EndStatus(kind) \in Statuses \ {"waiting"} /\ Drop(u) \in SUBSET workers
      /\ workers \ {u} \subseteq Drop(u)
  BY DEF HandleEnded, EndStatus, LateKinds, EventKinds, Statuses, TerminalStatuses, Drop
<1> QED BY <1>1, SettleAlters DEF HandleEnded

\* No task has a worker, or waits for one, before it is added.
KnownInv ==
  /\ \A t \in workers : t <= added
  /\ \A t \in Tasks : status[t] = "waiting" => t <= added
  /\ \A t \in Tasks : disk.status[t] = "waiting" => t <= disk.added

\* Workers and waiting tasks are new ones or those of before.
Familiar ==
  /\ added' >= added
  /\ \A t \in workers' : t \in workers \/ status[t] = "waiting" \/ t <= added'
  /\ \A t \in Tasks : status'[t] = "waiting" => status[t] = "waiting" \/ t <= added'

LEMMA FamiliarIsKnown ==
  ASSUME TypeOK, TypeOK', KnownInv, Familiar, Persist \/ PersistUnlessAborted \/ UNCHANGED disk
  PROVE  KnownInv'
<1>1. /\ added \in Nat /\ added' \in Nat /\ \A t \in Tasks : t \in Nat
      /\ workers \subseteq Tasks /\ workers' \subseteq Tasks
  <2>1. MaxTasks \in Nat
    BY ConstantsAssumption
  <2>2. /\ added \in 0..MaxTasks /\ workers \subseteq Tasks
        /\ added' \in 0..MaxTasks /\ workers' \subseteq Tasks
    BY DEF TypeOK
  <2> QED BY <2>1, <2>2 DEF Tasks
<1>2. /\ \A t \in workers' : t <= added'
      /\ \A t \in Tasks : status'[t] = "waiting" => t <= added'
  <2>1. /\ \A t \in workers : t <= added
        /\ \A t \in Tasks : status[t] = "waiting" => t <= added
    BY DEF KnownInv
  <2> QED BY <1>1, <2>1 DEF Familiar
<1>3. CASE Persist
  BY <1>2, <1>3 DEF Persist, KnownInv
<1>4. CASE UNCHANGED disk
  BY <1>2, <1>4 DEF KnownInv
<1> QED BY <1>3, <1>4 DEF PersistUnlessAborted

LEMMA KnownStep == TypeOK /\ TypeOK' /\ KnownInv /\ [Next]_vars => KnownInv'
<1> SUFFICES ASSUME TypeOK, TypeOK', KnownInv, [Next]_vars
             PROVE  KnownInv'
  OBVIOUS
<1> DEFINE Saves == Persist \/ PersistUnlessAborted \/ UNCHANGED disk
<1>0. /\ Familiar /\ Saves => KnownInv'
      /\ added \in Nat /\ added' \in Nat /\ workers' \subseteq Tasks
  BY FamiliarIsKnown, ConstantsAssumption DEF TypeOK
<1>a. ASSUME UNCHANGED added, NEW u \in Tasks, NEW S, Moves(u, S), "waiting" \notin S,
             WorkersAfter(u)
      PROVE  Familiar
  BY <1>0, <1>a DEF Familiar, Moves, WorkersAfter
<1>1. CASE UserStep
  <2>1. ASSUME NEW isThread \in BOOLEAN, StartNewTask(isThread)
        PROVE  Familiar /\ Saves
    BY <1>0, <2>1 DEF StartNewTask, Familiar, TypeOK
  <2>2. ASSUME NEW C \in SUBSET (1..added), QueueTask(C)
        PROVE  Familiar /\ Saves
    BY <1>0, <2>2 DEF QueueTask, peerVars, Familiar, TypeOK
  <2>3. ASSUME NEW u \in Tasks, AttachToTask(u) \/ TalkDecision(u)
        PROVE  Familiar /\ Saves
    BY <1>0, <2>3 DEF AttachToTask, TalkDecision, boardVars, peerVars, Familiar, TypeOK
  <2>4. ASSUME NEW T \in SUBSET Tasks, CancelAndStartNext(T)
        PROVE  Familiar /\ Saves
    <3>1. UNCHANGED added /\ Saves
      BY <2>4 DEF CancelAndStartNext
    <3>2. Cancelled(T) \in [Tasks -> Statuses] /\ Gone(T) \in [Tasks -> ProcStates]
      BY <2>4, CancelTasksType DEF CancelAndStartNext
    <3>3. \A t \in Tasks :
            \/ status'[t] = Cancelled(T)[t] /\ (t \in workers' <=> t \in workers)
            \/ Cancelled(T)[t] = "waiting" /\ status'[t] = "running"
      <4>1. TryStartWaiting(Cancelled(T), conflicts, workers, Gone(T)) /\ workers \in SUBSET Tasks
        BY <2>4 DEF CancelAndStartNext, TypeOK
      <4> QED BY <3>2, <4>1, TryStartAlters
    <3>4. \A t \in Tasks : Cancelled(T)[t] = "waiting" => status[t] = "waiting"
      BY DEF Cancelled
    <3> QED BY <1>0, <3>1, <3>3, <3>4 DEF Familiar
  <2>5. ASSUME NEW u \in Tasks, CancelAndRestart(u)
        PROVE  Familiar /\ Saves
    BY <1>0, <2>5 DEF CancelAndRestart, Cancelled, Familiar, TypeOK
  <2>6. ASSUME NEW u \in Tasks, NEW k \in DOMAIN mail[u],
               NEW reply \in {"usable", "void"}, ReplyMailbox(u, k, reply)
        PROVE  Familiar /\ Saves
    BY <1>0, <2>6 DEF ReplyMailbox, StatusAfterReply, Familiar, TypeOK
  <2> QED
    BY <1>0, <1>1, <2>1, <2>2, <2>3, <2>4, <2>5, <2>6 DEF UserStep, CancelTask, CancelAll
<1>2. ASSUME NEW u \in Tasks, HandleEvent(u) PROVE Familiar /\ Saves
  <2>1. CASE HandleQuestion(u) \/ HandleQuestionByNote(u)
    <3>1. /\ UNCHANGED <<added, workers>> /\ Saves
          /\ status' \in {status, SetStatus(u, "needs_user")}
      BY <2>1 DEF HandleQuestion, HandleQuestionByNote, AbortHandler
    <3>2. \A t \in Tasks : status'[t] = "waiting" => status[t] = "waiting"
      BY <3>1 DEF SetStatus, TypeOK
    <3> QED BY <1>0, <3>1, <3>2 DEF Familiar
  <2>2. ASSUME NEW kind \in LateKinds, HandleLateEvent(u, kind)
        PROVE  Familiar /\ Saves
    BY <1>0, <2>2 DEF HandleLateEvent, boardVars, peerVars, Familiar
  <2>3. ASSUME NEW kind \in LateKinds, HandleEnded(u, kind)
        PROVE  Familiar /\ Saves
    BY <1>a, <2>3, EndedMoves, EndedAlters DEF HandleEnded
  <2>4. CASE HandleCompleted(u)
    <3>1. UNCHANGED added /\ Saves
      BY <2>4 DEF HandleCompleted
    <3>2. CASE status' = SetStatus(u, "verifying") /\ UNCHANGED workers
      BY <1>0, <3>1, <3>2 DEF SetStatus, Familiar, TypeOK
    <3>3. CASE Accept(u) \/ Revise(u)
      BY <1>a, <3>1, <3>3, AcceptMoves, ReviseMoves, ReviewAlters
    <3> QED BY <2>4, <3>1, <3>2, <3>3 DEF HandleCompleted
  <2> QED BY <1>2, <2>1, <2>2, <2>3, <2>4 DEF HandleEvent
<1>3. ASSUME NEW v \in verifiers, NEW verdict, HandleVerdict(v, verdict)
      PROVE  Familiar /\ Saves
  <2>1. UNCHANGED added /\ Saves
    BY <1>3 DEF HandleVerdict
  <2> QED BY <1>a, <1>3, <2>1, VerdictMoves, VerdictAlters DEF Judged
<1>4. ASSUME NEW u \in Tasks, WorkerStep(u) \/ WorkerDies(u)
      PROVE  Familiar /\ Saves
  BY <1>0, <1>4 DEF WorkerStep, WorkerDies, WorkerAsk, WorkerAnswered, WorkerDiscards,
    WorkerCompletes, WorkerTakesFollowup, WorkerFails, CoordinatorUnchanged,
    boardVars, peerVars, Familiar
<1>5. ASSUME NEW v \in verifiers, VerifierStalls(v)
      PROVE  Familiar /\ Saves
  BY <1>0, <1>5 DEF VerifierStalls, boardVars, Familiar
<1>6. CASE Restart
  <2>1. Recovered \in [Tasks -> Statuses] /\ [t \in Tasks |-> IF proc[t] = "none" THEN "none"
                                                              ELSE "exited"] \in [Tasks -> ProcStates]
    BY DEF Recovered, TypeOK, DiskImage, Statuses, TerminalStatuses, ProcStates
  <2>2. \A t \in Tasks : \/ status'[t] = Recovered[t] /\ (t \in workers' <=> t \in {})
                         \/ Recovered[t] = "waiting" /\ status'[t] = "running"
    BY <1>6, <2>1, TryStartAlters DEF Restart
  <2>3. \A t \in Tasks : Recovered[t] = "waiting" => t <= disk.added
    BY DEF Recovered, KnownInv
  <2>4. /\ \A t \in workers' : t <= added'
        /\ \A t \in Tasks : status'[t] = "waiting" => t <= added'
    BY <1>6, <2>2, <2>3 DEF Restart, TypeOK
  <2> QED BY <1>6, <2>4 DEF Restart, Persist, KnownInv
<1>7. CASE UNCHANGED vars
  BY <1>0, <1>7 DEF vars, boardVars, peerVars, Familiar
<1> QED
  BY <1>0, <1>1, <1>2, <1>3, <1>4, <1>5, <1>6, <1>7 DEF Next, VerifierVerdict
-----------------------------------------------------------------------------
(* Workers that ask *)

Asked(t) == \E k \in DOMAIN events[t] : events[t][k] = "question"

\* A promoted turn that asks when it is cancelled asks on, and nothing reopens its task.
Stranded(t) == t \in threads /\ status[t] = "cancelled" /\ Of(t, verifiers) = {}

Answerable(t) == Asked(t) \/ Pending(t) # {} \/ answer[t] = "usable" \/ Stranded(t)

AskerInv == \A t \in workers : proc[t] = "asking" => Answerable(t)

\* Taking an event that is not a question leaves the questions.
LEMMA TakeKeepsQuestions ==
  ASSUME TypeOK, NEW u \in Tasks, NEW kind \in LateKinds, Take(u, kind), NEW t \in Tasks
  PROVE  Asked(t) => Asked(t)'
<1>1. CASE t # u
  BY <1>1 DEF Take, Asked, TypeOK
<1>2. CASE t = u
  <2> DEFINE q == events[t]
  <2>1. q \in Seq(EventKinds) /\ q # <<>> /\ Head(q) # "question" /\ events'[t] = Tail(q)
    BY <1>2 DEF Take, TypeOK, LateKinds
  <2> HIDE DEF q
  <2>2. \A k \in DOMAIN q : \/ k = 1 /\ q[k] = Head(q)
                            \/ k - 1 \in DOMAIN Tail(q) /\ Tail(q)[k - 1] = q[k]
    BY <2>1
  <2> QED BY <2>1, <2>2 DEF Asked, q
<1> QED BY <1>1, <1>2

LEMMA AskerStep ==
  TypeOK /\ KnownInv /\ AskerInv /\ ~VoidReplies /\ [Next]_vars => AskerInv'
<1> SUFFICES ASSUME TypeOK, KnownInv, AskerInv, ~VoidReplies, [Next]_vars,
                    NEW t \in Tasks, t \in workers', proc'[t] = "asking"
             PROVE  Answerable(t)'
  <2>1. TypeOK /\ [Next]_vars => workers' \subseteq Tasks
    BY NextType DEF TypeOK
  <2> QED BY <2>1 DEF AskerInv
<1> DEFINE Asks == t \in workers /\ proc[t] = "asking"
           Mail == events'[t] = events[t] /\ mail'[t] = mail[t] /\ answer'[t] = answer[t]
           Same == Asks /\ Mail /\ (Stranded(t) => Stranded(t)')
<1>0. /\ Asks => Answerable(t)
      /\ Same => Answerable(t)'
  BY DEF AskerInv, Answerable, Asked, Pending
<1>1. CASE UserStep
  <2>1. ASSUME NEW isThread \in BOOLEAN, StartNewTask(isThread)
        PROVE  Same
    BY <2>1 DEF StartNewTask, Stranded, TypeOK
  <2>2. ASSUME NEW C \in SUBSET (1..added), QueueTask(C)
        PROVE  Same
    <3>1. t # added + 1
      BY <2>2, ConstantsAssumption DEF QueueTask, KnownInv, peerVars, TypeOK, Tasks
    <3> QED BY <2>2, <3>1 DEF QueueTask, peerVars, workVars, Stranded, TypeOK
  <2>3. ASSUME NEW u \in Tasks, AttachToTask(u) \/ TalkDecision(u)
        PROVE  Same
    BY <2>3 DEF AttachToTask, TalkDecision, boardVars, peerVars, Stranded, TypeOK
  <2>4. ASSUME NEW T \in SUBSET Tasks, CancelTasks(T), NEW P,
               P = proc'[t] \/ proc'[t] = "busy", P = Gone(T)[t],
               t \in T => status'[t] = "cancelled", t \notin T => status'[t] = status[t] \/ status[t] = "waiting",
               t \in workers, UNCHANGED <<threads, answer>>
        PROVE  Answerable(t)'
    <3>1. proc[t] = "asking" /\ (t \in T => t \in threads)
      BY <2>4 DEF Gone, Live
    <3>2. CASE t \in T
      BY <2>4, <3>1, <3>2 DEF CancelTasks, Spared, Of, Answerable, Stranded
    <3>3. CASE t \notin T
      BY <1>0, <2>4, <3>1, <3>3 DEF CancelTasks, Spared, Of, Stranded, TypeOK
    <3> QED BY <3>2, <3>3
  <2>5. ASSUME NEW T \in SUBSET Tasks, CancelAndStartNext(T)
        PROVE  Answerable(t)'
    <3>1. CancelTasks(T) /\ UNCHANGED <<threads, answer>>
      BY <2>5 DEF CancelAndStartNext
    <3>2. Cancelled(T) \in [Tasks -> Statuses] /\ Gone(T) \in [Tasks -> ProcStates]
      BY <3>1, CancelTasksType
    <3>3. TryStartWaiting(Cancelled(T), conflicts, workers, Gone(T)) /\ workers \in SUBSET Tasks
      BY <2>5 DEF CancelAndStartNext, TypeOK
    <3>4. proc'[t] = Gone(T)[t] /\ t \in workers
      BY <3>2, <3>3, TryStartAlters
    <3> QED BY <2>4, <2>5, <3>1, <3>4, CancelEffect
  <2>6. ASSUME NEW u \in Tasks, CancelAndRestart(u)
        PROVE  Answerable(t)'
    <3>1. t # added + 1 /\ t \in workers /\ proc'[t] = Gone({u})[t]
      BY <2>6 DEF CancelAndRestart, Gone, TypeOK
    <3>2. /\ t \in {u} => status'[t] = "cancelled"
          /\ t \notin {u} => status'[t] = status[t]
      BY <2>6, <3>1 DEF CancelAndRestart, Cancelled
    <3>3. CancelTasks({u}) /\ UNCHANGED <<threads, answer>>
      BY <2>6 DEF CancelAndRestart
    <3> QED BY <2>4, <3>1, <3>2, <3>3
  <2>7. ASSUME NEW u \in Tasks, NEW k \in DOMAIN mail[u],
               NEW reply \in {"usable", "void"}, ReplyMailbox(u, k, reply)
        PROVE  Answerable(t)'
    <3>1. /\ Asks /\ UNCHANGED <<threads, verifiers, events>> /\ reply = "usable"
          /\ answer' = AnswerSent(u, reply) /\ status' = StatusAfterReply(u, k)
          /\ mail' = [mail EXCEPT ![u][k] = "answered"]
      BY <2>7 DEF ReplyMailbox
    <3>2. CASE t = u
      BY <3>1, <3>2 DEF AnswerSent, Answerable, TypeOK
    <3>3. CASE t # u
      <4>1. Mail /\ status'[t] = status[t]
        BY <3>1, <3>3 DEF AnswerSent, StatusAfterReply, TypeOK
      <4> QED BY <1>0, <3>1, <4>1 DEF Stranded
    <3> QED BY <3>2, <3>3
  <2> QED
    BY <1>0, <1>1, <2>1, <2>2, <2>3, <2>5, <2>6, <2>7 DEF UserStep, CancelTask, CancelAll
<1>2. ASSUME NEW u \in Tasks, NEW kind \in LateKinds, Take(u, kind), WorkersAfter(u),
             UNCHANGED <<mail, answer, threads>>, Stranded(t) => Stranded(t)'
      PROVE  Answerable(t)'
  <2>1. Asks
    BY <1>2 DEF WorkersAfter
  <2>2. Asked(t) => Asked(t)'
    BY <1>2, TakeKeepsQuestions
  <2> QED BY <1>0, <1>2, <2>1, <2>2 DEF Answerable, Pending
<1>3. ASSUME NEW u \in Tasks, HandleEvent(u) PROVE Answerable(t)'
  <2>1. CASE HandleQuestion(u)
    <3>1. /\ Asks /\ UNCHANGED <<threads, verifiers, answer>>
          /\ mail' = [mail EXCEPT ![u] = Append(@, "pending")]
          /\ status' = SetStatus(u, "needs_user") /\ events' = [events EXCEPT ![u] = Tail(@)]
      BY <2>1 DEF HandleQuestion, Take
    <3>2. CASE t = u
      <4>1. mail'[t] = Append(mail[t], "pending") /\ mail[t] \in Seq(MailStatuses)
        BY <3>1, <3>2 DEF TypeOK
      <4>2. Len(mail[t]) + 1 \in DOMAIN mail'[t] /\ mail'[t][Len(mail[t]) + 1] = "pending"
        BY <4>1 DEF MailStatuses
      <4> QED BY <4>2 DEF Answerable, Pending
    <3>3. CASE t # u
      BY <1>0, <3>1, <3>3 DEF SetStatus, Stranded, TypeOK
    <3> QED BY <3>2, <3>3
  <2>2. CASE HandleQuestionByNote(u)
    <3>1. /\ Asks /\ UNCHANGED <<threads, verifiers, status>>
          /\ mail' = [mail EXCEPT ![u] = Append(@, "answered")]
          /\ events' = [events EXCEPT ![u] = Tail(@)]
          /\ (SendFails(u) /\ UNCHANGED answer) \/ answer' = AnswerSent(u, "usable")
      <4>1. UNCHANGED <<workers, proc, status>>
        BY <2>2 DEF HandleQuestionByNote, AbortHandler
      <4>2. \/ SendFails(u) /\ UNCHANGED answer
            \/ answer' = AnswerSent(u, "usable")
        BY <2>2 DEF HandleQuestionByNote
      <4> QED BY <2>2, <4>1, <4>2 DEF HandleQuestionByNote, Take
    <3>2. CASE t = u
      <4>1. ~SendFails(u)
        BY <3>1, <3>2 DEF SendFails
      <4> QED BY <3>1, <3>2, <4>1 DEF AnswerSent, Answerable, TypeOK
    <3>3. CASE t # u
      BY <1>0, <3>1, <3>3 DEF AnswerSent, Stranded, TypeOK
    <3> QED BY <3>2, <3>3
  <2>3. ASSUME NEW kind \in LateKinds, HandleLateEvent(u, kind)
        PROVE  Answerable(t)'
    BY <1>2, <2>3 DEF HandleLateEvent, boardVars, peerVars, WorkersAfter, Stranded
  <2>4. ASSUME NEW kind \in LateKinds, HandleEnded(u, kind)
        PROVE  Answerable(t)'
    <3>1. /\ Take(u, kind) /\ UNCHANGED <<mail, answer, threads, verifiers>>
          /\ status[u] # "cancelled"
      BY <2>4 DEF HandleEnded, TerminalStatuses
    <3>2. Stranded(t) => Stranded(t)'
      BY <2>4, <3>1, EndedMoves DEF Moves, Stranded
    <3> QED BY <1>2, <2>4, <3>1, <3>2, EndedAlters
  <2>5. CASE HandleCompleted(u)
    <3>1. /\ Take(u, "completed") /\ UNCHANGED <<mail, answer, threads>>
          /\ status[u] # "cancelled" /\ "completed" \in LateKinds
      BY <2>5 DEF HandleCompleted, TerminalStatuses, LateKinds, EventKinds
    <3>2. CASE /\ status' = SetStatus(u, "verifying")
               /\ verifiers' = verifiers \cup {[task |-> u, round |-> subs[u] + 1]}
               /\ UNCHANGED <<workers, proc>>
      <4>1. Stranded(t) => Stranded(t)'
        BY <3>1, <3>2 DEF Stranded, SetStatus, Of, TypeOK
      <4> QED BY <1>2, <3>1, <3>2, <4>1 DEF WorkersAfter
    <3>3. CASE (Accept(u) \/ Revise(u)) /\ UNCHANGED verifiers
      <4>1. Stranded(t) => Stranded(t)'
        BY <3>1, <3>3, AcceptMoves, ReviseMoves DEF Moves, Stranded
      <4> QED BY <1>2, <3>1, <3>3, <4>1, ReviewAlters
    <3> QED BY <2>5, <3>2, <3>3 DEF HandleCompleted
  <2> QED BY <1>3, <2>1, <2>2, <2>3, <2>4, <2>5 DEF HandleEvent
<1>4. ASSUME NEW v \in verifiers, NEW verdict, HandleVerdict(v, verdict)
      PROVE  Same
  <2>1. UNCHANGED <<mail, answer, threads, events>> /\ verifiers' = verifiers \ {v}
    BY <1>4 DEF HandleVerdict, Retire
  <2>2. Asks
    BY <1>4, VerdictAlters DEF WorkersAfter
  <2>3. Stranded(t) => t # v.task
    BY DEF Stranded, Of
  <2>4. Stranded(t) => Stranded(t)'
    BY <1>4, <2>1, <2>3, VerdictMoves DEF Moves, Stranded, Of
  <2> QED BY <2>1, <2>2, <2>4
<1>5. ASSUME NEW u \in Tasks, WorkerStep(u)
      PROVE  Answerable(t)'
  <2>1. /\ UNCHANGED <<workers, mail, threads, status, verifiers>>
        /\ \A w \in Tasks \ {u} : /\ proc'[w] = proc[w] /\ answer'[w] = answer[w]
                                  /\ events'[w] = events[w]
    <3>1. CoordinatorUnchanged
      BY <1>5 DEF WorkerStep, WorkerAsk, WorkerAnswered, WorkerDiscards, WorkerCompletes,
        WorkerTakesFollowup, WorkerFails
    <3>2. \A w \in Tasks \ {u} : proc'[w] = proc[w]
      BY <1>5 DEF WorkerStep, WorkerAsk, WorkerAnswered, WorkerDiscards, WorkerCompletes,
        WorkerTakesFollowup, WorkerFails, Becomes, TypeOK
    <3>3. \A w \in Tasks \ {u} : answer'[w] = answer[w] /\ events'[w] = events[w]
      BY <1>5 DEF WorkerStep, WorkerAsk, WorkerAnswered, WorkerDiscards, WorkerCompletes,
        WorkerTakesFollowup, WorkerFails, Emit, TypeOK
    <3> QED BY <3>1, <3>2, <3>3 DEF CoordinatorUnchanged, boardVars, peerVars
  <2>2. CASE t # u
    BY <1>0, <2>1, <2>2 DEF Stranded
  <2>3. CASE t = u /\ WorkerAsk(u)
    <3>1. events'[t] = Append(events[t], "question") /\ events[t] \in Seq(EventKinds)
      BY <2>3 DEF WorkerAsk, Emit, TypeOK
    <3>2. /\ Len(events[t]) + 1 \in DOMAIN events'[t]
          /\ events'[t][Len(events[t]) + 1] = "question"
      BY <3>1 DEF EventKinds
    <3> QED BY <3>2 DEF Answerable, Asked
  <2>4. CASE t = u /\ WorkerAnswered(u)
    <3>1. answer[t] # "usable" /\ proc[t] = "asking" /\ events'[t] = events[t]
      BY <2>4 DEF WorkerAnswered, Becomes, TypeOK
    <3> QED BY <1>0, <2>1, <3>1 DEF Answerable, Asked, Pending, Stranded
  <2>5. CASE t = u /\ WorkerDiscards(u)
    BY <1>0, <2>1, <2>5 DEF WorkerDiscards, Stranded
  <2>6. CASE t = u /\ WorkerCompletes(u)
    BY <2>6 DEF WorkerCompletes, Becomes, TypeOK
  <2>7. CASE t = u /\ (WorkerTakesFollowup(u) \/ WorkerFails(u))
    BY <2>7 DEF WorkerTakesFollowup, WorkerFails, Becomes, AfterCommand, TypeOK
  <2> QED BY <1>5, <2>2, <2>3, <2>4, <2>5, <2>6, <2>7 DEF WorkerStep
<1>6. ASSUME NEW u \in Tasks, WorkerDies(u)
      PROVE  Same
  BY <1>6 DEF WorkerDies, Becomes, CoordinatorUnchanged, boardVars, peerVars, Stranded, TypeOK
<1>7. ASSUME NEW v \in verifiers, VerifierStalls(v)
      PROVE  Same
  BY <1>7 DEF VerifierStalls, boardVars, workVars, Stranded
<1>8. CASE Restart
  <2> DEFINE P == [u \in Tasks |-> IF proc[u] = "none" THEN "none" ELSE "exited"]
  <2>1. Recovered \in [Tasks -> Statuses] /\ P \in [Tasks -> ProcStates] /\ {} \in SUBSET Tasks
    BY DEF Recovered, TypeOK, DiskImage, Statuses, TerminalStatuses, ProcStates
  <2>2. TryStartWaiting(Recovered, RecoveredConflicts, {}, P)
    BY <1>8 DEF Restart
  <2>3. proc'[t] = P[t] \/ proc'[t] = "busy"
    <3> HIDE DEF P
    <3> QED BY <2>1, <2>2, TryStartAlters
  <2> QED BY <2>3
<1>9. CASE UNCHANGED vars
  BY <1>0, <1>9 DEF vars, boardVars, peerVars, workVars, Stranded
<1> QED
  BY <1>0, <1>1, <1>3, <1>4, <1>5, <1>6, <1>7, <1>8, <1>9 DEF Next, VerifierVerdict

\* A worker that waits for an answer gets one, or can still be given one, unless its
\* task is over: the question is on its way, with the user, or answered.  An approval
\* answered with decision "none" is the exception (VoidReplies).
THEOREM AskersCanBeAnswered ==
  ASSUME ~VoidReplies
  PROVE  Spec => []AskerCanBeAnswered
<1>1. Init => KnownInv /\ AskerInv
  BY DEF Init, KnownInv, AskerInv
<1>2. TypeOK /\ AskerInv => AskerCanBeAnswered
  BY DEF AskerInv, Answerable, Asked, Stranded, AskerCanBeAnswered, TerminalStatuses
<1>3. TypeOK /\ KnownInv /\ AskerInv /\ [Next]_vars => AskerInv'
  BY AskerStep
<1> QED BY <1>1, <1>2, <1>3, InitType, NextType, KnownStep, PTL DEF Spec
-----------------------------------------------------------------------------
(* Revisions *)

Has(box, command) == \E k \in DOMAIN box : box[k] = command
EventToCome(t) == \E k \in DOMAIN events[t] : events[t][k] # "question"

\* A worker that has been told its answer is accepted has no handle and is not to
\* be started, so that nothing else is ever sent to it.
DismissedInv ==
  \A t \in Tasks :
    Has(inbox[t], "accepted") => t \notin workers /\ status[t] # "waiting" /\ t <= added

\* A question alone does not show that the worker will do anything more.
Working(t) ==
  /\ t \in workers
  /\ \/ proc[t] \in {"busy", "asking"}
     \/ proc[t] = "submitted" /\ Has(inbox[t], "feedback")
     \/ EventToCome(t)

RevisedInv ==
  \A t \in Tasks \ threads : status[t] = "needs_revision" /\ eventLoop => Working(t)

\* What an inbox holds after a command is sent, one is taken, and a drain.
LEMMA InboxAfter ==
  ASSUME NEW box \in Seq(Commands), NEW new \in Commands, NEW command \in Commands \ {"append", "taken"}
  PROVE  /\ Has(Append(box, new), command) <=> new = command \/ Has(box, command)
         /\ Has(Drained(box), command) <=> Has(box, command)
         /\ box # <<>> => (Has(box, command) <=> Head(box) = command \/ Has(Tail(box), command))
<1>1. Has(Append(box, new), command) <=> new = command \/ Has(box, command)
  <2>1. /\ DOMAIN Append(box, new) = 1..(Len(box) + 1) /\ DOMAIN box = 1..Len(box)
        /\ Append(box, new)[Len(box) + 1] = new /\ Len(box) \in Nat
        /\ \A k \in 1..Len(box) : Append(box, new)[k] = box[k]
    OBVIOUS
  <2> QED BY <2>1 DEF Has
<1>2. Has(Drained(box), command) <=> Has(box, command)
  BY DEF Has, Drained
<1>3. ASSUME box # <<>>
      PROVE  Has(box, command) <=> Head(box) = command \/ Has(Tail(box), command)
  <2>1. /\ 1 \in DOMAIN box /\ box[1] = Head(box)
        /\ \A k \in DOMAIN box : \/ k = 1
                                 \/ k - 1 \in DOMAIN Tail(box) /\ Tail(box)[k - 1] = box[k]
        /\ \A k \in DOMAIN Tail(box) : k + 1 \in DOMAIN box /\ Tail(box)[k] = box[k + 1]
    BY <1>3
  <2> QED BY <2>1 DEF Has
<1> QED BY <1>1, <1>2, <1>3

\* What taking an event leaves to come of a task.
LEMMA EventsAfterTake ==
  ASSUME TypeOK, NEW u \in Tasks, NEW kind \in EventKinds, Take(u, kind), NEW t \in Tasks,
         t # u \/ kind = "question", EventToCome(t)
  PROVE  EventToCome(t)'
<1>1. CASE t # u
  BY <1>1 DEF Take, EventToCome, TypeOK
<1>2. CASE t = u /\ kind = "question"
  <2> DEFINE q == events[t]
  <2>1. q \in Seq(EventKinds) /\ q # <<>> /\ Head(q) = "question" /\ events'[t] = Tail(q)
    BY <1>2 DEF Take, TypeOK
  <2> HIDE DEF q
  <2>2. \A k \in DOMAIN q : \/ k = 1 /\ q[k] = Head(q)
                            \/ k - 1 \in DOMAIN Tail(q) /\ Tail(q)[k - 1] = q[k]
    BY <2>1
  <2> QED BY <2>1, <2>2 DEF EventToCome, q
<1> QED BY <1>1, <1>2

\* What a command to worker u leaves in the inboxes.
LEMMA DeliverLeaves ==
  ASSUME TypeOK, NEW u \in Tasks, NEW command \in {"append", "feedback", "accepted"},
         NEW t \in Tasks
  PROVE  /\ Has(inbox[t], "feedback") => Has(Deliver(u, command)[t], "feedback")
         /\ Has(Deliver(u, command)[t], "accepted") =>
              \/ Has(inbox[t], "accepted")
              \/ t = u /\ u \in workers /\ command = "accepted"
         /\ u \in workers \ threads => Has(Deliver(u, "feedback")[u], "feedback")
<1>1. command \in Commands /\ "feedback" \in Commands /\ inbox[t] \in Seq(Commands)
      /\ inbox[u] \in Seq(Commands)
  BY DEF TypeOK, Commands
<1>2. /\ Has(Append(inbox[t], command), "feedback") <=>
           command = "feedback" \/ Has(inbox[t], "feedback")
      /\ Has(Append(inbox[t], command), "accepted") <=>
           command = "accepted" \/ Has(inbox[t], "accepted")
      /\ Has(Append(inbox[u], "feedback"), "feedback")
  BY <1>1, InboxAfter DEF Commands
<1>3. CASE t = u /\ u \in workers \ threads
  <2>1. Deliver(u, command)[t] = Append(inbox[t], command)
        /\ Deliver(u, "feedback")[u] = Append(inbox[u], "feedback")
    BY <1>3 DEF Deliver, TypeOK
  <2> QED BY <1>2, <1>3, <2>1
<1>4. CASE ~(t = u /\ u \in workers \ threads)
  <2>1. Deliver(u, command)[t] = inbox[t]
    BY <1>4 DEF Deliver, TypeOK
  <2>2. u \in workers \ threads => Deliver(u, "feedback")[u] = Append(inbox[u], "feedback")
    BY DEF Deliver, TypeOK
  <2> QED BY <1>2, <1>4, <2>1, <2>2
<1> QED BY <1>3, <1>4

\* Judging task u leaves the other inboxes, and dismisses the worker it accepts.
LEMMA ReviewLeaves ==
  ASSUME TypeOK, NEW u \in Tasks, Accept(u) \/ Revise(u), NEW t \in Tasks
  PROVE  /\ Has(inbox[t], "feedback") => Has(inbox'[t], "feedback")
         /\ Has(inbox'[t], "accepted") =>
              Has(inbox[t], "accepted") \/ (t = u /\ u \in workers /\ u \notin workers')
         /\ status'[u] = "needs_revision" /\ eventLoop' /\ u \notin threads =>
              u \in workers' /\ proc'[u] \in Live /\ Has(inbox'[u], "feedback")
<1>1. CASE UNCHANGED inbox /\ status'[u] # "needs_revision"
  BY <1>1
<1>2. CASE \E S : AbortHandler(S)
  BY <1>2 DEF AbortHandler
<1>3. CASE /\ Accept(u) /\ inbox' = Deliver(u, "accepted")
           /\ Settle(SetStatus(u, "accepted"), Drop(u))
  <2>1. Moves(u, {"accepted"})
    BY <1>3, AcceptMoves
  <2>2. SetStatus(u, "accepted") \in [Tasks -> Statuses]
    BY SetStatusType DEF Statuses, TerminalStatuses
  <2>3. u \notin workers'
    BY <1>3, <2>1, <2>2, SettleEffect DEF Moves, Drop
  <2> QED BY <1>3, <2>1, <2>3, DeliverLeaves DEF Moves
<1>4. CASE /\ inbox' = Deliver(u, "feedback") /\ u \in workers /\ ~SendFails(u)
           /\ Settle(SetStatus(u, "needs_revision"), workers)
  <2>1. u \in workers' /\ proc'[u] = proc[u]
    <3>1. /\ SetStatus(u, "needs_revision") \in [Tasks -> Statuses] /\ workers \in SUBSET Tasks
          /\ proc \in [Tasks -> ProcStates]
          /\ TryStartWaiting(SetStatus(u, "needs_revision"), conflicts, workers, proc)
      BY <1>4, SetStatusType DEF Settle, TypeOK, Statuses, ActiveStatuses
    <3>2. SetStatus(u, "needs_revision")[u] = "needs_revision"
      BY DEF SetStatus, TypeOK
    <3> QED BY <1>4, <3>1, <3>2, TryStartAlters
  <2>2. u \notin threads => proc[u] \in Live
    BY <1>4 DEF SendFails, TypeOK, ProcStates, Live
  <2> QED BY <1>4, <2>1, <2>2, DeliverLeaves
<1>5. CASE Accept(u)
  BY <1>2, <1>3, <1>5 DEF Accept
<1>6. CASE Revise(u)
  <2>1. ASSUME NEW s \in {"rejected", "needs_user_decision"}, Settle(SetStatus(u, s), workers)
        PROVE  status'[u] # "needs_revision"
    BY <2>1, SettleMoves DEF Moves, Statuses, ActiveStatuses, TerminalStatuses
  <2>2. Refused \in {"rejected", "needs_user_decision"}
    BY DEF Refused
  <2>3. \/ \E S : AbortHandler(S)
        \/ /\ inbox' = Deliver(u, "feedback") /\ u \in workers /\ ~SendFails(u)
           /\ Settle(SetStatus(u, "needs_revision"), workers)
        \/ /\ UNCHANGED inbox
           /\ \E s \in {"rejected", "needs_user_decision"} : Settle(SetStatus(u, s), workers)
    BY <1>6, <2>2 DEF Revise, Escalate
  <2> QED BY <1>1, <1>2, <1>4, <2>1, <2>3
<1> QED BY <1>5, <1>6

LEMMA VerdictLeaves ==
  ASSUME TypeOK, NEW v \in verifiers, NEW verdict, HandleVerdict(v, verdict), NEW t \in Tasks
  PROVE  /\ Has(inbox[t], "feedback") => Has(inbox'[t], "feedback")
         /\ Has(inbox'[t], "accepted") =>
              Has(inbox[t], "accepted") \/ (t \in workers /\ t \notin workers')
         /\ status'[v.task] = "needs_revision" /\ eventLoop' /\ v.task \notin threads =>
              /\ v.task \in workers' /\ proc'[v.task] \in Live
              /\ Has(inbox'[v.task], "feedback")
<1>1. v.task \in Tasks
  BY DEF TypeOK, Verifiers
<1>2. CASE Accept(v.task) \/ Revise(v.task)
  BY <1>1, <1>2, ReviewLeaves
<1>3. CASE Settle(Escalate(v.task), workers) /\ UNCHANGED inbox
  BY <1>1, <1>3, SettleMoves DEF Escalate, Moves, Statuses, ActiveStatuses
<1>4. CASE status' = Escalate(v.task) /\ UNCHANGED inbox
  BY <1>1, <1>4 DEF Escalate, SetStatus, TypeOK
<1> QED BY <1>2, <1>3, <1>4 DEF HandleVerdict

\* What a worker's own step leaves in its inbox.
LEMMA WorkerLeaves ==
  ASSUME TypeOK, NEW u \in Tasks, WorkerStep(u) \/ WorkerDies(u), NEW t \in Tasks
  PROVE  Has(inbox'[t], "accepted") => Has(inbox[t], "accepted")
<1>1. inbox[t] \in Seq(Commands) /\ "accepted" \in Commands \ {"append", "taken"}
      /\ "append" \in Commands
  BY DEF TypeOK, Commands
<1>2. /\ Has(Drained(inbox[t]), "accepted") <=> Has(inbox[t], "accepted")
      /\ inbox[t] # <<>> /\ Has(Tail(inbox[t]), "accepted") => Has(inbox[t], "accepted")
  BY <1>1, InboxAfter
<1>3. \/ inbox'[t] = inbox[t] \/ inbox'[t] = Drained(inbox[t])
      \/ inbox[t] # <<>> /\ inbox'[t] = Tail(inbox[t])
  BY DEF WorkerStep, WorkerDies, WorkerAsk, WorkerAnswered, WorkerDiscards,
    WorkerCompletes, WorkerTakesFollowup, WorkerFails, CoordinatorUnchanged, TypeOK
<1> QED BY <1>2, <1>3

LEMMA DismissedStep ==
  TypeOK /\ TypeOK' /\ KnownInv /\ DismissedInv /\ [Next]_vars => DismissedInv'
<1> SUFFICES ASSUME TypeOK, TypeOK', KnownInv, DismissedInv, [Next]_vars,
                    NEW t \in Tasks, Has(inbox'[t], "accepted")
             PROVE  t \notin workers' /\ status'[t] # "waiting" /\ t <= added'
  BY DEF DismissedInv
<1> DEFINE Quiet == /\ Has(inbox[t], "accepted")
                    /\ t \in workers' => t \in workers \/ status[t] = "waiting"
                    /\ status'[t] = "waiting" => status[t] = "waiting"
                    /\ UNCHANGED added
           Goal == t \notin workers' /\ status'[t] # "waiting" /\ t <= added'
<1>0. /\ added \in Nat /\ added' \in Nat /\ t \in Nat
      /\ Has(inbox[t], "accepted") => t \notin workers /\ status[t] # "waiting" /\ t <= added
      /\ t \in workers => t <= added
      /\ Quiet => Goal
  <2>1. /\ Has(inbox[t], "accepted") => t \notin workers /\ status[t] # "waiting" /\ t <= added
        /\ t \in workers => t <= added
    BY DEF DismissedInv, KnownInv
  <2>2. MaxTasks \in Nat /\ added \in 0..MaxTasks /\ added' \in 0..MaxTasks /\ t \in 1..MaxTasks
    BY ConstantsAssumption DEF TypeOK, Tasks
  <2>3. Quiet => Goal
    BY <2>1
  <2> QED BY <2>1, <2>2, <2>3
<1>1. CASE UserStep
  <2>1. ASSUME NEW isThread \in BOOLEAN, StartNewTask(isThread)
        PROVE  Goal
    BY <1>0, <2>1 DEF StartNewTask, TypeOK
  <2>2. ASSUME NEW C \in SUBSET (1..added), QueueTask(C)
        PROVE  Goal
    BY <1>0, <2>2 DEF QueueTask, peerVars, workVars, TypeOK
  <2>3. ASSUME NEW u \in Tasks, AttachToTask(u) \/ TalkDecision(u)
        PROVE  Quiet
    <3>1. inbox' \in {inbox, Deliver(u, "append"), Deliver(u, "feedback")}
      BY <2>3 DEF AttachToTask, TalkDecision
    <3>2. Has(inbox[t], "accepted")
      BY <3>1, DeliverLeaves
    <3> QED BY <2>3, <3>2 DEF AttachToTask, TalkDecision, boardVars, peerVars, TypeOK
  <2>4. ASSUME NEW T \in SUBSET Tasks, CancelAndStartNext(T)
        PROVE  Quiet
    <3>1. UNCHANGED <<added, inbox>>
      BY <2>4 DEF CancelAndStartNext
    <3>2. Cancelled(T) \in [Tasks -> Statuses] /\ Gone(T) \in [Tasks -> ProcStates]
      BY <2>4, CancelTasksType DEF CancelAndStartNext
    <3>3. TryStartWaiting(Cancelled(T), conflicts, workers, Gone(T)) /\ workers \in SUBSET Tasks
      BY <2>4 DEF CancelAndStartNext, TypeOK
    <3>4. \/ status'[t] = Cancelled(T)[t] /\ (t \in workers' <=> t \in workers)
          \/ Cancelled(T)[t] = "waiting" /\ status'[t] = "running"
      BY <3>2, <3>3, TryStartAlters
    <3>5. Cancelled(T)[t] = "waiting" => status[t] = "waiting"
      BY DEF Cancelled
    <3> QED BY <3>1, <3>4, <3>5
  <2>5. ASSUME NEW u \in Tasks, CancelAndRestart(u)
        PROVE  Goal
    <3>1. /\ UNCHANGED inbox /\ added' = added + 1 /\ workers' = workers \cup {added + 1}
          /\ t # added + 1 => status'[t] \in {"cancelled", status[t]}
      BY <2>5 DEF CancelAndRestart, Cancelled
    <3> QED BY <1>0, <3>1
  <2>6. ASSUME NEW u \in Tasks, NEW k \in DOMAIN mail[u],
               NEW reply \in {"usable", "void"}, ReplyMailbox(u, k, reply)
        PROVE  Quiet
    BY <2>6 DEF ReplyMailbox, StatusAfterReply, TypeOK
  <2> QED
    BY <1>0, <1>1, <2>1, <2>2, <2>3, <2>4, <2>5, <2>6 DEF UserStep, CancelTask, CancelAll
<1>2. ASSUME NEW u \in Tasks, NEW S, Moves(u, S), "waiting" \notin S, WorkersAfter(u),
             UNCHANGED added,
             Has(inbox[t], "accepted") \/ (t \in workers /\ t \notin workers')
      PROVE  Goal
  <2>1. /\ t \in workers' => t \in workers \/ status[t] = "waiting"
        /\ status'[t] = "waiting" => status[t] = "waiting" /\ t # u
    BY <1>2 DEF WorkersAfter, Moves
  <2>2. t \notin workers' /\ t \in workers => status'[t] # "waiting" \/ status[t] = "waiting"
    BY <2>1
  <2> QED BY <1>0, <1>2, <2>1, <2>2 DEF WorkersAfter
<1>3. ASSUME NEW u \in Tasks, HandleEvent(u) PROVE Goal
  <2>1. CASE HandleQuestion(u) \/ HandleQuestionByNote(u)
    <3>1. /\ UNCHANGED <<added, workers, inbox>>
          /\ status' \in {status, SetStatus(u, "needs_user")}
      BY <2>1 DEF HandleQuestion, HandleQuestionByNote, AbortHandler
    <3>2. status'[t] = "waiting" => status[t] = "waiting"
      BY <3>1 DEF SetStatus, TypeOK
    <3> QED BY <1>0, <3>1, <3>2
  <2>2. ASSUME NEW kind \in LateKinds, HandleLateEvent(u, kind)
        PROVE  Quiet
    BY <2>2 DEF HandleLateEvent, boardVars, peerVars
  <2>3. ASSUME NEW kind \in LateKinds, HandleEnded(u, kind)
        PROVE  Goal
    <3>1. UNCHANGED <<added, inbox>>
      BY <2>3 DEF HandleEnded
    <3> QED BY <1>2, <2>3, <3>1, EndedMoves, EndedAlters
  <2>4. CASE HandleCompleted(u)
    <3>1. UNCHANGED added
      BY <2>4 DEF HandleCompleted
    <3>2. CASE status' = SetStatus(u, "verifying") /\ UNCHANGED <<workers, inbox>>
      BY <1>0, <3>1, <3>2 DEF SetStatus, TypeOK
    <3>3. CASE Accept(u) \/ Revise(u)
      BY <1>2, <3>1, <3>3, AcceptMoves, ReviseMoves, ReviewAlters, ReviewLeaves
    <3> QED BY <2>4, <3>2, <3>3 DEF HandleCompleted
  <2> QED BY <1>0, <1>3, <2>1, <2>2, <2>3, <2>4 DEF HandleEvent
<1>4. ASSUME NEW v \in verifiers, NEW verdict, HandleVerdict(v, verdict)
      PROVE  Goal
  <2>1. UNCHANGED added /\ "waiting" \notin Judged
    BY <1>4 DEF HandleVerdict, Judged
  <2> QED BY <1>2, <1>4, <2>1, VerdictMoves, VerdictAlters, VerdictLeaves
<1>5. ASSUME NEW u \in Tasks, WorkerStep(u) \/ WorkerDies(u)
      PROVE  Quiet
  <2>1. Has(inbox[t], "accepted")
    BY <1>5, WorkerLeaves
  <2> QED
    BY <1>5, <2>1 DEF WorkerStep, WorkerDies, WorkerAsk, WorkerAnswered, WorkerDiscards,
      WorkerCompletes, WorkerTakesFollowup, WorkerFails, CoordinatorUnchanged,
      boardVars, peerVars
<1>6. ASSUME NEW v \in verifiers, VerifierStalls(v)
      PROVE  Quiet
  BY <1>6 DEF VerifierStalls, boardVars, workVars
<1>7. CASE Restart
  BY <1>7 DEF Restart, Has
<1>8. CASE UNCHANGED vars
  BY <1>0, <1>8 DEF vars, boardVars, peerVars, workVars
<1> QED
  BY <1>0, <1>1, <1>3, <1>4, <1>5, <1>6, <1>7, <1>8 DEF Next, VerifierVerdict

LEMMA RevisedStep ==
  /\ TypeOK /\ TypeOK' /\ KnownInv /\ DismissedInv /\ RevisedInv /\ ~WorkersMayDie
  /\ [Next]_vars
  => RevisedInv'
<1> SUFFICES ASSUME TypeOK, TypeOK', KnownInv, DismissedInv, RevisedInv, ~WorkersMayDie,
                    [Next]_vars, NEW t \in Tasks, t \notin threads',
                    status'[t] = "needs_revision", eventLoop'
             PROVE  Working(t)'
  BY DEF RevisedInv
<1> DEFINE Before == t \notin threads /\ status[t] = "needs_revision" /\ eventLoop
           Stays == /\ Before /\ proc'[t] = proc[t]
                    /\ t \in workers => t \in workers'
                    /\ Has(inbox[t], "feedback") => Has(inbox'[t], "feedback")
                    /\ EventToCome(t) => EventToCome(t)'
           Alike == UNCHANGED <<status, workers, threads, eventLoop, inbox, events>>
                      /\ proc'[t] = proc[t]
<1>0. /\ Before => Working(t)
      /\ Stays => Working(t)'
      /\ Alike => Stays
  BY DEF RevisedInv, Working, EventToCome
<1>1. CASE UserStep
  <2>1. ASSUME NEW isThread \in BOOLEAN, StartNewTask(isThread)
        PROVE  Stays
    <3>1. t # added + 1 /\ status'[t] = status[t] /\ proc'[t] = proc[t]
      BY <2>1 DEF StartNewTask, TypeOK
    <3>2. UNCHANGED <<inbox, events, eventLoop>> /\ workers \subseteq workers'
          /\ threads \subseteq threads'
      BY <2>1 DEF StartNewTask
    <3> QED BY <3>1, <3>2 DEF EventToCome
  <2>2. ASSUME NEW C \in SUBSET (1..added), QueueTask(C)
        PROVE  Stays
    <3>1. status'[t] = status[t]
      BY <2>2 DEF QueueTask, TypeOK
    <3> QED BY <2>2, <3>1 DEF QueueTask, peerVars, workVars, EventToCome
  <2>3. ASSUME NEW u \in Tasks, AttachToTask(u) \/ TalkDecision(u)
        PROVE  Stays
    <3>1. inbox' \in {inbox, Deliver(u, "append"), Deliver(u, "feedback")}
      BY <2>3 DEF AttachToTask, TalkDecision
    <3>2. Has(inbox[t], "feedback") => Has(inbox'[t], "feedback")
      BY <3>1, DeliverLeaves
    <3>3. status'[t] = status[t]
      BY <2>3 DEF AttachToTask, TalkDecision, boardVars, TypeOK
    <3> QED BY <2>3, <3>2, <3>3 DEF AttachToTask, TalkDecision, peerVars, EventToCome
  <2>4. ASSUME NEW T \in SUBSET Tasks, CancelTasks(T), t \notin T, proc'[t] = Gone(T)[t],
               status'[t] = status[t], workers \subseteq workers',
               UNCHANGED <<threads, inbox, eventLoop>>
        PROVE  Stays
    BY <2>4 DEF CancelTasks, Gone, EventToCome
  <2>5. ASSUME NEW T \in SUBSET Tasks, CancelAndStartNext(T)
        PROVE  Stays
    <3>1. CancelTasks(T) /\ UNCHANGED <<threads, inbox, eventLoop>>
      BY <2>5 DEF CancelAndStartNext
    <3>2. t \notin T /\ status'[t] = status[t]
      BY <2>5, CancelEffect
    <3>3. Cancelled(T) \in [Tasks -> Statuses] /\ Gone(T) \in [Tasks -> ProcStates]
      BY <3>1, CancelTasksType
    <3>4. TryStartWaiting(Cancelled(T), conflicts, workers, Gone(T)) /\ workers \in SUBSET Tasks
      BY <2>5 DEF CancelAndStartNext, TypeOK
    <3>5. proc'[t] = Gone(T)[t]
      BY <3>3, <3>4, TryStartAlters
    <3>6. workers \subseteq workers'
      BY <3>4 DEF TryStartWaiting
    <3> QED BY <2>4, <3>1, <3>2, <3>5, <3>6
  <2>6. ASSUME NEW u \in Tasks, CancelAndRestart(u)
        PROVE  Stays
    <3>1. t # added + 1 /\ status'[t] = Cancelled({u})[t] /\ proc'[t] = Gone({u})[t]
      BY <2>6 DEF CancelAndRestart, Cancelled, Gone, TypeOK
    <3>2. t \notin {u} /\ status'[t] = status[t]
      BY <3>1 DEF Cancelled
    <3> QED BY <2>4, <2>6, <3>1, <3>2 DEF CancelAndRestart
  <2>7. ASSUME NEW u \in Tasks, NEW k \in DOMAIN mail[u],
               NEW reply \in {"usable", "void"}, ReplyMailbox(u, k, reply)
        PROVE  Stays
    <3>1. status'[t] = status[t]
      BY <2>7 DEF ReplyMailbox, StatusAfterReply, TypeOK
    <3> QED BY <2>7, <3>1 DEF ReplyMailbox, EventToCome
  <2> QED
    BY <1>0, <1>1, <2>1, <2>2, <2>3, <2>5, <2>6, <2>7 DEF UserStep, CancelTask, CancelAll
<1>2. ASSUME NEW u \in Tasks, NEW S, Moves(u, S), WorkersAfter(u), t # u, eventLoop,
             UNCHANGED threads, EventToCome(t) => EventToCome(t)',
             Has(inbox[t], "feedback") => Has(inbox'[t], "feedback")
      PROVE  Stays
  BY <1>2 DEF Moves, WorkersAfter
<1>3. ASSUME NEW u \in Tasks, HandleEvent(u) PROVE Working(t)'
  <2>1. CASE HandleQuestion(u) \/ HandleQuestionByNote(u)
    <3>1. /\ UNCHANGED <<workers, threads, inbox>> /\ eventLoop /\ Take(u, "question")
          /\ status' \in {status, SetStatus(u, "needs_user")} /\ UNCHANGED proc
      BY <2>1 DEF HandleQuestion, HandleQuestionByNote, AbortHandler, Take
    <3>2. status'[t] = status[t]
      BY <3>1 DEF SetStatus, TypeOK
    <3>3. EventToCome(t) => EventToCome(t)'
      BY <3>1, EventsAfterTake DEF EventKinds
    <3> QED BY <1>0, <3>1, <3>2, <3>3
  <2>2. ASSUME NEW kind \in LateKinds, HandleLateEvent(u, kind)
        PROVE  Working(t)'
    <3>1. /\ status[u] \in TerminalStatuses /\ Take(u, kind) /\ kind \in EventKinds
          /\ UNCHANGED <<status, workers, threads, inbox, proc, eventLoop>>
      BY <2>2 DEF HandleLateEvent, boardVars, peerVars, LateKinds
    <3>2. t # u
      BY <3>1 DEF TerminalStatuses
    <3>3. EventToCome(t) => EventToCome(t)'
      BY <3>1, <3>2, EventsAfterTake
    <3> QED BY <1>0, <3>1, <3>3
  <2>3. ASSUME NEW kind \in LateKinds, HandleEnded(u, kind)
        PROVE  Working(t)'
    <3>1. Take(u, kind) /\ UNCHANGED <<threads, inbox>> /\ eventLoop /\ kind \in EventKinds
      BY <2>3 DEF HandleEnded, Take, LateKinds
    <3>2. Moves(u, {"failed", "blocked", "cancelled"}) /\ WorkersAfter(u)
      BY <2>3, EndedMoves, EndedAlters
    <3>3. t # u
      BY <3>2 DEF Moves
    <3>4. EventToCome(t) => EventToCome(t)'
      BY <3>1, <3>3, EventsAfterTake
    <3> QED BY <1>0, <1>2, <3>1, <3>2, <3>3, <3>4
  <2>4. CASE HandleCompleted(u)
    <3>1. Take(u, "completed") /\ UNCHANGED threads /\ eventLoop /\ "completed" \in EventKinds
      BY <2>4 DEF HandleCompleted, Take, EventKinds
    <3>2. CASE status' = SetStatus(u, "verifying") /\ UNCHANGED <<workers, inbox, proc>>
      <4>1. t # u /\ status'[t] = status[t]
        BY <3>2 DEF SetStatus, TypeOK
      <4>2. EventToCome(t) => EventToCome(t)'
        BY <3>1, <4>1, EventsAfterTake
      <4> QED BY <1>0, <3>1, <3>2, <4>1, <4>2
    <3>3. CASE Accept(u) \/ Revise(u)
      <4>1. CASE t = u
        BY <3>1, <3>3, <4>1, ReviewLeaves DEF Working, Live
      <4>2. CASE t # u
        <5>1. EventToCome(t) => EventToCome(t)'
          BY <3>1, <4>2, EventsAfterTake
        <5>2. Has(inbox[t], "feedback") => Has(inbox'[t], "feedback")
          BY <3>3, ReviewLeaves
        <5>3. WorkersAfter(u) /\ \E S : Moves(u, S)
          BY <3>3, AcceptMoves, ReviseMoves, ReviewAlters
        <5> QED BY <1>0, <1>2, <3>1, <4>2, <5>1, <5>2, <5>3
      <4> QED BY <4>1, <4>2
    <3> QED BY <2>4, <3>2, <3>3 DEF HandleCompleted
  <2> QED BY <1>3, <2>1, <2>2, <2>3, <2>4 DEF HandleEvent
<1>4. ASSUME NEW v \in verifiers, NEW verdict, HandleVerdict(v, verdict)
      PROVE  Working(t)'
  <2>1. UNCHANGED <<threads, events>> /\ eventLoop
    BY <1>4 DEF HandleVerdict
  <2>2. CASE t = v.task
    BY <1>4, <2>1, <2>2, VerdictLeaves DEF Working, Live
  <2>3. CASE t # v.task
    <3>1. Has(inbox[t], "feedback") => Has(inbox'[t], "feedback")
      BY <1>4, VerdictLeaves
    <3>2. v.task \in Tasks /\ WorkersAfter(v.task) /\ Moves(v.task, Judged)
      BY <1>4, VerdictAlters, VerdictMoves
    <3>3. EventToCome(t) => EventToCome(t)'
      BY <2>1 DEF EventToCome
    <3> QED BY <1>0, <1>2, <2>1, <2>3, <3>1, <3>2, <3>3
  <2> QED BY <2>2, <2>3
<1>5. ASSUME NEW u \in Tasks, WorkerStep(u)
      PROVE  Working(t)'
  <2>1. UNCHANGED <<status, workers, threads, eventLoop>>
    BY <1>5 DEF WorkerStep, WorkerAsk, WorkerAnswered, WorkerDiscards, WorkerCompletes,
      WorkerTakesFollowup, WorkerFails, CoordinatorUnchanged, boardVars, peerVars
  <2>2. CASE t # u
    <3>1. proc'[t] = proc[t]
      BY <1>5, <2>2 DEF WorkerStep, WorkerAsk, WorkerAnswered, WorkerDiscards, WorkerCompletes,
        WorkerTakesFollowup, WorkerFails, Becomes, TypeOK
    <3>2. inbox'[t] = inbox[t] /\ events'[t] = events[t]
      BY <1>5, <2>2 DEF WorkerStep, WorkerAsk, WorkerAnswered, WorkerDiscards, WorkerCompletes,
        WorkerTakesFollowup, WorkerFails, Emit, TypeOK
    <3> QED BY <1>0, <2>1, <3>1, <3>2 DEF EventToCome
  <2>3. CASE t = u
    <3>1. Working(t) /\ t \in workers'
      BY <1>0, <2>1 DEF Working
    <3>2. CASE proc'[t] \in {"busy", "asking"}
      BY <3>1, <3>2 DEF Working
    <3>3. ASSUME NEW kind \in EventKinds \ {"question"}, Emit(t, kind)
          PROVE  Working(t)'
      <4>1. events'[t] = Append(events[t], kind) /\ events[t] \in Seq(EventKinds)
        BY <3>3 DEF Emit, TypeOK
      <4>2. Len(events[t]) + 1 \in DOMAIN events'[t] /\ events'[t][Len(events[t]) + 1] = kind
        BY <4>1
      <4>3. EventToCome(t)'
        BY <3>3, <4>2 DEF EventToCome
      <4> QED BY <3>1, <4>3 DEF Working
    <3>4. CASE WorkerAsk(t) \/ WorkerAnswered(t) \/ WorkerDiscards(t)
      BY <3>2, <3>4 DEF WorkerAsk, WorkerAnswered, WorkerDiscards, Becomes, TypeOK
    <3>5. CASE WorkerCompletes(t)
      <4>1. CASE UNCHANGED proc
        BY <3>2, <3>5, <4>1 DEF WorkerCompletes
      <4>2. CASE Emit(t, "completed")
        BY <3>3, <4>2 DEF EventKinds
      <4> QED BY <3>5, <4>1, <4>2 DEF WorkerCompletes
    <3>6. CASE WorkerFails(t)
      BY <3>3, <3>6 DEF WorkerFails, EventKinds
    <3>7. CASE WorkerTakesFollowup(t)
      <4>1. /\ inbox[t] \in Seq(Commands) /\ inbox[t] # <<>> /\ proc[t] = "submitted"
            /\ inbox'[t] = Tail(inbox[t]) /\ events'[t] = events[t]
            /\ proc'[t] = AfterCommand(Head(inbox[t]))
        BY <3>7 DEF WorkerTakesFollowup, Becomes, TypeOK
      <4>2. \A c \in {"feedback", "accepted"} :
              Has(inbox[t], c) <=> Head(inbox[t]) = c \/ Has(Tail(inbox[t]), c)
        BY <4>1, InboxAfter DEF Commands
      <4>3. CASE Head(inbox[t]) = "feedback"
        BY <3>2, <4>1, <4>3 DEF AfterCommand
      <4>4. Head(inbox[t]) # "accepted"
        BY <3>1, <4>1, <4>2 DEF DismissedInv, Working
      <4>5. CASE Head(inbox[t]) # "feedback"
        BY <3>1, <3>2, <4>1, <4>2, <4>4, <4>5 DEF Working, EventToCome, AfterCommand
      <4> QED BY <4>3, <4>5
    <3> QED BY <1>5, <2>3, <3>4, <3>5, <3>6, <3>7 DEF WorkerStep
  <2> QED BY <2>2, <2>3
<1>6. ASSUME NEW u \in Tasks, WorkerDies(u)
      PROVE  FALSE
  BY <1>6 DEF WorkerDies
<1>7. ASSUME NEW v \in verifiers, VerifierStalls(v)
      PROVE  Alike
  BY <1>7 DEF VerifierStalls, boardVars, workVars
<1>8. CASE Restart
  BY <1>8, RestartEffect DEF StaleStatuses
<1>9. CASE UNCHANGED vars
  BY <1>0, <1>9 DEF vars, boardVars, peerVars, workVars
<1> QED
  BY <1>0, <1>1, <1>3, <1>4, <1>5, <1>6, <1>7, <1>8, <1>9 DEF Next, VerifierVerdict

\* A task that was sent back for revision is worked on, or its worker has something
\* to report, unless worker processes die without a last word (WorkersMayDie).
THEOREM RevisionsAreWorkedOn ==
  ASSUME ~WorkersMayDie
  PROVE  Spec => []RevisionIsWorkedOn
<1>1. Init => KnownInv /\ DismissedInv /\ RevisedInv
  BY DEF Init, KnownInv, DismissedInv, RevisedInv, Has
<1>2. RevisedInv => RevisionIsWorkedOn
  BY DEF RevisedInv, Working, EventToCome, Has, RevisionIsWorkedOn
<1>3. TypeOK /\ TypeOK' /\ KnownInv /\ DismissedInv /\ RevisedInv /\ [Next]_vars => RevisedInv'
  BY RevisedStep
<1> QED BY <1>1, <1>2, <1>3, InitType, NextType, KnownStep, DismissedStep, PTL DEF Spec

-----------------------------------------------------------------------------
(* What brings a task back that has ended, for any number of tasks, attempts and *)
(* questions: only what its own worker sent before it heard of the end.          *)

(* What reopens a task *)

Idle == {"absent", "waiting"}

\* A task has no worker process, past or present, until it is started.
FreshInv ==
  /\ disk.added = added
  /\ \A t \in Tasks : t > added => status[t] = "absent" /\ disk.status[t] = "absent"
  /\ \A t \in Tasks : status[t] \in Idle \/ disk.status[t] \in Idle => proc[t] = "none"

\* Nothing is known of a worker that was never started.
SilentInv ==
  \A t \in Tasks : proc[t] = "none" =>
    /\ events[t] = <<>> /\ Of(t, verifiers) = {}
    /\ Pending(t) = {} /\ answer[t] # "usable"
    /\ \A k \in DOMAIN disk.mail[t] : disk.mail[t][k] # "pending"

Questions(t) == {k \in DOMAIN events[t] : events[t][k] = "question"}

\* A worker asks one question at a time: it is on its way, with the user, or answered.
QuestionInv ==
  \A t \in Tasks :
    /\ proc[t] \in {"busy", "submitted"} =>
         Questions(t) = {} /\ Pending(t) = {} /\ answer[t] # "usable"
    /\ proc[t] = "asking" =>
         /\ \A i, j \in Questions(t) : i = j
         /\ \A i, j \in Pending(t) : i = j
         /\ Questions(t) # {} => Pending(t) = {} /\ answer[t] # "usable"
         /\ Pending(t) # {} => answer[t] # "usable"

\* A worker only says that it is cancelled once its task is, and asks nothing before
\* it says so; a cancelled task is not under review.
CancelInv ==
  \A t \in Tasks :
    /\ \A k \in DOMAIN events[t] : events[t][k] = "cancelled" =>
         status[t] = "cancelled" /\ \A j \in Questions(t) : j > k
    /\ status[t] = "cancelled" => Of(t, verifiers) = {}

\* The end of a task is saved as long as the event thread lives.
SavedInv ==
  eventLoop => \A t \in Tasks : status[t] \in TerminalStatuses => disk.status[t] = status[t]

-----------------------------------------------------------------------------
(* What a step does to one task *)

Boxes(t) == mail'[t] = mail[t] /\ answer'[t] = answer[t] /\ events'[t] = events[t]
NoNewVerifier(t) == Of(t, verifiers)' \subseteq Of(t, verifiers)

\* The status of t changes only while the task is open, or on a verdict.
Turns(t) ==
  \/ status'[t] = status[t]
  \/ /\ status[t] \notin Idle /\ status'[t] \notin Idle \cup {"cancelled"}
     /\ \/ status[t] \notin TerminalStatuses
        \/ \E v \in verifiers \ verifiers' : v.task = t

Left(t) == proc'[t] = proc[t] /\ Boxes(t) /\ NoNewVerifier(t) /\ Turns(t)

Started(t) ==
  /\ status[t] \in Idle /\ status'[t] = "running" /\ t <= added'
  /\ proc[t] = "none" /\ proc'[t] = "busy"
  /\ Boxes(t) /\ NoNewVerifier(t)

Queued(t) ==
  /\ status[t] = "absent" /\ status'[t] = "waiting" /\ t <= added'
  /\ proc'[t] = proc[t] /\ Boxes(t) /\ NoNewVerifier(t)

Withdrawn(t) ==
  /\ status[t] \in ActiveStatuses /\ status'[t] = "cancelled"
  /\ proc'[t] = Gone({t})[t]
  /\ mail'[t] = CancelPending(mail[t]) /\ answer'[t] = answer[t]
  /\ \E f \in Farewells(t) : events'[t] = events[t] \o f
  /\ Of(t, verifiers)' = {}

Replied(t) ==
  /\ proc'[t] = proc[t] /\ events'[t] = events[t]
  /\ \E k \in Pending(t) : mail'[t] = [mail[t] EXCEPT ![k] = "answered"]
  /\ NoNewVerifier(t) /\ Turns(t)

Heard(t) ==
  /\ events[t] # <<>> /\ Head(events[t]) = "question" /\ events'[t] = Tail(events[t])
  /\ proc'[t] = proc[t] /\ NoNewVerifier(t)
  /\ \/ /\ mail'[t] = Append(mail[t], "pending") /\ answer'[t] = answer[t]
        /\ status'[t] = "needs_user"
     \/ mail'[t] = Append(mail[t], "answered") /\ status'[t] = status[t]

Passed(t) ==
  /\ events[t] # <<>> /\ Head(events[t]) # "question" /\ events'[t] = Tail(events[t])
  /\ proc'[t] = proc[t] /\ mail'[t] = mail[t] /\ answer'[t] = answer[t]
  /\ NoNewVerifier(t) \/ status'[t] = "verifying"
  /\ \/ status'[t] = status[t]
     \/ /\ status[t] \notin TerminalStatuses /\ status'[t] \notin Idle
        /\ status'[t] = "cancelled" => Head(events[t]) = "cancelled"

Asks(t) ==
  /\ proc[t] = "busy" /\ proc'[t] = "asking" /\ events'[t] = Append(events[t], "question")
  /\ answer'[t] = answer[t]

Hears(t) ==
  /\ proc[t] = "asking" /\ answer'[t] = "none" /\ events'[t] = events[t]
  /\ IF answer[t] = "usable" THEN proc'[t] = "busy" ELSE proc'[t] = "asking"

Reports(t) ==
  /\ proc[t] = "busy" /\ proc'[t] \in {"submitted", "exited"} /\ answer'[t] = answer[t]
  /\ \E kind \in EventKinds \ {"question", "cancelled"} : events'[t] = Append(events[t], kind)

GoesOn(t) ==
  /\ events'[t] = events[t] /\ answer'[t] = answer[t]
  /\ \/ proc[t] \in {"busy", "submitted"} /\ proc'[t] \in {"busy", "submitted", "exited"}
     \/ proc[t] \in Live /\ proc'[t] = "exited"

Worked(t) ==
  /\ mail'[t] = mail[t] /\ status'[t] = status[t] /\ NoNewVerifier(t)
  /\ Asks(t) \/ Hears(t) \/ Reports(t) \/ GoesOn(t)

Step(t) ==
  \/ Left(t) \/ Started(t) \/ Queued(t) \/ Withdrawn(t)
  \/ Replied(t) \/ Heard(t) \/ Passed(t) \/ Worked(t)

-----------------------------------------------------------------------------
(* The effect of a step on every task *)

\* Task u reaches one of the outcomes; of the others, at most a waiting one starts.
Leads(u, Outcomes) ==
  \A t \in Tasks :
    \/ proc'[t] = proc[t] /\ (t = u => status'[t] \in Outcomes)
                          /\ (t # u => status'[t] = status[t])
    \/ t # u /\ status[t] = "waiting" /\ status'[t] = "running" /\ proc'[t] = "busy"

LEMMA SettleLeads ==
  ASSUME TypeOK, NEW u \in Tasks, NEW s \in Statuses \ {"waiting"}, NEW W \in SUBSET Tasks,
         Settle(SetStatus(u, s), W)
  PROVE  Leads(u, {s})
<1>1. SetStatus(u, s) \in [Tasks -> Statuses]
  BY SetStatusType
<1>2. \A t \in Tasks :
        \/ status'[t] = SetStatus(u, s)[t] /\ proc'[t] = proc[t]
        \/ SetStatus(u, s)[t] = "waiting" /\ status'[t] = "running" /\ proc'[t] = "busy"
  <2>1. TryStartWaiting(SetStatus(u, s), conflicts, W, proc) /\ proc \in [Tasks -> ProcStates]
    BY DEF Settle, TypeOK
  <2> QED BY <1>1, <2>1, TryStartAlters
<1>3. SetStatus(u, s)[u] = s /\ \A t \in Tasks \ {u} : SetStatus(u, s)[t] = status[t]
  BY DEF SetStatus, TypeOK
<1> QED BY <1>2, <1>3 DEF Leads

LEMMA AbortLeads ==
  ASSUME TypeOK, NEW u \in Tasks, NEW s, AbortHandler(SetStatus(u, s))
  PROVE  Leads(u, {s})
  BY DEF AbortHandler, SetStatus, Leads, TypeOK

LEMMA ReviewLeads ==
  ASSUME TypeOK, NEW u \in Tasks, Accept(u) \/ Revise(u)
  PROVE  Leads(u, Judged)
<1>1. \E s \in Judged, W \in SUBSET Tasks :
        AbortHandler(SetStatus(u, s)) \/ Settle(SetStatus(u, s), W)
  <2>1. /\ Drop(u) \in SUBSET Tasks /\ workers \in SUBSET Tasks /\ Refused \in Judged
        /\ {"accepted", "needs_revision", "needs_user_decision"} \subseteq Judged
    BY DEF Drop, TypeOK, Refused, Judged
  <2>2. CASE Accept(u)
    BY <2>1, <2>2 DEF Accept
  <2>3. CASE Revise(u)
    BY <2>1, <2>3 DEF Revise, Escalate
  <2> QED BY <2>2, <2>3
<1>2. PICK s \in Judged : Leads(u, {s})
  BY <1>1, AbortLeads, SettleLeads DEF Judged, Statuses, ActiveStatuses, TerminalStatuses
<1> QED BY <1>2 DEF Leads

LEMMA VerdictLeads ==
  ASSUME TypeOK, NEW v \in verifiers, NEW verdict, HandleVerdict(v, verdict)
  PROVE  v.task \in Tasks /\ Leads(v.task, Judged)
<1>1. v.task \in Tasks /\ workers \in SUBSET Tasks
  BY DEF TypeOK, Verifiers
<1>2. CASE Accept(v.task) \/ Revise(v.task)
  BY <1>1, <1>2, ReviewLeads
<1>3. CASE Settle(Escalate(v.task), workers)
  <2>1. Leads(v.task, {"needs_user_decision"})
    BY <1>1, <1>3, SettleLeads DEF Escalate, Statuses, ActiveStatuses
  <2> QED BY <1>1, <2>1 DEF Leads, Judged
<1>4. CASE status' = Escalate(v.task) /\ UNCHANGED proc
  BY <1>1, <1>4 DEF Escalate, SetStatus, Leads, Judged, TypeOK
<1> QED BY <1>1, <1>2, <1>3, <1>4 DEF HandleVerdict

LEMMA EndedLeads ==
  ASSUME TypeOK, NEW u \in Tasks, NEW kind \in LateKinds, HandleEnded(u, kind)
  PROVE  /\ Leads(u, {EndStatus(kind)})
         /\ EndStatus(kind) \in {"failed", "blocked", "cancelled"}
         /\ EndStatus(kind) = "cancelled" => kind = "cancelled"
<1>1. /\ EndStatus(kind) \in {"failed", "blocked", "cancelled"}
      /\ EndStatus(kind) = "cancelled" => kind = "cancelled"
  BY DEF HandleEnded, EndStatus, LateKinds, EventKinds
<1>2. Drop(u) \in SUBSET Tasks
  BY DEF Drop, TypeOK
<1> QED BY <1>1, <1>2, SettleLeads DEF HandleEnded, Statuses, TerminalStatuses

\* What holds of each task in the states that are reached.
ReopenInv == FreshInv /\ SilentInv /\ QuestionInv /\ CancelInv /\ SavedInv

LEMMA FreshTask ==
  ASSUME TypeOK, FreshInv, SilentInv, NEW t \in Tasks
  PROVE  /\ status[t] \in Idle => proc[t] = "none"
         /\ events[t] # <<>> \/ Of(t, verifiers) # {} \/ Pending(t) # {} => status[t] \notin Idle
         /\ added + 1 = t => status[t] = "absent" /\ proc[t] = "none" /\ t <= t
<1>1. added \in Nat /\ t \in Nat
  BY ConstantsAssumption DEF TypeOK, Tasks
<1> QED BY <1>1 DEF FreshInv, SilentInv, Idle

LEMMA UserSteps ==
  ASSUME TypeOK, KnownInv, FreshInv, SilentInv, UserStep, NEW t \in Tasks
  PROVE  Step(t)
<1>1. ASSUME NEW isThread \in BOOLEAN, StartNewTask(isThread) PROVE Step(t)
  <2>1. CASE t = added + 1
    BY <1>1, <2>1, FreshTask DEF StartNewTask, Step, Started, Boxes, NoNewVerifier, Of, Idle,
      TypeOK
  <2>2. CASE t # added + 1
    BY <1>1, <2>2 DEF StartNewTask, Step, Left, Turns, Boxes, NoNewVerifier, Of, TypeOK
  <2> QED BY <2>1, <2>2
<1>2. ASSUME NEW C \in SUBSET (1..added), QueueTask(C) PROVE Step(t)
  <2>1. CASE t = added + 1
    BY <1>2, <2>1, FreshTask DEF QueueTask, peerVars, workVars, Step, Queued, Boxes,
      NoNewVerifier, Of, TypeOK
  <2>2. CASE t # added + 1
    BY <1>2, <2>2 DEF QueueTask, peerVars, workVars, Step, Left, Turns, Boxes, NoNewVerifier,
      Of, TypeOK
  <2> QED BY <2>1, <2>2
<1>3. ASSUME NEW u \in Tasks, AttachToTask(u) PROVE Step(t)
  BY <1>3 DEF AttachToTask, boardVars, peerVars, Step, Left, Turns, Boxes, NoNewVerifier, Of
<1>4. ASSUME NEW u \in Tasks, TalkDecision(u) PROVE Step(t)
  BY <1>4 DEF TalkDecision, peerVars, Step, Left, Turns, Boxes, NoNewVerifier, Of, TypeOK,
    Idle, TerminalStatuses
<1>5. ASSUME NEW T \in SUBSET Tasks, CancelTasks(T), UNCHANGED <<answer, threads>>
      PROVE  /\ NoNewVerifier(t)
             /\ t \notin T => Boxes(t) /\ Gone(T)[t] = proc[t] /\ Cancelled(T)[t] = status[t]
             /\ t \in T /\ status[t] \in ActiveStatuses /\ status'[t] = "cancelled"
                  /\ proc'[t] = Gone(T)[t] => Withdrawn(t)
             /\ t \in T => Cancelled(T)[t] = "cancelled" /\ Gone(T)[t] = Gone({t})[t]
  <2>1. /\ t \notin T => events'[t] = events[t] /\ mail'[t] = mail[t]
        /\ t \in T => /\ \E f \in Farewells(t) : events'[t] = events[t] \o f
                      /\ mail'[t] = CancelPending(mail[t])
    BY <1>5 DEF CancelTasks
  <2>2. NoNewVerifier(t) /\ (t \in T => Of(t, verifiers)' = {})
    BY <1>5 DEF CancelTasks, Spared, Of, NoNewVerifier
  <2>3. /\ t \notin T => Gone(T)[t] = proc[t] /\ Cancelled(T)[t] = status[t]
        /\ t \in T => Cancelled(T)[t] = "cancelled" /\ Gone(T)[t] = Gone({t})[t]
    BY DEF Gone, Cancelled
  <2> QED BY <1>5, <2>1, <2>2, <2>3 DEF Boxes, Withdrawn
<1>6. ASSUME NEW T \in SUBSET {u \in Tasks : status[u] \in ActiveStatuses},
             CancelAndStartNext(T)
      PROVE  Step(t)
  <2>1. T \in SUBSET Tasks /\ CancelTasks(T) /\ UNCHANGED <<answer, threads, added>>
    BY <1>6 DEF CancelAndStartNext
  <2>2. Cancelled(T) \in [Tasks -> Statuses] /\ Gone(T) \in [Tasks -> ProcStates]
    BY <2>1, CancelTasksType
  <2>3. TryStartWaiting(Cancelled(T), conflicts, workers, Gone(T)) /\ workers \in SUBSET Tasks
    BY <1>6 DEF CancelAndStartNext, TypeOK
  <2>4. \/ status'[t] = Cancelled(T)[t] /\ proc'[t] = Gone(T)[t]
        \/ Cancelled(T)[t] = "waiting" /\ status'[t] = "running" /\ proc'[t] = "busy"
    BY <2>2, <2>3, TryStartAlters
  <2>5. CASE t \in T
    BY <1>5, <1>6, <2>1, <2>4, <2>5 DEF Step
  <2>6. CASE t \notin T /\ status'[t] = status[t] /\ proc'[t] = proc[t]
    BY <1>5, <2>1, <2>6 DEF Step, Left, Turns
  <2>7. CASE t \notin T /\ status[t] = "waiting" /\ status'[t] = "running" /\ proc'[t] = "busy"
    <3>1. t <= added' /\ proc[t] = "none"
      BY <2>1, <2>7, FreshTask DEF KnownInv, Idle
    <3> QED BY <1>5, <2>1, <2>7, <3>1 DEF Step, Started, Idle
  <2> QED BY <1>5, <2>1, <2>4, <2>5, <2>6, <2>7
<1>7. ASSUME NEW u \in Tasks, CancelAndRestart(u) PROVE Step(t)
  <2>1. /\ CancelTasks({u}) /\ UNCHANGED <<answer, threads>> /\ added' = added + 1
        /\ status[u] \in ActiveStatuses
    BY <1>7 DEF CancelAndRestart
  <2>2. CASE t = added + 1
    <3>1. status[t] = "absent" /\ proc[t] = "none" /\ t # u
      BY <2>1, <2>2, FreshTask DEF ActiveStatuses
    <3>2. Boxes(t) /\ NoNewVerifier(t)
      BY <1>5, <2>1, <3>1
    <3>3. status'[t] = "running" /\ proc'[t] = "busy" /\ t <= added'
      BY <1>7, <2>2 DEF CancelAndRestart, Cancelled, Gone, TypeOK, Tasks
    <3> QED BY <3>1, <3>2, <3>3 DEF Step, Started, Idle
  <2>3. CASE t # added + 1
    <3>1. status'[t] = Cancelled({u})[t] /\ proc'[t] = Gone({u})[t]
      BY <1>7, <2>3 DEF CancelAndRestart, Cancelled, Gone
    <3> QED BY <1>5, <2>1, <3>1 DEF Step, Left, Turns
  <2> QED BY <2>2, <2>3
<1>8. ASSUME NEW u \in Tasks, NEW k \in DOMAIN mail[u],
             NEW reply \in {"usable", "void"}, ReplyMailbox(u, k, reply)
      PROVE  Step(t)
  <2>1. /\ k \in Pending(u) /\ mail' = [mail EXCEPT ![u][k] = "answered"]
        /\ status' = StatusAfterReply(u, k) /\ answer' = AnswerSent(u, reply)
        /\ UNCHANGED <<proc, events, verifiers>>
    BY <1>8 DEF ReplyMailbox
  <2>2. Turns(t)
    BY <2>1 DEF StatusAfterReply, Turns, TypeOK, Idle, TerminalStatuses
  <2>3. CASE t = u
    BY <2>1, <2>2, <2>3 DEF Step, Replied, NoNewVerifier, Of, TypeOK
  <2>4. CASE t # u
    BY <2>1, <2>2, <2>4 DEF AnswerSent, Step, Left, Boxes, NoNewVerifier, Of, TypeOK
  <2> QED BY <2>3, <2>4
<1> QED
  BY <1>1, <1>2, <1>3, <1>4, <1>6, <1>7, <1>8 DEF UserStep, CancelTask, CancelAll

\* A handler leads its task somewhere, and another one at most out of the queue.
LEMMA OtherTasks ==
  ASSUME TypeOK, KnownInv, FreshInv, SilentInv, NEW u \in Tasks, NEW Outcomes, Leads(u, Outcomes),
         NEW t \in Tasks, t # u, Boxes(t), NoNewVerifier(t), UNCHANGED added
  PROVE  Step(t)
<1>1. CASE proc'[t] = proc[t] /\ status'[t] = status[t]
  BY <1>1 DEF Step, Left, Turns
<1>2. CASE status[t] = "waiting" /\ status'[t] = "running" /\ proc'[t] = "busy"
  <2>1. t <= added' /\ proc[t] = "none"
    BY <1>2, FreshTask DEF KnownInv, Idle
  <2> QED BY <1>2, <2>1 DEF Step, Started, Idle
<1> QED BY <1>1, <1>2 DEF Leads

LEMMA EventSteps ==
  ASSUME TypeOK, KnownInv, FreshInv, SilentInv, NEW u \in Tasks, HandleEvent(u), NEW t \in Tasks
  PROVE  Step(t)
<1>1. CASE HandleQuestion(u)
  <2>1. /\ events[u] # <<>> /\ Head(events[u]) = "question"
        /\ events' = [events EXCEPT ![u] = Tail(@)]
        /\ mail' = [mail EXCEPT ![u] = Append(@, "pending")]
        /\ status' = SetStatus(u, "needs_user") /\ UNCHANGED <<proc, answer, verifiers>>
    BY <1>1 DEF HandleQuestion, Take
  <2>2. CASE t = u
    BY <2>1, <2>2 DEF SetStatus, Step, Heard, NoNewVerifier, Of, TypeOK
  <2>3. CASE t # u
    BY <2>1, <2>3 DEF SetStatus, Step, Left, Turns, Boxes, NoNewVerifier, Of, TypeOK
  <2> QED BY <2>2, <2>3
<1>2. CASE HandleQuestionByNote(u)
  <2>1. /\ events[u] # <<>> /\ Head(events[u]) = "question"
        /\ events' = [events EXCEPT ![u] = Tail(@)]
        /\ mail' = [mail EXCEPT ![u] = Append(@, "answered")]
        /\ UNCHANGED <<status, proc, verifiers>> /\ answer' \in {answer, AnswerSent(u, "usable")}
    BY <1>2 DEF HandleQuestionByNote, AbortHandler, Take
  <2>2. CASE t = u
    BY <2>1, <2>2 DEF Step, Heard, NoNewVerifier, Of, TypeOK
  <2>3. CASE t # u
    BY <2>1, <2>3 DEF AnswerSent, Step, Left, Turns, Boxes, NoNewVerifier, Of, TypeOK
  <2> QED BY <2>2, <2>3
<1>3. ASSUME NEW kind \in LateKinds, Take(u, kind), UNCHANGED <<mail, answer>>
      PROVE  /\ t # u => Boxes(t)
             /\ events[u] # <<>> /\ Head(events[u]) = kind /\ kind # "question"
             /\ events'[u] = Tail(events[u]) /\ mail'[u] = mail[u] /\ answer'[u] = answer[u]
             /\ status[u] \notin Idle
  <2>1. events[u] # <<>> /\ events' = [events EXCEPT ![u] = Tail(@)]
    BY <1>3 DEF Take
  <2> QED BY <1>3, <2>1, FreshTask DEF Take, Boxes, LateKinds, TypeOK
<1>4. ASSUME NEW kind \in LateKinds, HandleLateEvent(u, kind) PROVE Step(t)
  <2>1. Take(u, kind) /\ UNCHANGED <<mail, answer, proc, status, verifiers>>
    BY <1>4 DEF HandleLateEvent, boardVars, peerVars
  <2>2. NoNewVerifier(t)
    BY <2>1 DEF NoNewVerifier, Of
  <2>3. CASE t = u
    BY <1>3, <2>1, <2>2, <2>3 DEF Step, Passed
  <2>4. CASE t # u
    BY <1>3, <2>1, <2>2, <2>4 DEF Step, Left, Turns
  <2> QED BY <2>3, <2>4
<1>5. ASSUME NEW kind \in LateKinds, HandleEnded(u, kind) PROVE Step(t)
  <2>1. Take(u, kind) /\ UNCHANGED <<mail, answer, verifiers, added>> /\ status[u] \notin TerminalStatuses
    BY <1>5 DEF HandleEnded
  <2>2. NoNewVerifier(t)
    BY <2>1 DEF NoNewVerifier, Of
  <2>3. /\ Leads(u, {EndStatus(kind)}) /\ EndStatus(kind) \in {"failed", "blocked", "cancelled"}
        /\ EndStatus(kind) = "cancelled" => kind = "cancelled"
    BY <1>5, EndedLeads
  <2>4. CASE t = u
    <3>1. status'[t] = EndStatus(kind) /\ proc'[t] = proc[t]
      BY <2>3, <2>4 DEF Leads
    <3> QED BY <1>3, <2>1, <2>2, <2>3, <2>4, <3>1 DEF Step, Passed, Idle
  <2>5. CASE t # u
    BY <1>3, <2>1, <2>2, <2>3, <2>5, OtherTasks
  <2> QED BY <2>4, <2>5
<1>6. CASE HandleCompleted(u)
  <2>1. /\ Take(u, "completed") /\ UNCHANGED <<mail, answer, added>> /\ "completed" \in LateKinds
        /\ status[u] \notin TerminalStatuses
    BY <1>6 DEF HandleCompleted, LateKinds, EventKinds
  <2>2. CASE /\ status' = SetStatus(u, "verifying")
             /\ verifiers' = verifiers \cup {[task |-> u, round |-> subs[u] + 1]}
             /\ UNCHANGED proc
    <3>1. CASE t = u
      BY <1>3, <2>1, <2>2, <3>1 DEF SetStatus, Step, Passed, Idle, TypeOK
    <3>2. CASE t # u
      BY <1>3, <2>1, <2>2, <3>2 DEF SetStatus, Step, Left, Turns, NoNewVerifier, Of, TypeOK
    <3> QED BY <3>1, <3>2
  <2>3. CASE (Accept(u) \/ Revise(u)) /\ UNCHANGED verifiers
    <3>1. NoNewVerifier(t)
      BY <2>3 DEF NoNewVerifier, Of
    <3>2. Leads(u, Judged)
      BY <2>3, ReviewLeads
    <3>3. CASE t = u
      <4>1. status'[t] \in Judged /\ proc'[t] = proc[t]
        BY <3>2, <3>3 DEF Leads
      <4> QED BY <1>3, <2>1, <3>1, <3>3, <4>1 DEF Step, Passed, Idle, Judged
    <3>4. CASE t # u
      BY <1>3, <2>1, <3>1, <3>2, <3>4, OtherTasks
    <3> QED BY <3>3, <3>4
  <2> QED BY <1>6, <2>2, <2>3 DEF HandleCompleted
<1> QED BY <1>1, <1>2, <1>4, <1>5, <1>6 DEF HandleEvent

LEMMA VerdictSteps ==
  ASSUME TypeOK, KnownInv, FreshInv, SilentInv, NEW v \in verifiers, NEW verdict,
         HandleVerdict(v, verdict), NEW t \in Tasks
  PROVE  Step(t)
<1>1. UNCHANGED <<mail, answer, events, added>> /\ verifiers' = verifiers \ {v}
  BY DEF HandleVerdict, Retire
<1>2. Boxes(t) /\ NoNewVerifier(t)
  BY <1>1 DEF Boxes, NoNewVerifier, Of
<1>3. v.task \in Tasks /\ Leads(v.task, Judged)
  BY VerdictLeads
<1>4. CASE t = v.task
  <2>1. proc'[t] = proc[t] /\ status'[t] \in Judged
    BY <1>3, <1>4 DEF Leads
  <2>2. status[t] \notin Idle
    BY <1>4, FreshTask DEF Of
  <2>3. Turns(t)
    BY <1>1, <1>4, <2>1, <2>2 DEF Turns, Judged, Idle
  <2> QED BY <1>2, <2>1, <2>3 DEF Step, Left
<1>5. CASE t # v.task
  BY <1>1, <1>2, <1>3, <1>5, OtherTasks
<1> QED BY <1>4, <1>5

LEMMA WorkerSteps ==
  ASSUME TypeOK, NEW u \in Tasks, WorkerStep(u) \/ WorkerDies(u), NEW t \in Tasks
  PROVE  Step(t)
<1>1. CoordinatorUnchanged
  BY DEF WorkerStep, WorkerDies, WorkerAsk, WorkerAnswered, WorkerDiscards, WorkerCompletes,
    WorkerTakesFollowup, WorkerFails
<1>2. mail'[t] = mail[t] /\ status'[t] = status[t] /\ NoNewVerifier(t)
  BY <1>1 DEF CoordinatorUnchanged, boardVars, peerVars, NoNewVerifier, Of
<1>3. ASSUME proc'[t] = proc[t], answer'[t] = answer[t], events'[t] = events[t]
      PROVE  Step(t)
  BY <1>2, <1>3 DEF Step, Left, Boxes, Turns
<1>4. CASE t # u
  <2>1. proc'[t] = proc[t]
    BY <1>4 DEF WorkerStep, WorkerDies, WorkerAsk, WorkerAnswered, WorkerDiscards,
      WorkerCompletes, WorkerTakesFollowup, WorkerFails, Becomes, TypeOK
  <2>2. answer'[t] = answer[t] /\ events'[t] = events[t]
    BY <1>4 DEF WorkerStep, WorkerDies, WorkerAsk, WorkerAnswered, WorkerDiscards,
      WorkerCompletes, WorkerTakesFollowup, WorkerFails, Emit, TypeOK
  <2> QED BY <1>3, <2>1, <2>2
<1>5. CASE t = u /\ WorkerAsk(t)
  <2>1. Asks(t)
    BY <1>5 DEF WorkerAsk, Becomes, Emit, Asks, TypeOK
  <2> QED BY <1>2, <2>1 DEF Step, Worked
<1>6. CASE t = u /\ WorkerAnswered(t)
  <2>1. Hears(t)
    BY <1>6 DEF WorkerAnswered, Becomes, Hears, TypeOK
  <2> QED BY <1>2, <2>1 DEF Step, Worked
<1>7. CASE t = u /\ WorkerDiscards(t)
  BY <1>3, <1>7 DEF WorkerDiscards
<1>8. CASE t = u /\ WorkerCompletes(t)
  <2>1. CASE UNCHANGED <<proc, events, answer>>
    BY <1>3, <2>1
  <2>2. CASE ~UNCHANGED <<proc, events, answer>>
    <3>1. Reports(t)
      BY <1>8, <2>2 DEF WorkerCompletes, Becomes, Emit, Reports, EventKinds, TypeOK
    <3> QED BY <1>2, <3>1 DEF Step, Worked
  <2> QED BY <2>1, <2>2
<1>9. CASE t = u /\ WorkerTakesFollowup(t)
  <2>1. GoesOn(t)
    BY <1>9 DEF WorkerTakesFollowup, Becomes, AfterCommand, GoesOn, TypeOK
  <2> QED BY <1>2, <2>1 DEF Step, Worked
<1>10. CASE t = u /\ WorkerFails(t)
  <2>1. Reports(t)
    BY <1>10 DEF WorkerFails, Becomes, Emit, Reports, EventKinds, TypeOK
  <2> QED BY <1>2, <2>1 DEF Step, Worked
<1>11. CASE t = u /\ WorkerDies(t)
  <2>1. GoesOn(t)
    BY <1>11 DEF WorkerDies, Becomes, GoesOn, Live, TypeOK
  <2> QED BY <1>2, <2>1 DEF Step, Worked
<1> QED BY <1>4, <1>5, <1>6, <1>7, <1>8, <1>9, <1>10, <1>11 DEF WorkerStep

\* Every step but a restart does one of these things to each task.
LEMMA AllSteps ==
  ASSUME TypeOK, KnownInv, FreshInv, SilentInv, [Next]_vars, ~Restart, NEW t \in Tasks
  PROVE  Step(t)
<1>1. ASSUME NEW v \in verifiers, VerifierStalls(v) PROVE Step(t)
  BY <1>1 DEF VerifierStalls, boardVars, workVars, Step, Left, Boxes, Turns, NoNewVerifier, Of
<1>2. CASE UNCHANGED vars
  BY <1>2 DEF vars, boardVars, peerVars, workVars, Step, Left, Boxes, Turns, NoNewVerifier, Of
<1> QED BY <1>1, <1>2, UserSteps, EventSteps, VerdictSteps, WorkerSteps DEF Next, VerifierVerdict
-----------------------------------------------------------------------------
(* The invariants *)

\* A step that does not save leaves what the saved state is compared with.
Unsaved ==
  /\ UNCHANGED <<disk, added>>
  /\ \A t \in Tasks : proc[t] = "none" => proc'[t] = "none"
  /\ \A t \in Tasks : eventLoop' /\ status'[t] \in TerminalStatuses =>
       eventLoop /\ status'[t] = status[t]

LEMMA StepSaves ==
  ASSUME TypeOK, [Next]_vars, ~Restart
  PROVE  added' \in {added, added + 1} /\ (Persist \/ Unsaved)
<1>1. CASE UserStep
  <2>1. ASSUME NEW isThread \in BOOLEAN, StartNewTask(isThread)
        PROVE  added' = added + 1 /\ Persist
    BY <2>1 DEF StartNewTask
  <2>2. ASSUME NEW C \in SUBSET (1..added), QueueTask(C)
        PROVE  added' = added + 1 /\ Persist
    BY <2>2 DEF QueueTask
  <2>3. ASSUME NEW u \in Tasks, AttachToTask(u) PROVE added' = added /\ Persist
    BY <2>3 DEF AttachToTask, boardVars
  <2>4. ASSUME NEW u \in Tasks, TalkDecision(u) PROVE added' = added /\ (Persist \/ Unsaved)
    <3>1. /\ UNCHANGED <<added, proc, eventLoop>> /\ status' = [status EXCEPT ![u] = "running"]
          /\ Persist \/ UNCHANGED disk
      BY <2>4 DEF TalkDecision
    <3>2. \A t \in Tasks : status'[t] \in TerminalStatuses => status'[t] = status[t]
      BY <3>1 DEF TypeOK, TerminalStatuses
    <3> QED BY <3>1, <3>2 DEF Unsaved
  <2>5. ASSUME NEW T, CancelAndStartNext(T) PROVE added' = added /\ Persist
    BY <2>5 DEF CancelAndStartNext
  <2>6. ASSUME NEW u \in Tasks, CancelAndRestart(u) PROVE added' = added + 1 /\ Persist
    BY <2>6 DEF CancelAndRestart
  <2>7. ASSUME NEW u \in Tasks, NEW k, NEW reply, ReplyMailbox(u, k, reply)
        PROVE  added' = added /\ Persist
    BY <2>7 DEF ReplyMailbox
  <2> QED
    BY <1>1, <2>1, <2>2, <2>3, <2>4, <2>5, <2>6, <2>7 DEF UserStep, CancelTask, CancelAll
<1>2. ASSUME NEW S, AbortHandler(S), UNCHANGED <<disk, added>> PROVE Unsaved
  BY <1>2 DEF AbortHandler, Unsaved
<1>3. ASSUME NEW u \in Tasks, HandleEvent(u) PROVE added' = added /\ (Persist \/ Unsaved)
  <2>1. CASE HandleQuestion(u)
    BY <2>1 DEF HandleQuestion
  <2>2. CASE HandleQuestionByNote(u)
    <3>1. AbortHandler(status) \/ UNCHANGED eventLoop
      BY <2>2 DEF HandleQuestionByNote
    <3> QED BY <1>2, <2>2, <3>1 DEF HandleQuestionByNote, PersistUnlessAborted, Take,
      AbortHandler
  <2>3. ASSUME NEW kind \in LateKinds, HandleLateEvent(u, kind)
        PROVE  added' = added /\ Unsaved
    BY <2>3 DEF HandleLateEvent, boardVars, Unsaved
  <2>4. ASSUME NEW kind \in LateKinds, HandleEnded(u, kind) PROVE added' = added /\ Persist
    BY <2>4 DEF HandleEnded
  <2>5. CASE HandleCompleted(u)
    <3>1. added' = added /\ eventLoop /\ (Persist \/ (~eventLoop' /\ UNCHANGED disk))
      BY <2>5 DEF HandleCompleted, Take, PersistUnlessAborted
    <3>2. UNCHANGED eventLoop \/ \E S : AbortHandler(S)
      BY <2>5 DEF HandleCompleted, Accept, Revise, Settle
    <3> QED BY <1>2, <3>1, <3>2
  <2> QED BY <1>3, <2>1, <2>2, <2>3, <2>4, <2>5 DEF HandleEvent
<1>4. ASSUME NEW v \in verifiers, NEW verdict, HandleVerdict(v, verdict)
      PROVE  added' = added /\ (Persist \/ Unsaved)
  <2>1. added' = added /\ eventLoop /\ (Persist \/ (~eventLoop' /\ UNCHANGED disk))
    BY <1>4 DEF HandleVerdict, PersistUnlessAborted
  <2>2. UNCHANGED eventLoop \/ \E S : AbortHandler(S)
    BY <1>4 DEF HandleVerdict, Accept, Revise, Settle
  <2> QED BY <1>2, <2>1, <2>2
<1>5. ASSUME NEW u \in Tasks, WorkerStep(u) \/ WorkerDies(u) PROVE added' = added /\ Unsaved
  <2>1. CoordinatorUnchanged
    BY <1>5 DEF WorkerStep, WorkerDies, WorkerAsk, WorkerAnswered, WorkerDiscards,
      WorkerCompletes, WorkerTakesFollowup, WorkerFails
  <2>2. proc[u] # "none" /\ \A t \in Tasks \ {u} : proc'[t] = proc[t]
    BY <1>5 DEF WorkerStep, WorkerDies, WorkerAsk, WorkerAnswered, WorkerDiscards,
      WorkerCompletes, WorkerTakesFollowup, WorkerFails, Becomes, TypeOK, Live
  <2> QED BY <2>1, <2>2 DEF CoordinatorUnchanged, boardVars, Unsaved
<1>6. ASSUME NEW v \in verifiers, VerifierStalls(v) PROVE added' = added /\ Unsaved
  BY <1>6 DEF VerifierStalls, boardVars, workVars, Unsaved
<1>7. CASE UNCHANGED vars
  BY <1>7 DEF vars, boardVars, workVars, Unsaved
<1> QED BY <1>1, <1>3, <1>4, <1>5, <1>6, <1>7 DEF Next, VerifierVerdict

LEMMA FreshStep ==
  ASSUME TypeOK, TypeOK', KnownInv, FreshInv, SilentInv, [Next]_vars, ~Restart
  PROVE  FreshInv'
<1>1. /\ added \in Nat /\ added' \in Nat /\ \A t \in Tasks : t \in Nat
      /\ added' \in {added, added + 1} /\ (Persist \/ Unsaved)
  <2>1. added \in Nat /\ added' \in Nat
    BY ConstantsAssumption DEF TypeOK
  <2>2. \A t \in Tasks : t \in Nat
    BY ConstantsAssumption DEF Tasks
  <2> QED BY <2>1, <2>2, StepSaves
<1>2. ASSUME NEW t \in Tasks
      PROVE  /\ t > added' => status'[t] = "absent"
             /\ status'[t] \in Idle => proc'[t] = "none"
  <2>1. Step(t) /\ (t > added' => t > added)
    BY <1>1, AllSteps
  <2>2. /\ t > added => status[t] = "absent"
        /\ status[t] \in Idle => proc[t] = "none"
        /\ events[t] # <<>> => status[t] \notin Idle
        /\ Pending(t) # {} => status[t] \notin Idle
    BY FreshTask DEF FreshInv
  <2>3. CASE Left(t) \/ Replied(t)
    BY <2>1, <2>2, <2>3 DEF Left, Replied, Turns, Idle
  <2>4. CASE Started(t) \/ Queued(t)
    BY <1>1, <2>2, <2>4 DEF Started, Queued, Idle
  <2>5. CASE Withdrawn(t)
    BY <2>1, <2>2, <2>5 DEF Withdrawn, ActiveStatuses, Idle
  <2>6. CASE Heard(t) \/ Passed(t)
    BY <2>1, <2>2, <2>6 DEF Heard, Passed, Idle
  <2>7. CASE Worked(t)
    BY <2>1, <2>2, <2>7 DEF Worked, Asks, Hears, Reports, GoesOn, Live
  <2> QED BY <2>1, <2>3, <2>4, <2>5, <2>6, <2>7 DEF Step
<1>3. CASE Persist
  BY <1>2, <1>3 DEF Persist, FreshInv
<1>4. CASE Unsaved
  BY <1>2, <1>4 DEF Unsaved, FreshInv
<1> QED BY <1>1, <1>3, <1>4

LEMMA SilentStep ==
  ASSUME TypeOK, TypeOK', KnownInv, FreshInv, SilentInv, [Next]_vars, ~Restart
  PROVE  SilentInv'
<1>1. ASSUME NEW t \in Tasks, proc'[t] = "none"
      PROVE  events'[t] = <<>> /\ Of(t, verifiers)' = {} /\ Pending(t)' = {} /\ answer'[t] # "usable"
  <2>1. Step(t)
    BY AllSteps
  <2>2. proc[t] = "none" =>
          events[t] = <<>> /\ Of(t, verifiers) = {} /\ Pending(t) = {} /\ answer[t] # "usable"
    BY DEF SilentInv
  <2>3. CASE Left(t) \/ Queued(t)
    BY <1>1, <2>2, <2>3 DEF Left, Queued, Boxes, NoNewVerifier, Pending
  <2>4. CASE Withdrawn(t)
    <3>1. proc[t] = "none"
      BY <1>1, <2>4 DEF Withdrawn, Gone
    <3>2. Farewells(t) = {<<>>}
      BY <3>1 DEF Farewells
    <3>3. Pending(t)' = {}
      BY <2>4 DEF Withdrawn, CancelPending, Pending
    <3>4. events'[t] = <<>>
      BY <2>2, <2>4, <3>1, <3>2 DEF Withdrawn
    <3> QED BY <2>2, <2>4, <3>1, <3>3, <3>4 DEF Withdrawn
  <2>5. CASE Replied(t) \/ Heard(t) \/ Passed(t)
    BY <1>1, <2>2, <2>5 DEF Replied, Heard, Passed
  <2>6. CASE Started(t) \/ Worked(t)
    BY <1>1, <2>6 DEF Started, Worked, Asks, Hears, Reports, GoesOn, Live
  <2> QED BY <2>1, <2>3, <2>4, <2>5, <2>6 DEF Step
<1>2. Persist \/ Unsaved
  BY StepSaves
<1>3. ASSUME NEW t \in Tasks, proc'[t] = "none", NEW k \in DOMAIN disk'.mail[t]
      PROVE  disk'.mail[t][k] # "pending"
  <2>1. CASE Persist
    BY <1>1, <1>3, <2>1 DEF Persist, Pending
  <2>2. CASE Unsaved
    <3>1. disk' = disk /\ proc[t] = "none"
      <4>1. [Next]_vars /\ Step(t)
        BY AllSteps
      <4> QED BY <1>3, <2>2, <4>1 DEF Unsaved, Step, Left, Started, Queued, Withdrawn, Gone,
        Live, Replied, Heard, Passed, Worked, Asks, Hears, Reports, GoesOn
    <3> QED BY <1>3, <3>1 DEF SilentInv
  <2> QED BY <1>2, <2>1, <2>2
<1> QED BY <1>1, <1>3 DEF SilentInv

LEMMA TailEvents ==
  ASSUME TypeOK, NEW t \in Tasks, events[t] # <<>>, events'[t] = Tail(events[t])
  PROVE  /\ \A k \in DOMAIN events'[t] : k + 1 \in DOMAIN events[t] /\ events'[t][k] = events[t][k + 1]
         /\ 1 \in DOMAIN events[t] /\ events[t][1] = Head(events[t])
         /\ \A k \in DOMAIN events'[t] : k \in Nat \ {0}
  BY DEF TypeOK

LEMMA AppendEvents ==
  ASSUME TypeOK, NEW t \in Tasks, NEW kind, events'[t] = Append(events[t], kind)
  PROVE  /\ \A k \in DOMAIN events'[t] :
              \/ k \in DOMAIN events[t] /\ events'[t][k] = events[t][k]
              \/ k = Len(events[t]) + 1 /\ events'[t][k] = kind
         /\ \A k \in DOMAIN events[t] : k < Len(events[t]) + 1
  BY DEF TypeOK

\* The last words of a worker hold one question at most, and before no "cancelled".
LEMMA FarewellEvents ==
  ASSUME TypeOK, NEW t \in Tasks, NEW f \in Farewells(t), events'[t] = events[t] \o f
  PROVE  /\ \A k \in DOMAIN events'[t] :
              \/ k \in DOMAIN events[t] /\ events'[t][k] = events[t][k]
              \/ k - Len(events[t]) \in DOMAIN f /\ events'[t][k] = f[k - Len(events[t])]
         /\ \A k \in DOMAIN events[t] : k <= Len(events[t])
         /\ \A k \in DOMAIN f : f[k] = "question" => k = 1 /\ f = <<"question", "failed">>
         /\ \A k \in DOMAIN f : f[k] = "cancelled" => proc[t] \in {"busy", "submitted"}
         /\ f # <<>> => t \in workers \ threads /\ proc[t] \in Live
<1>1. f \in {<<>>, <<"failed">>, <<"cancelled">>, <<"completed", "cancelled">>, <<"question", "failed">>}
  BY DEF Farewells
<1>2. f # <<>> => t \in workers \ threads /\ proc[t] \in Live
  BY DEF Farewells, Live
<1>3. \A k \in DOMAIN f : f[k] = "cancelled" => proc[t] \in {"busy", "submitted"}
  <2>1. proc[t] \notin {"busy", "submitted"} => f \in {<<>>, <<"failed">>}
    BY DEF Farewells
  <2> QED BY <2>1
<1>4. f \in Seq(EventKinds) /\ events[t] \in Seq(EventKinds)
  BY FarewellsType DEF TypeOK
<1>5. \A k \in DOMAIN f : f[k] = "question" => k = 1 /\ f = <<"question", "failed">>
  BY <1>1
<1>6. /\ \A k \in DOMAIN events'[t] :
              \/ k \in DOMAIN events[t] /\ events'[t][k] = events[t][k]
              \/ k - Len(events[t]) \in DOMAIN f /\ events'[t][k] = f[k - Len(events[t])]
      /\ \A k \in DOMAIN events[t] : k <= Len(events[t])
  BY <1>4
<1> QED BY <1>2, <1>3, <1>5, <1>6

LEMMA QuestionStep ==
  ASSUME TypeOK, TypeOK', KnownInv, FreshInv, SilentInv, QuestionInv, [Next]_vars, ~Restart
  PROVE  QuestionInv'
<1> SUFFICES ASSUME NEW t \in Tasks
             PROVE  /\ proc'[t] \in {"busy", "submitted"} =>
                         Questions(t)' = {} /\ Pending(t)' = {} /\ answer'[t] # "usable"
                    /\ proc'[t] = "asking" =>
                         /\ \A i, j \in Questions(t)' : i = j
                         /\ \A i, j \in Pending(t)' : i = j
                         /\ Questions(t)' # {} => Pending(t)' = {} /\ answer'[t] # "usable"
                         /\ Pending(t)' # {} => answer'[t] # "usable"
  BY DEF QuestionInv
<1>1. Step(t)
  BY AllSteps
<1>2. /\ proc[t] \in {"busy", "submitted"} =>
           Questions(t) = {} /\ Pending(t) = {} /\ answer[t] # "usable"
      /\ proc[t] = "asking" =>
           /\ \A i, j \in Questions(t) : i = j
           /\ \A i, j \in Pending(t) : i = j
           /\ Questions(t) # {} => Pending(t) = {} /\ answer[t] # "usable"
           /\ Pending(t) # {} => answer[t] # "usable"
      /\ proc[t] = "none" => events[t] = <<>> /\ Pending(t) = {} /\ answer[t] # "usable"
  BY DEF QuestionInv, SilentInv
<1>3. /\ events[t] \in Seq(EventKinds) /\ mail[t] \in Seq(MailStatuses)
      /\ proc[t] \in ProcStates /\ proc'[t] \in ProcStates
  BY DEF TypeOK
<1>4. CASE Left(t) \/ Queued(t)
  BY <1>2, <1>4 DEF Left, Queued, Boxes, Questions, Pending
<1>5. CASE Started(t)
  BY <1>2, <1>5 DEF Started, Boxes, Questions, Pending
<1>6. CASE Withdrawn(t)
  <2>1. PICK f \in Farewells(t) : events'[t] = events[t] \o f
    BY <1>6 DEF Withdrawn
  <2>2. Pending(t)' = {} /\ answer'[t] = answer[t]
    BY <1>6 DEF Withdrawn, CancelPending, Pending
  <2>3. proc'[t] \in Live => f = <<>> /\ proc'[t] = proc[t]
    BY <1>6, <2>1, FarewellEvents DEF Withdrawn, Gone, Live
  <2>4. proc'[t] \in Live => events'[t] = events[t]
    BY <1>3, <2>1, <2>3
  <2> QED BY <1>2, <2>2, <2>3, <2>4 DEF Live, Questions
<1>7. CASE Replied(t)
  <2>1. PICK k \in Pending(t) : mail'[t] = [mail[t] EXCEPT ![k] = "answered"]
    BY <1>7 DEF Replied
  <2>2. Pending(t)' = Pending(t) \ {k}
    BY <1>3, <2>1 DEF Pending
  <2>3. Questions(t)' = Questions(t) /\ proc'[t] = proc[t]
    BY <1>7 DEF Replied, Questions
  <2> QED BY <1>2, <2>1, <2>2, <2>3
<1>8. CASE Heard(t)
  <2>1. 1 \in Questions(t) /\ proc'[t] = proc[t]
    BY <1>8, TailEvents DEF Heard, Questions
  <2>2. proc[t] = "asking" => Questions(t)' = {}
    <3>1. ASSUME proc[t] = "asking", NEW k \in Questions(t)' PROVE FALSE
      <4>1. k + 1 \in Questions(t) /\ k \in Nat \ {0}
        BY <1>8, <3>1, TailEvents DEF Heard, Questions
      <4> QED BY <1>2, <2>1, <3>1, <4>1
    <3> QED BY <3>1
  <2>3. proc[t] = "asking" => Pending(t) = {} /\ answer[t] # "usable"
    BY <1>2, <2>1
  <2>4. CASE mail'[t] = Append(mail[t], "pending") /\ answer'[t] = answer[t]
    <3>1. proc[t] = "asking" => \A k \in Pending(t)' : k = Len(mail[t]) + 1
      BY <1>3, <2>3, <2>4 DEF Pending
    <3> QED BY <1>2, <2>1, <2>2, <2>3, <2>4, <3>1
  <2>5. CASE mail'[t] = Append(mail[t], "answered")
    <3>1. proc[t] = "asking" => Pending(t)' = {}
      BY <1>3, <2>3, <2>5 DEF Pending
    <3> QED BY <1>2, <2>1, <2>2, <3>1
  <2> QED BY <1>8, <2>4, <2>5 DEF Heard
<1>9. CASE Passed(t)
  <2>1. \A k \in Questions(t)' : k + 1 \in Questions(t) /\ k \in Nat
    BY <1>9, TailEvents DEF Passed, Questions
  <2>2. Pending(t)' = Pending(t) /\ answer'[t] = answer[t] /\ proc'[t] = proc[t]
    BY <1>9 DEF Passed, Pending
  <2>3. (\A i, j \in Questions(t) : i = j) => \A i, j \in Questions(t)' : i = j
    BY <2>1
  <2> QED BY <1>2, <2>1, <2>2, <2>3
<1>10. CASE Worked(t)
  <2>1. Pending(t)' = Pending(t)
    BY <1>10 DEF Worked, Pending
  <2>2. CASE Asks(t)
    <3>1. \A k \in Questions(t)' : k = Len(events[t]) + 1
      BY <1>2, <2>2, AppendEvents DEF Asks, Questions
    <3> QED BY <1>2, <2>1, <2>2, <3>1 DEF Asks
  <2>3. CASE Hears(t)
    <3>1. Questions(t)' = Questions(t)
      BY <2>3 DEF Hears, Questions
    <3> QED BY <1>2, <2>1, <2>3, <3>1 DEF Hears
  <2>4. CASE Reports(t)
    <3>1. Questions(t)' = {}
      BY <1>2, <2>4, AppendEvents DEF Reports, Questions
    <3> QED BY <1>2, <2>1, <2>4, <3>1 DEF Reports
  <2>5. CASE GoesOn(t)
    <3>1. Questions(t)' = Questions(t)
      BY <2>5 DEF GoesOn, Questions
    <3> QED BY <1>2, <2>1, <2>5, <3>1 DEF GoesOn
  <2> QED BY <1>10, <2>2, <2>3, <2>4, <2>5 DEF Worked
<1> QED BY <1>1, <1>4, <1>5, <1>6, <1>7, <1>8, <1>9, <1>10 DEF Step

LEMMA CancelStep ==
  ASSUME TypeOK, TypeOK', KnownInv, FreshInv, SilentInv, QuestionInv, CancelInv, [Next]_vars, ~Restart
  PROVE  CancelInv'
<1> SUFFICES ASSUME NEW t \in Tasks
             PROVE  /\ \A k \in DOMAIN events'[t] : events'[t][k] = "cancelled" =>
                         status'[t] = "cancelled" /\ \A j \in Questions(t)' : j > k
                    /\ status'[t] = "cancelled" => Of(t, verifiers)' = {}
  BY DEF CancelInv
<1>1. Step(t)
  BY AllSteps
<1>2. /\ \A k \in DOMAIN events[t] : events[t][k] = "cancelled" =>
           status[t] = "cancelled" /\ \A j \in Questions(t) : j > k
      /\ status[t] = "cancelled" => Of(t, verifiers) = {}
      /\ proc[t] \in {"busy", "submitted", "none"} => Questions(t) = {}
  BY DEF CancelInv, QuestionInv, SilentInv, Questions
<1>3. events[t] \in Seq(EventKinds) /\ \A k \in DOMAIN events[t] : k \in Nat \ {0}
  BY DEF TypeOK
<1>4. CASE Left(t) \/ Replied(t)
  <2>1. events'[t] = events[t] /\ NoNewVerifier(t) /\ Turns(t)
    BY <1>4 DEF Left, Replied, Boxes
  <2>2. status'[t] = status[t] \/ (status[t] # "cancelled" /\ status'[t] # "cancelled")
    <3>1. ASSUME NEW v \in verifiers \ verifiers', v.task = t PROVE status[t] # "cancelled"
      BY <1>2, <3>1 DEF Of
    <3> QED BY <2>1, <3>1 DEF Turns, TerminalStatuses
  <2> QED BY <1>2, <2>1, <2>2 DEF NoNewVerifier, Questions
<1>5. CASE Started(t) \/ Queued(t)
  BY <1>2, <1>5 DEF Started, Queued, Boxes, Idle
<1>6. CASE Withdrawn(t)
  <2>1. PICK f \in Farewells(t) : events'[t] = events[t] \o f
    BY <1>6 DEF Withdrawn
  <2>2. status'[t] = "cancelled" /\ Of(t, verifiers)' = {} /\ status[t] # "cancelled"
    BY <1>6 DEF Withdrawn, ActiveStatuses
  <2>3. \A k \in DOMAIN events[t] : events[t][k] # "cancelled"
    BY <1>2, <2>2
  <2>4. ASSUME NEW k \in DOMAIN events'[t], events'[t][k] = "cancelled",
               NEW j \in Questions(t)'
        PROVE  FALSE
    <3>1. k - Len(events[t]) \in DOMAIN f /\ f[k - Len(events[t])] = "cancelled"
      BY <2>1, <2>3, <2>4, FarewellEvents
    <3>2. Questions(t) = {} /\ \A i \in DOMAIN f : f[i] # "question"
      <4>1. f # <<"question", "failed">>
        BY <3>1
      <4> QED BY <1>2, <2>1, <3>1, <4>1, FarewellEvents
    <3> QED BY <2>1, <2>4, <3>2, FarewellEvents DEF Questions
  <2> QED BY <2>2, <2>4
<1>7. CASE Heard(t)
  <2>1. 1 \in Questions(t) /\ events[t] # <<>> /\ events'[t] = Tail(events[t])
    BY <1>7, TailEvents DEF Heard, Questions
  <2>2. \A k \in DOMAIN events[t] : events[t][k] # "cancelled"
    BY <1>2, <1>3, <2>1
  <2>3. \A k \in DOMAIN events'[t] : events'[t][k] # "cancelled"
    BY <2>1, <2>2, TailEvents
  <2> QED BY <1>2, <1>7, <2>3 DEF Heard, NoNewVerifier
<1>8. CASE Passed(t)
  <2>1. events[t] # <<>> /\ events'[t] = Tail(events[t])
    BY <1>8 DEF Passed
  <2>2. \A k \in DOMAIN events'[t] : events'[t][k] = "cancelled" =>
          status[t] = "cancelled" /\ \A j \in Questions(t)' : j > k
    <3>1. ASSUME NEW k \in DOMAIN events'[t], events'[t][k] = "cancelled", NEW j \in Questions(t)'
          PROVE  j > k
      <4>1. /\ k \in Nat /\ j \in Nat /\ j + 1 \in Questions(t)
            /\ k + 1 \in DOMAIN events[t] /\ events[t][k + 1] = "cancelled"
        BY <2>1, <3>1, TailEvents DEF Questions
      <4> QED BY <1>2, <4>1
    <3> QED BY <1>2, <2>1, <3>1, TailEvents
  <2>3. CASE status'[t] = status[t]
    BY <1>2, <1>8, <2>2, <2>3 DEF Passed, NoNewVerifier
  <2>4. CASE status'[t] # status[t]
    <3>1. status[t] # "cancelled" /\ Head(events[t]) # "cancelled"
      BY <1>2, <1>8, <2>1, <2>4, TailEvents DEF Passed, TerminalStatuses
    <3>2. status'[t] # "cancelled"
      BY <1>8, <2>4, <3>1 DEF Passed
    <3> QED BY <2>2, <3>1, <3>2
  <2> QED BY <2>3, <2>4
<1>9. CASE Worked(t)
  <2>1. status'[t] = status[t] /\ NoNewVerifier(t)
    BY <1>9 DEF Worked
  <2>2. CASE Hears(t) \/ GoesOn(t)
    BY <1>2, <2>1, <2>2 DEF Hears, GoesOn, Questions, NoNewVerifier
  <2>3. CASE Asks(t) \/ Reports(t)
    <3>1. PICK kind \in EventKinds \ {"cancelled"} :
            events'[t] = Append(events[t], kind) /\ proc[t] = "busy"
      BY <2>3 DEF Asks, Reports, EventKinds
    <3>2. Questions(t) = {}
      BY <1>2, <3>1
    <3>3. ASSUME NEW k \in DOMAIN events'[t], events'[t][k] = "cancelled"
          PROVE  status[t] = "cancelled" /\ \A j \in Questions(t)' : j > k
      <4>1. k \in DOMAIN events[t] /\ events[t][k] = "cancelled" /\ k < Len(events[t]) + 1
        BY <3>1, <3>3, AppendEvents
      <4>2. \A j \in Questions(t)' : j = Len(events[t]) + 1
        BY <3>1, <3>2, AppendEvents DEF Questions
      <4> QED BY <1>2, <1>3, <4>1, <4>2
    <3> QED BY <1>2, <2>1, <3>3 DEF NoNewVerifier
  <2> QED BY <1>9, <2>2, <2>3 DEF Worked
<1> QED BY <1>1, <1>4, <1>5, <1>6, <1>7, <1>8, <1>9 DEF Step

LEMMA SavedStep ==
  ASSUME TypeOK, SavedInv, [Next]_vars, ~Restart
  PROVE  SavedInv'
<1>1. Persist \/ Unsaved
  BY StepSaves
<1>2. CASE Persist
  BY <1>2 DEF Persist, SavedInv
<1>3. CASE Unsaved
  BY <1>3 DEF Unsaved, SavedInv
<1> QED BY <1>1, <1>2, <1>3

\* A restart leaves nothing on its way, and starts a task that never had a worker.
LEMMA RestartStep ==
  ASSUME TypeOK, ReopenInv, Restart
  PROVE  /\ ReopenInv'
         /\ eventLoop => \A t \in Tasks : status[t] \in TerminalStatuses => status'[t] = status[t]
<1> DEFINE P == [u \in Tasks |-> IF proc[u] = "none" THEN "none" ELSE "exited"]
<1>1. Recovered \in [Tasks -> Statuses] /\ P \in [Tasks -> ProcStates] /\ {} \in SUBSET Tasks
  BY DEF Recovered, TypeOK, DiskImage, Statuses, TerminalStatuses, ProcStates
<1>2. TryStartWaiting(Recovered, RecoveredConflicts, {}, P)
  BY DEF Restart
<1>3. \A t \in Tasks : \/ status'[t] = Recovered[t] /\ proc'[t] = P[t]
                       \/ Recovered[t] = "waiting" /\ status'[t] = "running" /\ proc'[t] = "busy"
  <2> HIDE DEF P
  <2> QED BY <1>1, <1>2, TryStartAlters
<1>4. /\ added' = disk.added /\ verifiers' = {} /\ events' = [t \in Tasks |-> <<>>]
      /\ answer' = [t \in Tasks |-> "none"] /\ Persist
      /\ mail' = [t \in Tasks |-> IF Recovered[t] \in TerminalStatuses
                                    THEN CancelPending(disk.mail[t]) ELSE disk.mail[t]]
  BY DEF Restart
<1>5. \A t \in Tasks : /\ Recovered[t] \in Idle => Recovered[t] = disk.status[t] /\ proc[t] = "none"
                       /\ t > added => Recovered[t] = "absent"
  BY DEF Recovered, Stale, StaleStatuses, ReopenInv, FreshInv, Idle
<1>6. \A t \in Tasks : disk'.status[t] = status'[t] /\ disk'.mail[t] = mail'[t]
  BY <1>4 DEF Persist
<1>7. FreshInv'
  <2>1. \A t \in Tasks : status'[t] \in Idle => proc'[t] = "none"
    BY <1>3, <1>5 DEF Idle
  <2>2. added' = added /\ \A t \in Tasks : t > added => status'[t] = "absent"
    BY <1>3, <1>4, <1>5 DEF ReopenInv, FreshInv
  <2> QED BY <1>4, <1>6, <2>1, <2>2 DEF FreshInv, Persist
<1>8. ASSUME NEW t \in Tasks, proc'[t] # "exited" PROVE Pending(t)' = {}
  <2>1. proc[t] = "none"
    BY <1>3, <1>5, <1>8 DEF Idle
  <2>2. \A k \in DOMAIN disk.mail[t] : disk.mail[t][k] # "pending"
    BY <2>1 DEF ReopenInv, SilentInv
  <2> QED BY <1>4, <2>2 DEF CancelPending, Pending
<1>9. SilentInv'
  <2>1. \A t \in Tasks : proc'[t] = "none" => \A k \in DOMAIN disk'.mail[t] : disk'.mail[t][k] # "pending"
    BY <1>6, <1>8 DEF Pending
  <2> QED BY <1>4, <1>8, <2>1 DEF SilentInv, Of
<1>10. QuestionInv'
  BY <1>4, <1>8 DEF QuestionInv, Questions
<1>11. CancelInv'
  BY <1>4 DEF CancelInv, Of
<1>12. SavedInv'
  BY <1>6 DEF SavedInv
<1>13. ASSUME eventLoop, NEW t \in Tasks, status[t] \in TerminalStatuses
       PROVE  status'[t] = status[t]
  <2>1. Recovered[t] = status[t]
    BY <1>13 DEF ReopenInv, SavedInv, Recovered, Stale, StaleStatuses, TerminalStatuses
  <2> QED BY <1>3, <1>13, <2>1 DEF TerminalStatuses
<1> QED BY <1>7, <1>9, <1>10, <1>11, <1>12, <1>13 DEF ReopenInv

LEMMA ReopenStep == TypeOK /\ TypeOK' /\ KnownInv /\ ReopenInv /\ [Next]_vars => ReopenInv'
  BY FreshStep, SilentStep, QuestionStep, CancelStep, SavedStep, RestartStep DEF ReopenInv

\* What has ended is reopened by what was under way when it ended, or by a restart
\* after the end was not saved: a question asked before, or the verdict on an
\* earlier submission if the task was not cancelled.  No command of the user and no
\* other event does it, in any order of all of them.
THEOREM OnlyLateMessagesEverReopen == Spec => OnlyLateMessagesReopen
<1>1. Init => KnownInv /\ ReopenInv
  BY DEF Init, KnownInv, ReopenInv, FreshInv, SilentInv, QuestionInv, CancelInv, SavedInv, Of,
    Pending, Questions, Idle, TerminalStatuses
<1>2. ASSUME TypeOK, TypeOK', KnownInv, ReopenInv, [Next]_vars,
             NEW t \in Tasks, status[t] \in TerminalStatuses, status'[t] # status[t]
      PROVE  \/ Len(mail'[t]) > Len(mail[t]) /\ status'[t] = "needs_user"
             \/ /\ status[t] # "cancelled"
                /\ \E v \in verifiers \ verifiers' : v.task = t
             \/ ~eventLoop /\ eventLoop'
  <2>1. CASE Restart
    BY <1>2, <2>1, RestartStep DEF Restart
  <2>2. CASE ~Restart
    <3>1. Step(t)
      BY <1>2, <2>2, AllSteps DEF ReopenInv
    <3>2. CASE Left(t) \/ Replied(t)
      <4>1. PICK v \in verifiers \ verifiers' : v.task = t
        BY <1>2, <3>2 DEF Left, Replied, Turns
      <4>2. status[t] # "cancelled"
        BY <1>2, <4>1 DEF ReopenInv, CancelInv, Of
      <4> QED BY <4>1, <4>2
    <3>3. CASE Started(t) \/ Queued(t) \/ Withdrawn(t) \/ Passed(t) \/ Worked(t)
      BY <1>2, <3>3 DEF Started, Queued, Withdrawn, Passed, Worked, Idle, ActiveStatuses,
        TerminalStatuses
    <3>4. CASE Heard(t)
      <4>1. mail[t] \in Seq(MailStatuses) /\ mail'[t] = Append(mail[t], "pending")
            /\ status'[t] = "needs_user"
        BY <1>2, <3>4 DEF Heard, TypeOK
      <4> QED BY <4>1
    <3> QED BY <3>1, <3>2, <3>3, <3>4 DEF Step
  <2> QED BY <2>1, <2>2
<1>3. TypeOK /\ TypeOK' /\ KnownInv /\ ReopenInv /\ [Next]_vars =>
        [\A t \in Tasks :
           status[t] \in TerminalStatuses /\ status'[t] # status[t] =>
             \/ Len(mail'[t]) > Len(mail[t]) /\ status'[t] = "needs_user"
             \/ /\ status[t] # "cancelled"
                /\ \E v \in verifiers \ verifiers' : v.task = t
             \/ ~eventLoop /\ eventLoop']_vars
  BY <1>2
<1> QED
  BY <1>1, <1>3, InitType, NextType, KnownStep, ReopenStep, PTL DEF Spec, OnlyLateMessagesReopen
=============================================================================
