--------------------------- MODULE WorkersProofs ----------------------------
(***************************************************************************)
(* What stands behind a worker handle.                                       *)
(*   - A worker process (WorkerLoop, by its own Spec), for any number of      *)
(*     commands, questions and turns: no command is lost or worked on twice,  *)
(*     only what may be dropped is, an answer is submitted once, and the      *)
(*     reply to a talk is that talk's.                                       *)
(*   - An external Codex session takes the next message only when the server  *)
(*     is done with the turn before, for any number of messages and any       *)
(*     length of a turn.                                                     *)
(*   - The answer of a turn is the text of one response of the model, for any *)
(*     number of requests, retries and pieces.                               *)
(***************************************************************************)
EXTENDS MCWorkers, TLAPS, FiniteSetTheorems, SequenceTheorems

---------------------------------------------------------------------------
(* The worker process *)

\* TypeOK, one variable at a time, with the turns that were submitted.
Typed ==
    /\ pc \in {"loop", "turn", "ask", "drain", "drained", "followup", "exit"}
    /\ pipe \in Seq(Commands) /\ inbox \in Seq(Commands)
    /\ appends \in Seq(Commands) /\ talks \in Seq(Commands) /\ retained \in Seq(Commands)
    /\ tasks \in Seq(Tasks) /\ current \in Tasks
    /\ hungup \in BOOLEAN /\ cancelled \in BOOLEAN /\ closed \in BOOLEAN
    /\ sent \in Seq(Kinds) /\ Len(sent) <= MaxCommands
    /\ asked \in 0..MaxAsks /\ completion \in 0..turns
    /\ done \subseteq 0..MaxCommands /\ dropped \subseteq 0..MaxCommands
    /\ waiting \in 0..Len(sent) /\ timedOut \subseteq 1..Len(sent)
    /\ turns \in Nat /\ submitted \in Seq(1..turns)
    /\ pc \in {"turn", "ask", "drain", "drained"} => turns # 0

LEMMA TypedIsTypeOK == Typed => TypeOK
BY DEF Typed, TypeOK

LEMMA Bounds == MaxCommands \in Nat /\ MaxAsks \in Nat /\ MaxTimeouts \in Nat
BY WorkerBounds

LEMMA InitTyped == Init => Typed
<1> SUFFICES ASSUME Init PROVE Typed
  OBVIOUS
<1>1. Contract \in Tasks
  BY Bounds DEF Contract, Task, Tasks
<1>2. <<Contract>> \in Seq(Tasks)
  BY <1>1
<1>3. \A S : <<>> \in Seq(S)
  OBVIOUS
<1>4. /\ {} \subseteq 1..Len(sent) /\ Len(sent) = 0
  BY DEF Init
<1>5. /\ 0 \in 0..turns /\ 0 \in 0..MaxAsks /\ 0 \in 0..Len(sent) /\ Len(sent) <= MaxCommands
      /\ turns \in Nat
  BY <1>4, Bounds DEF Init
<1> QED BY <1>1, <1>2, <1>3, <1>4, <1>5 DEF Init, Typed

\* The id of a command is the number of one.
LEMMA CommandId ==
  ASSUME NEW commands \in Seq(Commands), NEW i \in DOMAIN commands
  PROVE  commands[i] \in Commands /\ commands[i].id \in 1..MaxCommands
<1>1. commands[i] \in Commands
  OBVIOUS
<1> QED BY <1>1 DEF Commands

LEMMA IdsType ==
  ASSUME NEW commands \in Seq(Commands)
  PROVE  Ids(commands) \subseteq 1..MaxCommands
BY CommandId DEF Ids

\* The tasks made of a drain.
LEMMA TaskTypes ==
  ASSUME NEW commands \in Seq(Commands), NEW isTalk \in BOOLEAN
  PROVE  AsTasks(commands, isTalk) \in Seq(Tasks)
<1>1. \A i \in DOMAIN commands : Task(commands[i].id, isTalk) \in Tasks
  BY CommandId, Bounds DEF Task, Tasks
<1>2. DOMAIN commands = 1..Len(commands) /\ Len(commands) \in Nat
  OBVIOUS
<1> QED BY <1>1, <1>2 DEF AsTasks

LEMMA CoordinatorTyped ==
  ASSUME Typed, (\E kind \in Kinds : Send(kind)) \/ TakeEvent \/ TalkTimesOut \/ HangUp
  PROVE  Typed'
<1> USE Bounds DEF Typed
<1>1. CASE \E kind \in Kinds : Send(kind)
  <2>1. PICK kind \in Kinds : Send(kind)
    BY <1>1
  <2>2. sent' \in Seq(Kinds) /\ Len(sent') = Len(sent) + 1 /\ Len(sent') <= MaxCommands
    BY <2>1 DEF Send
  <2>3. Command(Len(sent'), kind) \in Commands
    BY <2>2 DEF Command, Commands
  <2>4. pipe' \in Seq(Commands)
    BY <2>1, <2>3 DEF Send
  <2>5. waiting' \in 0..Len(sent') /\ timedOut' \subseteq 1..Len(sent')
    <3>1. Len(sent) \in Nat /\ Len(sent') = Len(sent) + 1
      BY <2>2
    <3>2. waiting' \in {waiting, Len(sent')} /\ timedOut' = timedOut
      BY <2>1 DEF Send
    <3> QED BY <3>1, <3>2
  <2> QED BY <2>1, <2>2, <2>4, <2>5 DEF Send, drainVars
<1>2. CASE TakeEvent
  BY <1>2 DEF TakeEvent, inboxVars, drainVars
<1>3. CASE TalkTimesOut
  BY <1>3 DEF TalkTimesOut, inboxVars, drainVars
<1>4. CASE HangUp
  BY <1>4 DEF HangUp, inboxVars, drainVars, peerVars
<1> QED BY <1>1, <1>2, <1>3, <1>4

LEMMA ReaderTyped ==
  ASSUME Typed, ReaderStep
  PROVE  Typed'
<1> USE Bounds DEF Typed
<1>1. CASE ReadStdin
  <2>1. Head(pipe) \in Commands /\ Tail(pipe) \in Seq(Commands)
    BY <1>1 DEF ReadStdin
  <2>2. inbox' \in Seq(Commands) /\ pipe' \in Seq(Commands) /\ cancelled' \in BOOLEAN
    BY <1>1, <2>1 DEF ReadStdin
  <2> QED BY <1>1, <2>2 DEF ReadStdin, drainVars, peerVars
<1>2. CASE ReadEof
  BY <1>2 DEF ReadEof, inboxVars, drainVars, peerVars
<1> QED BY <1>1, <1>2 DEF ReaderStep

\* A sequence that loses its head, and a set that gets an id of a queue.
LEMMA TakenType ==
  ASSUME NEW q \in Seq(Commands), q # <<>>
  PROVE  /\ Tail(q) \in Seq(Commands) /\ Head(q) \in Commands
         /\ Head(q).id \in 1..MaxCommands
<1>1. Head(q) \in Commands /\ Tail(q) \in Seq(Commands)
  OBVIOUS
<1> QED BY <1>1 DEF Commands

LEMMA MoreIds ==
  ASSUME NEW S \in SUBSET (0..MaxCommands), NEW more \in SUBSET (0..MaxCommands)
  PROVE  S \union more \in SUBSET (0..MaxCommands)
OBVIOUS

LEMMA MainTyped ==
  ASSUME Typed, Ask \/ MainStep
  PROVE  Typed'
<1> USE Bounds DEF Typed, ThreadVars, inboxVars, peerVars, drainVars
<1>1. CASE SeeCancel \/ TurnFails \/ SeeCancelWhileAsking \/ FinishTurn \/ DrainEnds \/ LeaveAtEof
  BY <1>1 DEF SeeCancel, TurnFails, SeeCancelWhileAsking, FinishTurn, DrainEnds, LeaveAtEof, Exit
<1>2. CASE SubmitPending
  <2>1. completion \in 1..turns
    BY <1>2 DEF SubmitPending
  <2>2. submitted' \in Seq(1..turns)
    BY <1>2, <2>1 DEF SubmitPending, Submit
  <2>3. pc' = "followup" /\ completion' = 0
        /\ UNCHANGED <<ThreadVars, inbox, tasks, current, turns, drainVars, asked, done, dropped>>
    BY <1>2 DEF SubmitPending, Submit
  <2> QED BY <2>2, <2>3
<1>3. CASE StartTurn
  <2>1. Head(tasks) \in Tasks /\ Tail(tasks) \in Seq(Tasks)
    BY <1>3 DEF StartTurn
  <2>2. Head(tasks).id \in 0..MaxCommands
    BY <2>1 DEF Tasks
  <2>3. submitted \in Seq(1..(turns + 1))
    <3>1. 1..turns \subseteq 1..(turns + 1)
      OBVIOUS
    <3> QED BY <3>1
  <2>4. completion \in 0..(turns + 1) /\ turns + 1 \in Nat
    OBVIOUS
  <2>5. /\ current' = Head(tasks) /\ tasks' = Tail(tasks) /\ turns' = turns + 1
        /\ done' = done \union {Head(tasks).id} /\ pc' = "turn"
        /\ UNCHANGED <<ThreadVars, inbox, completion, drainVars, asked, dropped, submitted>>
    BY <1>3 DEF StartTurn
  <2>6. done' \in SUBSET (0..MaxCommands) /\ turns' # 0
    <3>1. done \in SUBSET (0..MaxCommands) /\ {Head(tasks).id} \in SUBSET (0..MaxCommands)
      BY <2>2
    <3>2. turns' # 0
      BY <2>5
    <3> HIDE DEF Typed
    <3> QED BY <2>5, <3>1, <3>2, MoreIds
  <2> QED BY <2>1, <2>3, <2>4, <2>5, <2>6
<1>4. CASE Ask
  BY <1>4 DEF Ask
<1>5. CASE TakeWhileAsking
  <2>1. Tail(inbox) \in Seq(Commands) /\ Head(inbox).id \in 1..MaxCommands
    BY <1>5, TakenType DEF TakeWhileAsking
  <2>2. inbox' = Tail(inbox) /\ pc' \in {"exit", "turn", "ask"} /\ pc = "ask"
    BY <1>5 DEF TakeWhileAsking, Exit
  <2>3. dropped' \subseteq dropped \union {Head(inbox).id}
    BY <1>5 DEF TakeWhileAsking
  <2>4. UNCHANGED <<ThreadVars, tasks, current, completion, turns, drainVars, asked, done,
                    submitted>>
    BY <1>5 DEF TakeWhileAsking, Exit
  <2> QED BY <2>1, <2>2, <2>3, <2>4
<1>6. CASE DrainOne
  <2>1. Tail(inbox) \in Seq(Commands) /\ Head(inbox) \in Commands
        /\ Head(inbox).id \in 1..MaxCommands
    BY <1>6, TakenType DEF DrainOne
  <2>2. /\ appends' \in {appends, Append(appends, Head(inbox))}
        /\ talks' \in {talks, Append(talks, Head(inbox))}
        /\ retained' \in {retained, Append(retained, Head(inbox))}
        /\ dropped' \in {dropped, dropped \union {Head(inbox).id}}
    BY <1>6 DEF DrainOne
  <2>3. \A q \in Seq(Commands) : Append(q, Head(inbox)) \in Seq(Commands)
    BY <2>1
  <2>4. appends' \in Seq(Commands) /\ talks' \in Seq(Commands) /\ retained' \in Seq(Commands)
    BY <2>2, <2>3
  <2>5. /\ inbox' = Tail(inbox)
        /\ UNCHANGED <<ThreadVars, pc, tasks, current, completion, turns, asked, done, submitted>>
    BY <1>6 DEF DrainOne
  <2>6. dropped' \subseteq 0..MaxCommands
    BY <2>1, <2>2
  <2> QED BY <2>1, <2>4, <2>5, <2>6
<1>7. CASE AfterTurn
  <2>1. /\ inbox' = inbox \o retained
        /\ retained' = <<>> /\ appends' = <<>> /\ talks' = <<>> /\ pc = "drained"
        /\ UNCHANGED <<ThreadVars, current, turns, asked, done>>
    BY <1>7 DEF AfterTurn, Requeue
  <2>2. inbox' \in Seq(Commands) /\ <<>> \in Seq(Commands) /\ turns \in 1..turns
    BY <2>1
  <2>3. CASE HasMoreWork
    <3>1. /\ tasks' = tasks \o AsTasks(appends, FALSE) \o AsTasks(talks, TRUE)
          /\ completion' \in {completion, turns} /\ pc' = "loop"
          /\ UNCHANGED <<dropped, submitted>>
      BY <1>7, <2>3 DEF AfterTurn
    <3>2. AsTasks(appends, FALSE) \in Seq(Tasks) /\ AsTasks(talks, TRUE) \in Seq(Tasks)
      BY TaskTypes
    <3>3. \A p, q \in Seq(Tasks) : p \o q \in Seq(Tasks)
      OBVIOUS
    <3>4. tasks \o AsTasks(appends, FALSE) \in Seq(Tasks)
      BY <3>2, <3>3
    <3>5. tasks' \in Seq(Tasks)
      BY <3>1, <3>2, <3>3, <3>4
    <3>6. completion' \in 0..turns
      BY <3>1
    <3> QED BY <2>1, <2>2, <3>1, <3>5, <3>6
  <2>4. CASE ~HasMoreWork /\ current.isTalk
    <3>1. /\ dropped' = dropped \union Ids(talks) /\ pc' \in {"loop", "followup"}
          /\ UNCHANGED <<tasks, completion, submitted>>
      BY <1>7, <2>4 DEF AfterTurn
    <3>2. dropped' \in SUBSET (0..MaxCommands)
      <4>1. dropped \in SUBSET (0..MaxCommands) /\ Ids(talks) \in SUBSET (1..MaxCommands)
        BY IdsType
      <4>2. Ids(talks) \in SUBSET (0..MaxCommands)
        BY <4>1
      <4> HIDE DEF Typed
      <4> QED BY <3>1, <4>1, <4>2, MoreIds
    <3> QED BY <2>1, <2>2, <3>1, <3>2
  <2>5. CASE ~HasMoreWork /\ ~current.isTalk
    <3>1. /\ submitted' = Append(submitted, turns) /\ pc' = "followup"
          /\ UNCHANGED <<tasks, completion, dropped>>
      BY <1>7, <2>5 DEF AfterTurn, Submit
    <3>2. submitted' \in Seq(1..turns)
      BY <2>2, <3>1
    <3> QED BY <2>1, <2>2, <3>1, <3>2
  <2> QED BY <2>3, <2>4, <2>5
<1>8. CASE TakeFollowup
  <2>1. Tail(inbox) \in Seq(Commands) /\ Head(inbox).id \in 1..MaxCommands
    BY <1>8, TakenType DEF TakeFollowup
  <2>2. Task(Head(inbox).id, Head(inbox).kind = "talk") \in Tasks
    BY <2>1 DEF Task, Tasks
  <2>3. /\ tasks' \in {tasks, Append(tasks, Task(Head(inbox).id, Head(inbox).kind = "talk"))}
        /\ dropped' \in {dropped, dropped \union {Head(inbox).id}}
        /\ pc' \in {"followup", "exit", "loop"} /\ inbox' = Tail(inbox)
        /\ UNCHANGED <<ThreadVars, current, completion, turns, drainVars, asked, done, submitted>>
    BY <1>8 DEF TakeFollowup
  <2>4. \A t \in Tasks : Append(tasks, t) \in Seq(Tasks)
    OBVIOUS
  <2>5. tasks' \in Seq(Tasks)
    BY <2>2, <2>3, <2>4
  <2>6. dropped' \in SUBSET (0..MaxCommands)
    <3>1. dropped \in SUBSET (0..MaxCommands) /\ {Head(inbox).id} \in SUBSET (0..MaxCommands)
      BY <2>1
    <3> HIDE DEF Typed
    <3> QED BY <2>3, <3>1, MoreIds
  <2> QED BY <2>1, <2>3, <2>5, <2>6
<1> QED BY <1>1, <1>2, <1>3, <1>4, <1>5, <1>6, <1>7, <1>8 DEF MainStep

LEMMA TypedStep == Typed /\ [Next]_vars => Typed'
<1> SUFFICES ASSUME Typed, [Next]_vars PROVE Typed'
  OBVIOUS
<1>1. CASE UNCHANGED vars
  BY <1>1 DEF vars, inboxVars, drainVars, peerVars, Typed
<1> QED BY <1>1, CoordinatorTyped, ReaderTyped, MainTyped DEF Next

\* The variables always hold what the code's can.
THEOREM TypeCorrect == Spec => []TypeOK
BY InitTyped, TypedStep, TypedIsTypeOK, PTL DEF Spec

---------------------------------------------------------------------------
(* Answers *)

\* A turn that has not ended has no answer yet, and what waits to be submitted was not.
AnswersInv ==
    /\ \A i, j \in DOMAIN submitted : i # j => submitted[i] # submitted[j]
    /\ completion # 0 => \A i \in DOMAIN submitted : submitted[i] # completion
    /\ pc \in {"turn", "ask", "drain", "drained"} =>
         completion # turns /\ \A i \in DOMAIN submitted : submitted[i] # turns

LEMMA SubmitKeeps ==
  ASSUME Typed, AnswersInv, NEW turn \in Nat, submitted' = Append(submitted, turn),
         \A i \in DOMAIN submitted : submitted[i] # turn
  PROVE  /\ \A i, j \in DOMAIN submitted' : i # j => submitted'[i] # submitted'[j]
         /\ \A i \in DOMAIN submitted' : submitted'[i] = turn
                \/ \E j \in DOMAIN submitted : submitted'[i] = submitted[j]
<1>1. submitted \in Seq(Nat)
  BY DEF Typed
<1> QED BY <1>1 DEF AnswersInv

LEMMA AnswersStep == Typed /\ AnswersInv /\ [Next]_vars => AnswersInv'
<1> SUFFICES ASSUME Typed, AnswersInv, [Next]_vars
             PROVE  AnswersInv'
  OBVIOUS
<1>0. /\ completion \in 0..turns /\ turns \in Nat
      /\ \A i \in DOMAIN submitted : submitted[i] \in 1..turns
  BY DEF Typed
<1>1. CASE UNCHANGED <<pc, completion, turns, submitted>>
  BY <1>1 DEF AnswersInv
<1>2. CASE \/ SeeCancel \/ TurnFails \/ SeeCancelWhileAsking \/ FinishTurn \/ DrainEnds \/ Ask
           \/ LeaveAtEof \/ TakeWhileAsking \/ TakeFollowup
  <2>1. UNCHANGED <<completion, turns, submitted>>
    BY <1>2 DEF SeeCancel, TurnFails, SeeCancelWhileAsking, FinishTurn, DrainEnds, LeaveAtEof,
                TakeWhileAsking, TakeFollowup, Ask, Exit
  <2>2. pc' \in {"turn", "ask", "drain", "drained"} => pc \in {"turn", "ask", "drain", "drained"}
    BY <1>2 DEF SeeCancel, TurnFails, SeeCancelWhileAsking, FinishTurn, DrainEnds, LeaveAtEof,
                TakeWhileAsking, TakeFollowup, Ask, Exit
  <2> QED BY <2>1, <2>2 DEF AnswersInv
<1>3. CASE SubmitPending
  <2>1. /\ submitted' = Append(submitted, completion) /\ completion' = 0 /\ pc' = "followup"
        /\ completion # 0 /\ turns' = turns
    BY <1>3 DEF SubmitPending, Submit
  <2>2. \A i \in DOMAIN submitted : submitted[i] # completion
    BY <2>1 DEF AnswersInv
  <2> QED BY <1>0, <2>1, <2>2, SubmitKeeps DEF AnswersInv
<1>4. CASE StartTurn
  BY <1>0, <1>4 DEF StartTurn, AnswersInv
<1>5. CASE AfterTurn
  <2>1. /\ completion # turns /\ \A i \in DOMAIN submitted : submitted[i] # turns
        /\ turns' = turns
    BY <1>5 DEF AfterTurn, AnswersInv
  <2>2. CASE HasMoreWork \/ current.isTalk
    <3>1. /\ completion' \in {completion, turns} /\ pc' \in {"loop", "followup"}
          /\ submitted' = submitted
      BY <1>5, <2>2 DEF AfterTurn
    <3> QED BY <2>1, <3>1 DEF AnswersInv
  <2>3. CASE ~HasMoreWork /\ ~current.isTalk
    <3>1. submitted' = Append(submitted, turns) /\ pc' = "followup" /\ completion' = completion
      BY <1>5, <2>3 DEF AfterTurn, Submit
    <3>2. /\ \A i, j \in DOMAIN submitted' : i # j => submitted'[i] # submitted'[j]
          /\ \A i \in DOMAIN submitted' : submitted'[i] = turns
                \/ \E j \in DOMAIN submitted : submitted'[i] = submitted[j]
      BY <1>0, <2>1, <3>1, SubmitKeeps
    <3>3. completion # 0 => \A i \in DOMAIN submitted' : submitted'[i] # completion
      BY <2>1, <3>2 DEF AnswersInv
    <3> QED BY <3>1, <3>2, <3>3 DEF AnswersInv
  <2> QED BY <2>2, <2>3
<1>6. CASE ReaderStep \/ DrainOne \/ TakeEvent \/ TalkTimesOut \/ HangUp \/ \E kind \in Kinds : Send(kind)
  BY <1>1, <1>6 DEF ReaderStep, ReadStdin, ReadEof, DrainOne, TakeEvent, TalkTimesOut, HangUp, Send
<1>7. CASE UNCHANGED vars
  BY <1>1, <1>7 DEF vars
<1> QED BY <1>2, <1>3, <1>4, <1>5, <1>6, <1>7 DEF Next, MainStep

\* The answer of a turn is submitted once at most, and never that of a talk.
THEOREM SubmittedAtMostOnce == Spec => []SubmittedOnce
<1>1. Init => AnswersInv
  BY DEF Init, AnswersInv
<1>2. AnswersInv => SubmittedOnce
  BY DEF AnswersInv, SubmittedOnce
<1> QED BY <1>1, <1>2, InitTyped, TypedStep, AnswersStep, PTL DEF Spec

---------------------------------------------------------------------------
(* Commands *)

\* A command is what was sent under its number.
AsSent(q, s) == \A i \in DOMAIN q : q[i].id \in DOMAIN s /\ q[i].kind = s[q[i].id]
Only(q, kind) == \A i \in DOMAIN q : q[i].kind = kind

CommandsInv ==
    /\ AsSent(pipe, sent) /\ AsSent(inbox, sent)
    /\ AsSent(appends, sent) /\ AsSent(talks, sent) /\ AsSent(retained, sent)
    /\ Only(talks, "talk") /\ Only(appends, "append")

LEMMA AsSentTail ==
  ASSUME NEW q \in Seq(Commands), q # <<>>, NEW s, AsSent(q, s)
  PROVE  /\ AsSent(Tail(q), s)
         /\ Head(q).id \in DOMAIN s /\ Head(q).kind = s[Head(q).id]
<1>1. Head(q) = q[1] /\ 1 \in DOMAIN q
  OBVIOUS
<1>2. \A i \in DOMAIN Tail(q) : i + 1 \in DOMAIN q /\ Tail(q)[i] = q[i + 1]
  OBVIOUS
<1> QED BY <1>1, <1>2 DEF AsSent

LEMMA AsSentAppend ==
  ASSUME NEW q \in Seq(Commands), NEW s, AsSent(q, s),
         NEW c \in Commands, c.id \in DOMAIN s, c.kind = s[c.id]
  PROVE  AsSent(Append(q, c), s)
<1>1. \A i \in DOMAIN Append(q, c) :
        (i \in DOMAIN q /\ Append(q, c)[i] = q[i]) \/ Append(q, c)[i] = c
  OBVIOUS
<1> QED BY <1>1 DEF AsSent

LEMMA AsSentConcat ==
  ASSUME NEW p \in Seq(Commands), NEW q \in Seq(Commands), NEW s, AsSent(p, s), AsSent(q, s)
  PROVE  AsSent(p \o q, s)
<1>1. \A i \in DOMAIN (p \o q) : \/ i \in DOMAIN p /\ (p \o q)[i] = p[i]
                                 \/ i - Len(p) \in DOMAIN q /\ (p \o q)[i] = q[i - Len(p)]
  OBVIOUS
<1> QED BY <1>1 DEF AsSent

LEMMA AsSentMore ==
  ASSUME NEW q \in Seq(Commands), NEW s \in Seq(Kinds), NEW kind \in Kinds, AsSent(q, s)
  PROVE  AsSent(q, Append(s, kind))
<1>1. \A n \in DOMAIN s : n \in DOMAIN Append(s, kind) /\ Append(s, kind)[n] = s[n]
  OBVIOUS
<1> QED BY <1>1 DEF AsSent

LEMMA AsSentIds ==
  ASSUME NEW q, NEW s \in Seq(Kinds), AsSent(q, s)
  PROVE  Ids(q) \subseteq 0..Len(s)
<1>1. DOMAIN s \subseteq 0..Len(s)
  OBVIOUS
<1> QED BY <1>1 DEF AsSent, Ids

LEMMA AsSentNone == \A s : AsSent(<<>>, s)
BY DEF AsSent

LEMMA CommandsStep == Typed /\ CommandsInv /\ [Next]_vars => CommandsInv'
<1> SUFFICES ASSUME Typed, CommandsInv, [Next]_vars
             PROVE  CommandsInv'
  OBVIOUS
<1>0. /\ pipe \in Seq(Commands) /\ inbox \in Seq(Commands) /\ appends \in Seq(Commands)
      /\ talks \in Seq(Commands) /\ retained \in Seq(Commands) /\ sent \in Seq(Kinds)
  BY DEF Typed
<1>1. CASE UNCHANGED <<pipe, sent, inbox, drainVars>>
  BY <1>1 DEF CommandsInv, drainVars
<1>2. CASE \E kind \in Kinds : Send(kind)
  <2>1. PICK kind \in Kinds : Send(kind)
    BY <1>2
  <2>2. /\ sent' = Append(sent, kind) /\ pipe' = Append(pipe, Command(Len(sent'), kind))
        /\ Len(sent) < MaxCommands /\ UNCHANGED <<inbox, appends, talks, retained>>
    BY <2>1 DEF Send, drainVars
  <2>3. /\ Len(sent') = Len(sent) + 1 /\ Len(sent') \in DOMAIN sent' /\ sent'[Len(sent')] = kind
        /\ Len(sent') \in 1..MaxCommands
    BY <1>0, <2>2, Bounds
  <2>4. /\ Command(Len(sent'), kind) \in Commands /\ Command(Len(sent'), kind).id = Len(sent')
        /\ Command(Len(sent'), kind).kind = kind
    BY <2>3 DEF Command, Commands
  <2>5. AsSent(pipe, sent')
    BY <1>0, <2>2, AsSentMore DEF CommandsInv
  <2>6. AsSent(pipe', sent')
    BY <1>0, <2>2, <2>3, <2>4, <2>5, AsSentAppend
  <2> QED BY <1>0, <2>2, <2>6, AsSentMore DEF CommandsInv
<1>3. CASE ReadStdin
  <2>1. /\ pipe # <<>> /\ inbox' = Append(inbox, Head(pipe)) /\ pipe' = Tail(pipe)
        /\ UNCHANGED <<sent, appends, talks, retained>>
    BY <1>3 DEF ReadStdin, drainVars
  <2>2. /\ AsSent(Tail(pipe), sent) /\ Head(pipe) \in Commands
        /\ Head(pipe).id \in DOMAIN sent /\ Head(pipe).kind = sent[Head(pipe).id]
    BY <1>0, <2>1, AsSentTail, TakenType DEF CommandsInv
  <2>3. AsSent(inbox', sent)
    BY <1>0, <2>1, <2>2, AsSentAppend DEF CommandsInv
  <2> QED BY <2>1, <2>2, <2>3 DEF CommandsInv
<1>4. CASE TakeWhileAsking \/ TakeFollowup
  <2>1. inbox # <<>> /\ inbox' = Tail(inbox) /\ UNCHANGED <<pipe, sent, appends, talks, retained>>
    BY <1>4 DEF TakeWhileAsking, TakeFollowup, Exit, ThreadVars, inboxVars, drainVars
  <2>2. AsSent(inbox', sent)
    BY <1>0, <2>1, AsSentTail DEF CommandsInv
  <2> QED BY <2>1, <2>2 DEF CommandsInv
<1>5. CASE DrainOne
  <2> DEFINE c == Head(inbox)
  <2>1. /\ inbox # <<>> /\ inbox' = Tail(inbox) /\ UNCHANGED <<pipe, sent>>
        /\ appends' = IF c.kind = "append" THEN Append(appends, c) ELSE appends
        /\ talks' = IF c.kind = "talk" THEN Append(talks, c) ELSE talks
        /\ retained' \in {retained, Append(retained, c)}
    BY <1>5 DEF DrainOne, ThreadVars, inboxVars
  <2>2. /\ AsSent(Tail(inbox), sent) /\ c \in Commands
        /\ c.id \in DOMAIN sent /\ c.kind = sent[c.id]
    BY <1>0, <2>1, AsSentTail, TakenType DEF CommandsInv
  <2> HIDE DEF c
  <2>3. AsSent(appends', sent) /\ AsSent(talks', sent) /\ AsSent(retained', sent)
    BY <1>0, <2>1, <2>2, AsSentAppend DEF CommandsInv
  <2>4. Only(talks', "talk") /\ Only(appends', "append")
    <3>1. \A q \in Seq(Commands) : \A i \in DOMAIN Append(q, c) :
             (i \in DOMAIN q /\ Append(q, c)[i] = q[i]) \/ Append(q, c)[i] = c
      OBVIOUS
    <3> QED BY <1>0, <2>1, <3>1 DEF CommandsInv, Only
  <2> QED BY <2>1, <2>2, <2>3, <2>4 DEF CommandsInv
<1>6. CASE AfterTurn
  <2>1. /\ inbox' = inbox \o retained /\ retained' = <<>> /\ appends' = <<>> /\ talks' = <<>>
        /\ UNCHANGED <<pipe, sent>>
    BY <1>6 DEF AfterTurn, Requeue, ThreadVars, inboxVars
  <2>2. AsSent(inbox', sent)
    BY <1>0, <2>1, AsSentConcat DEF CommandsInv
  <2> QED BY <2>1, <2>2, AsSentNone DEF CommandsInv, Only
<1>7. CASE \/ SeeCancel \/ SubmitPending \/ StartTurn \/ SeeCancelWhileAsking \/ TurnFails
           \/ FinishTurn \/ DrainEnds \/ LeaveAtEof \/ Ask \/ ReadEof
           \/ TakeEvent \/ TalkTimesOut \/ HangUp
  BY <1>1, <1>7 DEF SeeCancel, SubmitPending, StartTurn, SeeCancelWhileAsking, TurnFails,
       FinishTurn,
       DrainEnds, LeaveAtEof, Ask, ReadEof, TakeEvent, TalkTimesOut, HangUp, Exit, Submit,
       ThreadVars, inboxVars
<1>8. CASE UNCHANGED vars
  BY <1>1, <1>8 DEF vars, inboxVars
<1> QED BY <1>2, <1>3, <1>4, <1>5, <1>6, <1>7, <1>8 DEF Next, MainStep, ReaderStep

\* What one step takes out of the inbox for good.
DropsRightly ==
    \A id \in dropped' \ dropped :
      sent[id] \in {"append", "talk", "feedback", "accepted"} =>
        \/ pc = "ask"
        \/ sent[id] = "talk" /\ pc = "drained" /\ current.isTalk
        \/ sent[id] = "accepted" /\ pc = "followup"

LEMMA DropsStep == Typed /\ CommandsInv /\ [Next]_vars => DropsRightly \/ UNCHANGED vars
<1> SUFFICES ASSUME Typed, CommandsInv, Next
             PROVE  DropsRightly
  OBVIOUS
<1>0. inbox \in Seq(Commands) /\ talks \in Seq(Commands)
  BY DEF Typed
<1>1. inbox # <<>> => Head(inbox).kind = sent[Head(inbox).id]
  BY <1>0, AsSentTail DEF CommandsInv
<1>2. CASE TakeWhileAsking
  BY <1>2 DEF TakeWhileAsking, DropsRightly
<1>3. CASE DrainOne
  <2>1. dropped' \ dropped # {} => inbox # <<>> /\ Head(inbox).kind = "cancel"
    BY <1>3 DEF DrainOne
  <2>2. dropped' \subseteq dropped \union {Head(inbox).id}
    BY <1>3 DEF DrainOne
  <2> QED BY <1>1, <2>1, <2>2 DEF DropsRightly
<1>4. CASE AfterTurn
  <2>1. pc = "drained"
    BY <1>4 DEF AfterTurn
  <2>2. dropped' # dropped => current.isTalk /\ dropped' = dropped \union Ids(talks)
    BY <1>4 DEF AfterTurn
  <2>3. \A id \in Ids(talks) : sent[id] = "talk"
    BY DEF CommandsInv, AsSent, Only, Ids
  <2> QED BY <2>1, <2>2, <2>3 DEF DropsRightly
<1>5. CASE TakeFollowup
  <2> DEFINE c == Head(inbox)
  <2>1. inbox # <<>> /\ pc = "followup"
    BY <1>5 DEF TakeFollowup
  <2>2. CASE c.kind = "accepted"
    <3>1. dropped' = dropped \union {c.id}
      BY <1>5, <2>2 DEF TakeFollowup, Followups
    <3> QED BY <1>1, <2>1, <2>2, <3>1 DEF DropsRightly
  <2>3. CASE c.kind \in Followups
    <3>1. dropped' = dropped
      BY <1>5, <2>3 DEF TakeFollowup, Followups
    <3> QED BY <3>1 DEF DropsRightly
  <2>4. CASE c.kind \notin Followups \union {"accepted"}
    <3>1. dropped' = dropped \union {c.id}
      BY <1>5, <2>4 DEF TakeFollowup, Followups
    <3> QED BY <1>1, <2>1, <2>4, <3>1 DEF DropsRightly, Followups
  <2> QED BY <2>2, <2>3, <2>4
<1>6. dropped' = dropped => DropsRightly
  BY DEF DropsRightly
<1>7. CASE \/ SeeCancel \/ SubmitPending \/ StartTurn \/ SeeCancelWhileAsking \/ TurnFails
           \/ FinishTurn \/ DrainEnds \/ LeaveAtEof \/ Ask \/ ReaderStep
           \/ TakeEvent \/ TalkTimesOut \/ HangUp \/ \E kind \in Kinds : Send(kind)
  BY <1>6, <1>7 DEF SeeCancel, SubmitPending, StartTurn, SeeCancelWhileAsking, TurnFails,
       FinishTurn,
       DrainEnds, LeaveAtEof, Ask, ReaderStep, ReadStdin, ReadEof, TakeEvent, TalkTimesOut, HangUp, Send
<1> QED BY <1>2, <1>3, <1>4, <1>5, <1>7 DEF Next, MainStep

\* A worker throws a talk or an appended message away only while it waits for an
\* answer, a talk also during the turn of another talk.
THEOREM WorkIsNotThrownAway == Spec => OnlyTheseAreDropped
<1>1. Init => CommandsInv
  BY AsSentNone DEF Init, CommandsInv, Only
<1>2. (DropsRightly \/ UNCHANGED vars) <=> [DropsRightly]_vars
  OBVIOUS
<1>3. Typed /\ CommandsInv /\ [Next]_vars => [DropsRightly]_vars
  BY DropsStep, <1>2
<1> QED BY <1>1, <1>3, InitTyped, TypedStep, CommandsStep, PTL
        DEF Spec, OnlyTheseAreDropped, DropsRightly
---------------------------------------------------------------------------
(* Places *)

\* No command is twice in a queue, in two places, or in none while it asks for work.
Distinct(q) == \A i, j \in DOMAIN q : q[i].id = q[j].id => i = j

Apart(id) ==
    /\ id \in Ids(pipe) => id \notin Ids(inbox) \union Ids(appends) \union Ids(talks)
                             \union Ids(retained) \union TaskIds \union done \union dropped
    /\ id \in Ids(inbox) => id \notin Ids(appends) \union Ids(talks)
                             \union Ids(retained) \union TaskIds \union done \union dropped
    /\ id \in Ids(appends) => id \notin Ids(talks)
                             \union Ids(retained) \union TaskIds \union done \union dropped
    /\ id \in Ids(talks) => id \notin Ids(retained) \union TaskIds \union done \union dropped
    /\ id \in Ids(retained) => id \notin TaskIds \union done \union dropped
    /\ id \in TaskIds => id \notin done \union dropped
    /\ id \in done => id \notin dropped

Somewhere(id) ==
    id \in Ids(pipe) \union Ids(inbox) \union Ids(appends) \union Ids(talks)
             \union Ids(retained) \union TaskIds \union done \union dropped

WorkKinds == {"append", "talk", "feedback", "accepted"}

PlacesInv ==
    /\ Distinct(pipe) /\ Distinct(inbox) /\ Distinct(appends) /\ Distinct(talks)
    /\ Distinct(retained) /\ Distinct(tasks)
    /\ \A id : Apart(id)
    /\ \A id \in DOMAIN sent : sent[id] \in WorkKinds => Somewhere(id)
    /\ TaskIds \union done \union dropped \subseteq 0..Len(sent)

LEMMA TailOf ==
  ASSUME NEW S, NEW q \in Seq(S), q # <<>>, Distinct(q)
  PROVE  /\ Distinct(Tail(q)) /\ Head(q).id \in Ids(q)
         /\ \A id : id \in Ids(Tail(q)) <=> id \in Ids(q) /\ id # Head(q).id
<1>1. Head(q) = q[1] /\ 1 \in DOMAIN q
  OBVIOUS
<1>2. \A i \in DOMAIN Tail(q) : i + 1 \in DOMAIN q /\ Tail(q)[i] = q[i + 1] /\ i + 1 # 1
  OBVIOUS
<1>3. \A i \in DOMAIN q : i # 1 => i - 1 \in DOMAIN Tail(q) /\ Tail(q)[i - 1] = q[i]
  OBVIOUS
<1>4. Distinct(Tail(q))
  <2>1. \A i, j \in DOMAIN Tail(q) : i + 1 = j + 1 => i = j
    OBVIOUS
  <2> QED BY <1>2, <2>1 DEF Distinct
<1>5. \A id : id \in Ids(Tail(q)) => id \in Ids(q) /\ id # Head(q).id
  BY <1>1, <1>2 DEF Ids, Distinct
<1>6. \A id : id \in Ids(q) /\ id # Head(q).id => id \in Ids(Tail(q))
  BY <1>1, <1>3 DEF Ids
<1> QED BY <1>1, <1>4, <1>5, <1>6 DEF Ids

LEMMA AppendTo ==
  ASSUME NEW S, NEW q \in Seq(S), NEW c \in S, Distinct(q), c.id \notin Ids(q)
  PROVE  /\ Distinct(Append(q, c))
         /\ \A id : id \in Ids(Append(q, c)) <=> id \in Ids(q) \/ id = c.id
<1> DEFINE r == Append(q, c)
<1>1. \A i \in DOMAIN r : \/ i \in DOMAIN q /\ r[i] = q[i]
                          \/ i = Len(q) + 1 /\ r[i] = c
  OBVIOUS
<1>2. \A i \in DOMAIN q : i \in DOMAIN r /\ r[i] = q[i]
  OBVIOUS
<1>3. Len(q) + 1 \in DOMAIN r /\ r[Len(q) + 1] = c
  OBVIOUS
<1> HIDE DEF r
<1> QED BY <1>1, <1>2, <1>3 DEF Ids, Distinct

LEMMA ConcatOf ==
  ASSUME NEW S, NEW p \in Seq(S), NEW q \in Seq(S), Distinct(p), Distinct(q),
         \A id : id \in Ids(p) => id \notin Ids(q)
  PROVE  /\ Distinct(p \o q)
         /\ \A id : id \in Ids(p \o q) <=> id \in Ids(p) \/ id \in Ids(q)
<1> DEFINE r == p \o q
<1>1. \A i \in DOMAIN r : \/ i \in DOMAIN p /\ r[i] = p[i]
                          \/ i \notin DOMAIN p /\ i - Len(p) \in DOMAIN q /\ r[i] = q[i - Len(p)]
  OBVIOUS
<1>2. \A i \in DOMAIN p : i \in DOMAIN r /\ r[i] = p[i]
  OBVIOUS
<1>3. \A i \in DOMAIN q : i + Len(p) \in DOMAIN r /\ r[i + Len(p)] = q[i]
  OBVIOUS
<1>4. \A i, j \in DOMAIN r : i - Len(p) = j - Len(p) => i = j
  OBVIOUS
<1> HIDE DEF r
<1>5. Distinct(r)
  <2> SUFFICES ASSUME NEW i \in DOMAIN r, NEW j \in DOMAIN r, r[i].id = r[j].id
               PROVE  i = j
    BY DEF Distinct
  <2>1. CASE i \in DOMAIN p /\ j \in DOMAIN p /\ r[i] = p[i] /\ r[j] = p[j]
    BY <2>1 DEF Distinct
  <2>2. CASE /\ i - Len(p) \in DOMAIN q /\ r[i] = q[i - Len(p)]
             /\ j - Len(p) \in DOMAIN q /\ r[j] = q[j - Len(p)]
    BY <1>4, <2>2 DEF Distinct
  <2>3. CASE i \in DOMAIN p /\ r[i] = p[i] /\ j - Len(p) \in DOMAIN q /\ r[j] = q[j - Len(p)]
    BY <2>3 DEF Ids
  <2>4. CASE j \in DOMAIN p /\ r[j] = p[j] /\ i - Len(p) \in DOMAIN q /\ r[i] = q[i - Len(p)]
    BY <2>4 DEF Ids
  <2> QED BY <1>1, <2>1, <2>2, <2>3, <2>4
<1>6. \A id : id \in Ids(r) => id \in Ids(p) \/ id \in Ids(q)
  BY <1>1 DEF Ids
<1>7. \A id : id \in Ids(p) \/ id \in Ids(q) => id \in Ids(r)
  BY <1>2, <1>3 DEF Ids
<1> QED BY <1>5, <1>6, <1>7 DEF r

LEMMA TasksOf ==
  ASSUME NEW q \in Seq(Commands), NEW isTalk \in BOOLEAN, Distinct(q)
  PROVE  Distinct(AsTasks(q, isTalk)) /\ Ids(AsTasks(q, isTalk)) = Ids(q)
<1>1. DOMAIN AsTasks(q, isTalk) = DOMAIN q
  BY DEF AsTasks
<1>2. \A i \in DOMAIN q : AsTasks(q, isTalk)[i].id = q[i].id
  BY DEF AsTasks, Task
<1> QED BY <1>1, <1>2 DEF Ids, Distinct

LEMMA NoneIn == Distinct(<<>>) /\ Ids(<<>>) = {}
BY DEF Distinct, Ids

LEMMA TaskIdsAreIds == TaskIds = Ids(tasks)
BY DEF TaskIds, Ids

\* What a step does not move stays where it is.
LEMMA NothingMoves ==
  ASSUME PlacesInv,
         UNCHANGED <<pipe, inbox, sent, appends, talks, retained, tasks, done, dropped>>
  PROVE  PlacesInv'
BY DEF PlacesInv, Apart, Somewhere, TaskIds, Ids, Distinct

LEMMA SendPlaces ==
  ASSUME Typed, CommandsInv, PlacesInv, NEW kind \in Kinds, Send(kind)
  PROVE  PlacesInv'
<1> DEFINE n == Len(sent')
           c == Command(n, kind)
<1>1. /\ pipe \in Seq(Commands) /\ sent \in Seq(Kinds) /\ Len(sent) \in Nat
  BY DEF Typed
<1>2. /\ sent' = Append(sent, kind) /\ pipe' = Append(pipe, c) /\ Len(sent) < MaxCommands
      /\ UNCHANGED <<inbox, appends, talks, retained, tasks, done, dropped>>
  BY DEF Send, drainVars
<1>3. /\ n = Len(sent) + 1 /\ DOMAIN sent' = DOMAIN sent \union {n}
      /\ \A i \in DOMAIN sent : sent'[i] = sent[i]
  BY <1>1, <1>2
<1>4. c \in Commands /\ c.id = n
  BY <1>1, <1>2, <1>3, Bounds DEF Command, Commands
<1>5. n \notin DOMAIN sent /\ n \notin 0..Len(sent)
  BY <1>1, <1>3
<1>6. ~Somewhere(n)
  <2>1. \A q : AsSent(q, sent) => n \notin Ids(q)
    BY <1>5 DEF AsSent, Ids
  <2>2. n \notin TaskIds \union done \union dropped
    BY <1>5 DEF PlacesInv
  <2> QED BY <2>1, <2>2 DEF CommandsInv, Somewhere
<1> HIDE DEF c, n
<1>7. /\ Distinct(pipe')
      /\ \A id : id \in Ids(pipe') <=> id \in Ids(pipe) \/ id = n
  <2>1. n \notin Ids(pipe) /\ Distinct(pipe)
    BY <1>6 DEF Somewhere, PlacesInv
  <2> QED BY <1>1, <1>2, <1>4, <2>1, AppendTo
<1>8. /\ Ids(inbox') = Ids(inbox) /\ Ids(appends') = Ids(appends) /\ Ids(talks') = Ids(talks)
      /\ Ids(retained') = Ids(retained) /\ TaskIds' = TaskIds
  BY <1>2 DEF TaskIds
<1>9. \A id : Apart(id)'
  BY <1>2, <1>6, <1>7, <1>8 DEF Apart, Somewhere, PlacesInv
<1>10. \A id \in DOMAIN sent' : sent'[id] \in WorkKinds => Somewhere(id)'
  BY <1>2, <1>3, <1>7, <1>8 DEF Somewhere, PlacesInv
<1>11. (TaskIds \union done \union dropped \subseteq 0..Len(sent))'
  <2>1. 0..Len(sent) \subseteq 0..Len(sent')
    BY <1>1, <1>3 DEF n
  <2> QED BY <1>2, <1>8, <2>1 DEF PlacesInv
<1> QED BY <1>2, <1>7, <1>9, <1>10, <1>11 DEF PlacesInv

LEMMA ReadPlaces ==
  ASSUME Typed, CommandsInv, PlacesInv, ReadStdin
  PROVE  PlacesInv'
<1> DEFINE c == Head(pipe)
<1>1. /\ pipe # <<>> /\ pipe' = Tail(pipe) /\ inbox' = Append(inbox, c)
      /\ UNCHANGED <<sent, appends, talks, retained, tasks, done, dropped>>
  BY DEF ReadStdin, drainVars
<1>2. pipe \in Seq(Commands) /\ inbox \in Seq(Commands) /\ c \in Commands
  BY <1>1, TakenType DEF Typed
<1>3. /\ Distinct(pipe') /\ c.id \in Ids(pipe)
      /\ \A id : id \in Ids(pipe') <=> id \in Ids(pipe) /\ id # c.id
  BY <1>1, <1>2, TailOf DEF PlacesInv
<1> HIDE DEF c
<1>4. c.id \notin Ids(inbox)
  BY <1>3 DEF PlacesInv, Apart
<1>5. /\ Distinct(inbox') /\ \A id : id \in Ids(inbox') <=> id \in Ids(inbox) \/ id = c.id
  BY <1>1, <1>2, <1>4, AppendTo DEF PlacesInv
<1>6. /\ Ids(appends') = Ids(appends) /\ Ids(talks') = Ids(talks)
      /\ Ids(retained') = Ids(retained) /\ TaskIds' = TaskIds
  BY <1>1 DEF TaskIds
<1>7. \A id : Apart(id)'
  BY <1>1, <1>3, <1>5, <1>6 DEF Apart, PlacesInv
<1>8. \A id : Somewhere(id) => Somewhere(id)'
  BY <1>1, <1>3, <1>5, <1>6 DEF Somewhere
<1> QED BY <1>1, <1>3, <1>5, <1>6, <1>7, <1>8 DEF PlacesInv

\* The head of the inbox, as each step that takes one finds it.
LEMMA TakenFromInbox ==
  ASSUME Typed, CommandsInv, PlacesInv, inbox # <<>>, inbox' = Tail(inbox)
  PROVE  /\ Distinct(inbox') /\ Head(inbox) \in Commands
         /\ Head(inbox).id \in Ids(inbox) /\ Head(inbox).id \in 0..Len(sent)
         /\ Head(inbox).kind = sent[Head(inbox).id]
         /\ \A id : id \in Ids(inbox') <=> id \in Ids(inbox) /\ id # Head(inbox).id
<1>1. inbox \in Seq(Commands) /\ sent \in Seq(Kinds)
  BY DEF Typed
<1>2. Head(inbox).id \in DOMAIN sent /\ Head(inbox).kind = sent[Head(inbox).id]
  BY <1>1, AsSentTail DEF CommandsInv
<1>3. Head(inbox).id \in 0..Len(sent)
  BY <1>1, <1>2
<1> QED BY <1>1, <1>2, <1>3, TailOf, TakenType DEF PlacesInv

LEMMA AskPlaces ==
  ASSUME Typed, CommandsInv, PlacesInv, TakeWhileAsking
  PROVE  PlacesInv'
<1> DEFINE c == Head(inbox)
<1>0. /\ inbox # <<>> /\ inbox' = Tail(inbox)
      /\ UNCHANGED <<pipe, sent, appends, talks, retained, tasks, done>>
  BY DEF TakeWhileAsking, Exit, ThreadVars, inboxVars, drainVars
<1>1. /\ inbox # <<>> /\ inbox' = Tail(inbox)
      /\ \/ dropped' = dropped \union {c.id}
         \/ dropped' = dropped /\ c.kind = "answer"
      /\ UNCHANGED <<pipe, sent, appends, talks, retained, tasks, done>>
  BY <1>0 DEF TakeWhileAsking
<1>2. /\ Distinct(inbox') /\ c.id \in Ids(inbox) /\ c.id \in 0..Len(sent)
      /\ c.kind = sent[c.id]
      /\ \A id : id \in Ids(inbox') <=> id \in Ids(inbox) /\ id # c.id
  BY <1>1, TakenFromInbox
<1> HIDE DEF c
<1>3. /\ Ids(pipe') = Ids(pipe) /\ Ids(appends') = Ids(appends) /\ Ids(talks') = Ids(talks)
      /\ Ids(retained') = Ids(retained) /\ TaskIds' = TaskIds
  BY <1>1 DEF TaskIds
<1>4. \A id : Apart(id)'
  BY <1>1, <1>2, <1>3 DEF Apart, PlacesInv
<1>5. \A id : Somewhere(id) /\ (id = c.id => c.kind # "answer") => Somewhere(id)'
  BY <1>1, <1>2, <1>3 DEF Somewhere
<1>6. \A id \in DOMAIN sent' : sent'[id] \in WorkKinds => Somewhere(id)'
  BY <1>1, <1>2, <1>5 DEF PlacesInv, WorkKinds
<1> QED BY <1>1, <1>2, <1>3, <1>4, <1>6 DEF PlacesInv

LEMMA StartPlaces ==
  ASSUME Typed, CommandsInv, PlacesInv, StartTurn
  PROVE  PlacesInv'
<1> DEFINE t == Head(tasks)
<1>1. /\ tasks # <<>> /\ tasks' = Tail(tasks) /\ done' = done \union {t.id}
      /\ UNCHANGED <<pipe, inbox, sent, appends, talks, retained, dropped>>
  BY DEF StartTurn, ThreadVars, inboxVars, drainVars
<1>2. tasks \in Seq(Tasks) /\ Distinct(tasks)
  BY DEF Typed, PlacesInv
<1>3. /\ Distinct(tasks') /\ t.id \in TaskIds
      /\ \A id : id \in TaskIds' <=> id \in TaskIds /\ id # t.id
  <2>1. /\ Distinct(Tail(tasks)) /\ t.id \in Ids(tasks)
        /\ \A id : id \in Ids(Tail(tasks)) <=> id \in Ids(tasks) /\ id # t.id
    BY <1>1, <1>2, TailOf
  <2>2. TaskIds = Ids(tasks) /\ TaskIds' = Ids(Tail(tasks))
    BY <1>1 DEF TaskIds, Ids
  <2> HIDE DEF t
  <2> QED BY <1>1, <2>1, <2>2
<1> HIDE DEF t
<1>4. /\ Ids(pipe') = Ids(pipe) /\ Ids(inbox') = Ids(inbox) /\ Ids(appends') = Ids(appends)
      /\ Ids(talks') = Ids(talks) /\ Ids(retained') = Ids(retained)
  BY <1>1
<1>5. \A id : Apart(id)'
  BY <1>1, <1>3, <1>4 DEF Apart, PlacesInv
<1>6. \A id : Somewhere(id) => Somewhere(id)'
  BY <1>1, <1>3, <1>4 DEF Somewhere
<1>7. (TaskIds \union done \union dropped \subseteq 0..Len(sent))'
  BY <1>1, <1>3 DEF PlacesInv
<1> QED BY <1>1, <1>3, <1>4, <1>5, <1>6, <1>7 DEF PlacesInv

LEMMA DrainPlaces ==
  ASSUME Typed, CommandsInv, PlacesInv, DrainOne
  PROVE  PlacesInv'
<1> DEFINE c == Head(inbox)
           Gets(q, r) == Distinct(r) /\ \A id : id \in Ids(r) <=> id \in Ids(q) \/ id = c.id
<1>1. /\ inbox # <<>> /\ inbox' = Tail(inbox)
      /\ UNCHANGED <<pipe, sent, tasks, done>>
  BY DEF DrainOne, ThreadVars, inboxVars
<1>2. /\ Distinct(inbox') /\ c.id \in Ids(inbox) /\ c.id \in 0..Len(sent) /\ c \in Commands
      /\ \A id : id \in Ids(inbox') <=> id \in Ids(inbox) /\ id # c.id
  BY <1>1, TakenFromInbox
<1>3. \/ appends' = Append(appends, c) /\ UNCHANGED <<talks, retained, dropped>>
      \/ talks' = Append(talks, c) /\ UNCHANGED <<appends, retained, dropped>>
      \/ retained' = Append(retained, c) /\ UNCHANGED <<appends, talks, dropped>>
      \/ dropped' = dropped \union {c.id} /\ UNCHANGED <<appends, talks, retained>>
  BY DEF DrainOne
<1> HIDE DEF c
<1>4. /\ Gets(appends, Append(appends, c)) /\ Gets(talks, Append(talks, c))
      /\ Gets(retained, Append(retained, c))
  <2>1. \A q \in Seq(Commands) : Distinct(q) /\ c.id \notin Ids(q) => Gets(q, Append(q, c))
    BY <1>2, AppendTo
  <2>2. appends \in Seq(Commands) /\ talks \in Seq(Commands) /\ retained \in Seq(Commands)
    BY DEF Typed
  <2>3. c.id \notin Ids(appends) \union Ids(talks) \union Ids(retained)
    BY <1>2 DEF PlacesInv, Apart
  <2>4. Distinct(appends) /\ Distinct(talks) /\ Distinct(retained)
    BY DEF PlacesInv
  <2> HIDE DEF Gets
  <2> QED BY <2>1, <2>2, <2>3, <2>4
<1>5. Ids(pipe') = Ids(pipe) /\ TaskIds' = TaskIds
  BY <1>1 DEF TaskIds
<1>6. \/ Gets(appends, appends') /\ UNCHANGED <<talks, retained, dropped>>
      \/ Gets(talks, talks') /\ UNCHANGED <<appends, retained, dropped>>
      \/ Gets(retained, retained') /\ UNCHANGED <<appends, talks, dropped>>
      \/ dropped' = dropped \union {c.id} /\ UNCHANGED <<appends, talks, retained>>
  BY <1>3, <1>4
<1>7. \A id : Apart(id)'
  BY <1>1, <1>2, <1>5, <1>6 DEF Apart, PlacesInv
<1>8. \A id : Somewhere(id) => Somewhere(id)'
  BY <1>1, <1>2, <1>5, <1>6 DEF Somewhere
<1>9. (TaskIds \union done \union dropped \subseteq 0..Len(sent))'
  BY <1>1, <1>2, <1>5, <1>6 DEF PlacesInv
<1>10. Distinct(appends') /\ Distinct(talks') /\ Distinct(retained')
  BY <1>6 DEF PlacesInv
<1> QED BY <1>1, <1>2, <1>7, <1>8, <1>9, <1>10 DEF PlacesInv

\* After a turn the inbox gets the retained commands back, and the rest of the
\* drain is in the tasks, or dropped, or there was none.
LEMMA AfterTurnPlaces ==
  ASSUME Typed, CommandsInv, PlacesInv, AfterTurn
  PROVE  PlacesInv'
<1>1. /\ inbox' = inbox \o retained /\ retained' = <<>> /\ appends' = <<>> /\ talks' = <<>>
      /\ UNCHANGED <<pipe, sent, done>>
  BY DEF AfterTurn, Requeue, ThreadVars, inboxVars
<1>2. /\ inbox \in Seq(Commands) /\ appends \in Seq(Commands) /\ talks \in Seq(Commands)
      /\ retained \in Seq(Commands) /\ tasks \in Seq(Tasks)
  BY DEF Typed
<1>3. /\ Distinct(inbox')
      /\ \A id : id \in Ids(inbox') <=> id \in Ids(inbox) \/ id \in Ids(retained)
  <2>1. \A id : id \in Ids(inbox) => id \notin Ids(retained)
    BY DEF PlacesInv, Apart
  <2> QED BY <1>1, <1>2, <2>1, ConcatOf DEF PlacesInv
<1>4. /\ Distinct(appends') /\ Distinct(talks') /\ Distinct(retained')
      /\ Ids(appends') = {} /\ Ids(talks') = {} /\ Ids(retained') = {}
  BY <1>1, NoneIn
<1>5. Ids(pipe') = Ids(pipe)
  BY <1>1
<1>6. CASE HasMoreWork
  <2> DEFINE a == AsTasks(appends, FALSE)
             t == AsTasks(talks, TRUE)
  <2>1. tasks' = (tasks \o a) \o t /\ dropped' = dropped
    BY <1>6 DEF AfterTurn
  <2>2. /\ a \in Seq(Tasks) /\ Distinct(a) /\ Ids(a) = Ids(appends)
        /\ t \in Seq(Tasks) /\ Distinct(t) /\ Ids(t) = Ids(talks)
    BY <1>2, TaskTypes, TasksOf DEF PlacesInv
  <2>3. Ids(tasks) = TaskIds /\ TaskIds' = Ids(tasks')
    BY DEF TaskIds, Ids
  <2> HIDE DEF a, t
  <2> DEFINE b == tasks \o a
  <2>4. /\ Distinct(b) /\ b \in Seq(Tasks)
        /\ \A id : id \in Ids(b) <=> id \in TaskIds \/ id \in Ids(appends)
    <3>1. \A id : id \in Ids(tasks) => id \notin Ids(a)
      BY <2>2, <2>3 DEF PlacesInv, Apart
    <3>2. tasks \o a \in Seq(Tasks)
      BY <1>2, <2>2
    <3>3. Distinct(tasks)
      BY DEF PlacesInv
    <3> QED BY <1>2, <2>2, <2>3, <3>1, <3>2, <3>3, ConcatOf
  <2> HIDE DEF b
  <2>5. /\ Distinct(tasks')
        /\ \A id : id \in TaskIds' <=> id \in TaskIds \/ id \in Ids(appends) \/ id \in Ids(talks)
    <3>1. \A id : id \in Ids(b) => id \notin Ids(t)
      BY <2>2, <2>4 DEF PlacesInv, Apart
    <3>2. Distinct(b \o t) /\ \A id : id \in Ids(b \o t) <=> id \in Ids(b) \/ id \in Ids(t)
      BY <2>2, <2>4, <3>1, ConcatOf
    <3>3. tasks' = b \o t
      BY <2>1 DEF b
    <3> QED BY <2>2, <2>3, <2>4, <3>2, <3>3
  <2>6. \A id : Apart(id)'
    BY <1>1, <1>3, <1>4, <1>5, <2>1, <2>5 DEF Apart, PlacesInv
  <2>7. \A id : Somewhere(id) => Somewhere(id)'
    BY <1>1, <1>3, <1>4, <1>5, <2>1, <2>5 DEF Somewhere
  <2>8. (TaskIds \union done \union dropped \subseteq 0..Len(sent))'
    <3>1. Ids(appends) \subseteq 0..Len(sent) /\ Ids(talks) \subseteq 0..Len(sent)
      <4>1. sent \in Seq(Kinds) /\ AsSent(appends, sent) /\ AsSent(talks, sent)
        BY DEF CommandsInv, Typed
      <4> QED BY <4>1, AsSentIds
    <3> QED BY <1>1, <2>1, <2>5, <3>1 DEF PlacesInv
  <2> QED BY <1>1, <1>3, <1>4, <2>5, <2>6, <2>7, <2>8 DEF PlacesInv
<1>7. CASE ~HasMoreWork
  <2>1. /\ Ids(appends) = {}
        /\ \/ dropped' = dropped \union Ids(talks)
           \/ Ids(talks) = {} /\ dropped' = dropped
        /\ tasks' = tasks
    BY <1>7, NoneIn DEF AfterTurn, HasMoreWork, Submit
  <2>2. TaskIds' = TaskIds
    BY <2>1 DEF TaskIds
  <2>3. \A id : Apart(id)'
    BY <1>1, <1>3, <1>4, <1>5, <2>1, <2>2 DEF Apart, PlacesInv
  <2>4. \A id : Somewhere(id) => Somewhere(id)'
    BY <1>1, <1>3, <1>4, <1>5, <2>1, <2>2 DEF Somewhere
  <2>5. (TaskIds \union done \union dropped \subseteq 0..Len(sent))'
    <3>1. Ids(talks) \subseteq 0..Len(sent)
      BY DEF CommandsInv, AsSent, Ids, Typed
    <3> QED BY <1>1, <2>1, <2>2, <3>1 DEF PlacesInv
  <2> QED BY <1>1, <1>3, <1>4, <2>1, <2>3, <2>4, <2>5 DEF PlacesInv
<1> QED BY <1>6, <1>7

LEMMA FollowupPlaces ==
  ASSUME Typed, CommandsInv, PlacesInv, TakeFollowup
  PROVE  PlacesInv'
<1> DEFINE c == Head(inbox)
           t == Task(c.id, c.kind = "talk")
<1>1. /\ inbox # <<>> /\ inbox' = Tail(inbox)
      /\ UNCHANGED <<pipe, sent, appends, talks, retained, done>>
  BY DEF TakeFollowup, ThreadVars, inboxVars, drainVars
<1>2. /\ Distinct(inbox') /\ c.id \in Ids(inbox) /\ c.id \in 0..Len(sent) /\ c \in Commands
      /\ \A id : id \in Ids(inbox') <=> id \in Ids(inbox) /\ id # c.id
  BY <1>1, TakenFromInbox
<1>3. \/ dropped' = dropped \union {c.id} /\ tasks' = tasks
      \/ tasks' = Append(tasks, t) /\ dropped' = dropped
  BY DEF TakeFollowup
<1>4. t \in Tasks /\ t.id = c.id
  BY <1>2, Bounds DEF Task, Tasks, Commands
<1> HIDE DEF c, t
<1>5. tasks \in Seq(Tasks) /\ Distinct(tasks) /\ c.id \notin Ids(tasks)
  BY <1>2, TaskIdsAreIds DEF Typed, PlacesInv, Apart
<1>6. /\ Distinct(Append(tasks, t))
      /\ \A id : id \in Ids(Append(tasks, t)) <=> id \in Ids(tasks) \/ id = c.id
  BY <1>4, <1>5, AppendTo
<1>7. TaskIds = Ids(tasks) /\ TaskIds' = Ids(tasks')
  BY DEF TaskIds, Ids
<1>8. /\ Ids(pipe') = Ids(pipe) /\ Ids(appends') = Ids(appends) /\ Ids(talks') = Ids(talks)
      /\ Ids(retained') = Ids(retained)
  BY <1>1
<1>9. \/ dropped' = dropped \union {c.id} /\ TaskIds' = TaskIds
      \/ (\A id : id \in TaskIds' <=> id \in TaskIds \/ id = c.id) /\ dropped' = dropped
  BY <1>3, <1>6, <1>7
<1>10. \A id : Apart(id)'
  BY <1>1, <1>2, <1>8, <1>9 DEF Apart, PlacesInv
<1>11. \A id : Somewhere(id) => Somewhere(id)'
  BY <1>1, <1>2, <1>8, <1>9 DEF Somewhere
<1>12. (TaskIds \union done \union dropped \subseteq 0..Len(sent))'
  BY <1>1, <1>2, <1>9 DEF PlacesInv
<1>13. Distinct(tasks')
  BY <1>3, <1>5, <1>6
<1> QED BY <1>1, <1>2, <1>10, <1>11, <1>12, <1>13 DEF PlacesInv

LEMMA PlacesStep == Typed /\ CommandsInv /\ PlacesInv /\ [Next]_vars => PlacesInv'
<1> SUFFICES ASSUME Typed, CommandsInv, PlacesInv, [Next]_vars
             PROVE  PlacesInv'
  OBVIOUS
<1>1. CASE \/ SeeCancel \/ SubmitPending \/ SeeCancelWhileAsking \/ TurnFails
           \/ FinishTurn \/ DrainEnds \/ LeaveAtEof \/ Ask \/ ReadEof
           \/ TakeEvent \/ TalkTimesOut \/ HangUp
  BY <1>1, NothingMoves DEF SeeCancel, SubmitPending, TurnFails, FinishTurn, SeeCancelWhileAsking,
       DrainEnds, LeaveAtEof, Ask, ReadEof, TakeEvent, TalkTimesOut, HangUp, Exit, Submit,
       ThreadVars, inboxVars, drainVars
<1>2. CASE UNCHANGED vars
  BY <1>2, NothingMoves DEF vars, inboxVars, drainVars
<1> QED BY <1>1, <1>2, SendPlaces, ReadPlaces, AskPlaces, StartPlaces, DrainPlaces,
           AfterTurnPlaces, FollowupPlaces DEF Next, MainStep, ReaderStep

LEMMA InitPlaces == Init => PlacesInv
<1> SUFFICES ASSUME Init PROVE PlacesInv
  OBVIOUS
<1>1. TaskIds = {0} /\ Distinct(tasks)
  BY DEF Init, TaskIds, Contract, Task, Distinct
<1>2. DOMAIN sent = {} /\ 0 \in 0..Len(sent)
  BY DEF Init
<1> QED BY <1>1, <1>2, NoneIn DEF Init, PlacesInv, Apart, Somewhere

LEMMA InOnePlace ==
  ASSUME NEW id, Apart(id), Somewhere(id)
  PROVE  Cardinality({p \in DOMAIN Places : id \in Places[p]}) = 1
<1>1. \E p \in 1..8 : \A r \in 1..8 : id \in Places[r] <=> r = p
  <2> DEFINE Alone(p) == \A r \in 1..8 : id \in Places[r] <=> r = p
  <2>1. \A r \in 1..8 : r \in {1, 2, 3, 4, 5, 6, 7, 8}
    OBVIOUS
  <2>2. /\ Places[1] = Ids(pipe) /\ Places[2] = Ids(inbox) /\ Places[3] = Ids(appends)
        /\ Places[4] = Ids(talks) /\ Places[5] = Ids(retained) /\ Places[6] = TaskIds
        /\ Places[7] = done /\ Places[8] = dropped
    BY DEF Places
  <2>3. \/ Alone(1) \/ Alone(2) \/ Alone(3) \/ Alone(4) \/ Alone(5) \/ Alone(6) \/ Alone(7)
        \/ Alone(8)
    BY <2>1, <2>2 DEF Apart, Somewhere
  <2> QED BY <2>3
<1>2. DOMAIN Places = 1..8
  BY DEF Places
<1>3. PICK p \in 1..8 : {r \in DOMAIN Places : id \in Places[r]} = {p}
  BY <1>1, <1>2
<1> QED BY <1>3, FS_Singleton

\* Nothing that was sent to a worker gets lost on the way through its reader, its
\* inbox, the drain and its tasks, or is worked on twice.
THEOREM NoCommandIsLost == Spec => []EveryCommandIsSomewhere
<1>1. Init => CommandsInv
  BY AsSentNone DEF Init, CommandsInv, Only
<1>2. Init => PlacesInv
  BY InitPlaces
<1>3. PlacesInv => EveryCommandIsSomewhere
  BY InOnePlace DEF PlacesInv, EveryCommandIsSomewhere, WorkKinds
<1> QED BY <1>1, <1>2, <1>3, InitTyped, TypedStep, CommandsStep, PlacesStep, PTL DEF Spec

---------------------------------------------------------------------------
(* Replies *)

EventKinds == {"question", "completed", "peer_reply", "failed", "cancelled"}
WorkerEvents == [kind : EventKinds, of : Nat]
IsReply(e) == e.kind = "peer_reply"
IsTalk(id) == id \in DOMAIN sent /\ sent[id] = "talk"
InTurn == pc \in {"turn", "ask", "drain", "drained"}

\* The reply to a talk is on its way to the coordinator, or was given to a caller.
OnItsWay(id) == \E i \in DOMAIN out : IsReply(out[i]) /\ out[i].of = id
Replied(id) == OnItsWay(id) \/ \E r \in replies : r[2] = id

\* No talk is replied to twice.
OutInv ==
    /\ out \in Seq(WorkerEvents) /\ replies \subseteq Nat \X Nat
    /\ \A i, j \in DOMAIN out :
         IsReply(out[i]) /\ IsReply(out[j]) /\ out[i].of = out[j].of => i = j
    /\ \A i \in DOMAIN out, r \in replies : IsReply(out[i]) => out[i].of # r[2]

\* Only a talk that has had its turn is replied to, and the turn that runs has not yet
\* replied.
TurnInv ==
    /\ \A i \in DOMAIN tasks : tasks[i].isTalk => IsTalk(tasks[i].id)
    /\ InTurn => /\ current.id \in done /\ ~Replied(current.id)
                 /\ current.isTalk => IsTalk(current.id)
    /\ \A id : Replied(id) => IsTalk(id) /\ id \in done

\* The caller that waits is that of the last talk; each talk before it was given up or
\* got a reply.
CallerInv ==
    /\ waiting # 0 => IsTalk(waiting) /\ \A id \in DOMAIN sent : IsTalk(id) => id <= waiting
    /\ \A id \in DOMAIN sent : IsTalk(id) =>
         id = waiting \/ id \in timedOut \/ \E r \in replies : r[1] = id
    /\ \A r \in replies : r[1] \in DOMAIN sent /\ r[2] \in DOMAIN sent

ReplyInv == OutInv /\ TurnInv /\ CallerInv /\ ReplyIsForItsTalk

\* What the queue of events is after one more, and without its first.
LEMMA EventPut ==
  ASSUME OutInv, NEW e \in WorkerEvents, out' = Append(out, e), replies' = replies,
         IsReply(e) => ~Replied(e.of)
  PROVE  /\ OutInv'
         /\ \A id : Replied(id)' <=> Replied(id) \/ (IsReply(e) /\ id = e.of)
<1>1. out \in Seq(WorkerEvents)
  BY DEF OutInv
<1>2. /\ out' \in Seq(WorkerEvents)
      /\ \A i \in DOMAIN out' : \/ i \in DOMAIN out /\ out'[i] = out[i] /\ i # Len(out')
                                \/ i = Len(out') /\ out'[i] = e
      /\ \A i \in DOMAIN out : i \in DOMAIN out' /\ out'[i] = out[i]
      /\ Len(out') \in DOMAIN out' /\ out'[Len(out')] = e
  BY <1>1
<1>3. \A id : Replied(id)' <=> Replied(id) \/ (IsReply(e) /\ id = e.of)
  BY <1>2 DEF Replied, OnItsWay
<1>4. \A i \in DOMAIN out : IsReply(out[i]) /\ IsReply(e) => out[i].of # e.of
  BY DEF Replied, OnItsWay
<1>5. \A r \in replies : IsReply(e) => e.of # r[2]
  BY DEF Replied
<1>6. OutInv'
  BY <1>2, <1>4, <1>5 DEF OutInv
<1> QED BY <1>3, <1>6

LEMMA EventTaken ==
  ASSUME OutInv, out # <<>>, out' = Tail(out), NEW e, e = Head(out)
  PROVE  /\ out' \in Seq(WorkerEvents) /\ e \in WorkerEvents
         /\ \A i, j \in DOMAIN out' :
              IsReply(out'[i]) /\ IsReply(out'[j]) /\ out'[i].of = out'[j].of => i = j
         /\ \A i \in DOMAIN out', r \in replies : IsReply(out'[i]) => out'[i].of # r[2]
         /\ IsReply(e) => /\ OnItsWay(e.of) /\ ~OnItsWay(e.of)'
                          /\ \A r \in replies : r[2] # e.of
         /\ \A id : OnItsWay(id)' => OnItsWay(id)
<1>1. out \in Seq(WorkerEvents)
  BY DEF OutInv
<1>2. /\ out' \in Seq(WorkerEvents) /\ e \in WorkerEvents /\ e = out[1] /\ 1 \in DOMAIN out
      /\ \A i \in DOMAIN out' : i + 1 \in DOMAIN out /\ out'[i] = out[i + 1] /\ i + 1 # 1
      /\ \A i, j \in DOMAIN out' : i + 1 = j + 1 => i = j
  BY <1>1
<1>3. \A i, j \in DOMAIN out' :
        IsReply(out'[i]) /\ IsReply(out'[j]) /\ out'[i].of = out'[j].of => i = j
  BY <1>2 DEF OutInv
<1>4. \A i \in DOMAIN out', r \in replies : IsReply(out'[i]) => out'[i].of # r[2]
  BY <1>2 DEF OutInv
<1>5. IsReply(e) => /\ OnItsWay(e.of) /\ ~OnItsWay(e.of)'
                    /\ \A r \in replies : r[2] # e.of
  BY <1>2 DEF OutInv, OnItsWay
<1>6. \A id : OnItsWay(id)' => OnItsWay(id)
  BY <1>2 DEF OnItsWay
<1> QED BY <1>2, <1>3, <1>4, <1>5, <1>6

\* A step that neither sends a command nor ends a turn, and gives the coordinator no
\* reply.
LEMMA RepliesRest ==
  ASSUME Typed, ReplyInv, UNCHANGED <<sent, waiting, timedOut, replies, current>>,
         InTurn' => InTurn /\ done' = done, done \subseteq done',
         \A i \in DOMAIN tasks' : tasks'[i].isTalk => IsTalk(tasks'[i].id),
         out' = out \/ \E e \in WorkerEvents : ~IsReply(e) /\ out' = Append(out, e)
  PROVE  ReplyInv'
<1>1. OutInv' /\ \A id : Replied(id)' <=> Replied(id)
  <2>1. CASE out' = out
    BY <2>1 DEF ReplyInv, OutInv, Replied, OnItsWay
  <2>2. ASSUME NEW e \in WorkerEvents, ~IsReply(e), out' = Append(out, e)
        PROVE  OutInv' /\ \A id : Replied(id)' <=> Replied(id)
    BY <2>2, EventPut DEF ReplyInv
  <2> QED BY <2>1, <2>2
<1>2. \A id : IsTalk(id)' <=> IsTalk(id)
  BY DEF IsTalk
<1>3. TurnInv'
  BY <1>1, <1>2 DEF ReplyInv, TurnInv
<1>4. CallerInv' /\ ReplyIsForItsTalk'
  BY <1>2 DEF ReplyInv, CallerInv, ReplyIsForItsTalk
<1> QED BY <1>1, <1>3, <1>4 DEF ReplyInv

LEMMA SendReplies ==
  ASSUME Typed, ReplyInv, NEW kind \in Kinds, Send(kind)
  PROVE  ReplyInv'
<1>0. PICK n : n = Len(sent) + 1
  OBVIOUS
<1>1. /\ sent' = Append(sent, kind) /\ sent \in Seq(Kinds)
      /\ waiting' = IF kind = "talk" THEN Len(sent') ELSE waiting
      /\ kind = "talk" => waiting = 0
      /\ UNCHANGED <<pc, tasks, current, out, done, timedOut, replies>>
  BY DEF Send, MaySend, Typed
<1>2. /\ n = Len(sent') /\ n \in Nat /\ n # 0
      /\ \A id : id \in DOMAIN sent' <=> id \in DOMAIN sent \/ id = n
      /\ \A id \in DOMAIN sent : id \in Nat /\ id # 0 /\ id <= n
      /\ \A id \in DOMAIN sent : id # n /\ sent'[id] = sent[id]
      /\ sent'[n] = kind
  BY <1>0, <1>1
<1>3. /\ \A id : IsTalk(id) => IsTalk(id)'
      /\ \A id : IsTalk(id)' => IsTalk(id) \/ (id = n /\ kind = "talk")
      /\ kind = "talk" => IsTalk(n)'
  BY <1>1, <1>2 DEF IsTalk
<1>4. OutInv' /\ \A id : Replied(id)' <=> Replied(id)
  BY <1>1 DEF ReplyInv, OutInv, Replied, OnItsWay
<1>5. TurnInv'
  BY <1>1, <1>3, <1>4 DEF ReplyInv, TurnInv, InTurn
<1>6. CallerInv'
  <2>1. waiting' # 0 => /\ IsTalk(waiting)'
                        /\ \A id \in DOMAIN sent' : IsTalk(id)' => id <= waiting'
    <3>1. CASE kind = "talk"
      BY <1>1, <1>2, <1>3, <3>1
    <3>2. CASE kind # "talk"
      BY <1>1, <1>2, <1>3, <3>2 DEF ReplyInv, CallerInv, IsTalk
    <3> QED BY <3>1, <3>2
  <2>2. \A id \in DOMAIN sent' : IsTalk(id)' =>
           id = waiting' \/ id \in timedOut' \/ \E r \in replies' : r[1] = id
    <3>1. 0 \notin DOMAIN sent
      BY <1>2
    <3> QED BY <1>1, <1>3, <3>1 DEF ReplyInv, CallerInv, IsTalk
  <2>3. \A r \in replies' : r[1] \in DOMAIN sent' /\ r[2] \in DOMAIN sent'
    BY <1>1, <1>2 DEF ReplyInv, CallerInv
  <2> QED BY <2>1, <2>2, <2>3 DEF CallerInv
<1>7. ReplyIsForItsTalk'
  BY <1>1 DEF ReplyInv, ReplyIsForItsTalk
<1> QED BY <1>4, <1>5, <1>6, <1>7 DEF ReplyInv

\* The caller of talk w is given the reply to talk u: its own, or that of an earlier
\* talk, which was given up or took the reply to one that is earlier still.
LEMMA TakeReplies ==
  ASSUME Typed, ReplyInv, TakeEvent
  PROVE  ReplyInv'
<1>0. PICK e : e = Head(out)
  OBVIOUS
<1> DEFINE u == e.of
<1>1. /\ out # <<>> /\ out' = Tail(out) /\ UNCHANGED <<pc, tasks, current, sent, done, timedOut>>
      /\ IF IsReply(e) /\ waiting # 0
         THEN waiting' = 0 /\ replies' = replies \union {<<waiting, u>>}
         ELSE UNCHANGED <<waiting, replies>>
  BY <1>0 DEF TakeEvent, inboxVars, IsReply
<1>2. /\ out' \in Seq(WorkerEvents) /\ e \in WorkerEvents
      /\ \A i, j \in DOMAIN out' :
           IsReply(out'[i]) /\ IsReply(out'[j]) /\ out'[i].of = out'[j].of => i = j
      /\ \A i \in DOMAIN out', r \in replies : IsReply(out'[i]) => out'[i].of # r[2]
      /\ IsReply(e) => ~OnItsWay(u)' /\ OnItsWay(u) /\ \A r \in replies : r[2] # u
      /\ \A id : OnItsWay(id)' => OnItsWay(id)
  BY <1>0, <1>1, EventTaken DEF ReplyInv
<1> HIDE DEF u
<1>3. \A id : IsTalk(id)' <=> IsTalk(id)
  BY <1>1 DEF IsTalk
<1>4. \A id : Replied(id)' => Replied(id)
  <2>1. \A r \in replies' : r \in replies \/ (r[2] = u /\ IsReply(e))
    BY <1>1
  <2> QED BY <1>2, <2>1 DEF Replied
<1>5. TurnInv'
  BY <1>1, <1>3, <1>4 DEF ReplyInv, TurnInv, InTurn
<1>6. CASE IsReply(e) /\ waiting # 0
  <2>1. waiting' = 0 /\ replies' = replies \union {<<waiting, u>>}
    BY <1>1, <1>6
  <2>2. IsTalk(u) /\ u \in DOMAIN sent
    BY <1>2, <1>6 DEF ReplyInv, TurnInv, Replied, IsTalk
  <2>3. /\ waiting \in DOMAIN sent /\ u <= waiting /\ DOMAIN sent \subseteq Nat
        /\ timedOut \subseteq Nat
    BY <1>6, <2>2 DEF ReplyInv, CallerInv, IsTalk, Typed
  <2>4. OutInv'
    <3>1. \A i \in DOMAIN out' : IsReply(out'[i]) => out'[i].of # u
      BY <1>2, <1>6 DEF OnItsWay
    <3>2. replies' \subseteq Nat \X Nat
      BY <2>1, <2>2, <2>3 DEF ReplyInv, OutInv
    <3> QED BY <1>2, <2>1, <3>1, <3>2 DEF OutInv
  <2>5. CallerInv'
    <3>1. \A id \in DOMAIN sent : IsTalk(id) =>
             id \in timedOut \/ \E r \in replies' : r[1] = id
      <4>1. <<waiting, u>> \in replies' /\ <<waiting, u>>[1] = waiting
        BY <2>1
      <4> QED BY <2>1, <4>1 DEF ReplyInv, CallerInv
    <3> QED BY <1>1, <1>3, <2>1, <2>2, <2>3, <3>1 DEF ReplyInv, CallerInv
  <2>6. waiting # u => u < waiting /\ \E t \in timedOut : t <= u
    <3> SUFFICES ASSUME waiting # u PROVE \E t \in timedOut : t <= u
      BY <2>2, <2>3
    <3>1. CASE u \in timedOut
      BY <2>3, <3>1
    <3>2. ASSUME NEW r \in replies, r[1] = u PROVE \E t \in timedOut : t <= u
      <4>1. r[2] # u /\ r[2] \in Nat
        BY <1>2, <1>6, <2>3 DEF ReplyInv, CallerInv
      <4>2. r[2] < u /\ \E t \in timedOut : t <= r[2]
        BY <3>2, <4>1 DEF ReplyInv, ReplyIsForItsTalk
      <4> QED BY <2>2, <2>3, <4>1, <4>2
    <3> QED BY <2>2, <3>1, <3>2 DEF ReplyInv, CallerInv
  <2>7. ReplyIsForItsTalk'
    BY <1>1, <2>1, <2>6 DEF ReplyInv, ReplyIsForItsTalk
  <2> QED BY <1>5, <2>4, <2>5, <2>7 DEF ReplyInv
<1>7. CASE ~(IsReply(e) /\ waiting # 0)
  <2>1. UNCHANGED <<waiting, replies>>
    BY <1>1, <1>7
  <2>2. OutInv'
    BY <1>2, <2>1 DEF ReplyInv, OutInv
  <2>3. CallerInv' /\ ReplyIsForItsTalk'
    BY <1>1, <1>3, <2>1 DEF ReplyInv, CallerInv, ReplyIsForItsTalk
  <2> QED BY <1>5, <2>2, <2>3 DEF ReplyInv
<1> QED BY <1>6, <1>7

\* A turn begins with a task that was not done before, so that nobody has its reply.
LEMMA StartReplies ==
  ASSUME Typed, CommandsInv, PlacesInv, ReplyInv, StartTurn
  PROVE  ReplyInv'
<1>0. PICK t : t = Head(tasks)
  OBVIOUS
<1>1. /\ tasks # <<>> /\ tasks' = Tail(tasks) /\ current' = t /\ done' = done \union {t.id}
      /\ UNCHANGED <<sent, out, waiting, timedOut, replies>>
  BY <1>0 DEF StartTurn, ThreadVars, inboxVars, peerVars
<1>2. /\ t = tasks[1] /\ 1 \in DOMAIN tasks
      /\ \A i \in DOMAIN tasks' : i + 1 \in DOMAIN tasks /\ tasks'[i] = tasks[i + 1]
  BY <1>0, <1>1 DEF Typed
<1>3. t.id \notin done
  BY <1>2 DEF TaskIds, PlacesInv, Apart
<1>4. \A id : IsTalk(id)' <=> IsTalk(id)
  BY <1>1 DEF IsTalk
<1>5. OutInv' /\ \A id : Replied(id)' <=> Replied(id)
  BY <1>1 DEF ReplyInv, OutInv, Replied, OnItsWay
<1>6. ~Replied(t.id) /\ (t.isTalk => IsTalk(t.id))
  BY <1>2, <1>3 DEF ReplyInv, TurnInv
<1>7. TurnInv'
  <2>1. (\A i \in DOMAIN tasks : tasks[i].isTalk => IsTalk(tasks[i].id))'
    BY <1>1, <1>2 DEF ReplyInv, TurnInv, IsTalk
  <2>2. (current.id \in done /\ ~Replied(current.id) /\ (current.isTalk => IsTalk(current.id)))'
    BY <1>1, <1>6 DEF Replied, OnItsWay, IsTalk
  <2>3. \A id : Replied(id)' => IsTalk(id)' /\ id \in done'
    BY <1>1, <1>4, <1>5 DEF ReplyInv, TurnInv
  <2> QED BY <2>1, <2>2, <2>3 DEF TurnInv
<1>8. CallerInv' /\ ReplyIsForItsTalk'
  BY <1>1, <1>4 DEF ReplyInv, CallerInv, ReplyIsForItsTalk
<1> QED BY <1>5, <1>7, <1>8 DEF ReplyInv

LEMMA InConcat ==
  ASSUME NEW S, NEW p \in Seq(S), NEW q \in Seq(S)
  PROVE  \A i \in DOMAIN (p \o q) : \/ i \in DOMAIN p /\ (p \o q)[i] = p[i]
                                    \/ \E j \in DOMAIN q : (p \o q)[i] = q[j]
<1>1. \A i \in DOMAIN (p \o q) : \/ i \in DOMAIN p /\ (p \o q)[i] = p[i]
                                 \/ i - Len(p) \in DOMAIN q /\ (p \o q)[i] = q[i - Len(p)]
  OBVIOUS
<1> QED BY <1>1

\* The tasks that a drain adds are of the kind they say.
LEMMA DrainedTalks ==
  ASSUME Typed, CommandsInv, ReplyInv, AfterTurn
  PROVE  \A i \in DOMAIN tasks' : tasks'[i].isTalk => IsTalk(tasks'[i].id)
<1>1. CASE HasMoreWork
  <2> DEFINE a == AsTasks(appends, FALSE)
             b == AsTasks(talks, TRUE)
  <2>1. tasks' = tasks \o a \o b
    BY <1>1 DEF AfterTurn
  <2>2. a \in Seq(Tasks) /\ b \in Seq(Tasks) /\ tasks \in Seq(Tasks)
    BY TaskTypes DEF Typed
  <2>3. \A i \in DOMAIN a : ~a[i].isTalk
    BY DEF AsTasks, Task
  <2>4. \A i \in DOMAIN b : IsTalk(b[i].id)
    <3>1. \A i \in DOMAIN talks : IsTalk(talks[i].id)
      BY DEF CommandsInv, AsSent, Only, IsTalk
    <3> QED BY <3>1 DEF AsTasks, Task
  <2> HIDE DEF a, b
  <2>5. \A i \in DOMAIN tasks' : \/ i \in DOMAIN tasks /\ tasks'[i] = tasks[i]
                                 \/ \E j \in DOMAIN a : tasks'[i] = a[j]
                                 \/ \E j \in DOMAIN b : tasks'[i] = b[j]
    <3>0. PICK ta : ta = tasks \o a
      OBVIOUS
    <3>1. ta \in Seq(Tasks) /\ tasks' = ta \o b
      BY <2>1, <2>2, <3>0
    <3>2. \A i \in DOMAIN (ta \o b) : \/ i \in DOMAIN ta /\ (ta \o b)[i] = ta[i]
                                      \/ \E j \in DOMAIN b : (ta \o b)[i] = b[j]
      BY <2>2, <3>1, InConcat
    <3>3. \A i \in DOMAIN (tasks \o a) : \/ i \in DOMAIN tasks /\ (tasks \o a)[i] = tasks[i]
                                         \/ \E j \in DOMAIN a : (tasks \o a)[i] = a[j]
      BY <2>2, InConcat
    <3> QED
      <4> TAKE i \in DOMAIN tasks'
      <4>1. CASE i \in DOMAIN ta /\ tasks'[i] = ta[i]
        <5>1. i \in DOMAIN (tasks \o a) /\ tasks'[i] = (tasks \o a)[i]
          BY <3>0, <4>1
        <5> QED BY <3>3, <5>1
      <4>2. CASE \E j \in DOMAIN b : tasks'[i] = b[j]
        BY <4>2
      <4> QED BY <3>1, <3>2, <4>1, <4>2
  <2> QED BY <2>3, <2>4, <2>5 DEF ReplyInv, TurnInv
<1>2. CASE ~HasMoreWork
  <2>1. tasks' = tasks
    BY <1>2 DEF AfterTurn, Submit
  <2> QED BY <2>1 DEF ReplyInv, TurnInv
<1> QED BY <1>1, <1>2

\* A turn ends with the one reply to its talk, or with none.
LEMMA AfterTurnReplies ==
  ASSUME Typed, CommandsInv, ReplyInv, AfterTurn
  PROVE  ReplyInv'
<1>1. /\ pc = "drained" /\ pc' \in {"loop", "followup"}
      /\ UNCHANGED <<sent, done, current, waiting, timedOut, replies>>
  BY DEF AfterTurn, Submit, ThreadVars, inboxVars, peerVars
<1>2. \A i \in DOMAIN tasks' : tasks'[i].isTalk => IsTalk(tasks'[i].id)
  BY DrainedTalks
<1>3. ~InTurn'
  BY <1>1 DEF InTurn
<1>4. CASE current.isTalk /\ out' = Append(out, Event("peer_reply", current.id))
  <2>1. PICK e : e = Event("peer_reply", current.id)
    OBVIOUS
  <2>2. /\ IsReply(e) /\ e.of = current.id /\ ~Replied(e.of) /\ IsTalk(e.of) /\ e.of \in done
    BY <1>1, <1>4, <2>1 DEF Event, IsReply, ReplyInv, TurnInv, InTurn
  <2>3. e \in WorkerEvents
    <3>1. current.id \in Nat
      BY Bounds DEF Typed, Tasks
    <3> QED BY <2>1, <3>1 DEF Event, WorkerEvents, EventKinds
  <2>4. OutInv' /\ \A id : Replied(id)' <=> Replied(id) \/ (IsReply(e) /\ id = e.of)
    <3>1. out' = Append(out, e)
      BY <1>4, <2>1
    <3> QED BY <1>1, <2>2, <2>3, <3>1, EventPut DEF ReplyInv
  <2>5. \A id : IsTalk(id)' <=> IsTalk(id)
    BY <1>1 DEF IsTalk
  <2>6. TurnInv'
    BY <1>1, <1>2, <1>3, <2>2, <2>4, <2>5 DEF ReplyInv, TurnInv
  <2>7. CallerInv' /\ ReplyIsForItsTalk'
    BY <1>1, <2>5 DEF ReplyInv, CallerInv, ReplyIsForItsTalk
  <2> QED BY <2>4, <2>6, <2>7 DEF ReplyInv
<1>5. CASE out' = out \/ out' = Append(out, Event("completed", turns))
  <2>1. Event("completed", turns) \in WorkerEvents /\ ~IsReply(Event("completed", turns))
    BY DEF Event, WorkerEvents, EventKinds, IsReply, Typed
  <2> QED BY <1>1, <1>2, <1>3, <1>5, <2>1, RepliesRest
<1>6. \/ current.isTalk /\ out' = Append(out, Event("peer_reply", current.id))
      \/ out' = out \/ out' = Append(out, Event("completed", turns))
  BY DEF AfterTurn, Submit
<1> QED BY <1>4, <1>5, <1>6

LEMMA FollowupReplies ==
  ASSUME Typed, CommandsInv, ReplyInv, TakeFollowup
  PROVE  ReplyInv'
<1>0. PICK c : c = Head(inbox)
  OBVIOUS
<1>1. /\ inbox # <<>> /\ pc = "followup" /\ pc' \in {"exit", "loop", "followup"}
      /\ UNCHANGED <<sent, out, done, current, waiting, timedOut, replies>>
      /\ tasks' = tasks \/ tasks' = Append(tasks, Task(c.id, c.kind = "talk"))
  BY <1>0 DEF TakeFollowup, ThreadVars, inboxVars, peerVars
<1>2. c.id \in DOMAIN sent /\ c.kind = sent[c.id]
  BY <1>0, <1>1, AsSentTail DEF Typed, CommandsInv
<1>3. \A i \in DOMAIN tasks' : tasks'[i].isTalk => IsTalk(tasks'[i].id)
  <2>1. CASE tasks' = tasks
    BY <2>1 DEF ReplyInv, TurnInv
  <2>2. CASE tasks' = Append(tasks, Task(c.id, c.kind = "talk"))
    <3>1. \A i \in DOMAIN tasks' : \/ i \in DOMAIN tasks /\ tasks'[i] = tasks[i]
                                  \/ tasks'[i] = Task(c.id, c.kind = "talk")
      BY <2>2 DEF Typed
    <3>2. Task(c.id, c.kind = "talk").isTalk => IsTalk(Task(c.id, c.kind = "talk").id)
      BY <1>2 DEF Task, IsTalk
    <3> QED BY <3>1, <3>2 DEF ReplyInv, TurnInv
  <2> QED BY <1>1, <2>1, <2>2
<1>4. ~InTurn'
  BY <1>1 DEF InTurn
<1> QED BY <1>1, <1>3, <1>4, RepliesRest

LEMMA ReplyStep ==
  Typed /\ CommandsInv /\ PlacesInv /\ ReplyInv /\ [Next]_vars => ReplyInv'
<1> SUFFICES ASSUME Typed, CommandsInv, PlacesInv, ReplyInv, [Next]_vars
             PROVE  ReplyInv'
  OBVIOUS
<1>0. \A i \in DOMAIN tasks : tasks[i].isTalk => IsTalk(tasks[i].id)
  BY DEF ReplyInv, TurnInv
<1>1. CASE TalkTimesOut
  <2>1. /\ waiting # 0 /\ timedOut' = timedOut \union {waiting} /\ waiting' = 0
        /\ UNCHANGED <<pc, sent, out, done, current, tasks, replies>>
    BY <1>1 DEF TalkTimesOut, inboxVars
  <2>2. \A id : IsTalk(id)' <=> IsTalk(id)
    BY <2>1 DEF IsTalk
  <2>3. OutInv' /\ \A id : Replied(id)' <=> Replied(id)
    BY <2>1 DEF ReplyInv, OutInv, Replied, OnItsWay
  <2>4. TurnInv'
    BY <2>1, <2>2, <2>3 DEF ReplyInv, TurnInv, InTurn
  <2>5. CallerInv'
    BY <2>1, <2>2 DEF ReplyInv, CallerInv
  <2>6. ReplyIsForItsTalk'
    BY <2>1 DEF ReplyInv, ReplyIsForItsTalk
  <2> QED BY <2>3, <2>4, <2>5, <2>6 DEF ReplyInv
<1>2. CASE UNCHANGED <<sent, waiting, timedOut, replies, current, done, tasks, out>>
           /\ (InTurn' => InTurn)
  BY <1>0, <1>2, RepliesRest
<1>3. CASE HangUp \/ ReaderStep \/ UNCHANGED vars
  BY <1>2, <1>3 DEF HangUp, ReaderStep, ReadStdin, ReadEof, vars, inboxVars, peerVars, InTurn
<1>4. CASE FinishTurn \/ DrainEnds \/ DrainOne \/ LeaveAtEof
  BY <1>2, <1>4 DEF FinishTurn, DrainEnds, DrainOne, LeaveAtEof, ThreadVars, inboxVars, peerVars,
                    InTurn
<1>5. ASSUME NEW kind, NEW of \in Nat, kind \in EventKinds \ {"peer_reply"},
             out' = out \/ out' = Append(out, Event(kind, of)),
             UNCHANGED <<sent, waiting, timedOut, replies, current, done, tasks>>,
             InTurn' => InTurn
      PROVE  ReplyInv'
  <2>1. Event(kind, of) \in WorkerEvents /\ ~IsReply(Event(kind, of))
    BY <1>5 DEF Event, WorkerEvents, IsReply
  <2> QED BY <1>0, <1>5, <2>1, RepliesRest
<1>6. CASE SeeCancel \/ SeeCancelWhileAsking \/ TurnFails \/ TakeWhileAsking
  <2>1. \/ out' = out /\ pc = "ask" /\ pc' \in {"ask", "turn"}
        \/ /\ pc' = "exit"
           /\ out' = Append(out, Event("cancelled", 0)) \/ out' = Append(out, Event("failed", 0))
    BY <1>6 DEF SeeCancel, SeeCancelWhileAsking, TurnFails, TakeWhileAsking, Exit
  <2>2. UNCHANGED <<sent, waiting, timedOut, replies, current, done, tasks>>
    BY <1>6 DEF SeeCancel, SeeCancelWhileAsking, TurnFails, TakeWhileAsking, Exit, ThreadVars,
                inboxVars, peerVars
  <2>3. InTurn' => InTurn
    BY <2>1 DEF InTurn
  <2>4. CASE out' = out
    BY <1>5, <2>2, <2>3, <2>4 DEF EventKinds
  <2>5. CASE out' = Append(out, Event("cancelled", 0))
    <3>1. "cancelled" \in EventKinds \ {"peer_reply"} /\ 0 \in Nat
      BY DEF EventKinds
    <3> QED BY <1>5, <2>2, <2>3, <2>5, <3>1
  <2>6. CASE out' = Append(out, Event("failed", 0))
    <3>1. "failed" \in EventKinds \ {"peer_reply"} /\ 0 \in Nat
      BY DEF EventKinds
    <3> QED BY <1>5, <2>2, <2>3, <2>6, <3>1
  <2> QED BY <2>1, <2>4, <2>5, <2>6
<1>7. CASE SubmitPending
  <2>1. completion \in Nat
    BY DEF Typed
  <2> QED BY <1>5, <1>7, <2>1 DEF SubmitPending, Submit, ThreadVars, inboxVars, peerVars, InTurn,
                                  EventKinds
<1>8. CASE Ask
  <2>1. asked' \in Nat /\ out' = Append(out, Event("question", asked'))
    BY <1>8, Bounds DEF Ask, Typed
  <2> QED BY <1>5, <1>8, <2>1 DEF Ask, ThreadVars, inboxVars, peerVars, InTurn, EventKinds
<1> QED BY <1>1, <1>3, <1>4, <1>6, <1>7, <1>8, SendReplies, TakeReplies, StartReplies,
           AfterTurnReplies, FollowupReplies DEF Next, MainStep

\* Whoever talks to a worker gets the reply to that talk, for any number of talks and
\* turns and however late the replies come, until a talk has been given up.
THEOREM RepliesAreForTheirTalks == Spec => []ReplyIsForItsTalk
<1>1. Init => CommandsInv
  BY AsSentNone DEF Init, CommandsInv, Only
<1>2. Init => PlacesInv
  BY InitPlaces
<1>3. Init => ReplyInv
  <2> SUFFICES ASSUME Init PROVE ReplyInv
    OBVIOUS
  <2>1. OutInv /\ \A id : ~Replied(id)
    BY DEF Init, OutInv, Replied, OnItsWay
  <2>2. tasks = <<Contract>> /\ ~Contract.isTalk
    BY DEF Init, Contract, Task
  <2>3. \A i \in DOMAIN tasks : ~tasks[i].isTalk
    BY <2>2
  <2>4. TurnInv
    BY <2>1, <2>3 DEF Init, TurnInv, InTurn
  <2> QED BY <2>1, <2>4 DEF Init, ReplyInv, CallerInv, ReplyIsForItsTalk
<1>4. ReplyInv => ReplyIsForItsTalk
  BY DEF ReplyInv
<1> QED BY <1>1, <1>2, <1>3, <1>4, InitTyped, TypedStep, CommandsStep, PlacesStep, ReplyStep,
           PTL DEF Spec

---------------------------------------------------------------------------
(* The Codex session *)

\* What the thread has still to read, in order.
unread == buffer \o stdout

NoResult(s) == \A i \in DOMAIN s : s[i] # "result"
AtMostOneResult(s) == \A i, j \in DOMAIN s : s[i] = "result" /\ s[j] = "result" => i = j
OnlyText(s) == \A i \in DOMAIN s : s[i] = "text"
\* A turn that runs has been answered with a result, and only text follows it.
ResultThenText(s) ==
    \E k \in DOMAIN s : /\ s[k] = "result"
                        /\ \A i \in DOMAIN s : i < k => s[i] # "result"
                        /\ \A i \in DOMAIN s : i > k => s[i] = "text"

Endings == {"idle", "completed", "failed"}

CodexTyped ==
    /\ buffer \in Seq(Codex!Lines) /\ stdout \in Seq(Codex!Lines) /\ ending \in Seq(Endings)
    /\ place \in {"top", "get", "connect", "answer", "ended"} \union Codex!Requests
    /\ request \in Codex!Requests \union {"none"}
    /\ process \in {"none", "running", "exited"} /\ busy \in BOOLEAN

\* Each request the server was sent has at most one response that is still to be
\* read, and a turn the server works on has said nothing about its end.
UnreadInv ==
    /\ request # "none" => process = "running" /\ place \in {request, "ended"}
    /\ place \in {"top", "get", "connect", "answer"} => NoResult(unread)
    /\ place \in Codex!Requests => AtMostOneResult(unread)
    /\ place \in Codex!Requests /\ request # "none" => NoResult(unread)
    /\ busy => /\ process = "running" /\ request = "none" /\ ending = <<>>
               /\ place \in {"turn", "answer", "ended"}
               /\ place = "answer" => OnlyText(unread)
               /\ place = "turn" => ResultThenText(unread)

CodexInv == CodexTyped /\ UnreadInv

---------------------------------------------------------------------------
(* The pipe and the buffer are one stream *)

LEMMA UnreadType == CodexTyped => unread \in Seq(Codex!Lines)
BY DEF CodexTyped, unread

LEMMA ReadIsTail ==
  ASSUME CodexTyped, Codex!Readable, Codex!ReadLine
  PROVE  /\ unread # <<>> /\ Codex!Line = Head(unread) /\ unread' = Tail(unread)
         /\ buffer' \in Seq(Codex!Lines) /\ stdout' \in Seq(Codex!Lines)
<1>1. buffer \in Seq(Codex!Lines) /\ stdout \in Seq(Codex!Lines) /\ stdout # <<>>
  BY DEF CodexTyped, Codex!Readable
<1>2. CASE buffer = <<>>
  <2>1. buffer' = Tail(stdout) /\ stdout' = <<>> /\ Codex!Line = Head(stdout)
    BY <1>2 DEF Codex!ReadLine, Codex!Line
  <2>2. <<>> \o stdout = stdout /\ Tail(stdout) \o <<>> = Tail(stdout) /\ Tail(stdout) \in Seq(Codex!Lines)
    BY <1>1, ConcatEmptySeq
  <2> QED BY <1>1, <1>2, <2>1, <2>2 DEF unread
<1>3. CASE buffer # <<>>
  <2>1. buffer' = Tail(buffer) /\ stdout' = stdout /\ Codex!Line = Head(buffer)
    BY <1>3 DEF Codex!ReadLine, Codex!Line
  <2>2. /\ buffer \o stdout # <<>> /\ Head(buffer \o stdout) = Head(buffer)
        /\ Tail(buffer \o stdout) = Tail(buffer) \o stdout
    BY <1>1, <1>3
  <2>3. Tail(buffer) \in Seq(Codex!Lines)
    BY <1>1, <1>3
  <2> QED BY <1>1, <2>1, <2>2, <2>3 DEF unread
<1> QED BY <1>2, <1>3

LEMMA SayIsConcat ==
  ASSUME CodexTyped, NEW lines \in Seq(Codex!Lines), Codex!Say(lines), UNCHANGED buffer
  PROVE  unread' = unread \o lines /\ stdout' \in Seq(Codex!Lines)
<1>1. buffer \in Seq(Codex!Lines) /\ stdout \in Seq(Codex!Lines)
  BY DEF CodexTyped
<1>2. (buffer \o stdout) \o lines = buffer \o (stdout \o lines)
  BY <1>1, ConcatAssociative
<1> QED BY <1>1, <1>2 DEF Codex!Say, unread

\* What is left once a line has been read.
LEMMA TailFacts ==
  ASSUME NEW s \in Seq(Codex!Lines), s # <<>>
  PROVE  /\ NoResult(s) => NoResult(Tail(s)) /\ Head(s) # "result"
         /\ AtMostOneResult(s) => AtMostOneResult(Tail(s))
         /\ AtMostOneResult(s) /\ Head(s) = "result" => NoResult(Tail(s))
         /\ OnlyText(s) => OnlyText(Tail(s)) /\ Head(s) = "text"
         /\ ResultThenText(s) /\ Head(s) = "result" => OnlyText(Tail(s))
         /\ ResultThenText(s) /\ Head(s) # "result" => ResultThenText(Tail(s))
<1>1. Head(s) = s[1] /\ 1 \in DOMAIN s
  OBVIOUS
<1>2. \A i \in DOMAIN Tail(s) : i + 1 \in DOMAIN s /\ Tail(s)[i] = s[i + 1] /\ i + 1 > 1
  OBVIOUS
<1>3. \A i \in DOMAIN s : i # 1 => i - 1 \in DOMAIN Tail(s) /\ Tail(s)[i - 1] = s[i]
  OBVIOUS
<1>4. \A i, j \in DOMAIN Tail(s) : i + 1 = j + 1 => i = j
  OBVIOUS
<1>5. DOMAIN Tail(s) \subseteq Nat /\ DOMAIN s \subseteq Nat
  OBVIOUS
<1>6. NoResult(s) => NoResult(Tail(s)) /\ Head(s) # "result"
  BY <1>1, <1>2 DEF NoResult
<1>7. AtMostOneResult(s) => AtMostOneResult(Tail(s))
  BY <1>2, <1>4 DEF AtMostOneResult
<1>8. AtMostOneResult(s) /\ Head(s) = "result" => NoResult(Tail(s))
  BY <1>1, <1>2, <1>5 DEF AtMostOneResult, NoResult
<1>9. OnlyText(s) => OnlyText(Tail(s)) /\ Head(s) = "text"
  BY <1>1, <1>2 DEF OnlyText
<1>10. ResultThenText(s) /\ Head(s) = "result" => OnlyText(Tail(s))
  <2> SUFFICES ASSUME ResultThenText(s), Head(s) = "result", NEW i \in DOMAIN Tail(s)
               PROVE  Tail(s)[i] = "text"
    BY DEF OnlyText
  <2>1. PICK k \in DOMAIN s : /\ s[k] = "result"
                              /\ \A n \in DOMAIN s : n < k => s[n] # "result"
                              /\ \A n \in DOMAIN s : n > k => s[n] = "text"
    BY DEF ResultThenText
  <2>2. k = 1
    <3>1. k \in Nat /\ k >= 1
      OBVIOUS
    <3> QED BY <1>1, <2>1, <3>1
  <2> QED BY <1>2, <2>1, <2>2
<1>11. ResultThenText(s) /\ Head(s) # "result" => ResultThenText(Tail(s))
  <2> SUFFICES ASSUME ResultThenText(s), Head(s) # "result"
               PROVE  ResultThenText(Tail(s))
    OBVIOUS
  <2>1. PICK k \in DOMAIN s : /\ s[k] = "result"
                              /\ \A n \in DOMAIN s : n < k => s[n] # "result"
                              /\ \A n \in DOMAIN s : n > k => s[n] = "text"
    BY DEF ResultThenText
  <2>2. k - 1 \in DOMAIN Tail(s) /\ Tail(s)[k - 1] = "result"
    BY <1>1, <1>3, <2>1
  <2>3. \A i \in DOMAIN Tail(s) : (i < k - 1 => i + 1 < k) /\ (i > k - 1 => i + 1 > k)
    BY <1>5, <2>1
  <2> QED BY <1>2, <2>1, <2>2, <2>3 DEF ResultThenText
<1> QED BY <1>6, <1>7, <1>8, <1>9, <1>10, <1>11

\* What a line that the server says makes of it.
LEMMA SayFacts ==
  ASSUME NEW s \in Seq(Codex!Lines), NEW line \in Codex!Lines
  PROVE  /\ NoResult(s) /\ line # "result" => NoResult(s \o <<line>>)
         /\ AtMostOneResult(s) /\ line # "result" => AtMostOneResult(s \o <<line>>)
         /\ NoResult(s) => AtMostOneResult(s \o <<line>>)
         /\ OnlyText(s) /\ line = "text" => OnlyText(s \o <<line>>)
         /\ NoResult(s) /\ line = "result" => ResultThenText(s \o <<line>>)
         /\ ResultThenText(s) /\ line = "text" => ResultThenText(s \o <<line>>)
         /\ s \o <<line>> \in Seq(Codex!Lines)
<1> DEFINE r == s \o <<line>>
<1>1. \A i \in DOMAIN r : \/ i \in DOMAIN s /\ r[i] = s[i] /\ i < Len(r)
                          \/ i = Len(r) /\ r[i] = line
  OBVIOUS
<1>2. \A i \in DOMAIN s : i \in DOMAIN r /\ r[i] = s[i] /\ i < Len(r)
  OBVIOUS
<1>3. Len(r) \in DOMAIN r /\ r[Len(r)] = line /\ r \in Seq(Codex!Lines)
  OBVIOUS
<1>4. \A i \in DOMAIN r : i \in Nat /\ i <= Len(r) /\ Len(r) \in Nat
  OBVIOUS
<1> HIDE DEF r
<1>5. /\ NoResult(s) /\ line # "result" => NoResult(r)
      /\ AtMostOneResult(s) /\ line # "result" => AtMostOneResult(r)
      /\ NoResult(s) => AtMostOneResult(r)
      /\ OnlyText(s) /\ line = "text" => OnlyText(r)
  BY <1>1 DEF NoResult, AtMostOneResult, OnlyText
<1>6. NoResult(s) /\ line = "result" => ResultThenText(r)
  BY <1>1, <1>3, <1>4 DEF NoResult, ResultThenText
<1>7. ResultThenText(s) /\ line = "text" => ResultThenText(r)
  <2> SUFFICES ASSUME ResultThenText(s), line = "text"
               PROVE  ResultThenText(r)
    OBVIOUS
  <2>1. PICK k \in DOMAIN s : /\ s[k] = "result"
                              /\ \A n \in DOMAIN s : n < k => s[n] # "result"
                              /\ \A n \in DOMAIN s : n > k => s[n] = "text"
    BY DEF ResultThenText
  <2>2. k \in DOMAIN r /\ r[k] = "result" /\ k < Len(r) /\ k \in Nat
    BY <1>2, <1>4, <2>1
  <2> QED BY <1>1, <1>2, <2>1, <2>2 DEF ResultThenText
<1> QED BY <1>3, <1>5, <1>6, <1>7 DEF r

---------------------------------------------------------------------------
(* The invariant *)

LEMMA SameUnread == UNCHANGED <<buffer, stdout>> => unread' = unread
BY DEF unread

LEMMA CodexHandle ==
  ASSUME CodexInv, Codex!Send \/ Codex!Stop \/ Codex!Close
  PROVE  CodexInv'
<1>1. /\ UNCHANGED <<buffer, stdout, place>>
      /\ \/ UNCHANGED <<process, request, busy, ending>>
         \/ process' = "none" /\ request' = "none" /\ busy' = FALSE /\ ending' = <<>>
  BY DEF Codex!Send, Codex!Stop, Codex!Close, Codex!clientVars, Codex!serverVars
<1>2. unread' = unread
  BY <1>1, SameUnread
<1>3. <<>> \in Seq(Endings)
  OBVIOUS
<1>4. CodexTyped'
  BY <1>1, <1>3 DEF CodexInv, CodexTyped
<1>5. UnreadInv'
  BY <1>1, <1>2 DEF CodexInv, UnreadInv
<1> QED BY <1>4, <1>5 DEF CodexInv

\* Steps of the thread that read nothing.
LEMMA CodexThread ==
  ASSUME CodexInv, Codex!Top \/ Codex!Get \/ Codex!EnsureStarted \/ Codex!Disconnected \/ Codex!RequestTimesOut
  PROVE  CodexInv'
<1>1. CASE Codex!Top \/ Codex!Get \/ Codex!Disconnected \/ Codex!RequestTimesOut
  <2>1. /\ UNCHANGED <<buffer, stdout, process, request, busy, ending>>
        /\ \/ place \in {"top", "get"} /\ place' \in {"top", "get", "connect", "ended"}
           \/ place' = "ended"
    BY <1>1 DEF Codex!Top, Codex!Get, Codex!Disconnected, Codex!RequestTimesOut, Codex!Fail,
         Codex!serverVars
  <2>2. unread' = unread
    BY <2>1, SameUnread
  <2>3. CodexTyped'
    BY <2>1 DEF CodexInv, CodexTyped
  <2>4. UnreadInv'
    BY <2>1, <2>2 DEF CodexInv, CodexTyped, UnreadInv, Codex!Requests
  <2> QED BY <2>3, <2>4 DEF CodexInv
<1>2. CASE Codex!EnsureStarted /\ process = "running"
  <2>1. /\ place = "connect" /\ place' = "thread" /\ request' = "thread"
        /\ UNCHANGED <<buffer, stdout, process, busy, ending>>
    BY <1>2 DEF Codex!EnsureStarted, Codex!Await
  <2>2. unread' = unread
    BY <2>1, SameUnread
  <2>3. CodexTyped'
    BY <2>1 DEF CodexInv, CodexTyped, Codex!Requests
  <2>4. NoResult(unread) /\ ~busy /\ (NoResult(unread) => AtMostOneResult(unread))
    BY <2>1 DEF CodexInv, UnreadInv, NoResult, AtMostOneResult
  <2>5. UnreadInv'
    BY <1>2, <2>1, <2>2, <2>4 DEF CodexInv, UnreadInv
  <2> QED BY <2>3, <2>5 DEF CodexInv
<1>3. CASE Codex!EnsureStarted /\ process # "running"
  <2>1. /\ place' = "initialize" /\ request' = "initialize" /\ process' = "running"
        /\ stdout' = <<>> /\ buffer' = <<>> /\ busy' = FALSE /\ ending' = <<>>
    BY <1>3 DEF Codex!EnsureStarted, Codex!Await
  <2>2. <<>> \in Seq(Codex!Lines) /\ <<>> \in Seq(Endings) /\ <<>> \o <<>> = <<>>
    OBVIOUS
  <2>3. NoResult(unread') /\ AtMostOneResult(unread')
    <3>1. unread' = <<>>
      BY <2>1, <2>2 DEF unread
    <3> QED BY <3>1 DEF NoResult, AtMostOneResult
  <2>4. CodexTyped'
    BY <2>1, <2>2 DEF CodexTyped, Codex!Requests
  <2>5. UnreadInv'
    BY <2>1, <2>3 DEF UnreadInv
  <2> QED BY <2>4, <2>5 DEF CodexInv
<1> QED BY <1>1, <1>2, <1>3

LEMMA CodexRead ==
  ASSUME CodexInv, Codex!ReadResponse \/ Codex!ReadAnswer
  PROVE  CodexInv'
<1>1. /\ unread # <<>> /\ Codex!Line = Head(unread) /\ unread' = Tail(unread)
      /\ buffer' \in Seq(Codex!Lines) /\ stdout' \in Seq(Codex!Lines) /\ unread \in Seq(Codex!Lines)
  BY ReadIsTail, UnreadType DEF CodexInv, Codex!ReadResponse, Codex!ReadAnswer
<1>2. /\ NoResult(unread) => NoResult(unread') /\ Codex!Line # "result"
      /\ AtMostOneResult(unread) => AtMostOneResult(unread')
      /\ AtMostOneResult(unread) /\ Codex!Line = "result" => NoResult(unread')
      /\ OnlyText(unread) => OnlyText(unread') /\ Codex!Line = "text"
      /\ ResultThenText(unread) /\ Codex!Line = "result" => OnlyText(unread')
      /\ ResultThenText(unread) /\ Codex!Line # "result" => ResultThenText(unread')
      /\ NoResult(unread') => AtMostOneResult(unread')
  BY <1>1, TailFacts DEF NoResult, AtMostOneResult
<1>3. process = "running" /\ UNCHANGED <<process, busy, ending>>
  BY DEF Codex!ReadResponse, Codex!ReadAnswer, Codex!Readable, Codex!serverVars
<1>4. CASE Codex!ReadResponse
  <2>0. place \in Codex!Requests /\ AtMostOneResult(unread)
    BY <1>4 DEF Codex!ReadResponse, CodexInv, UnreadInv
  <2>1. \/ place' = "ended" /\ request' = request
        \/ place = "initialize" /\ Codex!Line = "result" /\ place' = "thread" /\ request' = "thread"
        \/ place = "thread" /\ Codex!Line = "result" /\ place' = "turn" /\ request' = "turn"
        \/ place = "turn" /\ Codex!Line = "result" /\ place' = "answer" /\ request' = request
        \/ Codex!Line # "result" /\ UNCHANGED <<place, request>>
    <3>1. Codex!Line = "error" => place' = "ended" /\ request' = request
      BY <1>4 DEF Codex!ReadResponse, Codex!Fail
    <3>2. Codex!Line = "result" /\ place = "initialize" => place' = "thread" /\ request' = "thread"
      BY <1>4 DEF Codex!ReadResponse, Codex!Await
    <3>3. Codex!Line = "result" /\ place = "thread" => place' = "turn" /\ request' = "turn"
      BY <1>4 DEF Codex!ReadResponse, Codex!Await
    <3>4. Codex!Line = "result" /\ place = "turn" => place' = "answer" /\ request' = request
      BY <1>4 DEF Codex!ReadResponse
    <3>5. Codex!Line \notin {"error", "result"} => UNCHANGED <<place, request>>
      BY <1>4 DEF Codex!ReadResponse
    <3> QED BY <2>0, <3>1, <3>2, <3>3, <3>4, <3>5 DEF Codex!Requests
  <2>2. Codex!Line = "result" => request = "none"
    BY <1>2, <2>0 DEF CodexInv, UnreadInv
  <2>3. CodexTyped'
    BY <1>1, <1>3, <2>0, <2>1 DEF CodexInv, CodexTyped, Codex!Requests
  <2>4. UnreadInv'
    <3>1. CASE place' = "ended" /\ request' = request
      BY <1>3, <3>1 DEF CodexInv, UnreadInv, Codex!Requests
    <3>2. CASE /\ place \in {"initialize", "thread"} /\ Codex!Line = "result"
               /\ place' \in {"thread", "turn"} /\ request' = place'
      BY <1>2, <1>3, <2>0, <3>2 DEF CodexInv, UnreadInv, Codex!Requests
    <3>3. CASE place = "turn" /\ Codex!Line = "result" /\ place' = "answer" /\ request' = request
      BY <1>2, <1>3, <2>0, <2>2, <3>3 DEF CodexInv, UnreadInv, Codex!Requests
    <3>4. CASE Codex!Line # "result" /\ UNCHANGED <<place, request>>
      BY <1>2, <1>3, <2>0, <3>4 DEF CodexInv, UnreadInv, Codex!Requests
    <3> QED BY <2>1, <3>1, <3>2, <3>3, <3>4
  <2> QED BY <2>3, <2>4 DEF CodexInv
<1>5. CASE Codex!ReadAnswer
  <2>1. place = "answer" /\ request' = request
    BY <1>5 DEF Codex!ReadAnswer, Codex!serverVars
  <2>2. \/ place' = "ended"
        \/ place' = "top" /\ Codex!Line \in {"completed", "idle"}
        \/ place' = "answer"
    BY <1>5 DEF Codex!ReadAnswer, Codex!Fail, Codex!EndsAnswer
  <2>3. CodexTyped'
    BY <1>1, <1>3, <2>1, <2>2 DEF CodexInv, CodexTyped
  <2>4. NoResult(unread') /\ request = "none"
    BY <1>2, <2>1 DEF CodexInv, UnreadInv, CodexTyped, Codex!Requests
  <2>5. busy => OnlyText(unread') /\ place' # "top"
    BY <1>2, <2>1, <2>2 DEF CodexInv, UnreadInv
  <2>6. UnreadInv'
    BY <1>3, <2>1, <2>2, <2>4, <2>5 DEF CodexInv, UnreadInv, Codex!Requests
  <2> QED BY <2>3, <2>6 DEF CodexInv
<1> QED BY <1>4, <1>5

LEMMA CodexServer ==
  ASSUME CodexInv, Codex!Respond \/ Codex!Speak \/ Codex!FinishTurn \/ Codex!Announce \/ Codex!Exit
  PROVE  CodexInv'
<1>0. unread \in Seq(Codex!Lines) /\ UNCHANGED <<place, buffer>>
  BY UnreadType DEF CodexInv, Codex!Respond, Codex!Speak, Codex!FinishTurn, Codex!Announce,
       Codex!Exit, Codex!clientVars
<1>1. CASE Codex!Respond
  <2>1. /\ process = "running" /\ request \in Codex!Requests /\ ~busy /\ ending = <<>>
        /\ UNCHANGED <<process, ending>> /\ request' = "none" /\ place \in {request, "ended"}
    BY <1>1 DEF Codex!Respond, CodexInv, CodexTyped, UnreadInv
  <2>2. place # "ended" => NoResult(unread)
    BY <2>1 DEF CodexInv, UnreadInv, Codex!Requests
  <2>3. \/ /\ unread' = unread \o <<"result">> /\ busy' = (request = "turn")
        \/ /\ unread' = (unread \o <<"result">>) \o <<"idle">> /\ busy' = (request = "turn")
           /\ request = "thread"
        \/ /\ unread' = unread \o <<"error">> /\ busy' = busy
    <3>1. PICK idle \in {<<>>, <<"idle">>} :
            \/ /\ idle # <<>> => request = "thread"
               /\ Codex!Say(<<"result">> \o idle) /\ busy' = (request = "turn")
            \/ idle = <<>> /\ Codex!Say(<<"error">>) /\ UNCHANGED busy
      BY <1>1 DEF Codex!Respond
    <3>2. /\ <<"result">> \in Seq(Codex!Lines) /\ <<"error">> \in Seq(Codex!Lines) /\ <<"idle">> \in Seq(Codex!Lines)
          /\ <<"result">> \o <<"idle">> \in Seq(Codex!Lines) /\ <<"result">> \o <<>> = <<"result">>
          /\ <<"idle">> # <<>>
      BY DEF Codex!Lines
    <3>3. \A lines \in Seq(Codex!Lines) : Codex!Say(lines) => unread' = unread \o lines
      BY <1>0, SayIsConcat DEF CodexInv
    <3>4. unread \o (<<"result">> \o <<"idle">>) = (unread \o <<"result">>) \o <<"idle">>
      BY <1>0, <3>2, ConcatAssociative
    <3> QED BY <3>1, <3>2, <3>3, <3>4
  <2>4. /\ unread \o <<"result">> \in Seq(Codex!Lines)
        /\ NoResult(unread) => /\ AtMostOneResult(unread \o <<"result">>)
                               /\ ResultThenText(unread \o <<"result">>)
                               /\ AtMostOneResult(unread \o <<"error">>)
    BY <1>0, SayFacts DEF Codex!Lines
  <2>5. AtMostOneResult(unread \o <<"result">>)
          => AtMostOneResult((unread \o <<"result">>) \o <<"idle">>)
    BY <2>4, SayFacts DEF Codex!Lines
  <2>6. CodexTyped'
    <3>1. stdout' \in Seq(Codex!Lines)
      <4>1. PICK lines \in Seq(Codex!Lines) : Codex!Say(lines)
        <5>1. /\ <<"result">> \o <<>> \in Seq(Codex!Lines) /\ <<"error">> \in Seq(Codex!Lines)
              /\ <<"result">> \o <<"idle">> \in Seq(Codex!Lines)
          BY DEF Codex!Lines
        <5> QED BY <1>1, <5>1 DEF Codex!Respond
      <4> QED BY <1>0, <4>1, SayIsConcat DEF CodexInv
    <3>2. busy' \in BOOLEAN
      BY <2>3 DEF CodexInv, CodexTyped
    <3> QED BY <1>0, <2>1, <3>1, <3>2 DEF CodexInv, CodexTyped
  <2>7. place # "ended" => AtMostOneResult(unread')
    BY <2>2, <2>3, <2>4, <2>5
  <2>8. busy' => request = "turn" /\ (place # "ended" => ResultThenText(unread'))
    BY <2>1, <2>2, <2>3, <2>4
  <2>9. UnreadInv'
    BY <1>0, <2>1, <2>7, <2>8 DEF UnreadInv, Codex!Requests
  <2> QED BY <2>6, <2>9 DEF CodexInv
<1>2. CASE Codex!Speak
  <2>1. /\ process = "running" /\ busy /\ Codex!Say(<<"text">>)
        /\ UNCHANGED <<process, request, busy, ending>>
    BY <1>2 DEF Codex!Speak
  <2>2. <<"text">> \in Seq(Codex!Lines) /\ "text" \in Codex!Lines
    BY DEF Codex!Lines
  <2>3. unread' = unread \o <<"text">> /\ stdout' \in Seq(Codex!Lines)
    BY <1>0, <2>1, <2>2, SayIsConcat DEF CodexInv
  <2>4. /\ NoResult(unread) => NoResult(unread') /\ AtMostOneResult(unread')
        /\ AtMostOneResult(unread) => AtMostOneResult(unread')
        /\ OnlyText(unread) => OnlyText(unread')
        /\ ResultThenText(unread) => ResultThenText(unread')
    BY <1>0, <2>2, <2>3, SayFacts
  <2>5. CodexTyped'
    BY <1>0, <2>1, <2>3 DEF CodexInv, CodexTyped
  <2>6. UnreadInv'
    BY <1>0, <2>1, <2>4 DEF CodexInv, UnreadInv
  <2> QED BY <2>5, <2>6 DEF CodexInv
<1>3. CASE Codex!Announce
  <2>1. /\ ending # <<>> /\ Codex!Say(<<Head(ending)>>) /\ ending' = Tail(ending)
        /\ UNCHANGED <<process, request, busy>>
    BY <1>3 DEF Codex!Announce
  <2>2. /\ Head(ending) \in Endings /\ Tail(ending) \in Seq(Endings) /\ ~busy
    BY <2>1 DEF CodexInv, CodexTyped, UnreadInv
  <2>3. Head(ending) \in Codex!Lines /\ Head(ending) # "result"
    BY <2>2 DEF Endings, Codex!Lines
  <2>4. <<Head(ending)>> \in Seq(Codex!Lines)
    BY <2>3
  <2>5. unread' = unread \o <<Head(ending)>> /\ stdout' \in Seq(Codex!Lines)
    BY <1>0, <2>1, <2>4, SayIsConcat DEF CodexInv
  <2>6. /\ NoResult(unread) => NoResult(unread')
        /\ AtMostOneResult(unread) => AtMostOneResult(unread')
    BY <1>0, <2>3, <2>5, SayFacts
  <2>7. CodexTyped'
    BY <1>0, <2>1, <2>2, <2>5 DEF CodexInv, CodexTyped
  <2>8. UnreadInv'
    BY <1>0, <2>1, <2>2, <2>6 DEF CodexInv, UnreadInv
  <2> QED BY <2>7, <2>8 DEF CodexInv
<1>4. CASE Codex!FinishTurn \/ Codex!Exit
  <2>1. /\ UNCHANGED stdout /\ busy' = FALSE
        /\ \/ UNCHANGED <<process, request>>
           \/ process' = "exited" /\ request' = "none"
        /\ ending' \in {<<>>, <<"idle", "completed">>, <<"completed", "idle">>, <<"failed">>}
    BY <1>4 DEF Codex!FinishTurn, Codex!Exit
  <2>2. ending' \in Seq(Endings)
    <3>1. /\ <<"idle", "completed">> \in Seq(Endings) /\ <<"completed", "idle">> \in Seq(Endings)
          /\ <<"failed">> \in Seq(Endings) /\ <<>> \in Seq(Endings)
      BY DEF Endings
    <3> QED BY <2>1, <3>1
  <2>3. unread' = unread
    BY <1>0, <2>1, SameUnread
  <2>4. CodexTyped'
    BY <1>0, <2>1, <2>2 DEF CodexInv, CodexTyped
  <2>5. request = "none" => request' = "none"
    BY <2>1
  <2>6. UnreadInv'
    BY <1>0, <2>1, <2>3 DEF CodexInv, UnreadInv
  <2> QED BY <2>4, <2>6 DEF CodexInv
<1> QED BY <1>1, <1>2, <1>3, <1>4

LEMMA CodexStep == CodexInv /\ Codex!Next => CodexInv'
BY CodexHandle, CodexThread, CodexRead, CodexServer DEF Codex!Next, Codex!Thread

LEMMA CodexStays == CodexInv /\ UNCHANGED codexVars => CodexInv'
<1> SUFFICES ASSUME CodexInv, UNCHANGED codexVars PROVE CodexInv'
  OBVIOUS
<1>1. UNCHANGED <<buffer, stdout, place, process, request, busy, ending>>
  BY DEF codexVars
<1>2. unread' = unread
  BY <1>1, SameUnread
<1> QED BY <1>1, <1>2 DEF CodexInv, CodexTyped, UnreadInv

LEMMA CodexInit == Codex!Init => CodexInv
<1> SUFFICES ASSUME Codex!Init PROVE CodexInv
  OBVIOUS
<1>1. <<>> \in Seq(Codex!Lines) /\ <<>> \in Seq(Endings) /\ <<>> \o <<>> = <<>>
  OBVIOUS
<1>2. NoResult(unread)
  BY <1>1 DEF Codex!Init, unread, NoResult
<1> QED BY <1>1, <1>2 DEF Codex!Init, CodexInv, CodexTyped, UnreadInv, Codex!Requests

\* What a thread that takes the next message relies on, and what the lines it has
\* still to read may be.
THEOREM StreamInvariant == MCSpec => []CodexInv
<1>1. MCInit => CodexInv
  BY CodexInit DEF MCInit
<1>2. CodexInv /\ [MCNext]_<<handle, vars, codexVars, modelVars>> => CodexInv'
  BY CodexStep, CodexStays DEF MCNext
<1> QED BY <1>1, <1>2, PTL DEF MCSpec

\* The thread goes on to the next message, or reports an answer, only when the
\* server does not work on a turn any more.
THEOREM NextMessageAfterTheTurn == MCSpec => []AnswerMeansTheTurnIsOver
<1>1. CodexInv => AnswerMeansTheTurnIsOver
  BY DEF CodexInv, UnreadInv, Codex!AnswerMeansTheTurnIsOver, AnswerMeansTheTurnIsOver
<1> QED BY <1>1, StreamInvariant, PTL

---------------------------------------------------------------------------
(* Calls of the model *)

Pieces == Nat \X Nat
Grown == {"none", "nameless", "empty", "cut", "object", "list"}
Responses == [text : Seq(Pieces), call : Grown]
Said == [kind : {"text"}, piece : Pieces]
Events ==
    Said \union [kind : {"call"}, call : Grown]
         \union [kind : {"end", "response", "length", "overloaded", "refused"}]

ModelTyped ==
    /\ number \in Nat /\ tries \in Nat /\ over \in BOOLEAN
    /\ said \in Responses /\ heard \in Responses /\ deltas \in Seq(Pieces)
    /\ stream \in Seq(Events)
    /\ phase \in {"send", "stream", "complete", "done", "failed"}

\* The n-th piece of the response to the last request.
Numbered(s, r) == \A n \in DOMAIN s : s[n] = <<r, n>>

\* The pieces from h + 1 to m are in the queue, in order, and nothing follows a last word.
Carries(q, r, h, m) ==
    /\ \A i \in DOMAIN q : q[i].kind = "text" => \E n \in (h + 1)..m : q[i].piece = <<r, n>>
    /\ \A n \in (h + 1)..m : \E i \in DOMAIN q : q[i].kind = "text" /\ q[i].piece = <<r, n>>
    /\ \A i, j \in DOMAIN q : /\ i < j /\ q[i].kind = "text" /\ q[j].kind = "text"
                              => q[i].piece[2] < q[j].piece[2]
LastWord(q) == \A i \in DOMAIN q : q[i].kind \notin {"text", "call"} => i = Len(q)
Open(q) == \A i \in DOMAIN q : q[i].kind \in {"text", "call"}

StreamInv ==
    /\ Numbered(said.text, number) /\ Numbered(heard.text, number)
    /\ phase = "stream" =>
         /\ Len(heard.text) <= Len(said.text)
         /\ Carries(stream, number, Len(heard.text), Len(said.text))
         /\ LastWord(stream) /\ (~over => Open(stream))
         /\ \A i \in DOMAIN stream : stream[i].kind \notin {"response", "length"}
    /\ phase = "complete" =>
         /\ heard = Model!Nothing
         /\ \A i \in DOMAIN stream : stream[i].kind \notin {"text", "call", "end"}

DeltasInv ==
    /\ tries = 0 => deltas = <<>>
    /\ tries = 1 => deltas = heard.text
    /\ phase \in {"stream", "complete"} => tries # 0
    /\ phase = "complete" /\ Streaming => tries # 1

ModelInv == ModelTyped /\ StreamInv /\ DeltasInv /\ AnswerIsOneResponse

LEMMA CarriesFirst ==
  ASSUME NEW q \in Seq(Events), q # <<>>, NEW r \in Nat, NEW h \in Nat, NEW m \in Nat,
         Carries(q, r, h, m)
  PROVE  /\ Head(q).kind = "text" => /\ Head(q).piece = <<r, h + 1>> /\ h + 1 <= m
                                     /\ Carries(Tail(q), r, h + 1, m)
         /\ Head(q).kind # "text" => Carries(Tail(q), r, h, m)
<1>1. /\ Tail(q) \in Seq(Events) /\ Head(q) = q[1] /\ 1 \in DOMAIN q
      /\ DOMAIN q = 1..Len(q) /\ Len(q) \in Nat /\ DOMAIN Tail(q) = 1..(Len(q) - 1)
      /\ \A i \in DOMAIN Tail(q) : i + 1 \in DOMAIN q /\ Tail(q)[i] = q[i + 1]
  <2>1. Len(q) \in Nat \ {0} /\ DOMAIN q = 1..Len(q) /\ Head(q) = q[1]
    BY EmptySeq
  <2>2. /\ Tail(q) \in Seq(Events) /\ Len(Tail(q)) = Len(q) - 1
        /\ \A i \in 1..Len(Tail(q)) : Tail(q)[i] = q[i + 1]
    BY HeadTailProperties
  <2> QED BY <2>1, <2>2
<1>2. \A i \in DOMAIN q : i # 1 => i - 1 \in DOMAIN Tail(q) /\ Tail(q)[i - 1] = q[i]
  BY <1>1
<1>3. ASSUME q[1].kind = "text" PROVE q[1].piece = <<r, h + 1>> /\ h + 1 <= m
  <2>1. PICK n \in (h + 1)..m : q[1].piece = <<r, n>>
    BY <1>1, <1>3 DEF Carries
  <2>2. PICK i \in DOMAIN q : q[i].kind = "text" /\ q[i].piece = <<r, h + 1>>
    BY <2>1 DEF Carries
  <2>3. i # 1 => n < h + 1
    BY <1>1, <1>3, <2>1, <2>2 DEF Carries
  <2> QED BY <1>1, <2>1, <2>2, <2>3
<1>6. ASSUME NEW i \in DOMAIN Tail(q), NEW j \in DOMAIN Tail(q), i < j,
             Tail(q)[i].kind = "text", Tail(q)[j].kind = "text"
      PROVE  Tail(q)[i].piece[2] < Tail(q)[j].piece[2]
  <2>1. /\ i + 1 \in DOMAIN q /\ j + 1 \in DOMAIN q /\ i + 1 < j + 1
        /\ q[i + 1].kind = "text" /\ q[j + 1].kind = "text"
    BY <1>1, <1>6
  <2>2. q[i + 1].piece[2] < q[j + 1].piece[2]
    BY <2>1 DEF Carries
  <2> QED BY <1>1, <2>2
<1>4. ASSUME q[1].kind = "text" PROVE Carries(Tail(q), r, h + 1, m)
  <2>1. ASSUME NEW i \in DOMAIN Tail(q), Tail(q)[i].kind = "text"
        PROVE  \E n \in (h + 2)..m : Tail(q)[i].piece = <<r, n>>
    <3>1. PICK n \in (h + 1)..m : q[i + 1].piece = <<r, n>>
      BY <1>1, <2>1 DEF Carries
    <3>2. q[1].piece[2] < q[i + 1].piece[2]
      BY <1>1, <1>4, <2>1 DEF Carries
    <3>3. n # h + 1
      BY <1>3, <1>4, <3>1, <3>2
    <3> QED BY <1>1, <2>1, <3>1, <3>3
  <2>2. ASSUME NEW n \in (h + 2)..m
        PROVE  \E i \in DOMAIN Tail(q) : Tail(q)[i].kind = "text" /\ Tail(q)[i].piece = <<r, n>>
    <3>1. PICK i \in DOMAIN q : q[i].kind = "text" /\ q[i].piece = <<r, n>>
      BY <2>2 DEF Carries
    <3>2. i # 1
      BY <1>3, <1>4, <2>2, <3>1
    <3> QED BY <1>2, <3>1, <3>2
  <2>3. h + 1 + 1 = h + 2
    OBVIOUS
  <2>4. ASSUME NEW i \in DOMAIN Tail(q), NEW j \in DOMAIN Tail(q), i < j,
               Tail(q)[i].kind = "text", Tail(q)[j].kind = "text"
        PROVE  Tail(q)[i].piece[2] < Tail(q)[j].piece[2]
    BY <1>6, <2>4
  <2> QED BY <2>1, <2>2, <2>3, <2>4 DEF Carries
<1>5. ASSUME q[1].kind # "text" PROVE Carries(Tail(q), r, h, m)
  <2>1. ASSUME NEW i \in DOMAIN Tail(q), Tail(q)[i].kind = "text"
        PROVE  \E n \in (h + 1)..m : Tail(q)[i].piece = <<r, n>>
    BY <1>1, <2>1 DEF Carries
  <2>2. ASSUME NEW n \in (h + 1)..m
        PROVE  \E i \in DOMAIN Tail(q) : Tail(q)[i].kind = "text" /\ Tail(q)[i].piece = <<r, n>>
    <3>1. PICK i \in DOMAIN q : q[i].kind = "text" /\ q[i].piece = <<r, n>>
      BY <2>2 DEF Carries
    <3>2. i # 1
      BY <1>5, <3>1
    <3> QED BY <1>2, <3>1, <3>2
  <2> QED BY <1>6, <2>1, <2>2 DEF Carries
<1> QED BY <1>1, <1>3, <1>4, <1>5

LEMMA LastWordFirst ==
  ASSUME NEW q \in Seq(Events), q # <<>>, LastWord(q)
  PROVE  /\ Tail(q) \in Seq(Events) /\ LastWord(Tail(q)) /\ (Open(q) => Open(Tail(q)))
         /\ \A i \in DOMAIN Tail(q) : \E j \in DOMAIN q : Tail(q)[i] = q[j]
         /\ Head(q).kind \notin {"text", "call"} => DOMAIN q = {1} /\ Head(q) = q[1]
         /\ Head(q) \in Events /\ \E j \in DOMAIN q : Head(q) = q[j]
<1>1. Len(q) \in Nat \ {0} /\ DOMAIN q = 1..Len(q) /\ Head(q) = q[1] /\ 1 \in DOMAIN q
  BY EmptySeq
<1>2. /\ Tail(q) \in Seq(Events) /\ Len(Tail(q)) = Len(q) - 1
      /\ \A i \in 1..Len(Tail(q)) : Tail(q)[i] = q[i + 1]
  BY HeadTailProperties
<1>3. \A i \in DOMAIN Tail(q) : i + 1 \in DOMAIN q /\ Tail(q)[i] = q[i + 1] /\ i \in Nat
  BY <1>1, <1>2
<1>4. LastWord(Tail(q)) /\ (Open(q) => Open(Tail(q)))
  BY <1>1, <1>2, <1>3 DEF LastWord, Open
<1>5. Head(q).kind \notin {"text", "call"} => Len(q) = 1
  BY <1>1 DEF LastWord
<1> QED BY <1>1, <1>2, <1>3, <1>4, <1>5

LEMMA PutOne ==
  ASSUME NEW q \in Seq(Events), NEW e \in Events
  PROVE  /\ q \o <<e>> \in Seq(Events) /\ Len(q) \in Nat /\ DOMAIN q = 1..Len(q)
         /\ Len(q \o <<e>>) = Len(q) + 1 /\ DOMAIN (q \o <<e>>) = 1..(Len(q) + 1)
         /\ (q \o <<e>>)[Len(q) + 1] = e
         /\ \A i \in DOMAIN q : i \in DOMAIN (q \o <<e>>) /\ (q \o <<e>>)[i] = q[i]
<1>1. <<e>> \in Seq(Events) /\ Len(<<e>>) = 1 /\ <<e>>[1] = e
  OBVIOUS
<1> QED BY <1>1, ConcatProperties

\* A piece more is said, and put into the queue.
LEMMA CarriesMore ==
  ASSUME NEW q \in Seq(Events), NEW r \in Nat, NEW h \in Nat, NEW m \in Nat, h <= m,
         NEW e \in Events, Carries(q, r, h, m)
  PROVE  /\ e.kind = "text" /\ e.piece = <<r, m + 1>> => Carries(q \o <<e>>, r, h, m + 1)
         /\ e.kind # "text" => Carries(q \o <<e>>, r, h, m)
<1>1. PICK all \in Seq(Events) : all = q \o <<e>>
  BY PutOne
<1>2. /\ Len(q) \in Nat /\ DOMAIN q = 1..Len(q) /\ DOMAIN all = 1..(Len(q) + 1)
      /\ all[Len(q) + 1] = e /\ \A i \in DOMAIN q : i \in DOMAIN all /\ all[i] = q[i]
  BY <1>1, PutOne
<1>3. \A i \in DOMAIN all : \/ i \in DOMAIN q /\ all[i] = q[i]
                            \/ i = Len(q) + 1 /\ all[i] = e
  BY <1>2
<1>4. ASSUME e.kind = "text", e.piece = <<r, m + 1>> PROVE Carries(all, r, h, m + 1)
  <2>1. ASSUME NEW i \in DOMAIN all, all[i].kind = "text"
        PROVE  \E n \in (h + 1)..(m + 1) : all[i].piece = <<r, n>>
    BY <1>3, <1>4, <2>1 DEF Carries
  <2>2. ASSUME NEW n \in (h + 1)..(m + 1)
        PROVE  \E i \in DOMAIN all : all[i].kind = "text" /\ all[i].piece = <<r, n>>
    <3>1. CASE n = m + 1
      BY <1>2, <1>4, <3>1
    <3>2. CASE n # m + 1
      BY <1>2, <2>2, <3>2 DEF Carries
    <3> QED BY <3>1, <3>2
  <2>3. ASSUME NEW i \in DOMAIN all, NEW j \in DOMAIN all,
               i < j, all[i].kind = "text", all[j].kind = "text"
        PROVE  all[i].piece[2] < all[j].piece[2]
    <3>1. i \in DOMAIN q /\ all[i] = q[i]
      BY <1>2, <2>3
    <3>2. PICK n \in (h + 1)..m : q[i].piece = <<r, n>>
      BY <2>3, <3>1 DEF Carries
    <3>3. CASE j = Len(q) + 1
      BY <1>2, <1>4, <3>1, <3>2, <3>3
    <3>4. CASE j # Len(q) + 1
      BY <1>2, <1>3, <2>3, <3>1, <3>4 DEF Carries
    <3> QED BY <3>3, <3>4
  <2> QED BY <2>1, <2>2, <2>3 DEF Carries
<1>5. ASSUME e.kind # "text" PROVE Carries(all, r, h, m)
  BY <1>2, <1>3, <1>5 DEF Carries
<1> QED BY <1>1, <1>4, <1>5

LEMMA Texts ==
  ASSUME NEW s \in Seq(Pieces), NEW r \in Nat, Numbered(s, r)
  PROVE  /\ Append(s, <<r, Len(s) + 1>>) \in Seq(Pieces)
         /\ Len(Append(s, <<r, Len(s) + 1>>)) = Len(s) + 1 /\ Len(s) \in Nat
         /\ Numbered(Append(s, <<r, Len(s) + 1>>), r)
         /\ Append(s, <<r, Len(s) + 1>>)[Len(s) + 1] = <<r, Len(s) + 1>>
         /\ \A t \in Seq(Pieces) : Numbered(t, r) /\ Len(t) = Len(s) => t = s
<1>1. /\ Len(s) \in Nat /\ <<r, Len(s) + 1>> \in Pieces
  BY DEF Pieces
<1>2. PICK p \in Pieces : p = <<r, Len(s) + 1>>
  BY <1>1
<1>3. /\ Append(s, p) \in Seq(Pieces) /\ Len(Append(s, p)) = Len(s) + 1
      /\ \A i \in 1..Len(s) : Append(s, p)[i] = s[i]
      /\ Append(s, p)[Len(s) + 1] = p
  BY AppendProperties
<1>4. Numbered(Append(s, p), r)
  BY <1>1, <1>2, <1>3 DEF Numbered
<1>5. ASSUME NEW t \in Seq(Pieces), Numbered(t, r), Len(t) = Len(s) PROVE t = s
  <2>0. DOMAIN s = 1..Len(s) /\ DOMAIN t = 1..Len(t)
    BY LenProperties
  <2>1. \A i \in 1..Len(s) : s[i] = t[i]
    BY <1>5, <2>0, Zenon DEF Numbered
  <2> QED BY <1>5, <2>1, SeqEqual
<1> QED BY <1>1, <1>2, <1>3, <1>4, <1>5

\* The provider's side of a step.
LEMMA Talks ==
  ASSUME ModelInv, Model!LoopRests, Model!ProviderActs,
         said' \in Responses, Numbered(said'.text, number), over' \in BOOLEAN,
         \/ UNCHANGED stream /\ phase = "complete"
         \/ \E e \in Events :
              /\ stream' = stream \o <<e>>
              /\ phase = "complete" => e.kind \notin {"text", "call", "end"}
              /\ phase = "stream" =>
                   /\ e.kind \notin {"response", "length"}
                   /\ e.kind \notin {"text", "call"} => over'
                   /\ \/ /\ e.kind = "text" /\ e.piece = <<number, Len(said.text) + 1>>
                         /\ Len(said'.text) = Len(said.text) + 1
                      \/ e.kind # "text" /\ said'.text = said.text
  PROVE  ModelInv'
<1>1. /\ UNCHANGED <<phase, number, heard, deltas, tries, final, returned>>
      /\ phase \in {"stream", "complete"} /\ ~over
  BY DEF Model!LoopRests, Model!ProviderActs, Model!resultVars
<1>2. CASE UNCHANGED stream /\ phase = "complete"
  BY <1>1, <1>2 DEF ModelInv, ModelTyped, StreamInv, DeltasInv, AnswerIsOneResponse,
                    Model!AnswerIsOneResponse
<1>3. CASE stream' # stream \/ phase = "stream"
  <2>1. PICK e \in Events :
          /\ stream' = stream \o <<e>>
          /\ phase = "complete" => e.kind \notin {"text", "call", "end"}
          /\ phase = "stream" =>
               /\ e.kind \notin {"response", "length"}
               /\ e.kind \notin {"text", "call"} => over'
               /\ \/ /\ e.kind = "text" /\ e.piece = <<number, Len(said.text) + 1>>
                     /\ Len(said'.text) = Len(said.text) + 1
                  \/ e.kind # "text" /\ said'.text = said.text
    BY <1>1, <1>3
  <2>2. stream \in Seq(Events) /\ number \in Nat
    BY DEF ModelInv, ModelTyped
  <2>3. /\ stream' \in Seq(Events) /\ Len(stream) \in Nat /\ DOMAIN stream = 1..Len(stream)
        /\ Len(stream') = Len(stream) + 1 /\ DOMAIN stream' = 1..(Len(stream) + 1)
        /\ stream'[Len(stream) + 1] = e
        /\ \A i \in DOMAIN stream : stream'[i] = stream[i]
    BY <2>1, <2>2, PutOne
  <2>4. \A i \in DOMAIN stream' : \/ i \in DOMAIN stream /\ stream'[i] = stream[i]
                                  \/ i = Len(stream) + 1 /\ stream'[i] = e
    BY <2>3
  <2>5. ModelTyped' /\ DeltasInv' /\ AnswerIsOneResponse'
    BY <1>1, <2>3 DEF ModelInv, ModelTyped, DeltasInv, AnswerIsOneResponse,
                      Model!AnswerIsOneResponse
  <2>6. Numbered(said.text, number)' /\ Numbered(heard.text, number)'
    BY <1>1 DEF ModelInv, StreamInv, Numbered
  <2>7. CASE phase = "complete"
    BY <1>1, <2>1, <2>4, <2>5, <2>6, <2>7 DEF ModelInv, StreamInv
  <2>8. CASE phase = "stream"
    <3>1. /\ Len(heard.text) \in Nat /\ Len(said.text) \in Nat
          /\ Len(heard.text) <= Len(said.text)
          /\ Carries(stream, number, Len(heard.text), Len(said.text)) /\ Open(stream)
      BY <1>1, <2>8 DEF ModelInv, ModelTyped, Responses, StreamInv
    <3>2. /\ Carries(stream', number, Len(heard.text), Len(said'.text))
          /\ Len(heard.text) <= Len(said'.text)
      <4>1. PICK h \in Nat, m \in Nat : h = Len(heard.text) /\ m = Len(said.text)
        BY <3>1
      <4>2. h <= m /\ Carries(stream, number, h, m)
        BY <3>1, <4>1
      <4>3. CASE e.kind = "text"
        <5>1. e.piece = <<number, m + 1>> /\ Len(said'.text) = m + 1
          BY <2>1, <2>8, <4>1, <4>3
        <5>2. Carries(stream', number, h, m + 1)
          BY <2>1, <2>2, <4>2, <4>3, <5>1, CarriesMore
        <5> QED BY <4>1, <4>2, <5>1, <5>2
      <4>4. CASE e.kind # "text"
        <5>1. said'.text = said.text
          BY <2>1, <2>8, <4>4
        <5>2. Carries(stream', number, h, m)
          BY <2>1, <2>2, <4>2, <4>4, CarriesMore
        <5> QED BY <4>1, <4>2, <5>1, <5>2
      <4> QED BY <4>3, <4>4
    <3>3. LastWord(stream') /\ (~over' => Open(stream'))
      BY <2>1, <2>3, <2>4, <2>8, <3>1 DEF LastWord, Open
    <3>4. \A i \in DOMAIN stream' : stream'[i].kind \notin {"response", "length"}
      BY <2>1, <2>4, <2>8 DEF ModelInv, StreamInv
    <3>5. StreamInv'
      BY <1>1, <2>6, <2>8, <3>2, <3>3, <3>4 DEF StreamInv
    <3> QED BY <2>5, <3>5 DEF ModelInv
  <2> QED BY <1>1, <2>7, <2>8
<1> QED BY <1>1, <1>2, <1>3

LEMMA ProviderStep == ModelInv /\ Model!Provider => ModelInv'
<1> SUFFICES ASSUME ModelInv, Model!Provider PROVE ModelInv'
  OBVIOUS
<1>0. /\ said \in Responses /\ said.text \in Seq(Pieces) /\ number \in Nat
      /\ Numbered(said.text, number) /\ over \in BOOLEAN /\ stream \in Seq(Events)
  BY DEF ModelInv, ModelTyped, Responses, StreamInv
<1>1. CASE Model!Speak
  <2>1. Model!LoopRests /\ Model!ProviderActs /\ Model!SayMore /\ over' = over
    BY <1>1 DEF Model!Speak
  <2>2. phase = "stream" \/ phase = "complete"
    BY <2>1 DEF Model!ProviderActs
  <2>3. CASE /\ said' = [said EXCEPT !.text = Append(@, <<number, Len(@) + 1>>)]
             /\ IF phase = "stream"
                THEN Model!Put(<<[kind |-> "text", piece |-> Model!Last(said'.text)]>>)
                ELSE UNCHANGED stream
    <3>1. /\ said'.text = Append(said.text, <<number, Len(said.text) + 1>>)
          /\ said'.call = said.call /\ said' \in Responses
          /\ Numbered(said'.text, number) /\ Len(said'.text) = Len(said.text) + 1
          /\ said'.text[Len(said.text) + 1] = <<number, Len(said.text) + 1>>
      BY <1>0, <2>3, Texts DEF Responses
    <3>2. CASE phase = "stream"
      <4>1. PICK e : e = [kind |-> "text", piece |-> <<number, Len(said.text) + 1>>]
        OBVIOUS
      <4>2. e \in Events /\ e.kind = "text" /\ e.piece = <<number, Len(said.text) + 1>>
        BY <1>0, <4>1 DEF Events, Said, Pieces
      <4>3. stream' = stream \o <<e>>
        BY <2>3, <3>1, <3>2, <4>1 DEF Model!Put, Model!Last
      <4> QED BY <1>0, <2>1, <3>1, <3>2, <4>2, <4>3, Talks
    <3>3. CASE phase = "complete"
      <4>1. UNCHANGED stream
        BY <2>3, <3>3
      <4> QED BY <1>0, <2>1, <3>1, <3>3, <4>1, Talks
    <3> QED BY <2>2, <3>2, <3>3
  <2>4. ASSUME NEW call \in Grown, said' = [said EXCEPT !.call = call],
               IF phase = "stream" THEN Model!Put(<<[kind |-> "call", call |-> call]>>)
               ELSE UNCHANGED stream
        PROVE  ModelInv'
    <3>1. said'.text = said.text /\ said' \in Responses /\ Numbered(said'.text, number)
      BY <1>0, <2>4 DEF Responses
    <3>2. CASE phase = "stream"
      <4>1. PICK e : e = [kind |-> "call", call |-> call]
        OBVIOUS
      <4>2. e \in Events /\ e.kind = "call" /\ stream' = stream \o <<e>>
        BY <2>4, <3>2, <4>1 DEF Events, Model!Put
      <4> QED BY <1>0, <2>1, <3>1, <3>2, <4>2, Talks
    <3>3. CASE phase = "complete"
      <4>1. UNCHANGED stream
        BY <2>4, <3>3
      <4> QED BY <1>0, <2>1, <3>1, <3>3, <4>1, Talks
    <3> QED BY <2>2, <3>2, <3>3
  <2>5. \A g \in Model!Grows : g[2] \in Grown
    BY DEF Model!Grows, Grown
  <2> QED BY <2>1, <2>3, <2>4, <2>5 DEF Model!SayMore
<1>2. CASE Model!Finish \/ Model!Break
  <2>1. Model!LoopRests /\ Model!ProviderActs /\ over' = TRUE /\ UNCHANGED said
    BY <1>2 DEF Model!Finish, Model!Break
  <2>2. PICK kind \in {"end", "response", "length", "overloaded", "refused"} :
          /\ Model!Put(<<Model!Event(kind)>>)
          /\ phase = "stream" => kind \notin {"response", "length"}
          /\ phase = "complete" => kind # "end"
    BY <1>2 DEF Model!Finish, Model!Break
  <2>3. PICK e : e = [kind |-> kind]
    OBVIOUS
  <2>4. e \in Events /\ e.kind = kind /\ stream' = stream \o <<e>>
    BY <2>2, <2>3 DEF Events, Model!Put, Model!Event
  <2> QED BY <1>0, <2>1, <2>2, <2>4, Talks
<1> QED BY <1>1, <1>2 DEF Model!Provider

LEMMA ModelFacts ==
  ASSUME ModelInv
  PROVE  /\ number \in Nat /\ tries \in Nat /\ over \in BOOLEAN /\ stream \in Seq(Events)
         /\ said \in Responses /\ said.text \in Seq(Pieces) /\ Numbered(said.text, number)
         /\ heard \in Responses /\ heard.text \in Seq(Pieces) /\ Numbered(heard.text, number)
         /\ deltas \in Seq(Pieces)
         /\ Model!Nothing \in Responses /\ Model!Nothing.text = <<>>
BY DEF ModelInv, ModelTyped, StreamInv, Responses, Model!Nothing, Grown

\* A new request begins with nothing.
LEMMA Requests ==
  ASSUME ModelInv, NEW kind \in {"stream", "complete"}, Model!Request(kind), UNCHANGED deltas,
         kind = "complete" /\ Streaming => tries # 0
  PROVE  ModelInv'
<1>1. /\ phase' = kind /\ number' = number + 1 /\ tries' = tries + 1 /\ over' = FALSE
      /\ said' = Model!Nothing /\ stream' = <<>> /\ heard' = Model!Nothing
  BY DEF Model!Request
<1>2. ModelTyped'
  <2>1. <<>> \in Seq(Events)
    BY EmptySeq
  <2>2. /\ number' \in Nat /\ tries' \in Nat /\ stream' \in Seq(Events)
        /\ phase' \in {"send", "stream", "complete", "done", "failed"}
    BY <1>1, <2>1, ModelFacts
  <2>3. said' \in Responses /\ heard' \in Responses /\ over' \in BOOLEAN
    BY <1>1, ModelFacts
  <2>4. deltas' \in Seq(Pieces)
    BY ModelFacts
  <2> QED BY <2>2, <2>3, <2>4 DEF ModelTyped
<1>3. StreamInv'
  <2>1. Numbered(<<>>, number') /\ Open(<<>>) /\ LastWord(<<>>) /\ Len(<<>>) = 0
    BY DEF Numbered, Open, LastWord
  <2>2. Carries(<<>>, number', 0, 0)
    BY DEF Carries
  <2>3. said'.text = <<>> /\ heard'.text = <<>>
    BY <1>1, ModelFacts
  <2>4. ASSUME phase' = "stream" PROVE
          /\ Len(heard'.text) <= Len(said'.text)
          /\ Carries(stream', number', Len(heard'.text), Len(said'.text))
          /\ LastWord(stream') /\ (~over' => Open(stream'))
          /\ \A i \in DOMAIN stream' : stream'[i].kind \notin {"response", "length"}
    BY <1>1, <2>1, <2>2, <2>3
  <2>5. heard' = Model!Nothing' /\ \A i \in DOMAIN stream' :
          stream'[i].kind \notin {"text", "call", "end"}
    BY <1>1 DEF Model!Nothing
  <2> QED BY <2>1, <2>3, <2>4, <2>5 DEF StreamInv
<1>4. DeltasInv'
  BY <1>1, ModelFacts DEF ModelInv, DeltasInv
<1> QED BY <1>1, <1>2, <1>3, <1>4 DEF ModelInv, AnswerIsOneResponse, Model!AnswerIsOneResponse

\* A call of the model is over without an answer.
LEMMA Moves ==
  ASSUME ModelInv, phase' \in {"send", "failed"}, stream' \in Seq(Events),
         UNCHANGED <<number, said, over, heard>>,
         \/ UNCHANGED <<deltas, tries>>
         \/ deltas' = <<>> /\ tries' = 0
  PROVE  ModelInv'
<1>1. ModelTyped'
  <2>1. <<>> \in Seq(Pieces)
    BY EmptySeq
  <2>2. deltas' \in Seq(Pieces) /\ tries' \in Nat
    <3>1. CASE UNCHANGED <<deltas, tries>>
      BY <3>1, ModelFacts
    <3>2. CASE deltas' = <<>> /\ tries' = 0
      BY <2>1, <3>2
    <3> QED BY <3>1, <3>2
  <2>3. /\ number' \in Nat /\ over' \in BOOLEAN /\ said' \in Responses /\ heard' \in Responses
    BY ModelFacts
  <2> QED BY <2>2, <2>3 DEF ModelTyped
<1>2. StreamInv'
  BY DEF ModelInv, StreamInv, Numbered
<1>3. DeltasInv'
  BY DEF ModelInv, DeltasInv
<1> QED BY <1>1, <1>2, <1>3 DEF ModelInv, AnswerIsOneResponse, Model!AnswerIsOneResponse

\* A response is whole: it ends the turn, or the call.
LEMMA Concludes ==
  ASSUME ModelInv, NEW response \in Responses, NEW fromStream \in BOOLEAN,
         NEW refused \in SUBSET {"cut", "list"}, Model!Conclude(response, fromStream, refused),
         stream' \in Seq(Events), response.text = said.text, tries # 0,
         tries = 1 => /\ deltas = heard.text
                      /\ IF fromStream THEN response = heard ELSE heard.text = <<>> /\ ~Streaming
  PROVE  ModelInv'
<1>1. CASE /\ Model!Answer(response.text)
           /\ streamed' = (streamed \/ (fromStream /\ response.text # <<>>))
  <2>1. /\ phase' = "done" /\ final' = response.text
        /\ returned' = IF Streaming /\ streamed' THEN <<>> ELSE response.text
        /\ UNCHANGED <<number, said, over, heard, deltas, tries>>
    BY <1>1 DEF Model!Answer, Model!providerVars
  <2>2. ModelTyped' /\ StreamInv' /\ DeltasInv'
    BY <2>1 DEF ModelInv, ModelTyped, StreamInv, DeltasInv, Numbered
  <2>3. tries = 1 => Model!Submitted' = final'
    BY <1>1, <2>1 DEF Model!Submitted
  <2> QED BY <2>1, <2>2, <2>3 DEF ModelInv, AnswerIsOneResponse, Model!AnswerIsOneResponse
<1>2. CASE Model!Fail \/ Model!Recover \/ Model!RunTool
  <2>1. /\ phase' \in {"send", "failed"} /\ UNCHANGED <<number, said, over, heard>>
        /\ \/ UNCHANGED <<deltas, tries>>
           \/ deltas' = <<>> /\ tries' = 0
    BY <1>2 DEF Model!Fail, Model!Recover, Model!RunTool, Model!NextStep, Model!providerVars
  <2> QED BY <2>1, Moves
<1> QED BY <1>1, <1>2 DEF Model!Conclude

LEMMA TakeStep == ModelInv /\ Model!Take => ModelInv'
<1> SUFFICES ASSUME ModelInv, Model!Take PROVE ModelInv'
  OBVIOUS
<1>0. /\ phase \in {"stream", "complete"} /\ stream # <<>> /\ tries # 0
      /\ Head(stream) \in Events /\ Tail(stream) \in Seq(Events) /\ <<>> \in Seq(Events)
      /\ \E i \in DOMAIN stream : Head(stream) = stream[i]
  BY ModelFacts, EmptySeq, HeadTailProperties DEF Model!Take, ModelInv, DeltasInv
<1>1. PICK e \in Events : e = Head(stream)
  BY <1>0
<1>2. /\ phase = "stream" => e.kind \notin {"response", "length"}
      /\ phase = "complete" => e.kind \notin {"text", "call", "end"}
  BY <1>0, <1>1 DEF ModelInv, StreamInv
<1>3. PICK h \in Nat, m \in Nat : h = Len(heard.text) /\ m = Len(said.text)
  BY ModelFacts, LenProperties
<1>4. CASE e.kind = "text"
  <2>1. /\ heard' = [heard EXCEPT !.text = Append(@, e.piece)] /\ stream' = Tail(stream)
        /\ deltas' = Append(deltas, e.piece)
        /\ UNCHANGED <<phase, number, said, over, tries, final, returned>>
    BY <1>1, <1>4 DEF Model!Take, Model!providerVars, Model!resultVars
  <2>2. phase = "stream"
    BY <1>0, <1>2, <1>4
  <2>3. h <= m /\ Carries(stream, number, h, m) /\ LastWord(stream) /\ (~over => Open(stream))
    BY <1>3, <2>2 DEF ModelInv, StreamInv
  <2>4. e.piece = <<number, h + 1>> /\ h + 1 <= m /\ Carries(Tail(stream), number, h + 1, m)
    BY <1>0, <1>1, <1>4, <2>3, ModelFacts, CarriesFirst
  <2>5. LastWord(Tail(stream)) /\ (~over => Open(Tail(stream)))
        /\ \A i \in DOMAIN Tail(stream) : \E j \in DOMAIN stream : Tail(stream)[i] = stream[j]
    BY <1>0, <2>3, ModelFacts, LastWordFirst
  <2>6. /\ heard'.text = Append(heard.text, <<number, h + 1>>) /\ heard' \in Responses
        /\ Numbered(heard'.text, number) /\ Len(heard'.text) = h + 1
    BY <1>3, <2>1, <2>4, ModelFacts, Texts DEF Responses
  <2>7. /\ deltas' \in Seq(Pieces)
        /\ tries = 1 => deltas' = heard'.text
    <3>1. e.piece \in Pieces
      BY <2>4, ModelFacts DEF Pieces
    <3> QED BY <2>1, <2>4, <2>6, <3>1, ModelFacts DEF ModelInv, DeltasInv
  <2>8. ModelTyped'
    BY <1>0, <2>1, <2>6, <2>7 DEF ModelInv, ModelTyped
  <2>9. StreamInv'
    <3>1. \A i \in DOMAIN stream' : stream'[i].kind \notin {"response", "length"}
      BY <2>1, <2>2, <2>5 DEF ModelInv, StreamInv
    <3>2. Numbered(said.text, number)' /\ Numbered(heard.text, number)'
      BY <2>1, <2>6, ModelFacts
    <3>3. Carries(stream', number', Len(heard'.text), Len(said'.text)) /\ Len(heard'.text) <= Len(said'.text)
      BY <1>3, <2>1, <2>4, <2>6
    <3> QED BY <2>1, <2>2, <2>5, <3>1, <3>2, <3>3 DEF StreamInv
  <2>10. DeltasInv'
    BY <1>0, <2>1, <2>2, <2>7 DEF DeltasInv
  <2> QED BY <2>1, <2>2, <2>8, <2>9, <2>10 DEF ModelInv, AnswerIsOneResponse,
       Model!AnswerIsOneResponse
<1>5. CASE e.kind = "call"
  <2>1. /\ heard' = [heard EXCEPT !.call = e.call] /\ stream' = Tail(stream)
        /\ UNCHANGED <<phase, number, said, over, deltas, tries, final, returned>>
    BY <1>1, <1>5 DEF Model!Take, Model!providerVars, Model!resultVars
  <2>2. phase = "stream"
    BY <1>0, <1>2, <1>5
  <2>3. h <= m /\ Carries(stream, number, h, m) /\ LastWord(stream) /\ (~over => Open(stream))
    BY <1>3, <2>2 DEF ModelInv, StreamInv
  <2>4. Carries(Tail(stream), number, h, m)
    BY <1>0, <1>1, <1>5, <2>3, ModelFacts, CarriesFirst
  <2>5. LastWord(Tail(stream)) /\ (~over => Open(Tail(stream)))
        /\ \A i \in DOMAIN Tail(stream) : \E j \in DOMAIN stream : Tail(stream)[i] = stream[j]
    BY <1>0, <2>3, ModelFacts, LastWordFirst
  <2>6. heard'.text = heard.text /\ heard' \in Responses
    <3>1. e.call \in Grown
      BY <1>5 DEF Events, Said
    <3> QED BY <2>1, <3>1, ModelFacts DEF Responses
  <2>7. ModelTyped'
    BY <1>0, <2>1, <2>6 DEF ModelInv, ModelTyped
  <2>8. StreamInv'
    <3>1. \A i \in DOMAIN stream' : stream'[i].kind \notin {"response", "length"}
      BY <2>1, <2>2, <2>5 DEF ModelInv, StreamInv
    <3>2. Numbered(said.text, number)' /\ Numbered(heard.text, number)'
      BY <2>1, <2>6, ModelFacts
    <3>3. Carries(stream', number', Len(heard'.text), Len(said'.text)) /\ Len(heard'.text) <= Len(said'.text)
      BY <1>3, <2>1, <2>3, <2>4, <2>6
    <3> QED BY <2>1, <2>2, <2>5, <3>1, <3>2, <3>3 DEF StreamInv
  <2>9. DeltasInv'
    BY <1>0, <2>1, <2>2, <2>6 DEF DeltasInv, ModelInv
  <2> QED BY <2>1, <2>2, <2>7, <2>8, <2>9 DEF ModelInv, AnswerIsOneResponse,
       Model!AnswerIsOneResponse
<1>6. CASE e.kind = "end"
  <2>1. phase = "stream" /\ Model!EndOfStream
    BY <1>0, <1>1, <1>2, <1>6 DEF Model!Take
  <2>2. CASE Model!Request("complete") /\ UNCHANGED deltas
    BY <1>0, <2>2, Requests
  <2>3. CASE Model!Conclude(heard, TRUE, {"list"}) /\ stream' = Tail(stream)
    <3>1. h <= m /\ Carries(stream, number, h, m) /\ LastWord(stream)
      BY <1>3, <2>1 DEF ModelInv, StreamInv
    <3>2. DOMAIN stream = {1} /\ stream[1].kind # "text"
      BY <1>0, <1>1, <1>6, <3>1, ModelFacts, LastWordFirst
    <3>3. h = m
      BY <3>1, <3>2 DEF Carries
    <3>4. heard.text = said.text
      BY <1>3, <3>3, ModelFacts, Texts
    <3>5. tries = 1 => deltas = heard.text
      BY DEF ModelInv, DeltasInv
    <3>6. {"list"} \in SUBSET {"cut", "list"} /\ TRUE \in BOOLEAN
      OBVIOUS
    <3> QED BY <1>0, <2>3, <3>4, <3>5, <3>6, ModelFacts, Concludes
  <2> QED BY <2>1, <2>2, <2>3 DEF Model!EndOfStream
<1>7. CASE e.kind = "response"
  <2>1. phase = "complete" /\ Model!Conclude(said, FALSE, {"cut", "list"}) /\ stream' = <<>>
    BY <1>0, <1>1, <1>2, <1>7 DEF Model!Take
  <2>2. tries = 1 => deltas = heard.text /\ heard.text = <<>> /\ ~Streaming
    BY <2>1, ModelFacts DEF ModelInv, StreamInv, DeltasInv
  <2>3. {"cut", "list"} \in SUBSET {"cut", "list"} /\ FALSE \in BOOLEAN
    OBVIOUS
  <2> QED BY <1>0, <2>1, <2>2, <2>3, ModelFacts, Concludes
<1>8. CASE e.kind = "length"
  <2>1. Model!Fail /\ stream' = <<>>
    BY <1>1, <1>8 DEF Model!Take
  <2> QED BY <1>0, <2>1, Moves DEF Model!Fail, Model!providerVars
<1>9. CASE e.kind \in {"overloaded", "refused"}
  <2>1. \E yes : Model!Retry(yes)
    BY <1>1, <1>9 DEF Model!Take
  <2> QED BY <2>1, ModelFacts, Moves DEF Model!Retry, Model!providerVars
<1>10. e.kind \in {"text", "call", "end", "response", "length", "overloaded", "refused"}
  BY DEF Events, Said
<1> QED BY <1>4, <1>5, <1>6, <1>7, <1>8, <1>9, <1>10

LEMMA LoopStep == ModelInv /\ Model!Loop => ModelInv'
<1> SUFFICES ASSUME ModelInv, Model!Loop PROVE ModelInv'
  OBVIOUS
<1>1. CASE Model!Send
  BY <1>1, Requests DEF Model!Send
<1>2. CASE Model!TimeOut
  BY <1>2, ModelFacts, Moves DEF Model!TimeOut, Model!Retry, Model!providerVars
<1> QED BY <1>1, <1>2, TakeStep DEF Model!Loop

\* For any number of requests, retries and pieces, with or without a stream: the answer of a
\* turn is the whole text of one response, whatever requests failed or timed out before it,
\* and it is what a worker submits unless an earlier request had given it text.
THEOREM AnswersAreOneResponse == MCSpec => []AnswerIsOneResponse
<1>1. MCInit => ModelInv
  <2> SUFFICES ASSUME Model!Init PROVE ModelInv
    BY DEF MCInit
  <2>1. /\ phase = "send" /\ number = 0 /\ said = Model!Nothing /\ over = TRUE /\ stream = <<>>
        /\ heard = Model!Nothing /\ deltas = <<>> /\ tries = 0
    BY DEF Model!Init
  <2>2. Model!Nothing \in Responses /\ Model!Nothing.text = <<>>
    BY EmptySeq DEF Responses, Model!Nothing, Grown
  <2>3. ModelTyped
    BY <2>1, <2>2, EmptySeq DEF ModelTyped
  <2> QED BY <2>1, <2>2, <2>3 DEF ModelInv, StreamInv, DeltasInv, Numbered, AnswerIsOneResponse,
                                  Model!AnswerIsOneResponse
<1>2. ModelInv => AnswerIsOneResponse
  BY DEF ModelInv
<1>3. ModelInv /\ UNCHANGED modelVars => ModelInv'
  BY DEF ModelInv, ModelTyped, StreamInv, DeltasInv, Numbered, Carries, LastWord, Open,
         AnswerIsOneResponse, Model!AnswerIsOneResponse, Model!Submitted, modelVars
<1>4. ModelInv /\ [MCNext]_<<handle, vars, codexVars, modelVars>> => ModelInv'
  BY <1>3, ProviderStep, LoopStep DEF MCNext, Model!Next
<1> QED BY <1>1, <1>2, <1>4, PTL DEF MCSpec

=============================================================================
