--------------------------- MODULE TerminalProofs ---------------------------
(***************************************************************************)
(* What the threads of the terminal share, of MCTerminal:                    *)
(*   - the settings of the runtime.  A command that changes them goes through*)
(*     several steps, some of which put them back, while turns run beside it; *)
(*   - the questions of the workers, on their way to the screen;             *)
(*   - the files that workers change under a lease, and turns without one;   *)
(*   - the checkpoints /rewind goes back to;                                 *)
(*   - what is written to the screen, and the refresh that overwrites some;    *)
(*   - the turns that become workers.                                        *)
(***************************************************************************)
EXTENDS MCTerminal, SequenceFacts
---------------------------------------------------------------------------
(* Settings *)

\* The loop was built from the settings that hold, and from every rule.
LoopAgrees == args \notin Unbuildable /\ loop = [config |-> args, rules |-> rules]

\* While a change is under way, what is already changed is known: the settings that
\* may be put back are those of the coordinator, which is restarted last.
SettingsInv ==
    /\ line \in {"ready", "fork", "dispatch"} => LoopAgrees /\ coordinator = args
    /\ line \in {"rebuild", "rollback"} => previous \notin Unbuildable /\ coordinator = previous
    /\ line \in {"session", "restart"} => LoopAgrees

LEMMA SettingsLine == SettingsInv /\ Chat!Line => SettingsInv'
<1> SUFFICES ASSUME SettingsInv, Chat!Line PROVE SettingsInv'
  OBVIOUS
<1> USE DEF SettingsInv, LoopAgrees
<1>1. CASE Chat!HandleInput \/ Chat!ForkMainSession \/ Chat!StartTurn
  BY <1>1 DEF Chat!HandleInput, Chat!ForkMainSession, Chat!HandOver, Chat!StartTurn, Chat!configVars
<1>2. CASE Chat!Clear \/ Chat!New
  BY <1>2 DEF Chat!Clear, Chat!New, Chat!Command, Chat!configVars
<1>3. ASSUME NEW id, Chat!Resume(id) PROVE SettingsInv'
  BY <1>3 DEF Chat!Resume, Chat!Command
<1>4. ASSUME NEW rule, Chat!AddRule(rule) PROVE SettingsInv'
  BY <1>4 DEF Chat!AddRule, Chat!Command
<1>5. ASSUME NEW config, Chat!SetArgs(config) PROVE SettingsInv'
  BY <1>5 DEF Chat!SetArgs, Chat!Command
<1>6. CASE Chat!Rebuild
  BY <1>6 DEF Chat!Rebuild
<1>7. CASE Chat!EndRebuild
  BY <1>7 DEF Chat!EndRebuild, Chat!RolledBack
<1>8. CASE Chat!RestartCoordinator
  BY <1>8 DEF Chat!RestartCoordinator
<1> QED BY <1>1, <1>2, <1>3, <1>4, <1>5, <1>6, <1>7, <1>8 DEF Chat!Line

\* No step of a turn's thread touches the settings.
LEMMA SettingsThread == ASSUME SettingsInv, NEW t, Chat!Thread(t) PROVE SettingsInv'
<1>1. UNCHANGED <<line, args, previous, loop, coordinator, rules>>
  BY DEF Chat!Thread, Chat!BeginForegroundTask, Chat!TakeSession, Chat!Prepare, Chat!Commit,
       Chat!RunReturns, Chat!Finish, Chat!TurnRests,
         Chat!configVars
<1> QED BY <1>1 DEF SettingsInv, LoopAgrees

\* For any settings and rules, any number of commands and turns: between two lines the
\* runtime, its loop and its coordinator have the same settings, which can be built,
\* and the loop has every rule; a change that fails is undone everywhere.
THEOREM SettingsAlwaysAgree == MCSpec => []SettingsAgree
<1>1. MCInit => SettingsInv
  BY DEF MCInit, Chat!Init, SettingsInv, LoopAgrees
<1>2. SettingsInv => SettingsAgree
  BY DEF SettingsInv, LoopAgrees, Chat!SettingsAgree, SettingsAgree
<1>3. SettingsInv /\ UNCHANGED chatVars => SettingsInv'
  BY DEF SettingsInv, LoopAgrees, chatVars
<1>4. SettingsInv /\ [MCNext]_<<part, vars, chatVars, editVars, mailVars, screenVars>> => SettingsInv'
  BY <1>3, SettingsLine, SettingsThread DEF MCNext, Chat!Next
<1> QED BY <1>1, <1>2, <1>4, PTL DEF MCSpec

---------------------------------------------------------------------------
(* Notices *)

Messages == [task : Tasks, text : Texts \union {"none"}, reply : BOOLEAN,
             status : {"pending", "answered", "cancelled"}, shown : BOOLEAN]

Held(s) == {s[i] : i \in DOMAIN s}

\* A notice that has not been shown is in the buffer, or pulled.
OnTheWay == Held(noticed) \union Held(showing)
Unannounced(box, k) == Mail!Pending(box, k) /\ ~box[k].shown /\ k \notin swallowed

MailInv ==
    /\ mailbox \in Seq(Messages) /\ noticed \in Seq(Nat) /\ showing \in Seq(Nat)
    /\ \A k \in DOMAIN mailbox : Unannounced(mailbox, k) => k \in OnTheWay

LEMMA ChangedMessages ==
  \A m \in Messages :
    /\ [m EXCEPT !.shown = TRUE] \in Messages /\ [m EXCEPT !.shown = TRUE].shown
    /\ \A s \in {"answered", "cancelled"} : /\ [m EXCEPT !.status = s] \in Messages
                                           /\ [m EXCEPT !.status = s].status # "pending"
BY DEF Messages

LEMMA MailboxOf ==
  ASSUME mailbox \in Seq(Messages), NEW box, box = [k \in DOMAIN mailbox |-> box[k]],
         \A k \in DOMAIN mailbox : box[k] \in Messages
  PROVE  box \in Seq(Messages)
<1>1. Len(mailbox) \in Nat /\ DOMAIN mailbox = 1..Len(mailbox)
  OBVIOUS
<1>2. box \in [1..Len(mailbox) -> Messages]
  BY <1>1
<1> QED BY <1>1, <1>2

LEMMA OneMore ==
  ASSUME NEW S, NEW q \in Seq(S), NEW e \in S
  PROVE  /\ Append(q, e) \in Seq(S) /\ Len(q) + 1 \in Nat
         /\ Len(q) + 1 \in DOMAIN Append(q, e) /\ Append(q, e)[Len(q) + 1] = e
         /\ \A k \in DOMAIN Append(q, e) :
              k = Len(q) + 1 \/ (k \in DOMAIN q /\ Append(q, e)[k] = q[k])
OBVIOUS

LEMMA TakenApart ==
  ASSUME NEW S, NEW p \in Seq(S), NEW q \in Seq(S)
  PROVE  Held(p \o q) = Held(p) \union Held(q)
<1>1. \A i \in DOMAIN (p \o q) : (p \o q)[i] \in Held(p) \union Held(q)
  <2> TAKE i \in DOMAIN (p \o q)
  <2>1. \/ i \in DOMAIN p /\ (p \o q)[i] = p[i]
        \/ i - Len(p) \in DOMAIN q /\ (p \o q)[i] = q[i - Len(p)]
    OBVIOUS
  <2> QED BY <2>1 DEF Held
<1>2. \A i \in DOMAIN p : i \in DOMAIN (p \o q) /\ (p \o q)[i] = p[i]
  OBVIOUS
<1>3. \A i \in DOMAIN q : Len(p) + i \in DOMAIN (p \o q) /\ (p \o q)[Len(p) + i] = q[i]
  OBVIOUS
<1>4. Held(p \o q) \subseteq Held(p) \union Held(q)
  BY <1>1 DEF Held
<1>5. Held(p) \subseteq Held(p \o q)
  BY <1>2 DEF Held
<1>6. Held(q) \subseteq Held(p \o q)
  BY <1>3 DEF Held
<1> QED BY <1>4, <1>5, <1>6

\* A message at the end of the mailbox that does not wait for the user needs no notice,
\* and neither does one that is withdrawn, answered or shown.
LEMMA NoMoreToAnnounce ==
  ASSUME MailInv, mailbox' \in Seq(Messages), UNCHANGED <<noticed, showing, swallowed>>,
         \A k \in DOMAIN mailbox' :
           Mail!Pending(mailbox', k) /\ ~mailbox'[k].shown =>
             k \in DOMAIN mailbox /\ Mail!Pending(mailbox, k) /\ ~mailbox[k].shown
  PROVE  MailInv'
BY DEF MailInv, Unannounced, OnTheWay, Held

LEMMA Posted ==
  ASSUME MailInv, NEW m \in Messages, Mail!Post(m), UNCHANGED <<noticed, showing, swallowed>>,
         ~(m.reply /\ m.status = "pending")
  PROVE  MailInv'
<1>1. /\ mailbox' \in Seq(Messages)
      /\ \A k \in DOMAIN mailbox' : \/ k \in DOMAIN mailbox /\ mailbox'[k] = mailbox[k]
                                   \/ mailbox'[k] = m
  BY DEF Mail!Post, MailInv
<1> QED BY <1>1, NoMoreToAnnounce DEF Mail!Pending

\* The question is the only one of its task, so the notice is made of it.
LEMMA QuestionAnnounced ==
  ASSUME MailInv, NEW t \in Tasks, NEW x \in Texts, Mail!HandleQuestion(t, x)
  PROVE  MailInv'
<1>0. PICK m, n, box : m = Mail!Message(t, x, TRUE) /\ n = Len(mailbox) + 1 /\ box = mailbox'
  OBVIOUS
<1>1. /\ Mail!PendingOf(mailbox, t) = {} /\ box = Append(mailbox, m)
      /\ Mail!AnnounceQuestion(box, Mail!FirstOf(box, t)) /\ UNCHANGED showing
  BY <1>0 DEF Mail!HandleQuestion, Mail!Post
<1>2. m \in Messages /\ m.task = t /\ m.reply /\ m.status = "pending" /\ ~m.shown
  BY <1>0 DEF Mail!Message, Messages
<1>3. /\ box \in Seq(Messages) /\ n \in Nat /\ n \in DOMAIN box /\ box[n] = m
      /\ \A k \in DOMAIN box : k = n \/ (k \in DOMAIN mailbox /\ box[k] = mailbox[k])
  <2>1. mailbox \in Seq(Messages)
    BY DEF MailInv
  <2>2. m \in Messages /\ box = Append(mailbox, m) /\ n = Len(mailbox) + 1
    BY <1>0, <1>1, <1>2
  <2>3. /\ Append(mailbox, m) \in Seq(Messages) /\ Len(mailbox) + 1 \in Nat
        /\ Len(mailbox) + 1 \in DOMAIN Append(mailbox, m)
        /\ Append(mailbox, m)[Len(mailbox) + 1] = m
        /\ \A k \in DOMAIN Append(mailbox, m) :
             k = Len(mailbox) + 1 \/ (k \in DOMAIN mailbox /\ Append(mailbox, m)[k] = mailbox[k])
    BY <2>1, <2>2, OneMore
  <2> QED BY <2>2, <2>3
<1>4. {k \in Mail!Candidates(box) : box[k].task = t} = {n}
  BY <1>1, <1>2, <1>3 DEF Mail!PendingOf, Mail!Candidates, Mail!Pending
<1>5. Mail!FirstOf(box, t) = n
  BY <1>3, <1>4 DEF Mail!FirstOf, Mail!Min
<1>6. \/ UNCHANGED noticed /\ swallowed' = swallowed \union {n}
      \/ noticed' = Append(noticed, n) /\ UNCHANGED swallowed
  BY <1>1, <1>5 DEF Mail!AnnounceQuestion
<1>7. /\ noticed' \in Seq(Nat) /\ Held(noticed) \subseteq Held(noticed')
      /\ n \in swallowed' \/ n \in Held(noticed')
  <2>1. CASE noticed' = Append(noticed, n)
    <3>1. /\ \A i \in DOMAIN noticed : i \in DOMAIN noticed' /\ noticed'[i] = noticed[i]
          /\ Len(noticed') \in DOMAIN noticed' /\ noticed'[Len(noticed')] = n
      BY <1>3, <2>1 DEF MailInv
    <3> QED BY <1>3, <2>1, <3>1 DEF MailInv, Held
  <2> QED BY <1>6, <2>1 DEF MailInv
<1>8. swallowed \subseteq swallowed'
  BY <1>6
<1>9. \A k \in DOMAIN box : Unannounced(box, k)' => k \in OnTheWay'
  <2> SUFFICES ASSUME NEW k \in DOMAIN box, Mail!Pending(box, k), ~box[k].shown,
                      k \notin swallowed'
               PROVE  k \in Held(noticed') \union Held(showing')
    BY DEF Unannounced, OnTheWay, Mail!Pending
  <2>1. CASE k = n
    BY <1>7, <2>1
  <2>2. CASE k \in DOMAIN mailbox /\ box[k] = mailbox[k]
    <3>1. k \in Held(noticed) \union Held(showing)
      BY <1>8, <2>2 DEF MailInv, Unannounced, OnTheWay, Mail!Pending
    <3> QED BY <1>1, <1>7, <3>1
  <2> QED BY <1>3, <2>1, <2>2
<1> QED BY <1>0, <1>1, <1>3, <1>7, <1>9 DEF MailInv

\* What is marked as presented has been pulled.
LEMMA Presented ==
  ASSUME MailInv, Mail!MarkPresented
  PROVE  MailInv'
<1>0. PICK h : h = Head(showing)
  OBVIOUS
<1>1. /\ showing # <<>> /\ showing' = Tail(showing) /\ UNCHANGED <<noticed, swallowed>>
      /\ mailbox' = [mailbox EXCEPT ![h].shown = TRUE]
  BY <1>0 DEF Mail!MarkPresented, Mail!noticeVars
<1>2. /\ mailbox' \in Seq(Messages) /\ DOMAIN mailbox' = DOMAIN mailbox
      /\ h \in DOMAIN mailbox => mailbox'[h].shown
      /\ \A k \in DOMAIN mailbox : k # h => mailbox'[k] = mailbox[k]
  <2>1. mailbox \in Seq(Messages) /\ DOMAIN mailbox' = DOMAIN mailbox
    BY <1>1 DEF MailInv
  <2>2. \A k \in DOMAIN mailbox : mailbox'[k] = IF k = h THEN [mailbox[k] EXCEPT !.shown = TRUE]
                                              ELSE mailbox[k]
    BY <1>1
  <2>3. \A k \in DOMAIN mailbox : mailbox'[k] \in Messages /\ (k = h => mailbox'[k].shown)
    <3>1. \A k \in DOMAIN mailbox : mailbox[k] \in Messages
      BY <2>1
    <3> QED BY <2>2, <3>1, ChangedMessages
  <2>4. mailbox' = [k \in DOMAIN mailbox |-> mailbox'[k]]
    BY <1>1
  <2> QED BY <2>1, <2>2, <2>3, <2>4, MailboxOf
<1>3. /\ showing' \in Seq(Nat) /\ \A k \in Held(showing) : k = h \/ k \in Held(showing')
  <2>1. /\ showing' \in Seq(Nat) /\ h = showing[1]
        /\ \A i \in DOMAIN showing : i = 1 \/ (i - 1 \in DOMAIN showing' /\ showing'[i - 1] = showing[i])
    BY <1>0, <1>1 DEF MailInv
  <2> QED BY <2>1 DEF Held
<1>4. \A k \in DOMAIN mailbox' : Unannounced(mailbox, k)' => k \in OnTheWay'
  BY <1>1, <1>2, <1>3 DEF MailInv, Unannounced, OnTheWay, Mail!Pending
<1> QED BY <1>1, <1>2, <1>3, <1>4 DEF MailInv

LEMMA MailStep == MailInv /\ Mail!Next => MailInv'
<1> SUFFICES ASSUME MailInv, Mail!Next PROVE MailInv'
  OBVIOUS
<1>1. ASSUME NEW t \in Tasks, NEW x \in Texts, Mail!HandleQuestionByDecider(t, x)
      PROVE  MailInv'
  <2>1. [Mail!Message(t, x, TRUE) EXCEPT !.status = "answered"] \in Messages
    BY DEF Mail!Message, Messages
  <2> QED BY <1>1, <2>1, Posted DEF Mail!HandleQuestionByDecider, Mail!noticeVars, Mail!Message
<1>2. ASSUME NEW t \in Tasks, NEW x, Mail!HandleProgress(t, x) \/ Mail!HandleEnd(t)
      PROVE  MailInv'
  <2>1. Mail!Message(t, "none", FALSE) \in Messages /\ ~Mail!Message(t, "none", FALSE).reply
    BY DEF Mail!Message, Messages
  <2> QED BY <1>2, <2>1, Posted DEF Mail!HandleProgress, Mail!HandleEnd, Mail!noticeVars
<1>3. ASSUME NEW t \in Tasks, Mail!CancelTask(t) PROVE MailInv'
  <2>1. PICK box : box = mailbox'
    OBVIOUS
  <2>2. box = Mail!CancelAll(mailbox, t) /\ UNCHANGED <<noticed, showing, swallowed>>
    BY <1>3, <2>1 DEF Mail!CancelTask, Mail!noticeVars
  <2>3. /\ mailbox \in Seq(Messages) /\ DOMAIN box = DOMAIN mailbox
        /\ box = [k \in DOMAIN mailbox |-> box[k]]
        /\ \A k \in DOMAIN mailbox : box[k] = mailbox[k]
                                     \/ box[k] = [mailbox[k] EXCEPT !.status = "cancelled"]
    BY <2>2 DEF MailInv, Mail!CancelAll
  <2>4. \A k \in DOMAIN mailbox : box[k] \in Messages
                                 /\ (Mail!Pending(box, k) => box[k] = mailbox[k])
    <3>1. \A k \in DOMAIN mailbox : mailbox[k] \in Messages
      BY <2>3
    <3> QED BY <2>3, <3>1, ChangedMessages DEF Mail!Pending
  <2>5. box \in Seq(Messages)
    BY <2>3, <2>4, MailboxOf
  <2> QED BY <2>1, <2>2, <2>3, <2>4, <2>5, NoMoreToAnnounce DEF Mail!Pending
<1>4. ASSUME NEW n, Mail!ReplyMailbox(n) PROVE MailInv'
  <2>1. PICK box : box = mailbox'
    OBVIOUS
  <2>2. /\ n \in DOMAIN mailbox /\ box = [mailbox EXCEPT ![n].status = "answered"]
        /\ UNCHANGED <<noticed, showing, swallowed>>
    BY <1>4, <2>1 DEF Mail!ReplyMailbox, Mail!AnswerOf, Mail!noticeVars
  <2>3. /\ mailbox \in Seq(Messages) /\ DOMAIN box = DOMAIN mailbox
        /\ box = [k \in DOMAIN mailbox |-> box[k]]
        /\ \A k \in DOMAIN mailbox : box[k] = mailbox[k]
                                     \/ box[k] = [mailbox[k] EXCEPT !.status = "answered"]
    BY <2>2 DEF MailInv
  <2>4. \A k \in DOMAIN mailbox : box[k] \in Messages
                                 /\ (Mail!Pending(box, k) => box[k] = mailbox[k])
    <3>1. \A k \in DOMAIN mailbox : mailbox[k] \in Messages
      BY <2>3
    <3> QED BY <2>3, <3>1, ChangedMessages DEF Mail!Pending
  <2>5. box \in Seq(Messages)
    BY <2>3, <2>4, MailboxOf
  <2> QED BY <2>1, <2>2, <2>3, <2>4, <2>5, NoMoreToAnnounce DEF Mail!Pending
<1>5. CASE Mail!Pull
  <2>1. showing = <<>> /\ showing' = noticed /\ noticed' = <<>> /\ UNCHANGED <<mailbox, swallowed>>
    BY <1>5 DEF Mail!Pull, Mail!boardVars
  <2>2. showing' \in Seq(Nat) /\ noticed' \in Seq(Nat) /\ OnTheWay' = OnTheWay
    BY <2>1 DEF MailInv, OnTheWay, Held
  <2> QED BY <2>1, <2>2 DEF MailInv, Unannounced, Mail!Pending
<1>6. CASE UNCHANGED <<mailbox, noticed, showing, swallowed>>
  BY <1>6, NoMoreToAnnounce DEF MailInv, Mail!Pending
<1>7. ASSUME NEW t, NEW x, Mail!HandleDelta(t, x) PROVE MailInv'
  BY <1>7, <1>6 DEF Mail!HandleDelta, Mail!noticeVars
<1>8. ASSUME NEW t, Mail!Follow(t) PROVE MailInv'
  BY <1>8, <1>6 DEF Mail!Follow, Mail!noticeVars, Mail!boardVars
<1>9. CASE Mail!Forget \/ Mail!FollowerLooks \/ Mail!FollowerTimesOut
  BY <1>9, <1>6 DEF Mail!Forget, Mail!FollowerLooks, Mail!FollowerTimesOut, Mail!noticeVars,
                    Mail!boardVars
<1> QED BY <1>1, <1>2, <1>3, <1>4, <1>5, <1>7, <1>8, <1>9, QuestionAnnounced, Presented
        DEF Mail!Next, Mail!Coordinate

\* For any number of tasks and messages, however the terminal's pulls and marks fall
\* between the coordinator's handlers: a question that waits for the user is shown or on
\* its way to the screen, but for one that was taken for a repeated notice.
THEOREM OpenQuestionsAreAnnounced == MCSpec => []OpenQuestionIsAnnounced
<1>1. MCInit => MailInv
  BY DEF MCInit, Mail!Init, MailInv
<1>2. MailInv => OpenQuestionIsAnnounced
  <2>1. MailInv => Held(noticed \o showing) = OnTheWay
    BY TakenApart DEF MailInv, OnTheWay
  <2>2. Mail!ToSet(noticed \o showing) = Held(noticed \o showing)
    BY DEF Mail!ToSet, Held
  <2> QED BY <2>1, <2>2 DEF MailInv, Unannounced, Mail!OpenQuestionIsAnnounced,
                            OpenQuestionIsAnnounced
<1>3. MailInv /\ UNCHANGED mailVars => MailInv'
  BY NoMoreToAnnounce DEF mailVars, MailInv, Mail!Pending
<1>4. MailInv /\ [MCNext]_<<part, vars, chatVars, editVars, mailVars, screenVars>> => MailInv'
  BY <1>3, MailStep DEF MCNext
<1> QED BY <1>1, <1>2, <1>4, PTL DEF MCSpec

---------------------------------------------------------------------------
(* Edits *)

Places == {"away", "create", "idle", "approval", "snapshot", "record", "change", "replace",
           "fill", "over"}
Editing == {"change", "replace", "fill"}
Calling == {"approval", "snapshot", "record"} \union Editing

EditTyped ==
    /\ DOMAIN file = Files /\ DOMAIN read = Edits!Agents /\ DOMAIN holder = Files
    /\ editor \in [Edits!Agents -> Places] /\ paths \in [Edits!Agents -> Seq(Files)]
    /\ \A a \in Edits!Agents : editor[a] \in Calling => paths[a] # <<>>

\* A worker that changes files holds all that it still has to change.
Holds(w) == editor[w] \in Editing => \A i \in DOMAIN paths[w] : holder[paths[w][i]] = w
AsRead(w) == editor[w] = "replace" => w \in overtaken \/ file[Head(paths[w])] = read[w]

HunkInv == EditTyped /\ \A w \in Workers : Holds(w) /\ AsRead(w)

LEMMA Kinds ==
  /\ \A w \in Workers : w \in Edits!Agents /\ w # Nobody /\ w \notin Owners
  /\ \A t \in Owners : t \in Edits!Agents /\ t # Nobody /\ t \notin Workers
  /\ \A a \in Edits!Agents : a \in Owners \/ a \in Workers
BY EditsAssumption DEF Edits!Agents

LEMMA NonEmptyPaths ==
  ASSUME NEW p \in Seq(Files), p # <<>>
  PROVE  /\ Head(p) \in Files /\ Tail(p) \in Seq(Files)
         /\ 1 \in DOMAIN p /\ Head(p) = p[1]
         /\ \A i \in DOMAIN Tail(p) : i + 1 \in DOMAIN p /\ Tail(p)[i] = p[i + 1]
         /\ Len(p) # 1 => Tail(p) # <<>>
<1>1. Len(p) \in Nat \ {0} /\ DOMAIN p = 1..Len(p)
  BY SMT
<1>2. 1 \in DOMAIN p /\ Head(p) = p[1]
  BY <1>1, SMT
<1>3. Tail(p) \in Seq(Files) /\ Len(Tail(p)) = Len(p) - 1
  BY <1>1, SMT
<1>4. \A i \in DOMAIN Tail(p) : i + 1 \in DOMAIN p /\ Tail(p)[i] = p[i + 1]
  <2> TAKE i \in DOMAIN Tail(p)
  <2>1. i \in 1..(Len(p) - 1)
    BY <1>1, <1>3, EmptySeq
  <2>2. Tail(p)[i] = p[i + 1]
    BY <1>1, <2>1, HeadTailProperties, SMT
  <2> QED BY <1>1, <2>1, <2>2, SMT
<1>5. ASSUME Len(p) # 1 PROVE Tail(p) # <<>>
  <2>1. Len(Tail(p)) # 0
    BY <1>1, <1>3, <1>5, SMT
  <2>2. Len(<<>>) = 0
    BY EmptySeq
  <2> QED BY <2>1, <2>2, Zenon
<1> QED BY <1>1, <1>2, <1>3, <1>4, <1>5

LEMMA FirstPath ==
  ASSUME EditTyped, NEW a \in Edits!Agents, editor[a] \in Calling
  PROVE  /\ Head(paths[a]) \in Files /\ Tail(paths[a]) \in Seq(Files)
         /\ 1 \in DOMAIN paths[a] /\ Head(paths[a]) = paths[a][1]
         /\ \A i \in DOMAIN Tail(paths[a]) :
              i + 1 \in DOMAIN paths[a] /\ Tail(paths[a])[i] = paths[a][i + 1]
         /\ Len(paths[a]) # 1 => Tail(paths[a]) # <<>>
<1>1. paths[a] \in Seq(Files) /\ paths[a] # <<>>
  BY DEF EditTyped
<1> QED BY <1>1, NonEmptyPaths

LEMMA PatchPaths ==
  ASSUME NEW p \in Edits!Patches
  PROVE  p \in Seq(Files) /\ p # <<>>
<1>1. PICK n \in 1..MaxPaths : p \in [1..n -> Files]
  BY DEF Edits!Patches
<1>2. n \in Nat \ {0}
  BY EditsAssumption
<1> QED BY <1>1, <1>2

\* A step of a that leaves the other agents where they are.
LEMMA OthersStay ==
  ASSUME EditTyped, NEW a \in Edits!Agents, NEW q \in Places, NEW s \in Seq(Files),
         editor' = [editor EXCEPT ![a] = q], paths' = [paths EXCEPT ![a] = s],
         q \in Calling => s # <<>>,
         DOMAIN file' = Files, DOMAIN read' = Edits!Agents, DOMAIN holder' = Files
  PROVE  /\ EditTyped'
         /\ editor'[a] = q /\ paths'[a] = s
         /\ \A b \in Edits!Agents : b # a => editor'[b] = editor[b] /\ paths'[b] = paths[b]
<1>1. /\ editor' \in [Edits!Agents -> Places] /\ paths' \in [Edits!Agents -> Seq(Files)]
      /\ editor'[a] = q /\ paths'[a] = s
      /\ \A b \in Edits!Agents : b # a => editor'[b] = editor[b] /\ paths'[b] = paths[b]
  BY DEF EditTyped
<1>2. \A b \in Edits!Agents : editor'[b] \in Calling => paths'[b] # <<>>
  BY <1>1 DEF EditTyped
<1> QED BY <1>1, <1>2 DEF EditTyped

\* A step of a that changes no file and no lease, and where a reads its own files.
LEMMA Looks ==
  ASSUME HunkInv, NEW a \in Edits!Agents, NEW q \in Places, NEW s \in Seq(Files),
         editor' = [editor EXCEPT ![a] = q], paths' = [paths EXCEPT ![a] = s],
         q \in Calling => s # <<>>,
         UNCHANGED <<file, holder, overtaken>>,
         DOMAIN read' = Edits!Agents, \A b \in Edits!Agents : b # a => read'[b] = read[b],
         a \in Workers /\ q \in Editing => editor[a] \in Editing /\ s = paths[a],
         a \in Workers /\ q = "replace" => read'[a] = file[Head(paths[a])]
  PROVE  HunkInv'
<1>1. /\ EditTyped' /\ editor'[a] = q /\ paths'[a] = s
      /\ \A b \in Edits!Agents : b # a => editor'[b] = editor[b] /\ paths'[b] = paths[b]
  BY OthersStay DEF HunkInv, EditTyped
<1>2. \A w \in Workers : Holds(w)'
  BY <1>1, Kinds DEF HunkInv, Holds
<1>3. \A w \in Workers : AsRead(w)'
  <2> TAKE w \in Workers
  <2>1. CASE w = a
    BY <1>1, <2>1 DEF AsRead, Editing
  <2>2. CASE w # a
    BY <1>1, <2>2, Kinds DEF HunkInv, AsRead
  <2> QED BY <2>1, <2>2
<1> QED BY <1>1, <1>2, <1>3 DEF HunkInv

\* Nobody else is in the middle of a hunk of a file that a worker changes, and whoever
\* is in one of a file that a turn changes is overtaken.
LEMMA ChangesOne ==
  ASSUME HunkInv, NEW a \in Edits!Agents, editor[a] \in Editing,
         NEW q \in Places \ {"replace"}, NEW s \in Seq(Files), NEW new,
         editor' = [editor EXCEPT ![a] = q], paths' = [paths EXCEPT ![a] = s],
         q \in Calling => s # <<>>,
         q \in Editing => \A i \in DOMAIN s : \E j \in DOMAIN paths[a] : s[i] = paths[a][j],
         file' = [file EXCEPT ![Head(paths[a])] = new],
         Edits!Changes(a, Head(paths[a])), UNCHANGED holder,
         DOMAIN read' = Edits!Agents, \A b \in Edits!Agents : b # a => read'[b] = read[b]
  PROVE  HunkInv'
<1>1. /\ EditTyped' /\ editor'[a] = q /\ paths'[a] = s
      /\ \A b \in Edits!Agents : b # a => editor'[b] = editor[b] /\ paths'[b] = paths[b]
  BY OthersStay DEF HunkInv, EditTyped
<1>2. \A w \in Workers : Holds(w)'
  <2> TAKE w \in Workers
  <2>1. CASE w = a
    BY <1>1, <2>1 DEF HunkInv, Holds
  <2>2. CASE w # a
    BY <1>1, <2>2, Kinds DEF HunkInv, Holds
  <2> QED BY <2>1, <2>2
<1>3. \A w \in Workers : AsRead(w)'
  <2> SUFFICES ASSUME NEW w \in Workers, w # a, editor[w] = "replace", w \notin overtaken'
               PROVE  file'[Head(paths[w])] = read[w]
    BY <1>1, Kinds DEF AsRead
  <2>1. /\ Head(paths[w]) \in Files /\ Head(paths[a]) \in Files
        /\ 1 \in DOMAIN paths[w] /\ Head(paths[w]) = paths[w][1]
        /\ 1 \in DOMAIN paths[a] /\ Head(paths[a]) = paths[a][1]
    BY FirstPath, Kinds DEF HunkInv, Calling, Editing
  <2>2. w \notin overtaken /\ Head(paths[w]) # Head(paths[a])
    <3>1. CASE a \in Workers
      <4>1. overtaken' = overtaken \ {a}
        BY <3>1 DEF Edits!Changes
      <4>2. holder[paths[w][1]] = w /\ holder[paths[a][1]] = a
        BY <2>1, <3>1 DEF HunkInv, Holds, Editing
      <4> QED BY <2>1, <4>1, <4>2
    <3>2. CASE a \notin Workers
      <4>1. overtaken' = overtaken \union {v \in Workers : editor[v] = "replace"
                                                   /\ Head(paths[v]) = Head(paths[a])}
        BY <3>2 DEF Edits!Changes
      <4> QED BY <4>1
    <3> QED BY <3>1, <3>2
  <2>3. file'[Head(paths[w])] = file[Head(paths[w])]
    BY <2>1, <2>2 DEF HunkInv, EditTyped
  <2> QED BY <2>2, <2>3 DEF HunkInv, AsRead
<1> QED BY <1>1, <1>2, <1>3 DEF HunkInv

\* Return, without what it does to the counters of the call.
LEMMA Returns ==
  ASSUME EditTyped, NEW a \in Edits!Agents, Edits!Return(a)
  PROVE  /\ editor' = [editor EXCEPT ![a] = "idle"] /\ paths' = [paths EXCEPT ![a] = <<>>]
         /\ DOMAIN read' = Edits!Agents
         /\ \A b \in Edits!Agents : b # a => read'[b] = read[b]
         /\ <<>> \in Seq(Files) /\ "idle" \in Places /\ "idle" \notin Calling
BY DEF Edits!Return, Edits!Goto, EditTyped, Places, Calling, Editing

LEMMA SamePaths ==
  ASSUME EditTyped, NEW a \in Edits!Agents, UNCHANGED paths
  PROVE  paths' = [paths EXCEPT ![a] = paths[a]] /\ paths[a] \in Seq(Files)
BY DEF EditTyped

LEMMA AgentHunks ==
  ASSUME HunkInv, NEW a \in Edits!Agents,
         \/ Edits!Call(a) \/ Edits!Denied(a) \/ Edits!AppendText(a) \/ Edits!ReadHunk(a)
         \/ Edits!Truncate(a) \/ Edits!Fill(a)
  PROVE  HunkInv'
<1>0. EditTyped
  BY DEF HunkInv
<1>1. CASE Edits!Call(a)
  <2>1. PICK p \in Edits!Patches :
          /\ paths' = [paths EXCEPT ![a] = p] /\ \E c : read' = [read EXCEPT ![a] = c]
          /\ editor' = [editor EXCEPT ![a] = "approval"] /\ UNCHANGED <<file, holder, overtaken>>
    BY <1>1 DEF Edits!Call, Edits!Goto, Edits!history
  <2>2. p \in Seq(Files) /\ p # <<>> /\ "approval" \in Places /\ "approval" \notin Editing
    BY PatchPaths DEF Places, Editing
  <2>3. /\ DOMAIN read' = Edits!Agents
        /\ \A b \in Edits!Agents : b # a => read'[b] = read[b]
    BY <1>0, <2>1 DEF EditTyped
  <2> QED BY <2>1, <2>2, <2>3, Looks DEF Editing
<1>2. CASE Edits!Denied(a)
  <2>1. Edits!Return(a) /\ UNCHANGED <<file, holder, overtaken>>
    BY <1>2 DEF Edits!Denied, Edits!history
  <2> QED BY <1>0, <2>1, Returns, Looks DEF Calling, Editing
<1>3. CASE Edits!AppendText(a)
  <2>1. PICK new : file' = [file EXCEPT ![Head(paths[a])] = new]
    BY <1>3 DEF Edits!AppendText
  <2>2. /\ editor[a] \in Editing /\ Edits!Changes(a, Head(paths[a])) /\ Edits!Return(a)
        /\ UNCHANGED holder
    BY <1>3 DEF Edits!AppendText, Editing
  <2>3. "idle" \in Places \ {"replace"} /\ "idle" \notin Editing
    BY DEF Places, Editing
  <2> QED BY <1>0, <2>1, <2>2, <2>3, Returns, ChangesOne
<1>4. CASE Edits!ReadHunk(a)
  <2>1. editor[a] = "change" /\ UNCHANGED <<file, holder, overtaken>>
    BY <1>4 DEF Edits!ReadHunk, Edits!history
  <2>2. CASE Edits!Return(a)
    BY <1>0, <2>1, <2>2, Returns, Looks DEF Calling, Editing
  <2>3. CASE /\ read' = [read EXCEPT ![a] = file[Head(paths[a])]]
             /\ Edits!Goto(a, "replace") /\ UNCHANGED paths
    <3>1. /\ DOMAIN read' = Edits!Agents /\ read'[a] = file[Head(paths[a])]
          /\ \A b \in Edits!Agents : b # a => read'[b] = read[b]
      BY <1>0, <2>3 DEF EditTyped
    <3>2. /\ editor' = [editor EXCEPT ![a] = "replace"] /\ paths[a] # <<>>
          /\ "replace" \in Places /\ editor[a] \in Editing
      BY <1>0, <2>1, <2>3 DEF Edits!Goto, EditTyped, Places, Editing, Calling
    <3> QED BY <1>0, <2>1, <2>3, <3>1, <3>2, SamePaths, Looks
  <2> QED BY <1>4, <2>2, <2>3 DEF Edits!ReadHunk
<1>5. CASE Edits!Truncate(a)
  <2>1. /\ editor[a] \in Editing /\ editor' = [editor EXCEPT ![a] = "fill"]
        /\ file' = [file EXCEPT ![Head(paths[a])] = {}] /\ Edits!Changes(a, Head(paths[a]))
        /\ UNCHANGED <<paths, holder>> /\ (UNCHANGED read \/ read' = [read EXCEPT ![a] = {}])
    BY <1>5 DEF Edits!Truncate, Edits!Goto, Editing
  <2>2. /\ DOMAIN read' = Edits!Agents
        /\ \A b \in Edits!Agents : b # a => read'[b] = read[b]
    BY <1>0, <2>1 DEF EditTyped
  <2>3. "fill" \in Places \ {"replace"} /\ paths[a] # <<>>
    BY <1>0, <2>1 DEF Places, Calling, EditTyped
  <2>4. paths' = [paths EXCEPT ![a] = paths[a]] /\ paths[a] \in Seq(Files)
    BY <1>0, <2>1, SamePaths
  <2>5. \A i \in DOMAIN paths[a] : \E j \in DOMAIN paths[a] : paths[a][i] = paths[a][j]
    OBVIOUS
  <2>6. PICK q \in Places \ {"replace"}, p \in Seq(Files), new \in {{}} :
          /\ q = "fill" /\ p = paths[a]
    BY <2>3, <2>4
  <2>7. /\ editor' = [editor EXCEPT ![a] = q] /\ paths' = [paths EXCEPT ![a] = p]
        /\ p # <<>> /\ file' = [file EXCEPT ![Head(paths[a])] = new]
        /\ \A i \in DOMAIN p : \E j \in DOMAIN paths[a] : p[i] = paths[a][j]
    BY <2>1, <2>3, <2>4, <2>5, <2>6
  <2>8. editor[a] \in Editing /\ Edits!Changes(a, Head(paths[a])) /\ UNCHANGED holder
    BY <2>1
  <2> QED BY <2>2, <2>7, <2>8, ChangesOne
<1>6. CASE Edits!Fill(a)
  <2>1. PICK new : file' = [file EXCEPT ![Head(paths[a])] = new]
    BY <1>6 DEF Edits!Fill
  <2>2. editor[a] \in Editing /\ Edits!Changes(a, Head(paths[a])) /\ UNCHANGED holder
    BY <1>6 DEF Edits!Fill, Editing
  <2>3. CASE Edits!Return(a)
    <3>1. "idle" \in Places \ {"replace"} /\ "idle" \notin Editing
      BY DEF Places, Editing
    <3> QED BY <1>0, <2>1, <2>2, <2>3, <3>1, Returns, ChangesOne
  <2>4. CASE /\ Len(paths[a]) # 1 /\ Edits!Goto(a, "change")
             /\ paths' = [paths EXCEPT ![a] = Tail(@)] /\ UNCHANGED read
    <3>1. /\ Tail(paths[a]) \in Seq(Files) /\ Tail(paths[a]) # <<>>
          /\ \A i \in DOMAIN Tail(paths[a]) :
               \E j \in DOMAIN paths[a] : Tail(paths[a])[i] = paths[a][j]
      BY <1>0, <2>2, <2>4, FirstPath DEF Calling
    <3>2. /\ editor' = [editor EXCEPT ![a] = "change"] /\ "change" \in Places \ {"replace"}
          /\ paths' = [paths EXCEPT ![a] = Tail(paths[a])]
          /\ DOMAIN read' = Edits!Agents /\ \A b \in Edits!Agents : b # a => read'[b] = read[b]
      BY <1>0, <2>4 DEF Edits!Goto, Places, EditTyped
    <3> QED BY <2>1, <2>2, <3>1, <3>2, ChangesOne
  <2> QED BY <1>6, <2>3, <2>4 DEF Edits!Fill
<1> QED BY <1>1, <1>2, <1>3, <1>4, <1>5, <1>6

LEMMA WorkerHunks ==
  ASSUME HunkInv, NEW w \in Workers,
         Edits!ExitWorker(w) \/ Edits!LeaseGranted(w) \/ Edits!LeaseRefused(w)
  PROVE  HunkInv'
<1>0. EditTyped /\ w \in Edits!Agents
  BY Kinds DEF HunkInv
<1>1. CASE Edits!LeaseRefused(w)
  <2>1. Edits!Return(w) /\ UNCHANGED <<file, holder, overtaken>>
    BY <1>1 DEF Edits!LeaseRefused, Edits!history
  <2> QED BY <1>0, <2>1, Returns, Looks DEF Calling, Editing
<1>2. CASE Edits!LeaseGranted(w)
  <2>1. /\ editor[w] = "approval" /\ editor' = [editor EXCEPT ![w] = "change"]
        /\ Edits!Leases!Acquire(w, Edits!ToSet(paths[w]))
        /\ UNCHANGED <<file, read, paths, overtaken>>
    BY <1>2 DEF Edits!LeaseGranted, Edits!Goto, Edits!history, Edits!callVars
  <2>2. paths[w] # <<>> /\ paths[w] \in Seq(Files) /\ "change" \in Places
    BY <1>0, <2>1 DEF EditTyped, Calling, Places
  <2>3. /\ \A i \in DOMAIN paths[w] : holder[paths[w][i]] \in {Nobody, w}
        /\ holder' = [f \in Files |-> IF f \in Edits!ToSet(paths[w]) THEN w ELSE holder[f]]
    BY <2>1 DEF Edits!Leases!Acquire, Edits!ToSet
  <2>4. /\ EditTyped' /\ editor'[w] = "change"
        /\ \A b \in Edits!Agents : b # w => editor'[b] = editor[b]
    BY <1>0, <2>1, <2>2, <2>3, SamePaths, OthersStay DEF EditTyped
  <2>5. \A v \in Workers : Holds(v)'
    <3> SUFFICES ASSUME NEW v \in Workers, editor'[v] \in Editing, NEW i \in DOMAIN paths[v]
                 PROVE  holder'[paths[v][i]] = v
      BY <2>1 DEF Holds
    <3>1. paths[v][i] \in Files
      BY <1>0, Kinds DEF EditTyped
    <3>2. CASE v = w
      BY <2>3, <3>1, <3>2 DEF Edits!ToSet
    <3>3. CASE v # w
      <4>1. holder[paths[v][i]] = v
        BY <2>4, <3>3, Kinds DEF HunkInv, Holds
      <4>2. paths[v][i] \notin Edits!ToSet(paths[w])
        BY <2>3, <3>3, <4>1, Kinds DEF Edits!ToSet
      <4> QED BY <2>3, <3>1, <4>1, <4>2
    <3> QED BY <3>2, <3>3
  <2>6. \A v \in Workers : AsRead(v)'
    BY <2>1, <2>4, Kinds DEF HunkInv, AsRead
  <2> QED BY <2>4, <2>5, <2>6 DEF HunkInv
<1>3. CASE Edits!ExitWorker(w)
  <2>1. /\ editor' = [editor EXCEPT ![w] = "over"] /\ UNCHANGED <<file, read, paths, overtaken>>
        /\ holder' = [f \in Files |-> IF f \in Files /\ holder[f] = w THEN Nobody ELSE holder[f]]
    BY <1>3 DEF Edits!ExitWorker, Edits!Goto, Edits!history, Edits!callVars, Edits!Leases!Release
  <2>2. "over" \in Places /\ "over" \notin Calling
    BY DEF Places, Calling, Editing
  <2>3. /\ EditTyped' /\ editor'[w] = "over"
        /\ \A b \in Edits!Agents : b # w => editor'[b] = editor[b]
    BY <1>0, <2>1, <2>2, SamePaths, OthersStay DEF EditTyped
  <2>4. \A v \in Workers : Holds(v)'
    <3> SUFFICES ASSUME NEW v \in Workers, editor'[v] \in Editing, NEW i \in DOMAIN paths[v]
                 PROVE  holder'[paths[v][i]] = v
      BY <2>1 DEF Holds
    <3>1. paths[v][i] \in Files /\ v # w
      BY <1>0, <2>3, Kinds DEF EditTyped, Editing
    <3>2. holder[paths[v][i]] = v
      BY <2>3, <3>1, Kinds DEF HunkInv, Holds
    <3> QED BY <2>1, <3>1, <3>2
  <2>5. \A v \in Workers : AsRead(v)'
    BY <2>1, <2>3, Kinds DEF HunkInv, AsRead
  <2> QED BY <2>3, <2>4, <2>5 DEF HunkInv
<1> QED BY <1>1, <1>2, <1>3

LEMMA TurnHunks ==
  ASSUME HunkInv, NEW t \in Owners,
         \/ Edits!BeginTurn(t) \/ Edits!Create(t) \/ Edits!EndTurn(t) \/ Edits!Approved(t)
         \/ Edits!Snapshot(t) \/ Edits!WriteManifest(t) \/ Edits!Rewind(t)
  PROVE  HunkInv'
<1>0. EditTyped /\ t \in Edits!Agents /\ t \notin Workers
  BY Kinds DEF HunkInv
<1>1. CASE ~Edits!Rewind(t)
  <2>1. PICK q \in Places : /\ editor' = [editor EXCEPT ![t] = q]
                            /\ q \in Calling => editor[t] \in Calling
    BY <1>1 DEF Edits!BeginTurn, Edits!Create, Edits!EndTurn, Edits!Approved, Edits!Snapshot,
                Edits!WriteManifest, Edits!Goto, Places, Calling, Editing
  <2>2. UNCHANGED <<file, read, paths, holder, overtaken>>
    BY <1>1 DEF Edits!BeginTurn, Edits!Create, Edits!EndTurn, Edits!Approved, Edits!Snapshot,
                Edits!WriteManifest, Edits!history, Edits!callVars
  <2>3. ASSUME q \in Calling PROVE paths[t] # <<>>
    <3>1. editor[t] \in Calling
      BY <2>1, <2>3
    <3> QED BY <1>0, <3>1 DEF EditTyped
  <2>4. DOMAIN read' = Edits!Agents /\ \A b \in Edits!Agents : b # t => read'[b] = read[b]
    BY <1>0, <2>2 DEF EditTyped
  <2>5. paths' = [paths EXCEPT ![t] = paths[t]] /\ paths[t] \in Seq(Files)
    BY <1>0, <2>2, SamePaths
  <2> QED BY <1>0, <2>1, <2>2, <2>3, <2>4, <2>5, Looks
<1>2. CASE Edits!Rewind(t)
  <2>1. /\ file' = Edits!RestoredBy(t) /\ UNCHANGED <<editor, paths, read, holder>>
        /\ overtaken' = overtaken \union {w \in Workers : /\ editor[w] = "replace"
                                   /\ \E f \in {Head(paths[w])} : file'[f] # file[f]}
    BY <1>2 DEF Edits!Rewind, Edits!callVars
  <2>2. DOMAIN file' = Files
    BY <2>1 DEF Edits!RestoredBy
  <2>3. EditTyped' /\ \A w \in Workers : Holds(w)'
    BY <2>1, <2>2 DEF HunkInv, EditTyped, Holds
  <2>4. \A w \in Workers : AsRead(w)'
    BY <2>1 DEF HunkInv, AsRead
  <2> QED BY <2>3, <2>4 DEF HunkInv
<1> QED BY <1>1, <1>2

LEMMA CrashHunks == ASSUME HunkInv, Edits!Crash PROVE HunkInv'
<1> DEFINE lost(a) == a \in Owners /\ Edits!Live(a)
<1>1. /\ editor' = [a \in Edits!Agents |-> IF lost(a) THEN "over" ELSE editor[a]]
      /\ paths' = [a \in Edits!Agents |-> IF lost(a) THEN <<>> ELSE paths[a]]
      /\ read' = [a \in Edits!Agents |-> IF lost(a) THEN {} ELSE read[a]]
      /\ UNCHANGED <<file, holder, overtaken>>
  BY DEF Edits!Crash
<1>2. \A w \in Workers : /\ editor'[w] = editor[w] /\ paths'[w] = paths[w]
                         /\ read'[w] = read[w]
  BY <1>1, Kinds
<1> HIDE DEF lost
<1>3. EditTyped'
  BY <1>1 DEF HunkInv, EditTyped, Places, Calling, Editing
<1>4. \A w \in Workers : Holds(w)' /\ AsRead(w)'
  BY <1>1, <1>2 DEF HunkInv, Holds, AsRead
<1> QED BY <1>3, <1>4 DEF HunkInv

LEMMA HunkStep == HunkInv /\ Edits!Next => HunkInv'
BY AgentHunks, WorkerHunks, TurnHunks, CrashHunks DEF Edits!Next

LEMMA HunksBegin == Edits!Init => HunkInv
<1> SUFFICES ASSUME Edits!Init PROVE HunkInv
  OBVIOUS
<1>1. EditTyped
  BY DEF Edits!Init, Edits!Leases!Init, EditTyped, Places, Calling, Editing
<1>2. \A w \in Workers : editor[w] = "idle"
  BY Kinds DEF Edits!Init
<1> QED BY <1>1, <1>2 DEF HunkInv, Holds, AsRead, Editing

LEMMA HunksRest == HunkInv /\ UNCHANGED editVars => HunkInv'
BY DEF HunkInv, EditTyped, Holds, AsRead, editVars

\* For any number of workers, turns and files: what a worker's patch has read of a file is
\* what it replaces, unless a turn, which takes no lease, or a rewind changes the file.
THEOREM LeasesKeepWhatWasRead == MCSpec => []LeaseKeepsWhatWasRead
<1>1. MCInit => HunkInv
  BY HunksBegin DEF MCInit
<1>2. HunkInv => LeaseKeepsWhatWasRead
  BY DEF HunkInv, AsRead, Edits!LeaseKeepsWhatWasRead, LeaseKeepsWhatWasRead
<1>3. HunkInv /\ UNCHANGED editVars => HunkInv'
  BY HunksRest
<1>4. HunkInv /\ [MCNext]_<<part, vars, chatVars, editVars, mailVars, screenVars>> => HunkInv'
  BY <1>3, HunkStep DEF MCNext
<1> QED BY <1>1, <1>2, <1>4, PTL DEF MCSpec

---------------------------------------------------------------------------
(* Rewind *)

\* The turn has run alone so far, and a file is still as it or nobody has changed it.
Alone(t) == \E f \in Files : start[t][f] # Edits!Foreign
Running(t) == editor[t] \in {"idle"} \union Calling

Found(t, f, c) == start[t][f] \in {c, Edits!Foreign}
BackedUp(t, entries) == \A n \in DOMAIN entries : Found(t, entries[n], copies[t][n])
InFiles(t) == \A f \in Files \ Edits!ToSet(manifest[t]) : Found(t, f, file[f])
Distinct(entries) == \A m, n \in DOMAIN entries : entries[m] = entries[n] => m = n

StoreTyped ==
    /\ listed \in Seq(Owners)
    /\ target \in [Edits!Agents -> Owners \union {Nobody}]
    /\ taken \in [Edits!Agents -> Seq(Files)]
    /\ manifest \in [Owners -> Seq(Files)]
    /\ DOMAIN copies = Owners
    /\ \A t \in Owners : DOMAIN copies[t] = 1..Cardinality(Files)
    /\ DOMAIN start = Owners /\ \A t \in Owners : DOMAIN start[t] = Files

\* Who is where: one turn runs alone, or none does.
AloneInv ==
    /\ active # Nobody => active \in Owners /\ Running(active)
    /\ \A t, u \in Owners : t # u /\ Edits!Live(t) /\ Edits!Live(u) => ~Alone(t)
    /\ \A t \in Owners : Alone(t) /\ Running(t) => active = t /\ t \in Edits!ToSet(listed)
    /\ \A t \in Owners : editor[t] = "away" =>
         ~Alone(t) /\ manifest[t] = <<>> /\ \A u \in Owners : target[u] # t
    /\ \A t, u \in Owners : target[u] = t /\ t # u => ~Alone(t)
    /\ \A t \in Owners : editor[t] = "record" => target[t] \in Owners

\* What the checkpoint of a turn that has run alone holds.
Complete(t) ==
    /\ Distinct(manifest[t])
    /\ editor[t] = "record" =>
         /\ target[t] = t /\ BackedUp(t, taken[t]) /\ Distinct(taken[t])
         /\ Edits!ToSet(manifest[t]) \subseteq Edits!ToSet(taken[t])
         /\ Edits!ToSet(paths[t]) \subseteq Edits!ToSet(taken[t])
    /\ editor[t] \in Editing => Edits!ToSet(paths[t]) \subseteq Edits!ToSet(manifest[t])

BackupInv ==
    \A t \in Owners \ torn :
      /\ BackedUp(t, manifest[t]) /\ InFiles(t)
      /\ Alone(t) => Complete(t)

RewindInv == StoreTyped /\ AloneInv /\ BackupInv

\* Histories only lose what they hold, but where a turn begins.
Fades == \A t \in Owners, f \in Files : start'[t][f] \in {start[t][f], Edits!Foreign}

LEMMA FadesAlone == ASSUME Fades, NEW t \in Owners PROVE Alone(t)' => Alone(t)
BY DEF Fades, Alone, Edits!Foreign

LEMMA FadesFound ==
  ASSUME Fades, NEW t \in Owners, NEW f \in Files, NEW c, Found(t, f, c)
  PROVE  start'[t][f] \in {c, Edits!Foreign}
BY DEF Fades, Found, Edits!Foreign

LEMMA FadesBackedUp ==
  ASSUME Fades, NEW t \in Owners, NEW p \in Seq(Files), BackedUp(t, p), copies'[t] = copies[t]
  PROVE  BackedUp(t, p)'
<1> SUFFICES ASSUME NEW n \in DOMAIN p PROVE start'[t][p[n]] \in {copies[t][n], Edits!Foreign}
  BY DEF BackedUp, Found, Edits!Foreign
<1>1. p[n] \in Files
  OBVIOUS
<1> QED BY <1>1, FadesFound DEF BackedUp

\* A step of a in which its checkpoint, and every other, is left alone.
LEMMA Works ==
  ASSUME RewindInv, StoreTyped', NEW a,
         UNCHANGED <<active, listed, manifest, copies, torn>>, Fades,
         \A u \in Owners : u # a => /\ editor'[u] = editor[u] /\ paths'[u] = paths[u]
                                   /\ target'[u] = target[u] /\ taken'[u] = taken[u],
         a \in Owners => /\ Running(a) /\ Running(a)' /\ editor'[a] # "record"
                         /\ target'[a] \in {target[a], Nobody}
                         /\ a \notin torn /\ Alone(a) /\ editor'[a] \in Editing =>
                              Edits!ToSet(paths'[a]) \subseteq Edits!ToSet(manifest[a]),
         \A t \in Owners \ torn : InFiles(t)'
  PROVE  RewindInv'
<1>1. AloneInv'
  <2>1. \A t \in Owners : (Running(t)' <=> Running(t)) /\ (Edits!Live(t)' <=> Edits!Live(t))
    BY DEF Running, Edits!Live, Calling, Editing
  <2>2. \A t \in Owners : target'[t] \in {target[t], Nobody}
    OBVIOUS
  <2>3. \A t \in Owners : Alone(t)' => Alone(t)
    BY FadesAlone
  <2>4. \A t \in Owners : editor'[t] = "away" => editor[t] = "away"
    BY DEF Running, Calling, Editing
  <2>5. Nobody \notin Owners
    BY EditsAssumption
  <2>6. \A t \in Owners : editor'[t] = "record" => t # a
    OBVIOUS
  <2> QED BY <2>1, <2>2, <2>3, <2>4, <2>5, <2>6 DEF RewindInv, AloneInv
<1>2. BackupInv'
  <2> SUFFICES ASSUME NEW t \in Owners \ torn
               PROVE  BackedUp(t, manifest[t])' /\ (Alone(t)' => Complete(t)')
    BY DEF BackupInv
  <2>1. BackedUp(t, manifest[t])'
    <3>1. BackedUp(t, manifest[t]) /\ manifest[t] \in Seq(Files)
      BY DEF RewindInv, StoreTyped, BackupInv
    <3> QED BY <3>1, FadesBackedUp DEF BackedUp
  <2>2. ASSUME Alone(t)' PROVE Complete(t)'
    <3>1. Alone(t) /\ Complete(t)
      BY <2>2, FadesAlone DEF RewindInv, BackupInv
    <3>2. CASE t = a
      BY <3>1, <3>2 DEF Complete, Distinct
    <3>3. CASE t # a
      <4>1. ASSUME editor[t] = "record" PROVE BackedUp(t, taken[t])'
        <5>1. BackedUp(t, taken[t]) /\ taken[t] \in Seq(Files) /\ taken'[t] = taken[t]
          BY <3>1, <3>3, <4>1 DEF Complete, RewindInv, StoreTyped, Edits!Agents
        <5> QED BY <5>1, FadesBackedUp DEF BackedUp
      <4> QED BY <3>1, <3>3, <4>1 DEF Complete, Distinct
    <3> QED BY <3>2, <3>3
  <2> QED BY <2>1, <2>2
<1> QED BY <1>1, <1>2 DEF RewindInv

\* A step that changes no file, no history and no checkpoint.
LEMMA Idles ==
  ASSUME RewindInv, NEW a \in Edits!Agents, NEW q, NEW s, NEW u, NEW k \in Seq(Files),
         UNCHANGED <<active, listed, manifest, copies, torn, start, file>>,
         editor' = [editor EXCEPT ![a] = q], paths' = [paths EXCEPT ![a] = s],
         target' = [target EXCEPT ![a] = u], taken' = [taken EXCEPT ![a] = k],
         u \in {target[a], Nobody},
         a \in Owners => /\ Running(a) /\ q \in {"idle"} \union (Calling \ {"record"})
                         /\ q \in Editing => editor[a] \in Editing /\ s = paths[a],
         EditTyped
  PROVE  RewindInv'
<1>1. /\ editor'[a] = q /\ paths'[a] = s /\ target'[a] = u
      /\ \A b \in Edits!Agents \ {a} :
           /\ editor'[b] = editor[b] /\ paths'[b] = paths[b]
           /\ target'[b] = target[b] /\ taken'[b] = taken[b]
  BY DEF EditTyped, RewindInv, StoreTyped
<1>2. StoreTyped'
  BY DEF RewindInv, StoreTyped
<1>3. Fades
  BY DEF Fades
<1>4. \A t \in Owners \ torn : InFiles(t)'
  BY DEF RewindInv, BackupInv, InFiles, Found
<1>5. a \in Owners => Running(a)' /\ editor'[a] # "record"
  BY <1>1 DEF Running, Calling, Editing
<1>6. ASSUME a \in Owners \ torn, Alone(a), editor'[a] \in Editing
      PROVE  Edits!ToSet(paths'[a]) \subseteq Edits!ToSet(manifest[a])
  BY <1>1, <1>6 DEF RewindInv, BackupInv, Complete
<1> QED BY <1>1, <1>2, <1>3, <1>4, <1>5, <1>6, Kinds, Works

\* A step of a that changes the file it is at.
LEMMA Edited ==
  ASSUME RewindInv, NEW a \in Edits!Agents, editor[a] \in Editing,
         NEW q \in {"idle"} \union Editing, NEW s \in Seq(Files), NEW u, NEW k \in Seq(Files), NEW new,
         UNCHANGED <<active, listed, manifest, copies, torn>>,
         editor' = [editor EXCEPT ![a] = q], paths' = [paths EXCEPT ![a] = s],
         target' = [target EXCEPT ![a] = u], taken' = [taken EXCEPT ![a] = k],
         u \in {target[a], Nobody},
         \A i \in DOMAIN s : \E j \in DOMAIN paths[a] : s[i] = paths[a][j],
         file' = [file EXCEPT ![Head(paths[a])] = new],
         Edits!Changes(a, Head(paths[a])),
         EditTyped
  PROVE  RewindInv'
<1>1. /\ editor'[a] = q /\ paths'[a] = s /\ target'[a] = u
      /\ \A b \in Edits!Agents \ {a} :
           /\ editor'[b] = editor[b] /\ paths'[b] = paths[b]
           /\ target'[b] = target[b] /\ taken'[b] = taken[b]
  BY DEF EditTyped, RewindInv, StoreTyped
<1>2. /\ Head(paths[a]) \in Files /\ 1 \in DOMAIN paths[a] /\ Head(paths[a]) = paths[a][1]
  BY FirstPath DEF Calling
<1>3. start' = [t \in Owners |-> IF t = a THEN start[t]
                                ELSE [start[t] EXCEPT ![Head(paths[a])] = Edits!Foreign]]
  BY DEF Edits!Changes
<1>4. StoreTyped'
  BY <1>3 DEF RewindInv, StoreTyped
<1>5. Fades
  BY <1>3 DEF Fades, RewindInv, StoreTyped
<1>6. ASSUME a \in Owners \ torn, Alone(a)
      PROVE  Edits!ToSet(paths[a]) \subseteq Edits!ToSet(manifest[a])
  BY <1>6 DEF RewindInv, BackupInv, Complete
<1>7. \A t \in Owners \ torn : InFiles(t)'
  <2> SUFFICES ASSUME NEW t \in Owners \ torn, NEW f \in Files \ Edits!ToSet(manifest[t])
               PROVE  start'[t][f] \in {file'[f], Edits!Foreign}
    BY DEF InFiles, Found, Edits!Foreign
  <2>1. start[t][f] \in {file[f], Edits!Foreign}
    BY DEF RewindInv, BackupInv, InFiles, Found
  <2>2. CASE f # Head(paths[a])
    BY <2>1, <2>2, <1>5, <1>2 DEF Fades, EditTyped
  <2>3. CASE f = Head(paths[a]) /\ t # a
    BY <1>3, <2>3 DEF RewindInv, StoreTyped
  <2>4. CASE f = Head(paths[a]) /\ t = a
    <3>1. f \in Edits!ToSet(paths[a])
      BY <1>2, <2>4 DEF Edits!ToSet
    <3>2. ~Alone(a)
      BY <1>6, <2>4, <3>1
    <3> QED BY <1>5, <2>4, <3>2 DEF Alone, Fades
  <2> QED BY <2>2, <2>3, <2>4
<1>8. a \in Owners => Running(a) /\ Running(a)' /\ editor'[a] # "record"
  BY <1>1 DEF Running, Calling, Editing
<1>9. ASSUME a \in Owners \ torn, Alone(a)
      PROVE  Edits!ToSet(paths'[a]) \subseteq Edits!ToSet(manifest[a])
  <2>1. Edits!ToSet(s) \subseteq Edits!ToSet(paths[a])
    BY DEF Edits!ToSet
  <2> QED BY <1>1, <1>6, <1>9, <2>1
<1> QED BY <1>1, <1>4, <1>5, <1>7, <1>8, <1>9, Kinds, Works

\* What a step that leaves a variable of the call alone does to it.
LEMMA SameCall ==
  ASSUME RewindInv, NEW a \in Edits!Agents, UNCHANGED <<target, taken>>
  PROVE  /\ target' = [target EXCEPT ![a] = target[a]]
         /\ taken' = [taken EXCEPT ![a] = taken[a]] /\ taken[a] \in Seq(Files)
BY DEF RewindInv, StoreTyped

LEMMA ReturnsKeeping ==
  ASSUME RewindInv, EditTyped, NEW a \in Edits!Agents, Edits!Return(a), a \in Owners => Running(a),
         UNCHANGED <<active, listed, manifest, copies, torn, start, file>>
  PROVE  RewindInv'
<1>1. /\ editor' = [editor EXCEPT ![a] = "idle"] /\ paths' = [paths EXCEPT ![a] = <<>>]
      /\ target' = [target EXCEPT ![a] = Nobody] /\ taken' = [taken EXCEPT ![a] = <<>>]
      /\ <<>> \in Seq(Files) /\ "idle" \notin Editing
  BY DEF Edits!Return, Edits!Goto, Editing
<1> QED BY <1>1, Idles

LEMMA AgentRewinds ==
  ASSUME RewindInv, EditTyped, NEW a \in Edits!Agents,
         \/ Edits!Call(a) \/ Edits!Denied(a) \/ Edits!AppendText(a) \/ Edits!ReadHunk(a)
         \/ Edits!Truncate(a) \/ Edits!Fill(a)
  PROVE  RewindInv'
<1>1. CASE Edits!Call(a)
  <2>1. PICK p \in Edits!Patches :
          /\ paths' = [paths EXCEPT ![a] = p] /\ editor' = [editor EXCEPT ![a] = "approval"]
          /\ editor[a] = "idle"
          /\ UNCHANGED <<file, active, listed, manifest, copies, torn, start, target, taken>>
    BY <1>1 DEF Edits!Call, Edits!Goto, Edits!history, Edits!storeVars
  <2>2. Running(a) /\ "approval" \in Calling \ {"record"} /\ "approval" \notin Editing
    BY <2>1 DEF Running, Calling, Editing
  <2> QED BY <2>1, <2>2, SameCall, Idles
<1>2. CASE Edits!Denied(a)
  <2>1. Edits!Return(a) /\ Running(a)
    BY <1>2 DEF Edits!Denied, Running, Calling
  <2> QED BY <1>2, <2>1, ReturnsKeeping DEF Edits!Denied, Edits!history, Edits!storeVars
<1>3. CASE Edits!AppendText(a)
  <2>1. PICK new : file' = [file EXCEPT ![Head(paths[a])] = new]
    BY <1>3 DEF Edits!AppendText
  <2>2. /\ editor[a] \in Editing /\ Edits!Changes(a, Head(paths[a]))
        /\ UNCHANGED <<active, listed, manifest, copies, torn>>
    BY <1>3 DEF Edits!AppendText, Editing, Edits!storeVars
  <2>3. /\ editor' = [editor EXCEPT ![a] = "idle"] /\ paths' = [paths EXCEPT ![a] = <<>>]
        /\ target' = [target EXCEPT ![a] = Nobody] /\ taken' = [taken EXCEPT ![a] = <<>>]
        /\ <<>> \in Seq(Files) /\ DOMAIN <<>> = {}
    BY <1>3 DEF Edits!AppendText, Edits!Return, Edits!Goto
  <2> QED BY <2>1, <2>2, <2>3, Edited
<1>4. CASE Edits!ReadHunk(a)
  <2>1. /\ editor[a] = "change"
        /\ UNCHANGED <<file, active, listed, manifest, copies, torn, start>>
    BY <1>4 DEF Edits!ReadHunk, Edits!history, Edits!storeVars
  <2>2. Running(a) /\ editor[a] \in Editing /\ "replace" \in Calling \ {"record"}
    BY <2>1 DEF Running, Calling, Editing
  <2>3. CASE Edits!Return(a)
    BY <2>1, <2>2, <2>3, ReturnsKeeping
  <2>4. CASE Edits!Goto(a, "replace") /\ UNCHANGED <<paths, target, taken>>
    <3>1. editor' = [editor EXCEPT ![a] = "replace"]
      BY <2>4 DEF Edits!Goto
    <3>2. /\ target' = [target EXCEPT ![a] = target[a]]
          /\ taken' = [taken EXCEPT ![a] = taken[a]] /\ taken[a] \in Seq(Files)
          /\ paths' = [paths EXCEPT ![a] = paths[a]]
      BY <2>4, SameCall, SamePaths
    <3> QED BY <2>1, <2>2, <3>1, <3>2, Idles
  <2> QED BY <1>4, <2>3, <2>4 DEF Edits!ReadHunk
<1>5. CASE Edits!Truncate(a)
  <2>1. /\ editor[a] \in Editing /\ editor' = [editor EXCEPT ![a] = "fill"]
        /\ UNCHANGED <<paths, target, taken, active, listed, manifest, copies, torn>>
    BY <1>5 DEF Edits!Truncate, Edits!Goto, Editing, Edits!storeVars
  <2>2. PICK new : file' = [file EXCEPT ![Head(paths[a])] = new]
    BY <1>5 DEF Edits!Truncate
  <2>3. Edits!Changes(a, Head(paths[a]))
    BY <1>5 DEF Edits!Truncate
  <2>4. PICK q \in {"idle"} \union Editing, p \in Seq(Files) : q = "fill" /\ p = paths[a]
    BY SamePaths, <2>1 DEF Editing
  <2>5. /\ editor' = [editor EXCEPT ![a] = q] /\ paths' = [paths EXCEPT ![a] = p]
        /\ \A i \in DOMAIN p : \E j \in DOMAIN paths[a] : p[i] = paths[a][j]
    BY <2>1, <2>4, SamePaths
  <2>6. /\ target' = [target EXCEPT ![a] = target[a]]
        /\ taken' = [taken EXCEPT ![a] = taken[a]] /\ taken[a] \in Seq(Files)
    BY <2>1, SameCall
  <2>7. UNCHANGED <<active, listed, manifest, copies, torn>>
    BY <2>1
  <2>8. editor[a] \in Editing
    BY <2>1
  <2>9. PICK u \in {target[a]}, k \in Seq(Files) : k = taken[a]
    BY <2>6
  <2>10. target' = [target EXCEPT ![a] = u] /\ taken' = [taken EXCEPT ![a] = k]
    BY <2>6, <2>9
  <2> QED BY <2>2, <2>3, <2>5, <2>7, <2>8, <2>9, <2>10, Edited
<1>6. CASE Edits!Fill(a)
  <2>1. PICK new : file' = [file EXCEPT ![Head(paths[a])] = new]
    BY <1>6 DEF Edits!Fill
  <2>2. /\ editor[a] \in Editing /\ Edits!Changes(a, Head(paths[a]))
        /\ UNCHANGED <<active, listed, manifest, copies, torn>>
    BY <1>6 DEF Edits!Fill, Editing, Edits!storeVars
  <2>3. CASE Edits!Return(a)
    <3>1. /\ editor' = [editor EXCEPT ![a] = "idle"] /\ paths' = [paths EXCEPT ![a] = <<>>]
          /\ target' = [target EXCEPT ![a] = Nobody] /\ taken' = [taken EXCEPT ![a] = <<>>]
          /\ <<>> \in Seq(Files) /\ DOMAIN <<>> = {}
      BY <2>3 DEF Edits!Return, Edits!Goto
    <3> QED BY <2>1, <2>2, <3>1, Edited
  <2>4. CASE /\ Edits!Goto(a, "change")
             /\ paths' = [paths EXCEPT ![a] = Tail(@)] /\ UNCHANGED <<target, taken>>
    <3>1. /\ Tail(paths[a]) \in Seq(Files)
          /\ \A i \in DOMAIN Tail(paths[a]) :
               \E j \in DOMAIN paths[a] : Tail(paths[a])[i] = paths[a][j]
      BY <2>2, FirstPath DEF Calling
    <3>2. /\ editor' = [editor EXCEPT ![a] = "change"] /\ "change" \in Editing
          /\ paths' = [paths EXCEPT ![a] = Tail(paths[a])]
      BY <2>4 DEF Edits!Goto, Editing, EditTyped
    <3>3. /\ target' = [target EXCEPT ![a] = target[a]]
          /\ taken' = [taken EXCEPT ![a] = taken[a]] /\ taken[a] \in Seq(Files)
      BY <2>4, SameCall
    <3> QED BY <2>1, <2>2, <3>1, <3>2, <3>3, Edited
  <2> QED BY <1>6, <2>3, <2>4 DEF Edits!Fill
<1> QED BY <1>1, <1>2, <1>3, <1>4, <1>5, <1>6

LEMMA WorkerRewinds ==
  ASSUME RewindInv, EditTyped, NEW w \in Workers,
         Edits!ExitWorker(w) \/ Edits!LeaseGranted(w) \/ Edits!LeaseRefused(w)
  PROVE  RewindInv'
<1>0. w \in Edits!Agents /\ w \notin Owners
  BY Kinds
<1>1. CASE Edits!LeaseRefused(w)
  BY <1>0, <1>1, ReturnsKeeping DEF Edits!LeaseRefused, Edits!history, Edits!storeVars
<1>2. CASE Edits!ExitWorker(w) \/ Edits!LeaseGranted(w)
  <2>1. PICK q : editor' = [editor EXCEPT ![w] = q]
    BY <1>2 DEF Edits!ExitWorker, Edits!LeaseGranted, Edits!Goto
  <2>2. UNCHANGED <<paths, target, taken, active, listed, manifest, copies, torn, start, file>>
    BY <1>2 DEF Edits!ExitWorker, Edits!LeaseGranted, Edits!history, Edits!storeVars,
                Edits!callVars
  <2>3. /\ target' = [target EXCEPT ![w] = target[w]]
        /\ taken' = [taken EXCEPT ![w] = taken[w]] /\ taken[w] \in Seq(Files)
        /\ paths' = [paths EXCEPT ![w] = paths[w]]
    BY <1>0, <2>2, SameCall, SamePaths
  <2> QED BY <1>0, <2>1, <2>2, <2>3, Idles
<1> QED BY <1>1, <1>2

\* Nothing is promised of a turn that did not run alone.
LEMMA NothingPromised ==
  ASSUME StoreTyped', NEW t \in Owners, ~Alone(t)'
  PROVE  BackedUp(t, manifest[t])' /\ InFiles(t)'
<1>1. \A f \in Files : start'[t][f] = Edits!Foreign
  BY DEF Alone, Edits!Foreign
<1>2. \A n \in DOMAIN manifest'[t] : manifest'[t][n] \in Files
  BY DEF StoreTyped
<1> QED BY <1>1, <1>2 DEF BackedUp, InFiles, Found, Edits!Foreign

LEMMA EditorAt ==
  ASSUME EditTyped, NEW t \in Owners, NEW q, editor' = [editor EXCEPT ![t] = q]
  PROVE  editor'[t] = q /\ \A u \in Owners : u # t => editor'[u] = editor[u]
BY Kinds DEF EditTyped

LEMMA BeginRewinds ==
  ASSUME RewindInv, EditTyped, NEW t \in Owners, Edits!BeginTurn(t)
  PROVE  RewindInv'
<1> DEFINE others == {u \in Owners : Edits!Live(u)}
<1>1. /\ editor[t] = "away" /\ editor'[t] = "create"
      /\ \A u \in Owners : u # t => editor'[u] = editor[u]
      /\ UNCHANGED <<file, paths, target, taken, active, listed, manifest, copies, torn>>
  BY EditorAt DEF Edits!BeginTurn, Edits!Goto, Edits!callVars, Edits!storeVars
<1>2. start' = [u \in Owners |-> IF u = t /\ others = {} THEN file
                                ELSE IF u \in others \union {t} THEN [f \in Files |-> Edits!Foreign]
                                ELSE start[u]]
  BY DEF Edits!BeginTurn
<1>3. StoreTyped'
  BY <1>1, <1>2 DEF RewindInv, StoreTyped, EditTyped
<1>4. \A u \in others : ~Alone(u)'
  BY <1>2 DEF Alone, Edits!Foreign
<1>5. others # {} => ~Alone(t)'
  BY <1>2 DEF Alone, Edits!Foreign
<1>6. \A u \in Owners \ {t} : u \notin others => start'[u] = start[u]
  BY <1>2
<1>7. \A u \in Owners \ {t} : Edits!Live(u)' <=> u \in others
  BY <1>1 DEF Edits!Live
<1>8. \A u \in Owners : Running(u)' => u \in others
  BY <1>1, <1>7 DEF Running, Edits!Live, Calling, Editing
<1>9. t \notin others /\ ~Running(t) /\ manifest[t] = <<>> /\ \A u \in Owners : target[u] # t
  BY <1>1 DEF Edits!Live, Running, Calling, Editing, RewindInv, AloneInv
<1> HIDE DEF others
<1>10. \A u \in Owners \ {t} : Alone(u)' => Alone(u) /\ u \notin others
  BY <1>4, <1>6 DEF Alone, Edits!Foreign
<1>11. AloneInv'
  <2>1. active' # Nobody => active' \in Owners /\ Running(active)'
    BY <1>1, <1>9 DEF RewindInv, AloneInv, Running
  <2>2. \A v, u \in Owners : v # u /\ Edits!Live(v)' /\ Edits!Live(u)' => ~Alone(v)'
    BY <1>4, <1>5, <1>7
  <2>3. \A u \in Owners : editor'[u] = "away" => u # t /\ editor[u] = "away"
    BY <1>1
  <2>4. \A u \in Owners : editor'[u] = "record" => editor[u] = "record"
    BY <1>1
  <2> QED BY <1>1, <1>4, <1>8, <1>9, <1>10, <2>1, <2>2, <2>3, <2>4 DEF RewindInv, AloneInv
<1>12. BackupInv'
  <2> SUFFICES ASSUME NEW u \in Owners \ torn
               PROVE  BackedUp(u, manifest[u])' /\ InFiles(u)' /\ (Alone(u)' => Complete(u)')
    BY <1>1 DEF BackupInv
  <2>1. CASE u = t
    <3>1. manifest'[t] = <<>> /\ DOMAIN <<>> = {} /\ editor'[t] = "create"
      BY <1>1, <1>9
    <3>2. \A f \in Files : start'[t][f] \in {file[f], Edits!Foreign}
      BY <1>2 DEF EditTyped
    <3> QED BY <1>1, <2>1, <3>1, <3>2 DEF BackedUp, InFiles, Found, Complete, Distinct, Editing,
         Edits!Foreign
  <2>2. CASE u # t /\ u \in others
    BY <1>3, <1>4, <2>2, NothingPromised
  <2>3. CASE u # t /\ u \notin others
    <3>1. /\ start'[u] = start[u] /\ editor'[u] = editor[u]
          /\ editor[u] # "record" /\ editor[u] \notin Editing
      BY <1>1, <1>6, <2>3 DEF others, Edits!Live, Editing
    <3> QED BY <1>1, <3>1 DEF RewindInv, BackupInv, BackedUp, InFiles, Found, Alone, Complete,
         Distinct,
                             Edits!Foreign
  <2> QED BY <2>1, <2>2, <2>3
<1> QED BY <1>3, <1>11, <1>12 DEF RewindInv

LEMMA ListedFirst ==
  ASSUME NEW t \in Owners, NEW s \in Seq(Owners), NEW k \in 1..Len(<<t>> \o s)
  PROVE  /\ SubSeq(<<t>> \o s, 1, k) \in Seq(Owners)
         /\ t \in Edits!ToSet(SubSeq(<<t>> \o s, 1, k))
<1>1. <<t>> \o s \in Seq(Owners) /\ (<<t>> \o s)[1] = t /\ k \in Nat
  OBVIOUS
<1>2. PICK all \in Seq(Owners) : all = <<t>> \o s
  BY <1>1
<1>3. SubSeq(all, 1, k) \in Seq(Owners) /\ DOMAIN SubSeq(all, 1, k) = 1..k
      /\ SubSeq(all, 1, k)[1] = all[1]
  BY <1>1, <1>2, SubSeqProperties
<1>4. PICK some \in Seq(Owners) : some = SubSeq(all, 1, k)
  BY <1>3
<1>5. 1 \in DOMAIN some /\ some[1] = t
  BY <1>1, <1>2, <1>3, <1>4
<1>6. t \in Edits!ToSet(some)
  BY <1>5 DEF Edits!ToSet
<1> QED BY <1>2, <1>4, <1>6

LEMMA CreateRewinds ==
  ASSUME RewindInv, EditTyped, NEW t \in Owners, Edits!Create(t)
  PROVE  RewindInv'
<1>1. /\ editor[t] = "create" /\ editor'[t] = "idle" /\ active' = t
      /\ \A u \in Owners : u # t => editor'[u] = editor[u]
      /\ UNCHANGED <<file, paths, target, taken, manifest, copies, torn, start>>
  BY EditorAt DEF Edits!Create, Edits!Goto, Edits!callVars, Edits!history
<1>2. listed' \in Seq(Owners) /\ t \in Edits!ToSet(listed')
  <2>1. listed \in Seq(Owners) /\ Len(<<t>> \o listed) \in Nat \ {0} /\ Kept \in Nat \ {0}
    BY EditsAssumption DEF RewindInv, StoreTyped
  <2>2. PICK k \in 1..Len(<<t>> \o listed) : listed' = SubSeq(<<t>> \o listed, 1, k)
    BY <2>1 DEF Edits!Create
  <2> QED BY <2>1, <2>2, ListedFirst
<1>3. StoreTyped'
  BY <1>1, <1>2 DEF RewindInv, StoreTyped
<1>4. \A u \in Owners : (Edits!Live(u)' <=> Edits!Live(u)) /\ (Alone(u)' <=> Alone(u))
  BY <1>1 DEF Edits!Live, Alone, Edits!Foreign
<1>5. \A u \in Owners \ {t} : Running(u)' => Edits!Live(u)
  BY <1>1 DEF Edits!Live, Running, Calling, Editing
<1>6. Edits!Live(t) /\ Running(t)'
  BY <1>1 DEF Edits!Live, Running
<1>7. \A u \in Owners : (editor'[u] = "away" => editor[u] = "away")
                        /\ (editor'[u] = "record" => editor[u] = "record")
  BY <1>1
<1>8. AloneInv'
  BY <1>1, <1>2, <1>4, <1>5, <1>6, <1>7 DEF RewindInv, AloneInv
<1>9. BackupInv'
  <2> SUFFICES ASSUME NEW u \in Owners \ torn
               PROVE  BackedUp(u, manifest[u])' /\ InFiles(u)' /\ (Alone(u)' => Complete(u)')
    BY <1>1 DEF BackupInv
  <2>1. /\ editor'[u] = "record" => editor[u] = "record"
        /\ editor'[u] \in Editing => editor[u] \in Editing
    BY <1>1 DEF Editing
  <2> QED BY <1>1, <1>4, <2>1 DEF RewindInv, BackupInv, BackedUp, InFiles, Found, Complete,
       Distinct,
                                  Edits!Foreign
<1> QED BY <1>3, <1>8, <1>9 DEF RewindInv

\* A step that leaves alone what is promised of a turn.
LEMMA SamePromise ==
  ASSUME RewindInv, NEW u \in Owners \ torn, start'[u] = start[u], file' = file,
         copies'[u] = copies[u], manifest'[u] = manifest[u],
         target'[u] = target[u] /\ taken'[u] = taken[u] /\ paths'[u] = paths[u],
         editor'[u] = "record" => editor[u] = "record",
         editor'[u] \in Editing => editor[u] \in Editing
  PROVE  BackedUp(u, manifest[u])' /\ InFiles(u)' /\ (Alone(u)' => Complete(u)')
<1>1. BackedUp(u, manifest[u]) /\ InFiles(u) /\ (Alone(u) => Complete(u))
  BY DEF RewindInv, BackupInv
<1>2. BackedUp(u, manifest[u])' /\ InFiles(u)'
  BY <1>1 DEF BackedUp, InFiles, Found, Edits!Foreign
<1>3. Alone(u)' => Alone(u)
  BY DEF Alone, Edits!Foreign
<1>4. ASSUME Complete(u) PROVE Complete(u)'
  <2>1. BackedUp(u, taken[u]) => BackedUp(u, taken[u])'
    BY DEF BackedUp, Found, Edits!Foreign
  <2> QED BY <1>4, <2>1 DEF Complete, Distinct
<1> QED BY <1>1, <1>2, <1>3, <1>4

LEMMA EndRewinds ==
  ASSUME RewindInv, EditTyped, NEW t \in Owners, Edits!EndTurn(t)
  PROVE  RewindInv'
<1>1. /\ editor[t] = "idle" /\ editor'[t] = "over" /\ active' = Nobody
      /\ \A u \in Owners : u # t => editor'[u] = editor[u]
      /\ UNCHANGED <<file, paths, target, taken, listed, manifest, copies, torn, start>>
  BY EditorAt DEF Edits!EndTurn, Edits!Goto, Edits!callVars, Edits!history, Edits!storeVars
<1>2. StoreTyped'
  BY <1>1 DEF RewindInv, StoreTyped
<1>3. \A u \in Owners : (Edits!Live(u)' => Edits!Live(u)) /\ (Alone(u)' <=> Alone(u))
  BY <1>1 DEF Edits!Live, Alone, Edits!Foreign
<1>4. \A u \in Owners : Running(u)' => u # t /\ Edits!Live(u) /\ Edits!Live(t)
  BY <1>1 DEF Edits!Live, Running, Calling, Editing
<1>5. \A u \in Owners : (editor'[u] = "away" => editor[u] = "away")
                        /\ (editor'[u] = "record" => editor[u] = "record")
                        /\ (editor'[u] \in Editing => editor[u] \in Editing)
  BY <1>1 DEF Editing
<1>6. AloneInv'
  BY <1>1, <1>3, <1>4, <1>5 DEF RewindInv, AloneInv
<1>7. BackupInv'
  BY <1>1, <1>5, SamePromise DEF BackupInv
<1> QED BY <1>2, <1>6, <1>7 DEF RewindInv

LEMMA ApprovedRewinds ==
  ASSUME RewindInv, EditTyped, NEW t \in Owners, Edits!Approved(t)
  PROVE  RewindInv'
<1>1. /\ editor[t] = "approval" /\ editor' = [editor EXCEPT ![t] = "snapshot"]
      /\ UNCHANGED <<file, paths, target, taken, active, listed, manifest, copies, torn, start>>
  BY DEF Edits!Approved, Edits!Goto, Edits!callVars, Edits!history, Edits!storeVars
<1>2. t \in Edits!Agents /\ Running(t) /\ "snapshot" \in Calling \ {"record"} /\ "snapshot" \notin Editing
  BY <1>1, Kinds DEF Running, Calling, Editing
<1>3. /\ target' = [target EXCEPT ![t] = target[t]]
      /\ taken' = [taken EXCEPT ![t] = taken[t]] /\ taken[t] \in Seq(Files)
      /\ paths' = [paths EXCEPT ![t] = paths[t]]
  BY <1>1, <1>2, SameCall, SamePaths
<1>4. PICK q \in {"idle"} \union (Calling \ {"record"}), p \in Seq(Files), k \in Seq(Files),
             u \in {target[t], Nobody} :
        q = "snapshot" /\ p = paths[t] /\ k = taken[t] /\ u = target[t]
  BY <1>2, <1>3 DEF EditTyped
<1>5. /\ editor' = [editor EXCEPT ![t] = q] /\ paths' = [paths EXCEPT ![t] = p]
      /\ taken' = [taken EXCEPT ![t] = k] /\ target' = [target EXCEPT ![t] = u]
      /\ UNCHANGED <<active, listed, manifest, copies, torn, start, file>>
      /\ q \in {"idle"} \union (Calling \ {"record"}) /\ q \notin Editing
  BY <1>1, <1>2, <1>3, <1>4
<1> QED BY <1>2, <1>5, Idles

LEMMA RewindRewinds ==
  ASSUME RewindInv, EditTyped, NEW t \in Owners, Edits!Rewind(t)
  PROVE  RewindInv'
<1>1. /\ file' = Edits!RestoredBy(t)
      /\ UNCHANGED <<editor, paths, target, taken, active, listed, manifest, copies, torn>>
      /\ start' = [u \in Owners |-> [f \in Files |->
                    IF u = t \/ file'[f] = file[f] THEN start[u][f] ELSE Edits!Foreign]]
  BY DEF Edits!Rewind, Edits!callVars, Edits!storeVars
<1>2. StoreTyped' /\ Fades
  BY <1>1 DEF RewindInv, StoreTyped, Fades
<1>3. \A f \in Files \ Edits!ToSet(manifest[t]) : file'[f] = file[f]
  BY <1>1 DEF Edits!RestoredBy
<1>4. \A u \in Owners \ torn : InFiles(u)'
  <2> SUFFICES ASSUME NEW u \in Owners \ torn, NEW f \in Files \ Edits!ToSet(manifest[u])
               PROVE  start'[u][f] \in {file'[f], Edits!Foreign}
    BY <1>1 DEF InFiles, Found, Edits!Foreign
  <2>1. start[u][f] \in {file[f], Edits!Foreign}
    BY DEF RewindInv, BackupInv, InFiles, Found
  <2> QED BY <1>1, <1>3, <2>1
<1>5. Nobody \notin Owners
  BY EditsAssumption
<1> QED BY <1>1, <1>2, <1>4, <1>5, Works

LEMMA CrashRewinds == ASSUME RewindInv, EditTyped, Edits!Crash PROVE RewindInv'
<1>1. PICK cut : /\ cut = {target[t] : t \in {u \in Owners : editor[u] = "record"}}
                 /\ manifest' = [t \in Owners |-> IF t \in cut THEN <<>> ELSE manifest[t]]
                 /\ torn' = torn \union cut
  BY DEF Edits!Crash
<1>2. /\ active' = Nobody /\ UNCHANGED <<file, copies, start>>
      /\ listed' = listed \/ listed' = <<>>
  BY DEF Edits!Crash
<1>3. /\ target' = [a \in Edits!Agents |-> IF a \in Owners /\ Edits!Live(a) THEN Nobody ELSE target[a]]
      /\ taken' = [a \in Edits!Agents |-> IF a \in Owners /\ Edits!Live(a) THEN <<>> ELSE taken[a]]
  BY DEF Edits!Crash
<1>4. StoreTyped'
  <2>1. <<>> \in Seq(Owners) /\ <<>> \in Seq(Files) /\ StoreTyped
    BY DEF RewindInv
  <2>2. listed' \in Seq(Owners) /\ manifest' \in [Owners -> Seq(Files)]
    BY <1>1, <1>2, <2>1 DEF StoreTyped
  <2>3. target' \in [Edits!Agents -> Owners \union {Nobody}]
    BY <1>3, <2>1 DEF StoreTyped
  <2>4. taken' \in [Edits!Agents -> Seq(Files)]
    BY <1>3, <2>1 DEF StoreTyped
  <2> QED BY <1>2, <2>1, <2>2, <2>3, <2>4 DEF StoreTyped
<1>5. \A t \in Owners : editor'[t] = IF Edits!Live(t) THEN "over" ELSE editor[t]
  BY Kinds DEF Edits!Crash
<1>6. \A t \in Owners : ~Edits!Live(t)' /\ ~Running(t)' /\ (editor'[t] = "away" => editor[t] = "away")
                        /\ editor'[t] # "record" /\ editor'[t] \notin Editing
  BY <1>5 DEF Edits!Live, Running, Calling, Editing
<1>7. \A t \in Owners : /\ target'[t] \in {target[t], Nobody}
                        /\ manifest'[t] \in {manifest[t], <<>>}
                        /\ t \notin torn' => t \notin torn /\ manifest'[t] = manifest[t]
                        /\ Alone(t)' <=> Alone(t)
  BY <1>1, <1>2, <1>3, Kinds DEF Alone, Edits!Foreign
<1>8. Nobody \notin Owners
  BY EditsAssumption
<1>9. AloneInv'
  BY <1>2, <1>6, <1>7, <1>8 DEF RewindInv, AloneInv
<1>10. BackupInv'
  BY <1>2, <1>6, <1>7 DEF RewindInv, BackupInv, BackedUp, InFiles, Found, Complete, Distinct,
       Edits!Foreign
<1> QED BY <1>4, <1>9, <1>10 DEF RewindInv

LEMMA RecordRewinds ==
  ASSUME RewindInv, EditTyped, NEW t \in Owners, Edits!WriteManifest(t)
  PROVE  RewindInv'
<1>1. /\ editor[t] = "record" /\ editor'[t] = "change"
      /\ \A u \in Owners : u # t => editor'[u] = editor[u]
      /\ UNCHANGED <<file, paths, target, taken, active, listed, copies, torn, start>>
  BY EditorAt DEF Edits!WriteManifest, Edits!Goto, Edits!callVars, Edits!history
<1>2. PICK c \in Owners : c = target[t]
  BY <1>1 DEF RewindInv, AloneInv
<1>3. /\ manifest'[c] = taken[t] /\ taken[t] \in Seq(Files)
      /\ \A u \in Owners : u # c => manifest'[u] = manifest[u]
  BY <1>2, Kinds DEF Edits!WriteManifest, RewindInv, StoreTyped
<1>4. StoreTyped'
  BY <1>1, <1>2, <1>3 DEF Edits!WriteManifest, RewindInv, StoreTyped
<1>5. \A u \in Owners : /\ Edits!Live(u)' <=> Edits!Live(u)
                        /\ Running(u)' <=> Running(u)
                        /\ Alone(u)' <=> Alone(u)
  BY <1>1 DEF Edits!Live, Running, Calling, Editing, Alone, Edits!Foreign
<1>6. \A u \in Owners : (editor'[u] = "away" => editor[u] = "away" /\ u # c)
                        /\ (editor'[u] = "record" => editor[u] = "record" /\ u # t)
  BY <1>1, <1>2 DEF RewindInv, AloneInv
<1>7. AloneInv'
  BY <1>1, <1>3, <1>5, <1>6 DEF RewindInv, AloneInv
<1>8. BackupInv'
  <2> SUFFICES ASSUME NEW u \in Owners \ torn
               PROVE  BackedUp(u, manifest[u])' /\ InFiles(u)' /\ (Alone(u)' => Complete(u)')
    BY <1>1 DEF BackupInv
  <2>1. CASE ~Alone(u)
    BY <1>4, <1>5, <2>1, NothingPromised
  <2>2. CASE Alone(u) /\ u = t
    <3>1. /\ c = t /\ BackedUp(t, taken[t]) /\ Distinct(taken[t]) /\ InFiles(t)
          /\ Edits!ToSet(manifest[t]) \subseteq Edits!ToSet(taken[t])
          /\ Edits!ToSet(paths[t]) \subseteq Edits!ToSet(taken[t])
      BY <1>1, <1>2, <2>2 DEF RewindInv, BackupInv, Complete
    <3>2. BackedUp(t, manifest[t])'
      BY <1>1, <1>3, <3>1 DEF BackedUp, Found, Edits!Foreign
    <3>3. InFiles(t)'
      BY <1>1, <1>3, <3>1 DEF InFiles, Found, Edits!Foreign
    <3>4. Complete(t)'
      BY <1>1, <1>3, <3>1 DEF Complete, Distinct
    <3> QED BY <2>2, <3>2, <3>3, <3>4
  <2>3. CASE Alone(u) /\ u # t
    <3>1. u # c
      BY <1>2, <2>3 DEF RewindInv, AloneInv
    <3>2. /\ manifest'[u] = manifest[u] /\ editor'[u] = editor[u] /\ start'[u] = start[u]
          /\ copies'[u] = copies[u] /\ target'[u] = target[u] /\ taken'[u] = taken[u]
          /\ paths'[u] = paths[u]
      BY <1>1, <1>3, <2>3, <3>1
    <3> QED BY <1>1, <3>2, SamePromise
  <2> QED BY <2>1, <2>2, <2>3
<1> QED BY <1>4, <1>7, <1>8 DEF RewindInv

\* The modules of an instance have operators of their own; these are the same.
LEMMA SameFinite == \A S : Edits!IsFiniteSet(S) <=> IsFiniteSet(S)
BY DEF Edits!IsFiniteSet, IsFiniteSet

LEMMA SameSize == \A S : Edits!Cardinality(S) = Cardinality(S)
BY SameFinite, Zenon DEF Edits!Cardinality, Cardinality

\* The entries that a snapshot adds are those of the files that have none, one each.
LEMMA NewEntries ==
  ASSUME NEW S \in SUBSET Files, NEW new \in Edits!SetToSeqs(S)
  PROVE  /\ new \in Seq(Files) /\ Distinct(new) /\ Edits!ToSet(new) = S
         /\ DOMAIN new = 1..Len(new) /\ Len(new) \in Nat
<1> DEFINE D == 1..Cardinality(S)
<1>1. IsFiniteSet(S) /\ Cardinality(S) \in Nat
  BY EditsAssumption, FS_Subset, FS_CardinalityType
<1>2. IsFiniteSet(D) /\ Cardinality(D) = Cardinality(S)
  BY <1>1, FS_Interval
<1>3. new \in [D -> S] /\ \A i, j \in D : i # j => new[i] # new[j]
  <2>1. Edits!SetToSeqs(S) = {g \in [1..Edits!Cardinality(S) -> S] :
                               \A i, j \in 1..Edits!Cardinality(S) : i # j => g[i] # g[j]}
    BY DEF Edits!SetToSeqs
  <2>2. Edits!Cardinality(S) = Cardinality(S)
    BY SameSize
  <2> QED BY <2>1, <2>2
<1>4. new \in Injection(D, S)
  BY <1>3 DEF Injection, IsInjective
<1>5. new \in Surjection(D, S)
  BY <1>1, <1>2, <1>4, FS_Injection
<1>6. \A f \in S : \E i \in D : new[i] = f
  BY <1>5 DEF Surjection
<1>7. Edits!ToSet(new) = S
  BY <1>3, <1>6 DEF Edits!ToSet
<1>8. new \in Seq(Files)
  BY <1>1, <1>3
<1> QED BY <1>1, <1>3, <1>7, <1>8 DEF Distinct

LEMMA FitsFiles ==
  ASSUME NEW p \in Seq(Files), Distinct(p)
  PROVE  Len(p) <= Cardinality(Files) /\ Cardinality(Files) \in Nat
<1>1. p \in Injection(1..Len(p), Files) /\ Len(p) \in Nat
  BY DEF Injection, IsInjective, Distinct
<1>2. /\ Cardinality(1..Len(p)) <= Cardinality(Files) /\ Cardinality(Files) \in Nat
      /\ Cardinality(1..Len(p)) = Len(p)
  <2>1. IsFiniteSet(Files) /\ Cardinality(Files) \in Nat
    BY EditsAssumption, FS_CardinalityType
  <2>2. Cardinality(1..Len(p)) <= Cardinality(Files)
    BY <1>1, <2>1, FS_Injection
  <2>3. Cardinality(1..Len(p)) = IF 1 > Len(p) THEN 0 ELSE Len(p) - 1 + 1
    BY <1>1, FS_Interval
  <2> QED BY <1>1, <2>1, <2>2, <2>3
<1> QED BY <1>2

LEMMA JoinedPaths ==
  ASSUME NEW old \in Seq(Files), NEW new \in Seq(Files), Distinct(old), Distinct(new),
         Edits!ToSet(new) \cap Edits!ToSet(old) = {}
  PROVE  /\ old \o new \in Seq(Files) /\ Distinct(old \o new)
         /\ Edits!ToSet(old \o new) = Edits!ToSet(old) \union Edits!ToSet(new)
         /\ \A n \in DOMAIN (old \o new) :
              /\ n \in 1..Cardinality(Files)
              /\ \/ n \in DOMAIN old /\ n - Len(old) \notin DOMAIN new /\ (old \o new)[n] = old[n]
                 \/ n - Len(old) \in DOMAIN new /\ (old \o new)[n] = new[n - Len(old)]
         /\ \A n \in DOMAIN old : n \in DOMAIN (old \o new)
<1>1. /\ old \o new \in Seq(Files) /\ Len(old \o new) = Len(old) + Len(new)
      /\ Len(old) \in Nat /\ Len(new) \in Nat
      /\ DOMAIN old = 1..Len(old) /\ DOMAIN new = 1..Len(new)
      /\ DOMAIN (old \o new) = 1..(Len(old) + Len(new))
  BY ConcatProperties
<1>2. \A n \in DOMAIN (old \o new) :
         \/ n \in DOMAIN old /\ n - Len(old) \notin DOMAIN new /\ (old \o new)[n] = old[n]
         \/ n - Len(old) \in DOMAIN new /\ (old \o new)[n] = new[n - Len(old)]
  BY <1>1, ConcatProperties
<1>3. \A n \in DOMAIN old : n \in DOMAIN (old \o new) /\ (old \o new)[n] = old[n]
  BY <1>1, ConcatProperties
<1>4. \A n \in DOMAIN new : n + Len(old) \in DOMAIN (old \o new)
                            /\ (old \o new)[n + Len(old)] = new[n]
  BY <1>1, ConcatProperties
<1>5. \A m \in DOMAIN old, n \in DOMAIN new : old[m] # new[n]
  BY DEF Edits!ToSet
<1>6. Distinct(old \o new)
  <2> SUFFICES ASSUME NEW m \in DOMAIN (old \o new), NEW n \in DOMAIN (old \o new),
                      (old \o new)[m] = (old \o new)[n]
               PROVE  m = n
    BY DEF Distinct
  <2>1. m \in Nat /\ n \in Nat
    BY <1>1
  <2> QED BY <1>1, <1>2, <1>5, <2>1 DEF Distinct
<1>7. Edits!ToSet(old \o new) = Edits!ToSet(old) \union Edits!ToSet(new)
  <2>1. PICK all : all = old \o new
    OBVIOUS
  <2>2. \A n \in DOMAIN all : all[n] \in Edits!ToSet(old) \union Edits!ToSet(new)
    <3> SUFFICES ASSUME NEW n \in DOMAIN all
                 PROVE  all[n] \in Edits!ToSet(old) \union Edits!ToSet(new)
      OBVIOUS
    <3>1. CASE n \in DOMAIN old /\ all[n] = old[n]
      BY <3>1 DEF Edits!ToSet
    <3>2. CASE n - Len(old) \in DOMAIN new /\ all[n] = new[n - Len(old)]
      BY <3>2 DEF Edits!ToSet
    <3> QED BY <1>2, <2>1, <3>1, <3>2
  <2>3. /\ \A n \in DOMAIN old : old[n] \in Edits!ToSet(all)
        /\ \A n \in DOMAIN new : new[n] \in Edits!ToSet(all)
    BY <1>3, <1>4, <2>1 DEF Edits!ToSet
  <2>4. Edits!ToSet(all) = Edits!ToSet(old) \union Edits!ToSet(new)
    BY <2>2, <2>3 DEF Edits!ToSet
  <2> QED BY <2>1, <2>4
<1>8. \A n \in DOMAIN (old \o new) : n \in 1..Cardinality(Files)
  <2>1. Len(old \o new) <= Cardinality(Files) /\ Cardinality(Files) \in Nat
    BY <1>1, <1>6, FitsFiles
  <2> QED BY <1>1, <2>1
<1> QED BY <1>1, <1>2, <1>3, <1>6, <1>7, <1>8

LEMMA SnapshotRewinds ==
  ASSUME RewindInv, EditTyped, NEW t \in Owners, Edits!Snapshot(t)
  PROVE  RewindInv'
<1>1. /\ editor[t] = "snapshot" /\ Running(t) /\ Edits!Live(t) /\ t \in Edits!Agents
      /\ UNCHANGED <<file, paths, active, listed, manifest, torn, start>>
  BY Kinds DEF Edits!Snapshot, Edits!history, Running, Calling, Edits!Live
<1>2. CASE active \notin Edits!ToSet(listed)
  <2>1. /\ editor'[t] = "change" /\ UNCHANGED <<copies, target, taken>>
        /\ \A u \in Owners : u # t => editor'[u] = editor[u]
    BY <1>2, EditorAt DEF Edits!Snapshot, Edits!Goto
  <2>2. ~Alone(t)
    BY <1>1, <1>2 DEF RewindInv, AloneInv
  <2>3. StoreTyped'
    BY <1>1, <2>1 DEF RewindInv, StoreTyped
  <2>4. \A u \in Owners : /\ Edits!Live(u)' <=> Edits!Live(u)
                          /\ Running(u)' <=> Running(u)
                          /\ Alone(u)' <=> Alone(u)
                          /\ editor'[u] = "away" => editor[u] = "away"
                          /\ editor'[u] = "record" => editor[u] = "record"
    BY <1>1, <2>1 DEF Edits!Live, Running, Calling, Editing, Alone, Edits!Foreign
  <2>5. AloneInv'
    BY <1>1, <2>1, <2>4 DEF RewindInv, AloneInv
  <2>6. BackupInv'
    <3> SUFFICES ASSUME NEW u \in Owners \ torn
                 PROVE  BackedUp(u, manifest[u])' /\ InFiles(u)' /\ (Alone(u)' => Complete(u)')
      BY <1>1 DEF BackupInv
    <3>1. CASE u = t
      BY <2>2, <2>3, <2>4, <3>1, NothingPromised
    <3>2. CASE u # t
      BY <1>1, <2>1, <3>2, SamePromise
    <3> QED BY <3>1, <3>2
  <2> QED BY <2>3, <2>5, <2>6 DEF RewindInv
<1>3. CASE active \in Edits!ToSet(listed)
  <2>1. PICK c \in Owners : c = active /\ Running(c)
    BY <1>3, EditsAssumption DEF RewindInv, StoreTyped, AloneInv, Edits!ToSet
  <2>2. PICK old \in Seq(Files) : old = manifest[c]
    BY <2>1 DEF RewindInv, StoreTyped
  <2>3. PICK new \in Edits!SetToSeqs(Edits!ToSet(paths[t]) \ Edits!ToSet(old)) :
          /\ copies' = [copies EXCEPT ![c] = [n \in DOMAIN copies[c] |->
                IF n - Len(old) \in DOMAIN new THEN file[new[n - Len(old)]] ELSE copies[c][n]]]
          /\ taken' = [taken EXCEPT ![t] = old \o new]
          /\ target' = [target EXCEPT ![t] = c] /\ Edits!Goto(t, "record")
    BY <1>3, <2>1, <2>2 DEF Edits!Snapshot, Edits!Slot, Edits!InOrderOf
  <2>4. /\ new \in Seq(Files) /\ Distinct(new)
        /\ Edits!ToSet(new) = Edits!ToSet(paths[t]) \ Edits!ToSet(old)
    <3>1. Edits!ToSet(paths[t]) \subseteq Files
      BY <1>1 DEF EditTyped, Edits!ToSet
    <3> QED BY <2>3, <3>1, NewEntries
  <2>5. old \o new \in Seq(Files)
    BY <2>4
  <2>6. /\ editor'[t] = "record" /\ target'[t] = c /\ taken'[t] = old \o new
        /\ \A u \in Owners : u # t => /\ editor'[u] = editor[u] /\ target'[u] = target[u]
                                     /\ taken'[u] = taken[u]
        /\ \A u \in Owners : u # c => copies'[u] = copies[u]
    BY <1>1, <2>3, EditorAt, Kinds DEF Edits!Goto, RewindInv, StoreTyped
  <2>7. StoreTyped'
    BY <1>1, <2>3, <2>5 DEF RewindInv, StoreTyped
  <2>8. \A u \in Owners : /\ Edits!Live(u)' <=> Edits!Live(u)
                          /\ Running(u)' <=> Running(u)
                          /\ Alone(u)' <=> Alone(u)
                          /\ editor'[u] = "away" => editor[u] = "away" /\ u # c
                          /\ editor'[u] = "record" => editor[u] = "record" \/ u = t
                          /\ editor'[u] \in Editing => editor[u] \in Editing
    BY <1>1, <2>1, <2>6 DEF Edits!Live, Running, Calling, Editing, Alone, Edits!Foreign
  <2>9. c # t => ~Alone(c) /\ ~Alone(t)
    BY <1>1, <2>1 DEF RewindInv, AloneInv, Running, Calling, Editing, Edits!Live
  <2>10. AloneInv'
    BY <1>1, <2>1, <2>6, <2>8, <2>9 DEF RewindInv, AloneInv
  <2>11. BackupInv'
    <3> SUFFICES ASSUME NEW u \in Owners \ torn
                 PROVE  BackedUp(u, manifest[u])' /\ InFiles(u)' /\ (Alone(u)' => Complete(u)')
      BY <1>1 DEF BackupInv
    <3>1. CASE ~Alone(u)
      BY <2>7, <2>8, <3>1, NothingPromised
    <3>2. CASE Alone(u) /\ u # t
      BY <1>1, <2>6, <2>8, <2>9, <3>2, SamePromise
    <3>3. CASE Alone(u) /\ u = t
      <4>1. c = t /\ t \notin torn
        BY <2>9, <3>3
      <4>2. Distinct(old) /\ BackedUp(t, old) /\ InFiles(t) /\ old = manifest[t]
        BY <2>2, <3>3, <4>1 DEF RewindInv, BackupInv, Complete
      <4>3. /\ Distinct(old \o new)
            /\ Edits!ToSet(old \o new) = Edits!ToSet(old) \union Edits!ToSet(new)
        BY <2>4, <4>2, JoinedPaths
      <4>4. ASSUME NEW n \in DOMAIN (old \o new)
            PROVE  start[t][(old \o new)[n]] \in {copies'[t][n], Edits!Foreign}
        <5>1. /\ n \in DOMAIN copies[t]
              /\ \/ n \in DOMAIN old /\ n - Len(old) \notin DOMAIN new /\ (old \o new)[n] = old[n]
                 \/ n - Len(old) \in DOMAIN new /\ (old \o new)[n] = new[n - Len(old)]
          <6>1. DOMAIN copies[t] = 1..Cardinality(Files)
            BY DEF RewindInv, StoreTyped
          <6> QED BY <2>4, <4>2, <4>4, <6>1, JoinedPaths
        <5>2. copies'[t][n] = IF n - Len(old) \in DOMAIN new THEN file[new[n - Len(old)]]
                              ELSE copies[t][n]
          BY <2>3, <4>1, <5>1 DEF RewindInv, StoreTyped
        <5>3. CASE n \in DOMAIN old /\ n - Len(old) \notin DOMAIN new /\ (old \o new)[n] = old[n]
          BY <4>2, <5>2, <5>3 DEF BackedUp, Found
        <5>4. CASE n - Len(old) \in DOMAIN new /\ (old \o new)[n] = new[n - Len(old)]
          <6>1. new[n - Len(old)] \in Files \ Edits!ToSet(manifest[t])
            <7>1. PICK k \in DOMAIN new : k = n - Len(old)
              BY <5>4
            <7>2. new[k] \in Edits!ToSet(new)
              BY DEF Edits!ToSet
            <7>3. new[k] \in Files /\ Edits!ToSet(new) \cap Edits!ToSet(old) = {}
              BY <2>4
            <7> QED BY <4>2, <7>1, <7>2, <7>3
          <6> QED BY <4>2, <5>2, <5>4, <6>1 DEF InFiles, Found
        <5> QED BY <5>1, <5>3, <5>4
      <4>5. BackedUp(t, taken[t])'
        BY <1>1, <2>6, <4>4 DEF BackedUp, Found, Edits!Foreign
      <4>6. BackedUp(t, manifest[t])'
        <5>1. ASSUME NEW n \in DOMAIN old
              PROVE  start[t][old[n]] \in {copies'[t][n], Edits!Foreign}
          <6>1. n \in DOMAIN (old \o new) /\ (old \o new)[n] = old[n]
            BY <2>4, <5>1, ConcatProperties
          <6> QED BY <4>4, <6>1
        <5> QED BY <1>1, <4>2, <5>1 DEF BackedUp, Found, Edits!Foreign
      <4>7. InFiles(t)'
        BY <1>1, <4>2 DEF InFiles, Found, Edits!Foreign
      <4>8. Complete(t)'
        BY <1>1, <2>4, <2>6, <4>1, <4>2, <4>3, <4>5 DEF Complete, Distinct, Editing
      <4> QED BY <3>3, <4>6, <4>7, <4>8
    <3> QED BY <3>1, <3>2, <3>3
  <2> QED BY <2>7, <2>10, <2>11 DEF RewindInv
<1> QED BY <1>2, <1>3

LEMMA RewindStep == RewindInv /\ EditTyped /\ Edits!Next => RewindInv'
BY AgentRewinds, WorkerRewinds, BeginRewinds, CreateRewinds, EndRewinds, ApprovedRewinds,
   SnapshotRewinds, RecordRewinds, RewindRewinds, CrashRewinds DEF Edits!Next

\* For any number of turns, workers, files and kept checkpoints: /rewind to the checkpoint of
\* a turn that ran alone brings back every file as the turn found it, unless somebody else
\* has changed the file, or a crash has cut the manifest short.
THEOREM RewindsUndoTheirTurn == MCSpec => []RewindUndoesTheTurn
<1>1. MCInit => RewindInv /\ HunkInv
  <2> SUFFICES ASSUME Edits!Init PROVE RewindInv /\ HunkInv
    BY DEF MCInit
  <2>1. HunkInv
    BY HunksBegin
  <2>2. StoreTyped
    <3>1. \A t \in Owners : DOMAIN copies[t] = 1..Cardinality(Files)
      BY SameSize DEF Edits!Init
    <3>2. /\ <<>> \in Seq(Files) /\ <<>> \in Seq(Owners)
          /\ listed = <<>> /\ target = [a \in Edits!Agents |-> Nobody]
          /\ taken = [a \in Edits!Agents |-> <<>>] /\ manifest = [t \in Owners |-> <<>>]
          /\ DOMAIN copies = Owners /\ start = [t \in Owners |-> [f \in Files |-> Edits!Foreign]]
      BY DEF Edits!Init
    <3> QED BY <3>1, <3>2 DEF StoreTyped
  <2>3. \A t \in Owners : ~Alone(t) /\ editor[t] = "away" /\ manifest[t] = <<>>
                          /\ \A u \in Owners : target[u] # t
    BY Kinds DEF Edits!Init, Alone
  <2>4. AloneInv
    BY <2>3 DEF AloneInv, Edits!Init, Running, Calling, Editing, Edits!Live
  <2>5. BackupInv
    BY <2>3 DEF BackupInv, BackedUp, InFiles, Found, Alone
  <2> QED BY <2>1, <2>2, <2>4, <2>5 DEF RewindInv
<1>2. RewindInv => RewindUndoesTheTurn
  <2> SUFFICES ASSUME RewindInv, NEW t \in Edits!ToSet(listed) \ torn, NEW f \in Files
               PROVE  start[t][f] \in {Edits!RestoredBy(t)[f], Edits!Foreign}
    BY DEF RewindUndoesTheTurn, Edits!RewindUndoesTheTurn
  <2>1. t \in Owners
    BY DEF RewindInv, StoreTyped, Edits!ToSet
  <2>2. BackedUp(t, manifest[t]) /\ InFiles(t)
    BY <2>1 DEF RewindInv, BackupInv
  <2>3. CASE f \in Edits!ToSet(manifest[t])
    <3>1. PICK n \in DOMAIN manifest[t] :
            /\ n = CHOOSE m \in DOMAIN manifest[t] : manifest[t][m] = f
            /\ manifest[t][n] = f
      BY <2>3 DEF Edits!ToSet
    <3>2. Edits!RestoredBy(t)[f] = copies[t][n]
      BY <2>3, <3>1 DEF Edits!RestoredBy
    <3> QED BY <2>2, <3>1, <3>2 DEF BackedUp, Found
  <2>4. CASE f \notin Edits!ToSet(manifest[t])
    BY <2>2, <2>4 DEF InFiles, Found, Edits!RestoredBy
  <2> QED BY <2>3, <2>4
<1>3. RewindInv /\ UNCHANGED editVars => RewindInv'
  <2> SUFFICES ASSUME RewindInv, UNCHANGED editVars PROVE RewindInv'
    OBVIOUS
  <2>1. UNCHANGED <<file, editor, paths, target, taken, active, listed, manifest, copies, torn,
                    start>>
    BY DEF editVars
  <2>2. StoreTyped' /\ Fades
    BY <2>1 DEF RewindInv, StoreTyped, Fades
  <2>3. \A t \in Owners \ torn : InFiles(t)'
    BY <2>1 DEF RewindInv, BackupInv, InFiles, Found
  <2>4. Nobody \notin Owners
    BY EditsAssumption
  <2> QED BY <2>1, <2>2, <2>3, <2>4, Works
<1>4. /\ RewindInv /\ HunkInv /\ [MCNext]_<<part, vars, chatVars, editVars, mailVars, screenVars>>
      => (RewindInv /\ HunkInv)'
  BY <1>3, RewindStep, HunkStep, HunksRest DEF MCNext, HunkInv
<1> QED BY <1>1, <1>2, <1>4, PTL DEF MCSpec

---------------------------------------------------------------------------
(* What the screen shows.  The refresh overwrites the streamed text at the end of the  *)
(* buffer and puts in its place what the threads have written meanwhile: the proof    *)
(* splits the text into b, which stays, and t, which is in a buffer as well.          *)

\* Lines, pieces of streamed text and notices.
Shown == [kind : {"line", "piece", "notice"}, number : Nat]

\* The texts of one kind, in their order.
Kind(k, s) == Sub(s, {i \in DOMAIN s : s[i].kind = k})
\* Selecting by position is selecting by kind.
LEMMA OfIsKind == \A k, s : Display!Of(k, s) = Kind(k, s)
  BY DEF Display!Of, Display!Filter, Display!Sub, Display!Joined, Kind, Sub, Joined

\* Selecting by kind gives texts, and can be done part by part.
LEMMA KindType ==
  ASSUME NEW k, NEW s \in Seq(Shown)
  PROVE  Kind(k, s) \in Seq(Shown)
  BY SubType DEF Kind

KindBoth(k, a, b) == Kind(k, a \o b) = Kind(k, a) \o Kind(k, b)
LEMMA KindJoin ==
  ASSUME NEW k, NEW a \in Seq(Shown), NEW b \in Seq(Shown)
  PROVE  KindBoth(k, a, b)
<1> DEFINE at == {i \in DOMAIN a : a[i].kind = k}
           bt == {i \in DOMAIN b : b[i].kind = k}
           ct == {i \in DOMAIN (a \o b) : (a \o b)[i].kind = k}
<1>1. /\ Len(a) \in Nat /\ Len(b) \in Nat /\ DOMAIN (a \o b) = 1..(Len(a) + Len(b))
      /\ DOMAIN a = 1..Len(a) /\ DOMAIN b = 1..Len(b)
      /\ \A i \in 1..Len(a) : (a \o b)[i] = a[i]
      /\ \A i \in 1..Len(b) : (a \o b)[Len(a) + i] = b[i]
  <2>1. InParts(a, b)
    BY PartsOf
  <2> QED BY <2>1 DEF InParts
<1>2. \A i \in 1..Len(a) : i \in ct <=> i \in at
  BY <1>1
<1>3. ASSUME NEW i \in 1..Len(b) PROVE Len(a) + i \in ct <=> i \in bt
  <2>1. Len(a) + i \in 1..(Len(a) + Len(b)) /\ (a \o b)[Len(a) + i] = b[i]
    BY <1>1
  <2> QED BY <1>1, <2>1
<1> HIDE DEF at, bt, ct
<1>4. IsJoin(Sub(a \o b, ct), Sub(a, at), Sub(b, bt))
  BY ONLY <1>2, <1>3, SubConcat, a \in Seq(Shown), b \in Seq(Shown)
<1> QED BY <1>4 DEF IsJoin, KindBoth, Kind, at, bt, ct

\* Nothing is selected where nothing is of that kind, and something where something is.
LEMMA KindNone ==
  ASSUME NEW k, NEW s \in Seq(Shown), \A i \in DOMAIN s : s[i].kind # k
  PROVE  Kind(k, s) = <<>>
<1> DEFINE at == {i \in DOMAIN s : s[i].kind = k}
<1>1. at = {}
  OBVIOUS
<1>2. PICK p : Positions(s, at, Len(s), Sub(s, at), p)
  BY SubPositions
<1>3. Sub(s, at) \in Seq(Shown)
  BY SubType
<1>4. 1..Len(Sub(s, at)) = {}
  BY <1>1, <1>2 DEF Positions
<1>5. Len(Sub(s, at)) \in Nat
  BY <1>3
<1>6. Sub(s, at) # <<>> => Len(Sub(s, at)) \in Nat \ {0}
  BY <1>3, EmptySeq
<1>7. Sub(s, at) = <<>>
  <2> DEFINE n == Len(Sub(s, at))
  <2>1. n \in Nat /\ 1..n = {}
    BY <1>4, <1>5
  <2> HIDE DEF n
  <2>2. n = 0
    BY <2>1
  <2> QED BY <1>6, <2>2 DEF n
<1> QED BY <1>7 DEF Kind

LEMMA KindSome ==
  ASSUME NEW k, NEW s \in Seq(Shown), NEW i \in DOMAIN s, s[i].kind = k
  PROVE  Kind(k, s) # <<>>
<1> DEFINE at == {j \in DOMAIN s : s[j].kind = k}
<1>1. PICK p : Positions(s, at, Len(s), Sub(s, at), p)
  BY SubPositions
<1>2. i \in (1..Len(s)) \intersect at
  OBVIOUS
<1>3. \E n \in 1..Len(Sub(s, at)) : p[n] = i
  BY <1>1, <1>2 DEF Positions
<1>4. Len(<<>>) = 0
  OBVIOUS
<1> QED BY <1>3, <1>4 DEF Kind

LEMMA KindOne ==
  ASSUME NEW k, NEW x \in Shown
  PROVE  Kind(k, <<x>>) = IF x.kind = k THEN <<x>> ELSE <<>>
<1>1. DOMAIN <<x>> = 1..1 /\ <<x>>[1] = x
  OBVIOUS
<1>2. 1 \in {i \in DOMAIN <<x>> : <<x>>[i].kind = k} <=> x.kind = k
  BY <1>1
<1> QED BY <1>2, SubOne DEF Kind

\* The screen without what is streamed, what waits, and what is streamed, in order.
All(b, c, l, s) == ((b \o c) \o l) \o s

\* What is written last comes last, whichever buffer it goes to; what moves from a
\* buffer to the one before it stays where it is.
Grows(b, c, l, s, d) ==
    /\ All(b, c, l, s \o d) = All(b, c, l, s) \o d
    /\ All(b, c, (l \o s) \o d, <<>>) = All(b, c, l, s) \o d
Moves(b, c, l, s) ==
    /\ All(b, c, l \o s, <<>>) = All(b, c, l, s)
    /\ All(b, l, <<>>, s) = All(b, <<>>, l, s)
    /\ All(b \o c, <<>>, l, s) = All(b, c, l, s)

\* Both hold of any sequences.
LEMMA AllGrows ==
  ASSUME NEW T, NEW b \in Seq(T), NEW c \in Seq(T), NEW l \in Seq(T), NEW s \in Seq(T),
         NEW d \in Seq(T)
  PROVE  Grows(b, c, l, s, d)
<1>1. b \o c \in Seq(T) /\ (b \o c) \o l \in Seq(T) /\ l \o s \in Seq(T)
      /\ (l \o s) \o d \in Seq(T) /\ s \o d \in Seq(T)
  BY ConcatProperties
<1> DEFINE u == b \o c
<1>2. u \in Seq(T) /\ u \o l \in Seq(T)
  BY <1>1
<1> HIDE DEF u
<1>3. Associates(u \o l, s, d) /\ Associates(u, l \o s, d) /\ Associates(u, l, s)
  BY <1>1, <1>2, JoinAssociates
<1>4. /\ (u \o l) \o (s \o d) = ((u \o l) \o s) \o d
      /\ u \o ((l \o s) \o d) = (u \o (l \o s)) \o d
      /\ u \o (l \o s) = (u \o l) \o s
  BY <1>3 DEF Associates
<1>6. (u \o ((l \o s) \o d)) \o <<>> = u \o ((l \o s) \o d)
  BY <1>1, <1>2, ConcatProperties, ConcatEmptySeq
<1>7. All(b, c, l, s \o d) = All(b, c, l, s) \o d
  BY <1>4 DEF All, u
<1> QED BY <1>4, <1>6, <1>7 DEF Grows, All, u

LEMMA AllMoves ==
  ASSUME NEW T, NEW b \in Seq(T), NEW c \in Seq(T), NEW l \in Seq(T), NEW s \in Seq(T)
  PROVE  Moves(b, c, l, s) /\ All(b, c, l, s) \in Seq(T)
<1>1. b \o c \in Seq(T) /\ (b \o c) \o l \in Seq(T) /\ l \o s \in Seq(T) /\ b \o l \in Seq(T)
  BY ConcatProperties
<1>2. (b \o c) \o (l \o s) = ((b \o c) \o l) \o s
  BY <1>1, JoinAssociates DEF Associates
<1>3. (b \o c) \o (l \o s) \in Seq(T)
  BY <1>1, ConcatProperties
<1>4. ((b \o c) \o (l \o s)) \o <<>> = (b \o c) \o (l \o s)
  BY <1>3, ConcatEmptySeq
<1>5. (b \o l) \o <<>> = b \o l /\ b \o <<>> = b /\ (b \o c) \o <<>> = b \o c
  BY <1>1, ConcatEmptySeq
<1>6. ((b \o c) \o l) \o s \in Seq(T)
  BY <1>1, ConcatProperties
<1> QED BY <1>2, <1>4, <1>5, <1>6 DEF Moves, All

\* The texts of a buffer, without their order.
Has(s) == {s[i] : i \in DOMAIN s}
HasBoth(a, b) == Has(a \o b) = Has(a) \union Has(b)
LEMMA HasJoin ==
  ASSUME NEW T, NEW a \in Seq(T), NEW b \in Seq(T)
  PROVE  HasBoth(a, b)
<1>1. /\ Len(a) \in Nat /\ Len(b) \in Nat /\ DOMAIN (a \o b) = 1..(Len(a) + Len(b))
      /\ DOMAIN a = 1..Len(a) /\ DOMAIN b = 1..Len(b)
      /\ \A i \in 1..Len(a) : (a \o b)[i] = a[i]
      /\ \A i \in 1..Len(b) : (a \o b)[Len(a) + i] = b[i]
      /\ \A i \in 1..(Len(a) + Len(b)) : i \in 1..Len(a) \/ \E k \in 1..Len(b) : i = Len(a) + k
  <2>1. InParts(a, b)
    BY PartsOf
  <2> QED BY <2>1 DEF InParts
<1>2. Has(a \o b) \subseteq Has(a) \union Has(b)
  BY <1>1 DEF Has
<1>3. ASSUME NEW i \in 1..Len(a) PROVE a[i] \in Has(a \o b)
  <2>1. i \in 1..(Len(a) + Len(b)) /\ (a \o b)[i] = a[i]
    BY <1>1
  <2> QED BY <1>1, <2>1 DEF Has
<1>4. ASSUME NEW i \in 1..Len(b) PROVE b[i] \in Has(a \o b)
  <2>1. Len(a) + i \in 1..(Len(a) + Len(b)) /\ (a \o b)[Len(a) + i] = b[i]
    BY <1>1
  <2> QED BY <1>1, <2>1 DEF Has
<1>5. Has(a) \subseteq Has(a \o b) /\ Has(b) \subseteq Has(a \o b)
  BY <1>1, <1>3, <1>4 DEF Has
<1> QED BY <1>2, <1>5 DEF HasBoth

LEMMA HasOne == \A x : Has(<<x>>) = {x} /\ Has(<<>>) = {}
<1>1. \A x : DOMAIN <<x>> = {1} /\ <<x>>[1] = x /\ DOMAIN <<>> = {}
  OBVIOUS
<1> QED BY <1>1 DEF Has

\* A buffer without a kind of text, of which nothing is selected then.
NoKind(k, s) == \A x \in Has(s) : x.kind # k

LEMMA KindOfNone ==
  ASSUME NEW k, NEW s \in Seq(Shown), NoKind(k, s)
  PROVE  Kind(k, s) = <<>>
<1>1. \A i \in DOMAIN s : s[i].kind # k
  BY DEF NoKind, Has
<1> QED BY <1>1, KindNone

\* b is what the screen shows of finished text, t the streamed text behind it, which a
\* buffer has as well; with what waits in the buffers, b makes up what was written.
ScreenParts(b, t) ==
    /\ b \in Seq(Shown) /\ t \in Seq(Shown) /\ text = b \o t
    /\ (pos = -1 /\ t = <<>>) \/ pos = Len(b)
    /\ NoKind("line", t) /\ NoKind("notice", t)
    /\ Has(t) \subseteq Has(completed) \union Has(lines) \union Has(streaming)
    /\ Has(written) = Has(b) \union Has(completed) \union Has(lines) \union Has(streaming)
                        \union Has(pulled)
    /\ Kind("line", written)
         = All(Kind("line", b), Kind("line", completed), Kind("line", lines), Kind("line", streaming))
    /\ Kind("notice", written) = Kind("notice", b) \o Kind("notice", pulled)
    /\ Kind("notice", written) = <<>> => written = All(b, completed, lines, streaming)

\* Notices are enqueued in a buffer of their own, and nothing is flushed twice.
ScreenTypes ==
    /\ {lines, streaming, completed, text, pulled, written} \subseteq Seq(Shown)
    /\ refresh \in {"no", "flushed"} /\ (refresh = "no" => completed = <<>>)
    /\ NoKind("line", streaming) /\ NoKind("notice", streaming) /\ NoKind("line", pulled) /\ NoKind("piece", pulled)
    /\ NoKind("notice", completed) /\ NoKind("notice", lines)

ScreenInv == ScreenTypes /\ \E b, t : ScreenParts(b, t)

\* Facts about one more text.
LEMMA OneMoreText ==
  ASSUME NEW w \in Seq(Shown), NEW x \in Shown
  PROVE  /\ <<x>> \in Seq(Shown) /\ Append(w, x) = w \o <<x>> /\ w \o <<x>> \in Seq(Shown)
         /\ Has(w \o <<x>>) = Has(w) \union {x}
         /\ \A k : Kind(k, w \o <<x>>) = IF x.kind = k THEN Kind(k, w) \o <<x>> ELSE Kind(k, w)
<1>1. <<x>> \in Seq(Shown)
  OBVIOUS
<1>2. Append(w, x) = w \o <<x>> /\ w \o <<x>> \in Seq(Shown)
  BY <1>1, AppendIsConcat, ConcatProperties
<1>3. Has(w \o <<x>>) = Has(w) \union {x}
  <2>1. Has(w \o <<x>>) = Has(w) \union Has(<<x>>)
    <3>1. HasBoth(w, <<x>>)
      BY ONLY <1>1, w \in Seq(Shown), HasJoin
    <3> QED BY <3>1 DEF HasBoth
  <2> QED BY <2>1, HasOne
<1>4. ASSUME NEW k
      PROVE  Kind(k, w \o <<x>>) = IF x.kind = k THEN Kind(k, w) \o <<x>> ELSE Kind(k, w)
  <2>1. Kind(k, w \o <<x>>) = Kind(k, w) \o Kind(k, <<x>>)
    <3>1. KindBoth(k, w, <<x>>)
      BY <1>1, KindJoin
    <3> QED BY <3>1 DEF KindBoth
  <2>2. Kind(k, <<x>>) = IF x.kind = k THEN <<x>> ELSE <<>>
    BY KindOne
  <2>3. Kind(k, w) \o <<>> = Kind(k, w)
    BY KindType, ConcatEmptySeq
  <2> QED BY <2>1, <2>2, <2>3
<1> QED BY <1>1, <1>2, <1>3, <1>4

\* What is written next, and its kind.
LEMMA NewText ==
  ASSUME NEW k \in {"line", "piece", "notice"}, written \in Seq(Shown)
  PROVE  /\ Display!New(k) \in Shown /\ Display!New(k).kind = k
<1>1. Len(written) + 1 \in Nat
  OBVIOUS
<1> QED BY <1>1 DEF Display!New, Shown

\* The steps of the threads that write: one more text in a buffer and in what was written.
LEMMA ScreenPiece == ScreenInv /\ Display!WritePiece => ScreenInv'
<1> SUFFICES ASSUME ScreenInv, Display!WritePiece PROVE ScreenInv'
  OBVIOUS
<1> DEFINE x == Display!New("piece")
<1>1. PICK b, t : ScreenParts(b, t)
  BY DEF ScreenInv
<1>2. {lines, streaming, completed, text, pulled, written} \subseteq Seq(Shown)
  BY DEF ScreenInv, ScreenTypes
<1>3. x \in Shown /\ x.kind = "piece"
  BY <1>2, NewText
<1>4. /\ streaming' = Append(streaming, x) /\ written' = Append(written, x)
      /\ UNCHANGED <<lines, completed, text, pos, pulled, refresh>>
  BY DEF Display!WritePiece, Display!Log, Display!Screen
<1> HIDE DEF x
<1>5. /\ streaming' = streaming \o <<x>> /\ Has(streaming') = Has(streaming) \union {x}
      /\ streaming' \in Seq(Shown) /\ <<x>> \in Seq(Shown)
      /\ Kind("line", streaming') = Kind("line", streaming)
  <2>1. streaming \in Seq(Shown)
    BY <1>2
  <2>2. /\ <<x>> \in Seq(Shown) /\ Append(streaming, x) = streaming \o <<x>>
        /\ streaming \o <<x>> \in Seq(Shown)
        /\ Has(streaming \o <<x>>) = Has(streaming) \union {x}
        /\ Kind("line", streaming \o <<x>>) = Kind("line", streaming)
    BY ONLY <1>3, <2>1, OneMoreText
  <2> QED BY <1>4, <2>2
<1>6. /\ written' = written \o <<x>> /\ Has(written') = Has(written) \union {x}
      /\ written' \in Seq(Shown)
      /\ Kind("line", written') = Kind("line", written)
      /\ Kind("notice", written') = Kind("notice", written)
  <2>1. written \in Seq(Shown)
    BY <1>2
  <2>2. /\ Append(written, x) = written \o <<x>> /\ written \o <<x>> \in Seq(Shown)
        /\ Has(written \o <<x>>) = Has(written) \union {x}
        /\ Kind("line", written \o <<x>>) = Kind("line", written)
        /\ Kind("notice", written \o <<x>>) = Kind("notice", written)
    BY ONLY <1>3, <2>1, OneMoreText
  <2> QED BY <1>4, <2>2
<1>7. ScreenTypes'
  BY <1>2, <1>3, <1>4, <1>5, <1>6 DEF ScreenInv, ScreenTypes, NoKind
<1>8. All(b, completed, lines, streaming') = All(b, completed, lines, streaming) \o <<x>>
  <2>1. /\ b \in Seq(Shown) /\ completed \in Seq(Shown) /\ lines \in Seq(Shown)
        /\ streaming \in Seq(Shown)
    BY <1>1, <1>2 DEF ScreenParts
  <2>2. Grows(b, completed, lines, streaming, <<x>>)
    BY <1>5, <2>1, AllGrows
  <2> QED BY <1>5, <2>2 DEF Grows
<1>9. ScreenParts(b, t)'
  BY <1>1, <1>4, <1>5, <1>6, <1>8 DEF ScreenParts
<1> QED BY <1>7, <1>9 DEF ScreenInv

\* One more text in a buffer and in what was written, all at once.
Grown(w, v, x) ==
    /\ v = w \o <<x>> /\ v \in Seq(Shown) /\ Has(v) = Has(w) \union {x}
    /\ \A k : Kind(k, v) = IF x.kind = k THEN Kind(k, w) \o <<x>> ELSE Kind(k, w)

LEMMA Grow ==
  ASSUME NEW w \in Seq(Shown), NEW x \in Shown
  PROVE  Grown(w, Append(w, x), x) /\ Grown(w, w \o <<x>>, x)
<1>1. /\ Append(w, x) = w \o <<x>> /\ w \o <<x>> \in Seq(Shown)
      /\ Has(w \o <<x>>) = Has(w) \union {x}
      /\ \A k : Kind(k, w \o <<x>>) = IF x.kind = k THEN Kind(k, w) \o <<x>> ELSE Kind(k, w)
  BY OneMoreText
<1>2. Grown(w, w \o <<x>>, x)
  BY <1>1, Zenon DEF Grown
<1> QED BY <1>1, <1>2

LEMMA ScreenLine == ScreenInv /\ Display!WriteLine => ScreenInv'
<1> SUFFICES ASSUME ScreenInv, Display!WriteLine PROVE ScreenInv'
  OBVIOUS
<1> DEFINE x == Display!New("line")
           ls == lines \o streaming
<1>1. PICK b, t : ScreenParts(b, t)
  BY DEF ScreenInv
<1>2. /\ {lines, streaming, completed, text, pulled, written} \subseteq Seq(Shown)
      /\ NoKind("line", streaming) /\ NoKind("notice", streaming) /\ NoKind("notice", lines)
      /\ NoKind("line", pulled) /\ NoKind("piece", pulled) /\ NoKind("notice", completed)
      /\ refresh \in {"no", "flushed"} /\ (refresh = "no" => completed = <<>>)
  BY DEF ScreenInv, ScreenTypes
<1>3. x \in Shown /\ x.kind = "line"
  BY <1>2, NewText
<1>4. /\ lines' = ls \o <<x>> /\ streaming' = <<>> /\ written' = Append(written, x)
      /\ UNCHANGED <<completed, text, pos, pulled, refresh>>
  BY DEF Display!WriteLine, Display!Log, Display!Screen
<1>5. ls \in Seq(Shown) /\ Has(ls) = Has(lines) \union Has(streaming)
  <2>1. HasBoth(lines, streaming) /\ ls \in Seq(Shown)
    BY <1>2, HasJoin, ConcatProperties
  <2> QED BY <2>1 DEF HasBoth
<1>6. \A k : Kind(k, ls) = Kind(k, lines) \o Kind(k, streaming)
  <2>1. \A k : KindBoth(k, lines, streaming)
    BY <1>2, KindJoin
  <2> QED BY <2>1 DEF KindBoth
<1>7. Grown(written, written', x)
  BY <1>2, <1>3, <1>4, Grow
<1> HIDE DEF x, ls
<1>8. Grown(ls, lines', x)
  BY <1>3, <1>4, <1>5, Grow
<1>9. Has(streaming') = {} /\ \A k : Kind(k, streaming') = <<>>
  BY <1>4, HasOne, SubEmpty DEF Kind
<1>10. <<>> \in Seq(Shown)
  OBVIOUS
<1>11. /\ Has(lines') = Has(lines) \union Has(streaming) \union {x}
       /\ Has(written') = Has(written) \union {x}
       /\ lines' \in Seq(Shown) /\ written' \in Seq(Shown)
       /\ Kind("notice", written') = Kind("notice", written)
       /\ Kind("line", written') = Kind("line", written) \o <<x>>
       /\ Kind("line", lines') = (Kind("line", lines) \o Kind("line", streaming)) \o <<x>>
       /\ written' = written \o <<x>>
  BY <1>3, <1>5, <1>6, <1>7, <1>8 DEF Grown
<1>12. ScreenTypes'
  BY <1>2, <1>3, <1>4, <1>9, <1>10, <1>11 DEF ScreenTypes, NoKind
<1>13. <<x>> \in Seq(Shown)
  BY <1>3
<1>14. Grows(b, completed, lines, streaming, <<x>>)
  BY <1>1, <1>2, <1>13, AllGrows DEF ScreenParts
<1>15. Grows(Kind("line", b), Kind("line", completed), Kind("line", lines), Kind("line", streaming), <<x>>)
  BY <1>1, <1>2, <1>13, AllGrows, KindType DEF ScreenParts
<1>16. ScreenParts(b, t)'
  <2>1. Kind("line", written')
          = All(Kind("line", b), Kind("line", completed), Kind("line", lines'), Kind("line", streaming'))
    BY <1>1, <1>9, <1>11, <1>15 DEF ScreenParts, Grows
  <2>2. written = All(b, completed, lines, streaming) => written' = All(b, completed, lines', streaming')
    BY <1>4, <1>11, <1>14 DEF Grows, ls
  <2> QED BY <1>1, <1>4, <1>9, <1>11, <2>1, <2>2 DEF ScreenParts
<1> QED BY <1>12, <1>16 DEF ScreenInv

LEMMA ScreenComplete == ScreenInv /\ Display!CompleteStreaming => ScreenInv'
<1> SUFFICES ASSUME ScreenInv, Display!CompleteStreaming PROVE ScreenInv'
  OBVIOUS
<1>1. PICK b, t : ScreenParts(b, t)
  BY DEF ScreenInv
<1>2. /\ {lines, streaming, completed, text, pulled, written} \subseteq Seq(Shown)
      /\ NoKind("line", streaming) /\ NoKind("notice", streaming) /\ NoKind("notice", lines)
      /\ NoKind("line", pulled) /\ NoKind("piece", pulled) /\ NoKind("notice", completed)
      /\ refresh \in {"no", "flushed"} /\ (refresh = "no" => completed = <<>>)
  BY DEF ScreenInv, ScreenTypes
<1>3. /\ lines' = lines \o streaming /\ streaming' = <<>>
      /\ UNCHANGED <<written, completed, text, pos, pulled, refresh>>
  BY DEF Display!CompleteStreaming, Display!Screen
<1>4. lines' \in Seq(Shown) /\ Has(lines') = Has(lines) \union Has(streaming)
  <2>1. HasBoth(lines, streaming) /\ lines' \in Seq(Shown)
    BY <1>2, <1>3, HasJoin, ConcatProperties
  <2> QED BY <1>3, <2>1 DEF HasBoth
<1>5. Kind("line", lines') = Kind("line", lines) \o Kind("line", streaming)
  <2>1. KindBoth("line", lines, streaming)
    BY <1>2, KindJoin
  <2> QED BY <1>3, <2>1 DEF KindBoth
<1>6. Has(streaming') = {} /\ \A k : Kind(k, streaming') = <<>>
  BY <1>3, HasOne, SubEmpty DEF Kind
<1>7. <<>> \in Seq(Shown)
  OBVIOUS
<1>8. ScreenTypes'
  BY <1>2, <1>3, <1>4, <1>6, <1>7 DEF ScreenTypes, NoKind
<1>9. Moves(b, completed, lines, streaming)
  BY <1>1, <1>2, AllMoves DEF ScreenParts
<1>10. Moves(Kind("line", b), Kind("line", completed), Kind("line", lines), Kind("line", streaming))
  BY <1>1, <1>2, AllMoves, KindType DEF ScreenParts
<1>11. ScreenParts(b, t)'
  <2>1. Kind("line", written')
          = All(Kind("line", b), Kind("line", completed), Kind("line", lines'), Kind("line", streaming'))
    BY <1>1, <1>3, <1>5, <1>6, <1>10 DEF ScreenParts, Moves
  <2>2. written = All(b, completed, lines, streaming) => written' = All(b, completed, lines', streaming')
    BY <1>3, <1>9 DEF Moves
  <2> QED BY <1>1, <1>3, <1>4, <1>6, <2>1, <2>2 DEF ScreenParts
<1> QED BY <1>8, <1>11 DEF ScreenInv

LEMMA ScreenNotice == ScreenInv /\ Display!Enqueue => ScreenInv'
<1> SUFFICES ASSUME ScreenInv, Display!Enqueue PROVE ScreenInv'
  OBVIOUS
<1> DEFINE x == Display!New("notice")
<1>1. PICK b, t : ScreenParts(b, t)
  BY DEF ScreenInv
<1>2. /\ {lines, streaming, completed, text, pulled, written} \subseteq Seq(Shown)
      /\ NoKind("line", streaming) /\ NoKind("notice", streaming) /\ NoKind("notice", lines)
      /\ NoKind("line", pulled) /\ NoKind("piece", pulled) /\ NoKind("notice", completed)
      /\ refresh \in {"no", "flushed"} /\ (refresh = "no" => completed = <<>>)
  BY DEF ScreenInv, ScreenTypes
<1>3. x \in Shown /\ x.kind = "notice"
  BY <1>2, NewText
<1>4. /\ pulled' = Append(pulled, x) /\ written' = Append(written, x)
      /\ UNCHANGED <<lines, streaming, completed, text, pos, refresh>>
  BY DEF Display!Enqueue, Display!Log, Display!Screen
<1> HIDE DEF x
<1>5. Grown(written, written', x) /\ Grown(pulled, pulled', x) /\ <<x>> \in Seq(Shown)
  <2>1. written \in Seq(Shown) /\ pulled \in Seq(Shown)
    BY <1>2
  <2>2. Grown(written, Append(written, x), x) /\ Grown(pulled, Append(pulled, x), x)
    BY <1>3, <2>1, Grow
  <2> QED BY <1>3, <1>4, <2>2
<1>6. /\ Has(pulled') = Has(pulled) \union {x} /\ Has(written') = Has(written) \union {x}
      /\ pulled' \in Seq(Shown) /\ written' \in Seq(Shown)
      /\ Kind("line", written') = Kind("line", written)
      /\ Kind("notice", written') = Kind("notice", written) \o <<x>>
      /\ Kind("notice", pulled') = Kind("notice", pulled) \o <<x>>
  BY <1>3, <1>5 DEF Grown
<1>7. ScreenTypes'
  BY <1>2, <1>3, <1>4, <1>6 DEF ScreenTypes, NoKind
<1>8. /\ Kind("notice", b) \in Seq(Shown) /\ Kind("notice", pulled) \in Seq(Shown)
      /\ Kind("notice", written) \in Seq(Shown)
  BY <1>1, <1>2, KindType DEF ScreenParts
<1>9. Associates(Kind("notice", b), Kind("notice", pulled), <<x>>)
  BY <1>5, <1>8, JoinAssociates
<1>10. Kind("notice", written') # <<>>
  <2>1. Len(Kind("notice", written) \o <<x>>) = Len(Kind("notice", written)) + 1
    BY <1>5, <1>8
  <2>2. Len(Kind("notice", written)) \in Nat /\ Len(<<>>) = 0
    BY <1>8
  <2> QED BY <1>6, <2>1, <2>2
<1>11. ScreenParts(b, t)'
  BY <1>1, <1>4, <1>6, <1>9, <1>10 DEF ScreenParts, Associates
<1> QED BY <1>7, <1>11 DEF ScreenInv

\* The two halves of the refresh.
LEMMA ScreenFlush == ScreenInv /\ Display!Flush => ScreenInv'
<1> SUFFICES ASSUME ScreenInv, Display!Flush PROVE ScreenInv'
  OBVIOUS
<1>1. PICK b, t : ScreenParts(b, t)
  BY DEF ScreenInv
<1>2. /\ {lines, streaming, completed, text, pulled, written} \subseteq Seq(Shown)
      /\ NoKind("line", streaming) /\ NoKind("notice", streaming) /\ NoKind("notice", lines)
      /\ NoKind("line", pulled) /\ NoKind("piece", pulled) /\ NoKind("notice", completed)
      /\ refresh \in {"no", "flushed"} /\ (refresh = "no" => completed = <<>>)
  BY DEF ScreenInv, ScreenTypes
<1>3. /\ completed = <<>> /\ completed' = lines /\ lines' = <<>> /\ refresh' = "flushed"
      /\ UNCHANGED <<streaming, text, pos, pulled, written>>
  BY <1>2 DEF Display!Flush
<1>4. Has(<<>>) = {} /\ \A k : Kind(k, <<>>) = <<>>
  BY HasOne, SubEmpty DEF Kind
<1>5. <<>> \in Seq(Shown)
  OBVIOUS
<1>6. ScreenTypes'
  BY <1>2, <1>3, <1>4, <1>5 DEF ScreenTypes, NoKind
<1>7. Moves(b, completed, lines, streaming)
  BY <1>1, <1>2, AllMoves DEF ScreenParts
<1>8. Moves(Kind("line", b), Kind("line", completed), Kind("line", lines), Kind("line", streaming))
  BY <1>1, <1>2, AllMoves, KindType DEF ScreenParts
<1>9. ScreenParts(b, t)'
  <2>1. Kind("line", written')
          = All(Kind("line", b), Kind("line", completed'), Kind("line", lines'), Kind("line", streaming'))
    BY <1>1, <1>3, <1>4, <1>8 DEF ScreenParts, Moves
  <2>2. written = All(b, completed, lines, streaming) => written' = All(b, completed', lines', streaming')
    BY <1>3, <1>7 DEF Moves
  <2> QED BY <1>1, <1>3, <1>4, <2>1, <2>2 DEF ScreenParts
<1> QED BY <1>6, <1>9 DEF ScreenInv

\* A text as the refresh has it: b, and t where streaming starts.
Splits(x, at, b, t) ==
    /\ b \in Seq(Shown) /\ t \in Seq(Shown) /\ x = b \o t
    /\ (at = -1 /\ t = <<>>) \/ at = Len(b)

\* What the refresh keeps is b.
LEMMA BeforeStreaming ==
  ASSUME NEW x, NEW at, NEW b, NEW t, Splits(x, at, b, t)
  PROVE  Display!Before(x, at) = b
<1>4. b \in Seq(Shown) /\ t \in Seq(Shown)
  BY DEF Splits
<1>1. b \in Seq(Shown) /\ t \in Seq(Shown) /\ x = b \o t /\ Len(b) \in Nat
  BY DEF Splits
<1>2. CASE at = -1 /\ t = <<>>
  <2>1. x = b
    BY <1>1, <1>2, ConcatEmptySeq
  <2> QED BY <1>2, <2>1 DEF Display!Before
<1>3. CASE at = Len(b)
  <2>1. x \in Seq(Shown) /\ Len(x) = Len(b) + Len(t) /\ Len(t) \in Nat
        /\ \A i \in 1..Len(b) : x[i] = b[i]
    <3>1. /\ b \o t \in Seq(Shown) /\ Len(b \o t) = Len(b) + Len(t) /\ Len(t) \in Nat
          /\ \A i \in 1..Len(b) : (b \o t)[i] = b[i]
      <4>1. InParts(b, t) /\ b \o t \in Seq(Shown)
        BY ONLY <1>4, PartsOf, ConcatProperties
      <4> QED BY <4>1 DEF InParts
    <3> QED BY <1>1, <3>1
  <2> DEFINE u == SubSeq(x, 1, Len(b))
  <2>2. u \in Seq(Shown) /\ Len(u) = Len(b) /\ \A i \in 1..Len(b) : u[i] = x[i]
    BY <1>1, <2>1
  <2> HIDE DEF u
  <2>3. u = b
    BY <1>1, <2>1, <2>2, SeqEqual
  <2> QED BY <1>1, <1>3, <2>3 DEF Display!Before, u
<1> QED BY <1>2, <1>3 DEF Splits

\* The three parts of a refresh.
LEMMA Completed ==
  ASSUME NEW x, NEW at, NEW b, NEW t, Splits(x, at, b, t), NEW c \in Seq(Shown),
         NEW r, r = Display!AppendCompleted(x, at, c)
  PROVE  Splits(r.text, r.pos, b \o c, IF c = <<>> THEN t ELSE <<>>)
<1>1. b \in Seq(Shown) /\ t \in Seq(Shown) /\ x = b \o t /\ b \o c \in Seq(Shown)
  BY ConcatProperties DEF Splits
<1>2. CASE c = <<>>
  <2>1. b \o c = b
    BY <1>1, <1>2, ConcatEmptySeq
  <2> QED BY <1>2, <2>1 DEF Display!AppendCompleted
<1>3. CASE c # <<>>
  <2>1. r.text = b \o c /\ r.pos = -1
    BY <1>3, BeforeStreaming DEF Display!AppendCompleted
  <2>2. (b \o c) \o <<>> = b \o c /\ <<>> \in Seq(Shown)
    BY <1>1, ConcatEmptySeq
  <2> QED BY <1>1, <1>3, <2>1, <2>2 DEF Splits
<1> QED BY <1>2, <1>3

LEMMA Streamed ==
  ASSUME NEW x, NEW at, NEW b, NEW t, Splits(x, at, b, t), NEW s \in Seq(Shown),
         NEW r, r = Display!ShowStreaming(x, at, s)
  PROVE  Splits(r.text, r.pos, b, IF s = <<>> THEN t ELSE s)
<1>1. CASE s = <<>>
  BY <1>1 DEF Display!ShowStreaming
<1>2. CASE s # <<>>
  <2>1. r.text = b \o s /\ r.pos = Len(b)
    BY <1>2, BeforeStreaming DEF Display!ShowStreaming
  <2> QED BY <1>2, <2>1 DEF Splits
<1> QED BY <1>1, <1>2

LEMMA Noticed ==
  ASSUME NEW x, NEW at, NEW b, NEW t, Splits(x, at, b, t), NEW n \in Seq(Shown),
         NEW r, r = Display!ShowNotices(x, at, n)
  PROVE  Splits(r.text, r.pos, IF n = <<>> THEN b ELSE (b \o t) \o n, IF n = <<>> THEN t ELSE <<>>)
<1>1. CASE n = <<>>
  BY <1>1 DEF Display!ShowNotices
<1>2. CASE n # <<>>
  <2>1. r.text = (b \o t) \o n /\ r.pos = -1
    BY <1>2 DEF Display!ShowNotices, Splits
  <2>2. (b \o t) \o n \in Seq(Shown)
    BY ConcatProperties DEF Splits
  <2>3. ((b \o t) \o n) \o <<>> = (b \o t) \o n /\ <<>> \in Seq(Shown)
    BY <2>2, ConcatEmptySeq
  <2> QED BY <1>2, <2>1, <2>2, <2>3 DEF Splits
<1> QED BY <1>1, <1>2

LEMMA ScreenShow == ScreenInv /\ Display!Show => ScreenInv'
<1> SUFFICES ASSUME ScreenInv, Display!Show PROVE ScreenInv'
  OBVIOUS
<1>1. PICK b, t : ScreenParts(b, t)
  BY DEF ScreenInv
<1>2. /\ {lines, streaming, completed, text, pulled, written} \subseteq Seq(Shown)
      /\ NoKind("line", streaming) /\ NoKind("notice", streaming) /\ NoKind("notice", lines)
      /\ NoKind("line", pulled) /\ NoKind("piece", pulled) /\ NoKind("notice", completed)
      /\ <<>> \in Seq(Shown)
  BY DEF ScreenInv, ScreenTypes
<1> DEFINE first == Display!AppendCompleted(text, pos, completed)
           then  == Display!ShowStreaming(first.text, first.pos, streaming)
           last  == Display!ShowNotices(then.text, then.pos, pulled)
           b1 == b \o completed
           t1 == IF completed = <<>> THEN t ELSE <<>>
           t2 == IF streaming = <<>> THEN t1 ELSE streaming
           b3 == IF pulled = <<>> THEN b1 ELSE (b1 \o t2) \o pulled
           t3 == IF pulled = <<>> THEN t2 ELSE <<>>
<1>3. /\ text' = last.text /\ pos' = last.pos /\ refresh' = "no" /\ completed' = <<>>
      /\ pulled' = <<>> /\ UNCHANGED <<lines, streaming, written>>
  BY DEF Display!Show
<1>4. Splits(text, pos, b, t)
  BY <1>1 DEF ScreenParts, Splits
<1>5. Splits(first.text, first.pos, b1, t1)
  BY <1>2, <1>4, Completed
<1> HIDE DEF first
<1>6. Splits(then.text, then.pos, b1, t2)
  <2> HIDE DEF b1, t1
  <2> QED BY <1>2, <1>5, Streamed
<1> HIDE DEF then
<1>7. Splits(last.text, last.pos, b3, t3)
  <2> HIDE DEF b1, t2
  <2> QED BY <1>2, <1>6, Noticed
<1> HIDE DEF last
<1>8. Splits(text', pos', b3, t3)
  BY <1>3, <1>7
<1>9. /\ b \in Seq(Shown) /\ t \in Seq(Shown) /\ b1 \in Seq(Shown) /\ t2 \in Seq(Shown)
  BY <1>2, <1>4, <1>5, <1>6 DEF Splits
<1>10. /\ Has(<<>>) = {} /\ NoKind("line", t2) /\ NoKind("notice", t2)
       /\ Has(t2) \subseteq Has(lines) \union Has(streaming)
  <2>1. Has(<<>>) = {}
    BY HasOne
  <2> QED BY <1>1, <1>2, <2>1 DEF ScreenParts, NoKind
<1>11. Has(b1) = Has(b) \union Has(completed)
  <2>1. HasBoth(b, completed)
    BY <1>2, <1>9, HasJoin
  <2> QED BY <2>1 DEF HasBoth
<1>12. \A k : Kind(k, b1) = Kind(k, b) \o Kind(k, completed)
  <2>1. \A k : KindBoth(k, b, completed)
    BY <1>2, <1>9, KindJoin
  <2> QED BY <2>1 DEF KindBoth
<1>13. /\ Kind("line", t2) = <<>> /\ Kind("notice", t2) = <<>> /\ Kind("line", pulled) = <<>>
       /\ Kind("notice", completed) = <<>>
  <2>1. completed \in Seq(Shown) /\ pulled \in Seq(Shown)
    BY <1>2
  <2> QED BY <1>2, <1>9, <1>10, <2>1, KindOfNone
<1>14. \A k : Kind(k, <<>>) = <<>>
  BY SubEmpty DEF Kind
<1> HIDE DEF t2, b1
<1>15. /\ b3 \in Seq(Shown) /\ t3 \in Seq(Shown)
  BY <1>7 DEF Splits
<1>16. /\ Has(written) = Has(b3) \union Has(lines) \union Has(streaming)
       /\ Has(t3) \subseteq Has(lines) \union Has(streaming)
       /\ NoKind("line", t3) /\ NoKind("notice", t3)
  <2>1. Has(written) = Has(b1) \union Has(lines) \union Has(streaming) \union Has(pulled)
    BY <1>1, <1>11 DEF ScreenParts
  <2>2. CASE pulled = <<>>
    BY <1>10, <2>1, <2>2
  <2>3. CASE pulled # <<>>
    <3>1. Has((b1 \o t2) \o pulled) = Has(b1) \union Has(t2) \union Has(pulled)
      <4>1. Has(b1 \o t2) = Has(b1) \union Has(t2)
        <5>1. HasBoth(b1, t2)
          BY <1>9, HasJoin
        <5> QED BY <5>1 DEF HasBoth
      <4>2. pulled \in Seq(Shown) /\ b1 \o t2 \in Seq(Shown)
        BY <1>2, <1>9, ConcatProperties
      <4>3. Has((b1 \o t2) \o pulled) = Has(b1 \o t2) \union Has(pulled)
        <5>1. HasBoth(b1 \o t2, pulled)
          BY ONLY <4>2, HasJoin
        <5> QED BY <5>1 DEF HasBoth
      <4> QED BY <4>1, <4>3
    <3> QED BY <1>10, <2>1, <2>3, <3>1 DEF NoKind
  <2> QED BY <2>2, <2>3
<1>17. \A k : Kind(k, b3) = IF pulled = <<>> THEN Kind(k, b1)
                            ELSE (Kind(k, b1) \o Kind(k, t2)) \o Kind(k, pulled)
  <2>1. \A k : Kind(k, (b1 \o t2) \o pulled) = (Kind(k, b1) \o Kind(k, t2)) \o Kind(k, pulled)
    <3>1. b1 \o t2 \in Seq(Shown) /\ pulled \in Seq(Shown)
      BY <1>2, <1>9, ConcatProperties
    <3>2. \A k : Kind(k, (b1 \o t2) \o pulled) = Kind(k, b1 \o t2) \o Kind(k, pulled)
      <4>1. \A k : KindBoth(k, b1 \o t2, pulled)
        BY <3>1, KindJoin
      <4> QED BY <4>1 DEF KindBoth
    <3>3. \A k : Kind(k, b1 \o t2) = Kind(k, b1) \o Kind(k, t2)
      <4>1. \A k : KindBoth(k, b1, t2)
        BY <1>9, KindJoin
      <4> QED BY <4>1 DEF KindBoth
    <3> QED BY <3>2, <3>3
  <2> QED BY <2>1
<1>18. \A k : Kind(k, b1) \in Seq(Shown) /\ Kind(k, b) \in Seq(Shown)
  BY <1>9, KindType
<1>19. Kind("line", b3) = Kind("line", b1)
  <2>1. Kind("line", b1) \in Seq(Shown)
    BY <1>18
  <2>2. (Kind("line", b1) \o <<>>) \o <<>> = Kind("line", b1)
    BY <2>1, ConcatEmptySeq
  <2> QED BY <1>13, <1>17, <2>2
<1>20. Kind("notice", b3) = Kind("notice", b) \o Kind("notice", pulled)
  <2>1. Kind("notice", b) \in Seq(Shown) /\ Kind("notice", b1) \in Seq(Shown)
    BY <1>18
  <2>2. Kind("notice", b) \o <<>> = Kind("notice", b)
    BY <2>1, ConcatEmptySeq
  <2>3. Kind("notice", b1) = Kind("notice", b)
    BY <1>12, <1>13, <2>2
  <2>4. pulled = <<>> => Kind("notice", pulled) = <<>>
    BY <1>14
  <2> QED BY <1>13, <1>17, <2>2, <2>3, <2>4
<1>21. Kind("notice", written) = Kind("notice", b3)
  BY <1>1, <1>20 DEF ScreenParts
<1>22. Kind("line", written)
         = All(Kind("line", b3), Kind("line", <<>>), Kind("line", lines), Kind("line", streaming))
  <2>1. Moves(Kind("line", b), Kind("line", completed), Kind("line", lines), Kind("line", streaming))
    <3>1. \A k : /\ Kind(k, completed) \in Seq(Shown) /\ Kind(k, lines) \in Seq(Shown)
                 /\ Kind(k, streaming) \in Seq(Shown)
      BY <1>2, KindType
    <3> QED BY <1>18, <3>1, AllMoves
  <2> QED BY <1>1, <1>12, <1>14, <1>19, <2>1 DEF ScreenParts, Moves
<1>23. ASSUME Kind("notice", written) = <<>>
       PROVE  written = All(b3, <<>>, lines, streaming)
  <2>1. pulled = <<>>
    <3> SUFFICES ASSUME pulled # <<>> PROVE FALSE
      OBVIOUS
    <3>1. pulled \in Seq(Shown)
      BY <1>2
    <3>2. Len(pulled) \in Nat /\ Len(pulled) # 0 /\ 1 \in DOMAIN pulled /\ pulled[1] \in Shown
      BY <3>1, EmptySeq
    <3>3. pulled[1].kind = "notice"
      <4>1. pulled[1] \in Has(pulled)
        BY <3>2 DEF Has
      <4> QED BY <1>2, <3>2, <4>1 DEF NoKind, Shown
    <3>4. Kind("notice", pulled) # <<>>
      BY <3>1, <3>2, <3>3, KindSome
    <3>5. Kind("notice", pulled) \in Seq(Shown) /\ Kind("notice", b) \in Seq(Shown)
      BY <1>18, <3>1, KindType
    <3>6. Kind("notice", b) \o Kind("notice", pulled) = <<>>
      BY <1>1, <1>23 DEF ScreenParts
    <3>7. Len(Kind("notice", b) \o Kind("notice", pulled))
            = Len(Kind("notice", b)) + Len(Kind("notice", pulled))
      BY <3>5, ConcatProperties
    <3>8. Len(<<>>) = 0 /\ Len(Kind("notice", pulled)) \in Nat \ {0} /\ Len(Kind("notice", b)) \in Nat
      BY <3>4, <3>5, EmptySeq
    <3> QED BY <3>6, <3>7, <3>8
  <2>2. Moves(b, completed, lines, streaming)
    BY <1>2, <1>9, AllMoves
  <2> QED BY <1>1, <1>23, <2>1, <2>2 DEF ScreenParts, Moves, b1
<1> HIDE DEF b3, t3
<1>24. PICK b4, t4 : b4 = b3 /\ t4 = t3
  OBVIOUS
<1>26. ScreenParts(b4, t4)'
  <2>1. text' = b3 \o t3 /\ ((pos' = -1 /\ t3 = <<>>) \/ pos' = Len(b3))
    BY <1>8 DEF Splits
  <2>2. Kind("notice", written) = Kind("notice", b3) \o Kind("notice", <<>>)
    <3>1. Kind("notice", b3) \in Seq(Shown)
      BY <1>15, KindType
    <3>2. Kind("notice", b3) \o <<>> = Kind("notice", b3)
      BY <3>1, ConcatEmptySeq
    <3> QED BY <1>14, <1>21, <3>2
  <2>3. /\ Has(t3) \subseteq Has(completed') \union Has(lines') \union Has(streaming')
        /\ Has(written') = Has(b3) \union Has(completed') \union Has(lines') \union Has(streaming')
                             \union Has(pulled')
    BY <1>3, <1>10, <1>16
  <2>4. Kind("line", written')
         = All(Kind("line", b3), Kind("line", completed'), Kind("line", lines'), Kind("line", streaming'))
    BY <1>3, <1>22
  <2>5. /\ Kind("notice", written') = Kind("notice", b3) \o Kind("notice", pulled')
        /\ Kind("notice", written') = <<>> => written' = All(b3, completed', lines', streaming')
    BY <1>3, <1>23, <2>2
  <2>6. NoKind("line", t3) /\ NoKind("notice", t3) /\ b3 \in Seq(Shown) /\ t3 \in Seq(Shown)
    BY <1>15, <1>16
  <2> QED BY ONLY <1>24, <2>1, <2>3, <2>4, <2>5, <2>6 DEF ScreenParts
<1>25. ScreenTypes'
  <2>1. text' \in Seq(Shown)
    <3>1. b3 \o t3 \in Seq(Shown)
      BY <1>15, ConcatProperties
    <3> QED BY <1>8, <3>1 DEF Splits
  <2> QED BY <1>2, <1>3, <1>10, <2>1 DEF ScreenTypes, NoKind
<1> QED BY <1>25, <1>26 DEF ScreenInv

\* Nothing is written at first, and the other parts of the terminal leave the screen alone.
LEMMA ScreenInit == Display!Init => ScreenInv
<1> SUFFICES ASSUME Display!Init PROVE ScreenInv
  OBVIOUS
<1>1. /\ lines = <<>> /\ streaming = <<>> /\ text = <<>> /\ pos = -1
      /\ refresh = "no" /\ completed = <<>> /\ pulled = <<>> /\ written = <<>>
  BY DEF Display!Init
<1>2. Has(<<>>) = {} /\ (\A k : Kind(k, <<>>) = <<>>) /\ <<>> \in Seq(Shown)
  BY HasOne, SubEmpty DEF Kind
<1>3. <<>> \o <<>> = <<>>
  BY <1>2, ConcatEmptySeq
<1>4. All(<<>>, <<>>, <<>>, <<>>) = <<>>
  BY <1>3 DEF All
<1>5. ScreenParts(<<>>, <<>>)
  BY <1>1, <1>2, <1>3, <1>4 DEF ScreenParts, NoKind
<1>6. ScreenTypes
  BY <1>1, <1>2 DEF ScreenTypes, NoKind
<1> QED BY <1>5, <1>6 DEF ScreenInv

LEMMA ScreenStep == ScreenInv /\ [Display!Next]_screenVars => ScreenInv'
<1>1. ScreenInv /\ UNCHANGED screenVars => ScreenInv'
  <2> SUFFICES ASSUME ScreenInv, UNCHANGED screenVars PROVE ScreenInv'
    OBVIOUS
  <2>1. PICK b, t : ScreenParts(b, t)
    BY DEF ScreenInv
  <2>2. ScreenParts(b, t)'
    BY <2>1 DEF screenVars, ScreenParts
  <2> QED BY <2>2 DEF screenVars, ScreenInv, ScreenTypes
<1> QED BY <1>1, ScreenPiece, ScreenLine, ScreenComplete, ScreenNotice, ScreenFlush, ScreenShow
        DEF Display!Next

\* What the invariant says of all that is on the screen or on its way there.
LEMMA ScreenKeeps == ScreenInv => Display!NothingIsOverwritten
<1> SUFFICES ASSUME ScreenInv PROVE Display!NothingIsOverwritten
  OBVIOUS
<1>1. PICK b, t : ScreenParts(b, t)
  BY DEF ScreenInv
<1>2. /\ {lines, streaming, completed, text, pulled, written} \subseteq Seq(Shown)
      /\ NoKind("line", streaming) /\ NoKind("notice", streaming) /\ NoKind("notice", lines)
      /\ NoKind("line", pulled) /\ NoKind("piece", pulled) /\ NoKind("notice", completed)
      /\ (refresh = "no" => completed = <<>>)
  BY DEF ScreenInv, ScreenTypes
<1>3. b \in Seq(Shown) /\ t \in Seq(Shown)
  BY <1>1 DEF ScreenParts
<1> DEFINE e == (((text \o completed) \o lines) \o streaming) \o pulled
<1>4. Display!Everywhere = e
  BY DEF Display!Everywhere
<1>5. /\ text \o completed \in Seq(Shown) /\ (text \o completed) \o lines \in Seq(Shown)
      /\ ((text \o completed) \o lines) \o streaming \in Seq(Shown) /\ e \in Seq(Shown)
  BY <1>2, ConcatProperties
<1>15. /\ text \in Seq(Shown) /\ completed \in Seq(Shown) /\ lines \in Seq(Shown)
       /\ streaming \in Seq(Shown) /\ pulled \in Seq(Shown)
  BY <1>2
<1>16. (text \o completed) \o lines \in Seq(Shown)
  BY <1>5
<1>17. ((text \o completed) \o lines) \o streaming \in Seq(Shown)
  BY <1>5
<1>6. Has(e) = Has(text) \union Has(completed) \union Has(lines) \union Has(streaming) \union Has(pulled)
  <2>1. Has(e) = Has(((text \o completed) \o lines) \o streaming) \union Has(pulled)
    <3>1. HasBoth(((text \o completed) \o lines) \o streaming, pulled)
      BY ONLY <1>15, <1>17, HasJoin
    <3> QED BY <3>1 DEF HasBoth
  <2>2. Has(((text \o completed) \o lines) \o streaming)
          = Has((text \o completed) \o lines) \union Has(streaming)
    <3>1. HasBoth((text \o completed) \o lines, streaming)
      BY ONLY <1>15, <1>16, HasJoin
    <3> QED BY <3>1 DEF HasBoth
  <2>3. Has((text \o completed) \o lines) = Has(text \o completed) \union Has(lines)
    <3>1. HasBoth(text \o completed, lines)
      BY ONLY <1>5, <1>15, HasJoin
    <3> QED BY <3>1 DEF HasBoth
  <2>4. Has(text \o completed) = Has(text) \union Has(completed)
    <3>1. HasBoth(text, completed)
      BY ONLY <1>5, <1>15, HasJoin
    <3> QED BY <3>1 DEF HasBoth
  <2> HIDE DEF e
  <2> QED BY <2>1, <2>2, <2>3, <2>4
<1>7. Has(text) = Has(b) \union Has(t)
  <2>1. Has(b \o t) = Has(b) \union Has(t)
    <3>1. HasBoth(b, t)
      BY <1>3, HasJoin
    <3> QED BY <3>1 DEF HasBoth
  <2> QED BY <1>1, <2>1 DEF ScreenParts
<1>8. Has(written) = Has(e)
  <2> HIDE DEF e
  <2> QED BY <1>1, <1>6, <1>7 DEF ScreenParts
<1>9. \A k : Kind(k, e) = (All(Kind(k, text), Kind(k, completed), Kind(k, lines), Kind(k, streaming)))
                            \o Kind(k, pulled)
  <2> TAKE k
  <2>1. Kind(k, e) = Kind(k, ((text \o completed) \o lines) \o streaming) \o Kind(k, pulled)
    <3>1. KindBoth(k, ((text \o completed) \o lines) \o streaming, pulled)
      BY <1>2, <1>5, KindJoin
    <3> QED BY <3>1 DEF KindBoth
  <2>2. Kind(k, ((text \o completed) \o lines) \o streaming)
          = Kind(k, (text \o completed) \o lines) \o Kind(k, streaming)
    <3>1. KindBoth(k, (text \o completed) \o lines, streaming)
      BY <1>2, <1>5, KindJoin
    <3> QED BY <3>1 DEF KindBoth
  <2>3. Kind(k, (text \o completed) \o lines) = Kind(k, text \o completed) \o Kind(k, lines)
    <3>1. KindBoth(k, text \o completed, lines)
      BY <1>2, <1>5, KindJoin
    <3> QED BY <3>1 DEF KindBoth
  <2>4. Kind(k, text \o completed) = Kind(k, text) \o Kind(k, completed)
    <3>1. KindBoth(k, text, completed)
      BY <1>2, <1>5, KindJoin
    <3> QED BY <3>1 DEF KindBoth
  <2> HIDE DEF e
  <2> QED BY <2>1, <2>2, <2>3, <2>4 DEF All
<1> HIDE DEF e
<1>10. \A k \in {"line", "notice"} : Kind(k, text) = Kind(k, b)
  <2> TAKE k \in {"line", "notice"}
  <2>1. Kind(k, b \o t) = Kind(k, b) \o Kind(k, t)
    <3>1. KindBoth(k, b, t)
      BY <1>3, KindJoin
    <3> QED BY <3>1 DEF KindBoth
  <2>2. Kind(k, t) = <<>>
    <3>1. NoKind(k, t)
      BY <1>1 DEF ScreenParts
    <3> QED BY <1>3, <3>1, KindOfNone
  <2>3. Kind(k, b) \in Seq(Shown)
    BY <1>3, KindType
  <2>4. Kind(k, b) \o <<>> = Kind(k, b)
    BY <2>3, ConcatEmptySeq
  <2>5. text = b \o t
    BY <1>1 DEF ScreenParts
  <2> QED BY <2>1, <2>2, <2>4, <2>5
<1>11. Kind("line", e) = Kind("line", written)
  <2>1. Kind("line", pulled) = <<>>
    <3>1. pulled \in Seq(Shown)
      BY <1>2
    <3> QED BY <1>2, <3>1, KindOfNone
  <2>2. Kind("line", written)
          = All(Kind("line", b), Kind("line", completed), Kind("line", lines), Kind("line", streaming))
    BY <1>1 DEF ScreenParts
  <2>3. Kind("line", written) \in Seq(Shown)
    BY <1>2, KindType
  <2>4. Kind("line", written) \o <<>> = Kind("line", written)
    BY <2>3, ConcatEmptySeq
  <2> QED BY <1>9, <1>10, <2>1, <2>2, <2>4
<1>12. Kind("notice", e) = Kind("notice", written)
  <2>1. /\ Kind("notice", completed) = <<>> /\ Kind("notice", lines) = <<>>
        /\ Kind("notice", streaming) = <<>>
    <3>1. completed \in Seq(Shown) /\ lines \in Seq(Shown) /\ streaming \in Seq(Shown)
      BY <1>2
    <3> QED BY <1>2, <3>1, KindOfNone
  <2>2. Kind("notice", b) \in Seq(Shown)
    BY <1>3, KindType
  <2>3. ((Kind("notice", b) \o <<>>) \o <<>>) \o <<>> = Kind("notice", b)
    BY <2>2, ConcatEmptySeq
  <2>4. Kind("notice", written) = Kind("notice", b) \o Kind("notice", pulled)
    BY <1>1 DEF ScreenParts
  <2> QED BY <1>9, <1>10, <2>1, <2>3, <2>4 DEF All
<1>13. Display!StreamedOnce
  <2> SUFFICES ASSUME refresh = "no", pos = -1, Kind("notice", written) = <<>>
               PROVE  text \o lines \o streaming = written
    BY OfIsKind DEF Display!StreamedOnce
  <2>1. completed = <<>>
    BY <1>2
  <2>2. t = <<>>
    <3>1. Len(b) \in Nat
      BY <1>3
    <3> QED BY <1>1, <3>1 DEF ScreenParts
  <2>3. text = b
    <3>1. b \o <<>> = b
      BY <1>3, ConcatEmptySeq
    <3> QED BY <1>1, <2>2, <3>1 DEF ScreenParts
  <2>4. written = All(b, <<>>, lines, streaming)
    BY <1>1, <2>1 DEF ScreenParts
  <2>5. b \o <<>> = b
    BY <1>3, ConcatEmptySeq
  <2> QED BY <2>3, <2>4, <2>5 DEF All
<1>14. \A s : Display!ToSet(s) = Has(s)
  BY DEF Display!ToSet, Has
<1> QED BY <1>4, <1>8, <1>11, <1>12, <1>13, <1>14, OfIsKind DEF Display!NothingIsOverwritten

\* Nothing that is written is lost by a refresh (cli.py, _refresh_ui), although the
\* streamed text at the end of the screen is overwritten by each, and threads write
\* between its two halves: lines and notices stay, once and in order.
THEOREM NothingIsEverOverwritten == MCSpec => []NothingIsOverwritten
<1>1. MCInit => ScreenInv
  BY ScreenInit DEF MCInit
<1>2. ScreenInv /\ [MCNext]_<<part, vars, chatVars, editVars, mailVars, screenVars>> => ScreenInv'
  <2> SUFFICES ASSUME ScreenInv, [MCNext]_<<part, vars, chatVars, editVars, mailVars, screenVars>>
               PROVE  ScreenInv'
    OBVIOUS
  <2>1. [Display!Next]_screenVars
    BY DEF MCNext
  <2> QED BY <2>1, ScreenStep
<1>3. ScreenInv => NothingIsOverwritten
  BY ScreenKeeps DEF NothingIsOverwritten
<1> QED BY <1>1, <1>2, <1>3, PTL DEF MCSpec

---------------------------------------------------------------------------
(* Who reports for a promoted turn, and who answers it.  A thread finds out that it *)
(* has become a worker by looking its own ident up in a table that another thread   *)
(* has written, and idents are used again: the proofs are about which entries of    *)
(* that table can be trusted.                                                       *)

\* Numbers of turns, and get_ident() returns no zero, which stands for None.
Numbers == MaxTurns \in Nat /\ 0 \notin Idents

TurnPlaces == {"none", "begin", "bind", "run", "approve", "ask", "ran", "unbind", "done"}

TurnOrNone == Turns \union {0}

TypeInv ==
    /\ started \in 0..MaxTurns /\ (ui \in {"register", "mark"} => moving # 0)
    /\ moving \in TurnOrNone /\ foreground \in TurnOrNone /\ pending \in TurnOrNone
    /\ status \in [Turns -> {"running", "completed", "worker"}]
    /\ pc \in [Turns -> TurnPlaces]
    /\ ident \in [Turns -> Idents \union {0}] /\ bound \in [Turns -> Idents \union {0}]
    /\ contexts \in [Idents -> TurnOrNone]
    /\ asking \in [Turns -> TurnOrNone]
    /\ worker \in [Turns -> {"none", "running", "reported", "cancelled", "accepted"}]
    /\ reports \subseteq Turns \X Turns /\ open \subseteq Turns /\ stranded \subseteq Turns

\* A thread that has bound itself, and one whose report is still to come.
Bound(t) == pc[t] \in {"run", "approve", "ask", "ran", "unbind"}
Unreported(t) == pc[t] \in {"run", "approve", "ask", "ran"}

\* The threads: no two that live have one ident, and each binds its own.
ThreadInv ==
    /\ \A t \in Turns : pc[t] = "none" <=> t > started
    /\ \A t \in Turns : pc[t] # "none" => ident[t] \in Idents
    /\ \A t \in Turns : bound[t] = IF Bound(t) \/ pc[t] = "done" THEN ident[t] ELSE 0
    /\ \A t \in Turns, u \in Turns : Live(t) /\ Live(u) /\ ident[t] = ident[u] => t = u
    /\ \A t \in Turns : pc[t] = "approve" <=> pending = t

LEMMA TypeStep == Numbers /\ TypeInv /\ ThreadInv /\ [Next]_vars => TypeInv'
<1> SUFFICES ASSUME Numbers, TypeInv, ThreadInv, [Next]_vars PROVE TypeInv'
  OBVIOUS
<1>0. 0 \notin Turns
  BY DEF Turns
<1>1. ASSUME NEW t \in Turns, NEW p \in TurnPlaces, Goto(t, p)
      PROVE  pc' \in [Turns -> TurnPlaces]
  BY <1>1 DEF Goto, TypeInv
<1>2. CASE AnswerApproval
  <2>1. pc' \in [Turns -> TurnPlaces]
    BY <1>2 DEF AnswerApproval, TypeInv, TurnPlaces
  <2> QED BY <1>2, <2>1 DEF AnswerApproval, TypeInv, TurnOrNone, uiVars, turnVars, workerVars
<1>3. CASE Enter \/ HandleInput \/ ForkSession
  BY <1>3 DEF Enter, HandleInput, ForkSession, TypeInv, TurnOrNone, uiVars, turnVars, approvalVars,
    workerVars
<1>4. ASSUME NEW t \in Turns, CancelWorker(t)
      PROVE  /\ worker' \in [Turns -> {"none", "running", "reported", "cancelled", "accepted"}]
             /\ open' \subseteq Turns
  BY <1>4 DEF CancelWorker, TypeInv
<1>5. CASE Interrupt \/ RunCommand
  BY <1>4, <1>5 DEF Interrupt, RunCommand, TypeInv, uiVars, turnVars, approvalVars
<1>6. CASE RegisterWorker
  BY <1>6 DEF RegisterWorker, TypeInv, turnVars, approvalVars
<1>7. CASE MarkWorker
  <2>1. contexts' \in [Idents -> TurnOrNone]
    BY <1>7 DEF MarkWorker, TypeInv
  <2>2. stranded' \subseteq Turns
    BY <1>7 DEF MarkWorker, TypeInv, TurnOrNone
  <2>3. status' \in [Turns -> {"running", "completed", "worker"}]
    BY <1>7 DEF MarkWorker, TypeInv
  <2> QED BY <1>7, <2>1, <2>2, <2>3 DEF MarkWorker, TypeInv, approvalVars
<1>8. CASE StartTurn
  <2>1. started' \in 0..MaxTurns /\ started' \in Turns
    BY <1>8 DEF StartTurn, TypeInv, Numbers, Turns
  <2>2. ident' \in [Turns -> Idents \union {0}] /\ pc' \in [Turns -> TurnPlaces]
    BY <1>8, <2>1 DEF StartTurn, TypeInv, TurnPlaces
  <2> QED BY <1>8, <2>1, <2>2 DEF StartTurn, TypeInv, turnVars, approvalVars, workerVars
<1>9. ASSUME NEW t \in Turns, BeginForegroundTask(t) \/ BindForegroundTask(t) \/ LoopReturns(t)
      PROVE  TypeInv'
  <2>1. pc' \in [Turns -> TurnPlaces]
    BY <1>1, <1>9 DEF BeginForegroundTask, BindForegroundTask, LoopReturns, TurnPlaces
  <2>2. bound' \in [Turns -> Idents \union {0}]
    BY <1>9 DEF BeginForegroundTask, BindForegroundTask, LoopReturns, turnVars, TypeInv
  <2> QED
    BY <1>9, <2>1, <2>2 DEF BeginForegroundTask, BindForegroundTask, LoopReturns, uiVars, turnVars,
      approvalVars, workerVars, TypeInv, TurnOrNone
<1>a. ASSUME NEW t \in Turns, pc[t] # "none"
      PROVE  contexts[ident[t]] \in TurnOrNone /\ (contexts[ident[t]] # 0 => contexts[ident[t]] \in Turns)
  BY <1>a DEF ThreadInv, TypeInv, TurnOrNone
<1>10. ASSUME NEW t \in Turns, Report(t) PROVE TypeInv'
  <2>1. pc' \in [Turns -> TurnPlaces]
    BY <1>1, <1>10 DEF Report, TurnPlaces
  <2>2. contexts[ident[t]] # 0 => contexts[ident[t]] \in Turns
    BY <1>10, <1>a DEF Report
  <2>3. reports' \subseteq Turns \X Turns
    BY <1>10, <2>2 DEF Report, TypeInv
  <2>4. worker' \in [Turns -> {"none", "running", "reported", "cancelled", "accepted"}]
    BY <1>10, <2>2 DEF Report, TypeInv
  <2>5. status' \in [Turns -> {"running", "completed", "worker"}] /\ foreground' \in TurnOrNone
    BY <1>10, <2>2 DEF Report, TypeInv, TurnOrNone
  <2> QED
    BY <1>10, <2>1, <2>3, <2>4, <2>5 DEF Report, uiVars, approvalVars, TypeInv
<1>11. ASSUME NEW t \in Turns, UnbindForegroundTask(t) PROVE TypeInv'
  <2>1. pc' \in [Turns -> TurnPlaces]
    BY <1>1, <1>11 DEF UnbindForegroundTask, TurnPlaces
  <2>2. stranded' \subseteq Turns
    BY <1>11 DEF UnbindForegroundTask, TypeInv, TurnOrNone
  <2>3. contexts' \in [Idents -> TurnOrNone]
    BY <1>11 DEF UnbindForegroundTask, TypeInv, TurnOrNone
  <2> QED
    BY <1>11, <2>1, <2>2, <2>3 DEF UnbindForegroundTask, uiVars, approvalVars, TypeInv
<1>12. ASSUME NEW t \in Turns, RouteApproval(t) PROVE TypeInv'
  <2>1. pc' \in [Turns -> TurnPlaces]
    BY <1>1, <1>12 DEF RouteApproval, TypeInv, TurnPlaces
  <2>2. contexts[ident[t]] # 0 => contexts[ident[t]] \in Turns
    BY <1>12, <1>a DEF RouteApproval
  <2>3. CASE contexts[ident[t]] # 0
    BY <1>12, <2>1, <2>2, <2>3 DEF RouteApproval, uiVars, turnVars, TypeInv, TurnOrNone
  <2>4. CASE contexts[ident[t]] = 0
    BY <1>12, <2>1, <2>4 DEF RouteApproval, uiVars, turnVars, TypeInv, TurnOrNone
  <2> QED BY <2>3, <2>4
<1>13. ASSUME NEW t \in Turns, DeliverAnswer(t) \/ AcceptResult(t) PROVE TypeInv'
  <2>1. pc' \in [Turns -> TurnPlaces]
    BY <1>1, <1>13 DEF DeliverAnswer, AcceptResult, TypeInv, TurnPlaces
  <2>2. worker' \in [Turns -> {"none", "running", "reported", "cancelled", "accepted"}]
        /\ asking' \in [Turns -> TurnOrNone] /\ open' \subseteq Turns
    BY <1>13 DEF DeliverAnswer, AcceptResult, approvalVars, TypeInv, TurnOrNone
  <2> QED
    BY <1>13, <2>1, <2>2 DEF DeliverAnswer, AcceptResult, uiVars, turnVars, approvalVars, TypeInv
<1>14. CASE UNCHANGED vars
  BY <1>14 DEF vars, uiVars, turnVars, approvalVars, workerVars, TypeInv
<1> QED
  BY <1>2, <1>3, <1>5, <1>6, <1>7, <1>8, <1>9, <1>10, <1>11, <1>12, <1>13, <1>14
  DEF Next, UiStep, ThreadStep

\* A thread that is bound goes on, and nothing else of the threads changes.
LEMMA GoesOn ==
  ASSUME TypeInv, ThreadInv, UNCHANGED <<started, ident, bound, pending>>, NEW t \in Turns,
         NEW p \in {"run", "ask", "ran", "unbind", "done"}, Bound(t), pc[t] # "approve", Goto(t, p)
  PROVE  ThreadInv'
  BY DEF Goto, TypeInv, ThreadInv, Live, Bound

LEMMA ThreadInvStep == Numbers /\ TypeInv /\ ThreadInv /\ [Next]_vars => ThreadInv'
<1> SUFFICES ASSUME Numbers, TypeInv, ThreadInv, [Next]_vars PROVE ThreadInv'
  OBVIOUS
<1> USE DEF TypeInv, ThreadInv, Live, Bound
<1>1. CASE UNCHANGED <<started, pc, ident, bound, pending>>
  BY <1>1
<1>3. CASE AnswerApproval
  BY <1>3 DEF AnswerApproval, uiVars, turnVars, Turns, Numbers
<1>4. CASE StartTurn
  BY <1>4 DEF StartTurn, turnVars, approvalVars, Turns, Numbers
<1>5. ASSUME NEW t \in Turns, BeginForegroundTask(t) PROVE ThreadInv'
  BY <1>5 DEF BeginForegroundTask, Goto, uiVars, approvalVars
<1>6. ASSUME NEW t \in Turns, BindForegroundTask(t) PROVE ThreadInv'
  BY <1>6 DEF BindForegroundTask, Goto, uiVars, approvalVars
<1>7. ASSUME NEW t \in Turns, RouteApproval(t) PROVE ThreadInv'
  <2>1. /\ UNCHANGED <<started, ident, bound>> /\ pc[t] = "run"
        /\ \/ Goto(t, "ask") /\ UNCHANGED pending
           \/ Goto(t, "approve") /\ pending = 0 /\ pending' = t
           \/ UNCHANGED <<pc, pending>>
    BY <1>7 DEF RouteApproval, uiVars, turnVars, TerminalIsFree
  <2>2. CASE Goto(t, "approve") /\ pending = 0 /\ pending' = t
    BY <2>1, <2>2 DEF Goto, Turns
  <2>3. Bound(t) /\ pc[t] # "approve"
    BY <2>1
  <2> HIDE DEF TypeInv, ThreadInv, Live, Bound
  <2> QED BY <1>1, <2>1, <2>2, <2>3, GoesOn
<1>8. ASSUME NEW t \in Turns, LoopReturns(t) \/ Report(t) \/ UnbindForegroundTask(t)
             \/ DeliverAnswer(t)
      PROVE  ThreadInv'
  <2>1. UNCHANGED <<started, ident, bound, pending>>
    BY <1>8 DEF LoopReturns, Report, UnbindForegroundTask, DeliverAnswer, uiVars, turnVars,
         approvalVars
  <2>2. PICK p \in {"run", "ran", "unbind", "done"} : Goto(t, p)
    BY <1>8 DEF LoopReturns, Report, UnbindForegroundTask, DeliverAnswer
  <2>3. Bound(t) /\ pc[t] # "approve"
    BY <1>8 DEF LoopReturns, Report, UnbindForegroundTask, DeliverAnswer
  <2> HIDE DEF TypeInv, ThreadInv, Live, Bound
  <2> QED BY <2>1, <2>2, <2>3, GoesOn
<1>9. CASE \/ Enter \/ Interrupt \/ HandleInput \/ RegisterWorker \/ MarkWorker \/ ForkSession
           \/ RunCommand \/ (\E t \in Turns : AcceptResult(t)) \/ UNCHANGED vars
  <2>1. UNCHANGED <<started, pc, ident, bound, pending>>
    BY <1>9 DEF Enter, Interrupt, HandleInput, RegisterWorker, MarkWorker, ForkSession, RunCommand,
      AcceptResult, vars, uiVars, turnVars, approvalVars
  <2> QED BY <1>1, <2>1
<1> QED
  BY <1>3, <1>4, <1>5, <1>6, <1>7, <1>8, <1>9 DEF Next, UiStep, ThreadStep
-----------------------------------------------------------------------------
(* The entries of the table *)

\* An entry is of a turn that was promoted; unless its promotion missed the thread,
\* the thread with that ident is the turn's own, and still there.
Trusted(i) == contexts[i] # 0 /\ contexts[i] \notin stranded

EntryInv ==
    \A i \in Idents :
      /\ contexts[i] # 0 => status[contexts[i]] # "running"
      /\ Trusted(i) => ident[contexts[i]] = i /\ Bound(contexts[i])

\* A turn that ended before another got its ident is not the foreground task any more
\* once the other has begun.
FrontInv ==
    \A c \in Turns, m \in Turns :
      Bound(c) \/ pc[c] = "bind" => (m # c /\ ident[m] = ident[c] => foreground # m)

\* The turn that is being promoted is in no entry, and overwrites none that counts.
MovingInv ==
    ui \in {"register", "mark"} =>
      \A i \in Idents : contexts[i] # moving /\ (Trusted(i) => ident[moving] # i)

Threads == Numbers /\ TypeInv /\ ThreadInv
Table == Threads /\ EntryInv /\ FrontInv /\ MovingInv

\* A thread that finds a trusted entry finds its own.
LEMMA EntryIsOwn ==
  ASSUME Threads, EntryInv, NEW t \in Turns, Bound(t), Trusted(ident[t])
  PROVE  contexts[ident[t]] = t
<1>1. /\ ident[t] \in Idents /\ contexts[ident[t]] \in Turns
      /\ ident[contexts[ident[t]]] = ident[t] /\ Bound(contexts[ident[t]])
  BY DEF Threads, TypeInv, ThreadInv, EntryInv, Trusted, Bound, TurnOrNone
<1>2. Live(t) /\ Live(contexts[ident[t]])
  BY <1>1 DEF Bound, Live
<1> QED BY <1>1, <1>2 DEF Threads, ThreadInv

\* What a step may do to a thread: it ends unbinding, or stays bound.
LEMMA StaysBound ==
  ASSUME Threads, [Next]_vars, NEW c \in Turns, Bound(c)
  PROVE  /\ ident'[c] = ident[c]
         /\ Bound(c)' \/ (UnbindForegroundTask(c) /\ pc'[c] = "done")
<1> USE DEF Threads, TypeInv
<1>1. CASE UNCHANGED <<pc, ident>>
  BY <1>1 DEF Bound
<1>2. CASE AnswerApproval
  BY <1>2 DEF AnswerApproval, Bound
<1>3. CASE StartTurn
  <2>1. c # started'
    BY <1>3 DEF StartTurn, Bound, ThreadInv, Turns, Numbers
  <2> QED BY <1>3, <2>1 DEF StartTurn, Bound
<1>4. ASSUME NEW t \in Turns, ThreadStep(t) \/ RouteApproval(t) \/ DeliverAnswer(t)
      PROVE  /\ ident'[c] = ident[c]
             /\ Bound(c)' \/ (UnbindForegroundTask(c) /\ pc'[c] = "done")
  <2>1. UNCHANGED ident
    BY <1>4 DEF ThreadStep, BeginForegroundTask, BindForegroundTask, LoopReturns, Report,
      UnbindForegroundTask, RouteApproval, DeliverAnswer
  <2>2. CASE UnbindForegroundTask(t)
    BY <2>1, <2>2 DEF UnbindForegroundTask, Goto, Bound
  <2>3. CASE ~UnbindForegroundTask(t)
    BY <1>4, <2>1, <2>3 DEF ThreadStep, BeginForegroundTask, BindForegroundTask, LoopReturns,
         Report,
      RouteApproval, DeliverAnswer, Goto, Bound
  <2> QED BY <2>2, <2>3
<1>5. CASE \/ Enter \/ Interrupt \/ HandleInput \/ RegisterWorker \/ MarkWorker \/ ForkSession
           \/ RunCommand \/ (\E t \in Turns : AcceptResult(t)) \/ UNCHANGED vars
  <2>1. UNCHANGED <<pc, ident>>
    BY <1>5 DEF Enter, Interrupt, HandleInput, RegisterWorker, MarkWorker, ForkSession, RunCommand,
      AcceptResult, vars
  <2> QED BY <1>1, <2>1
<1> QED BY <1>2, <1>3, <1>4, <1>5 DEF Next, UiStep

\* What a step does to the table: a promotion writes one entry, a thread that ends
\* clears its own, and no turn is trusted again.
LEMMA TableChanges ==
  ASSUME Table, [Next]_vars
  PROVE  /\ stranded \subseteq stranded'
         /\ \/ UNCHANGED contexts
            \/ MarkWorker
            \/ \E t \in Turns : UnbindForegroundTask(t) /\ contexts' = [contexts EXCEPT ![ident[t]] = 0]
  BY DEF Next, UiStep, ThreadStep, AnswerApproval, Enter, Interrupt, HandleInput, RegisterWorker,
    MarkWorker, ForkSession, StartTurn, RunCommand, BeginForegroundTask, BindForegroundTask,
    LoopReturns, Report, UnbindForegroundTask, RouteApproval, DeliverAnswer, AcceptResult, vars,
    turnVars, workerVars

\* No turn that has ended or was promoted runs in the foreground again.
LEMMA NeverAgain ==
  ASSUME Threads, [Next]_vars, NEW t \in Turns, status[t] # "running"
  PROVE  status'[t] # "running"
<1>1. \/ UNCHANGED status \/ MarkWorker
      \/ foreground \in Turns /\ status' = [status EXCEPT ![foreground] = "completed"]
  BY DEF Threads, TypeInv, TurnOrNone, Next, UiStep, ThreadStep, AnswerApproval, Enter, Interrupt,
    HandleInput, RegisterWorker, ForkSession, StartTurn, RunCommand, BeginForegroundTask,
    BindForegroundTask, LoopReturns, Report, UnbindForegroundTask, RouteApproval, DeliverAnswer,
    AcceptResult, vars, turnVars
<1> QED BY <1>1 DEF MarkWorker, Threads, TypeInv

LEMMA EntryStep == Table /\ [Next]_vars => EntryInv'
<1> DEFINE Good(i) == /\ contexts[i] # 0 => status[contexts[i]] # "running"
                      /\ Trusted(i) => ident[contexts[i]] = i /\ Bound(contexts[i])
<1> SUFFICES ASSUME Table, [Next]_vars, NEW i \in Idents
             PROVE  Good(i)'
  BY DEF EntryInv
<1>0. /\ contexts[i] \in TurnOrNone /\ stranded \subseteq stranded' /\ 0 \notin Turns
      /\ Good(i)
  BY TableChanges DEF Table, Threads, TypeInv, Turns, EntryInv
<1>1. CASE contexts'[i] = 0
  BY <1>1 DEF Trusted
<1>2. ASSUME NEW c \in Turns, contexts[i] = c, contexts'[i] = c
      PROVE  Good(i)'
  <2>1. status'[c] # "running"
    BY <1>0, <1>2, NeverAgain DEF Table
  <2>2. ASSUME c \notin stranded'
        PROVE  ident'[c] = i /\ Bound(c)'
    <3>1. ident[c] = i /\ Bound(c)
      BY <1>0, <1>2, <2>2 DEF Trusted
    <3>2. UnbindForegroundTask(c) => contexts'[i] = 0 \/ c \in stranded'
      BY <1>2, <3>1 DEF UnbindForegroundTask, Table, Threads, TypeInv
    <3>3. ~UnbindForegroundTask(c)
      BY <1>0, <1>2, <2>2, <3>2
    <3> QED BY <3>1, <3>3, StaysBound DEF Table
  <2> QED BY <1>2, <2>1, <2>2 DEF Trusted, Bound
<1>3. CASE contexts'[i] = contexts[i]
  BY <1>0, <1>1, <1>2, <1>3 DEF TurnOrNone
<1>4. CASE MarkWorker
  <2>1. CASE i = bound[moving]
    <3>1. moving \in Turns /\ bound[moving] # 0 /\ contexts'[i] = moving /\ status'[moving] = "worker"
      BY <1>4, <2>1 DEF MarkWorker, Table, Threads, TypeInv, TurnOrNone, Numbers
    <3>2. moving \notin stranded' => InLoop(moving)
      BY <1>4 DEF MarkWorker
    <3>3. Bound(moving) => ident[moving] = i
      BY <2>1, <3>1 DEF Table, Threads, ThreadInv
    <3>4. UNCHANGED <<pc, ident, moving>>
      BY <1>4 DEF MarkWorker
    <3>5. moving \notin stranded' => ident'[moving] = i /\ Bound(moving)'
      BY <3>2, <3>3, <3>4 DEF InLoop, Bound
    <3> QED BY <3>1, <3>4, <3>5 DEF Trusted, Bound
  <2>2. CASE i # bound[moving]
    BY <1>3, <1>4, <2>2 DEF MarkWorker, Table, Threads, TypeInv
  <2> QED BY <2>1, <2>2
<1>5. ASSUME NEW t \in Turns, contexts' = [contexts EXCEPT ![ident[t]] = 0]
      PROVE  contexts'[i] \in {0, contexts[i]}
  BY <1>5 DEF Table, Threads, TypeInv
<1> HIDE DEF Good
<1> QED BY <1>1, <1>3, <1>4, <1>5, TableChanges

LEMMA FrontStep == Table /\ [Next]_vars => FrontInv'
<1> SUFFICES ASSUME Table, [Next]_vars, NEW c \in Turns, NEW m \in Turns, m # c,
                    Bound(c)' \/ pc'[c] = "bind", ident'[m] = ident'[c]
             PROVE  foreground' # m
  BY DEF FrontInv
<1> USE DEF Table, Threads, TypeInv
<1>0. 0 \notin Turns
  BY DEF Turns
<1>1. ASSUME NEW t \in Turns, BeginForegroundTask(t) PROVE foreground' # m
  <2>1. foreground' = t /\ ident' = ident /\ Live(t) /\ (c # t => Live(c))
    BY <1>1 DEF BeginForegroundTask, Goto, Bound, Live
  <2> QED BY <2>1 DEF ThreadInv
<1>2. CASE StartTurn
  <2>1. started' \in Turns /\ UNCHANGED foreground
    BY <1>2 DEF StartTurn, Turns, Numbers, turnVars
  <2>2. c # started' /\ pc'[c] = pc[c] /\ ident'[c] = ident[c]
    BY <1>2, <2>1 DEF StartTurn, Bound
  <2>3. m # started'
    BY <1>2, <2>1, <2>2 DEF StartTurn, Bound, Live
  <2>4. ident'[m] = ident[m]
    BY <1>2, <2>1, <2>3 DEF StartTurn
  <2> QED BY <2>1, <2>2, <2>4 DEF FrontInv, Bound
<1>3. ASSUME UNCHANGED ident, foreground' \in {0, foreground},
             Bound(c) \/ pc[c] = "bind"
      PROVE  foreground' # m
  BY <1>0, <1>3 DEF FrontInv
<1>4. CASE ~StartTurn /\ ~(\E t \in Turns : BeginForegroundTask(t))
  <2>1. UNCHANGED ident /\ foreground' \in {0, foreground}
    BY <1>4 DEF Next, UiStep, ThreadStep, AnswerApproval, Enter, Interrupt,
      HandleInput, RegisterWorker, MarkWorker, ForkSession, RunCommand,
      BindForegroundTask, LoopReturns, Report, UnbindForegroundTask, RouteApproval, DeliverAnswer,
      AcceptResult, vars, turnVars
  <2>2. \/ UNCHANGED pc
        \/ \E t \in Turns, p \in TurnPlaces : (Bound(t) \/ pc[t] = "bind") /\ pc' = [pc EXCEPT ![t] = p]
        \/ AnswerApproval
    BY <1>4 DEF Next, UiStep, ThreadStep, Enter, Interrupt,
      HandleInput, RegisterWorker, MarkWorker, ForkSession, RunCommand,
      BindForegroundTask, LoopReturns, Report, UnbindForegroundTask, RouteApproval, DeliverAnswer,
      AcceptResult, vars, Goto, TurnPlaces, Bound
  <2>3. AnswerApproval => Bound(c) \/ pc[c] = "bind"
    BY <1>0 DEF AnswerApproval, Bound, ThreadInv, TurnOrNone
  <2>4. Bound(c) \/ pc[c] = "bind"
    BY <2>2, <2>3 DEF Bound
  <2> QED BY <1>3, <2>1, <2>4
<1> QED BY <1>1, <1>2, <1>4

LEMMA MovingStep == Table /\ [Next]_vars => MovingInv'
<1> SUFFICES ASSUME Table, [Next]_vars, ui' \in {"register", "mark"}, NEW i \in Idents
             PROVE  contexts'[i] # moving' /\ (Trusted(i)' => ident'[moving'] # i)
  BY DEF MovingInv
<1>0. stranded \subseteq stranded' /\ contexts[i] \in TurnOrNone
  BY TableChanges DEF Table, Threads, TypeInv
<1>1. CASE HandleInput
  <2>1. /\ foreground \in Turns /\ status[foreground] = "running" /\ moving' = foreground
        /\ UNCHANGED <<contexts, ident, stranded>>
    BY <1>1 DEF HandleInput, turnVars, workerVars, Table, Threads, TypeInv, TurnOrNone
  <2>2. contexts[i] # foreground
    BY <2>1 DEF Table, EntryInv, Turns
  <2>3. ASSUME Trusted(i) PROVE ident[foreground] # i
    <3>1. ident[contexts[i]] = i /\ Bound(contexts[i]) /\ contexts[i] \in Turns
      BY <1>0, <2>3 DEF Table, EntryInv, Trusted, TurnOrNone
    <3> QED BY <2>1, <2>2, <3>1 DEF Table, FrontInv
  <2> QED BY <2>1, <2>2, <2>3 DEF Trusted
<1>2. CASE ~HandleInput
  <2>1. ui \in {"register", "mark"} /\ UNCHANGED <<moving, ident>> /\ ~MarkWorker
    BY <1>2 DEF Next, UiStep, ThreadStep, AnswerApproval, Enter, Interrupt, uiVars,
      RegisterWorker, MarkWorker, ForkSession, StartTurn, RunCommand, BeginForegroundTask,
      BindForegroundTask, LoopReturns, Report, UnbindForegroundTask, RouteApproval, DeliverAnswer,
      AcceptResult, vars
  <2>2. moving # 0
    BY <2>1 DEF Table, Threads, TypeInv
  <2>3. contexts'[i] \in {0, contexts[i]}
    BY <2>1, TableChanges DEF Table, Threads, TypeInv
  <2> QED BY <1>0, <2>1, <2>2, <2>3 DEF Table, MovingInv, Trusted
<1> QED BY <1>1, <1>2
-----------------------------------------------------------------------------
(* Reports and answers *)

\* A promoted turn that is not stranded has reported, or its thread will, for it.
ReportInv ==
    /\ \A r \in reports : r[1] \notin stranded => r[2] = r[1]
    /\ \A t \in Turns \ stranded : status[t] = "worker" =>
         <<t, t>> \in reports \/ (Unreported(t) /\ contexts[ident[t]] = t)

\* Its task is not over for the coordinator before that, unless it is cancelled.
TaskInv ==
    /\ ui = "mark" => worker[moving] \in {"running", "cancelled"}
    /\ \A t \in Turns \ stranded :
         Unreported(t) /\ contexts[ident[t]] = t => worker[t] \in {"running", "cancelled"}

\* It asks at its own handle, and the question stays open until it is answered.
AskInv ==
    /\ \A t \in Turns : pc[t] = "ask" => asking[t] = t \/ asking[t] \in stranded
    /\ \A t \in Turns \ stranded :
         pc[t] = "ask" /\ asking[t] = t =>
           contexts[ident[t]] = t /\ (t \in open \/ worker[t] = "cancelled")

\* An entry of a thread's own stays until the thread removes it.
LEMMA OwnStays ==
  ASSUME Table, [Next]_vars, NEW t \in Turns, t \notin stranded, Bound(t), contexts[ident[t]] = t
  PROVE  UnbindForegroundTask(t) \/ contexts'[ident[t]] = t
<1>0. ident[t] \in Idents /\ Trusted(ident[t]) /\ Live(t)
  BY DEF Table, Threads, ThreadInv, Trusted, Bound, Live, Turns
<1>1. CASE UNCHANGED contexts
  BY <1>1
<1>2. CASE MarkWorker
  <2>1. moving \in Turns /\ ident[moving] # ident[t]
    BY <1>0, <1>2 DEF MarkWorker, Table, MovingInv, Threads, TypeInv, TurnOrNone
  <2>2. bound[moving] # ident[t]
    BY <1>0, <2>1 DEF Table, Threads, ThreadInv, Numbers
  <2> QED BY <1>0, <1>2, <2>2 DEF MarkWorker, Table, Threads, TypeInv
<1>3. ASSUME NEW u \in Turns, UnbindForegroundTask(u), contexts' = [contexts EXCEPT ![ident[u]] = 0]
      PROVE  UnbindForegroundTask(t) \/ contexts'[ident[t]] = t
  <2>1. u # t => ident[u] # ident[t]
    BY <1>0, <1>3 DEF UnbindForegroundTask, Live, Table, Threads, ThreadInv
  <2> QED BY <1>0, <1>3, <2>1 DEF Table, Threads, TypeInv
<1> QED BY <1>1, <1>2, <1>3, TableChanges

\* A thread whose report is to come stays that way, or reports.
LEMMA StaysUnreported ==
  ASSUME Table, [Next]_vars, NEW t \in Turns
  PROVE  /\ Unreported(t) => Unreported(t)' \/ Report(t)
         /\ Bound(t) /\ Unreported(t)' => Unreported(t)
<1> USE DEF Table, Threads, TypeInv
<1>1. CASE UNCHANGED pc
  BY <1>1 DEF Unreported
<1>2. CASE AnswerApproval
  BY <1>2 DEF AnswerApproval, Unreported, ThreadInv, TurnOrNone, Turns
<1>3. CASE StartTurn
  <2>1. pc[t] # "none" => t # started'
    BY <1>3 DEF StartTurn, ThreadInv, Turns, Numbers
  <2> QED BY <1>3, <2>1 DEF StartTurn, Unreported, Bound
<1>4. ASSUME NEW u \in Turns, ThreadStep(u) \/ RouteApproval(u) \/ DeliverAnswer(u)
      PROVE  /\ Unreported(t) => Unreported(t)' \/ Report(t)
             /\ Bound(t) /\ Unreported(t)' => Unreported(t)
  <2>1. CASE Report(u)
    BY <2>1 DEF Report, Goto, Unreported, Bound
  <2>2. CASE ~Report(u)
    BY <1>4, <2>2 DEF ThreadStep, BeginForegroundTask, BindForegroundTask, LoopReturns,
      UnbindForegroundTask, RouteApproval, DeliverAnswer, Goto, Unreported, Bound
  <2> QED BY <2>1, <2>2
<1>5. CASE \/ Enter \/ Interrupt \/ HandleInput \/ RegisterWorker \/ MarkWorker \/ ForkSession
           \/ RunCommand \/ (\E u \in Turns : AcceptResult(u)) \/ UNCHANGED vars
  <2>1. UNCHANGED pc
    BY <1>5 DEF Enter, Interrupt, HandleInput, RegisterWorker, MarkWorker, ForkSession, RunCommand,
      AcceptResult, vars
  <2> QED BY <1>1, <2>1
<1> QED BY <1>2, <1>3, <1>4, <1>5 DEF Next, UiStep

\* The turn that is being promoted, if its thread is in its loop, has its entry.
LEMMA MarkGivesEntry ==
  ASSUME Table, MarkWorker, moving \notin stranded'
  PROVE  /\ moving \in Turns /\ Unreported(moving) /\ Bound(moving)
         /\ contexts'[ident[moving]] = moving /\ UNCHANGED <<pc, ident, worker, moving, reports>>
<1>1. moving \in Turns /\ InLoop(moving) /\ UNCHANGED <<pc, ident, worker, moving, reports>>
  BY DEF MarkWorker, Table, Threads, TypeInv, TurnOrNone
<1>2. bound[moving] = ident[moving] /\ ident[moving] \in Idents
  BY <1>1 DEF InLoop, Bound, Table, Threads, ThreadInv
<1> QED BY <1>1, <1>2 DEF MarkWorker, InLoop, Bound, Unreported, Table, Threads, TypeInv, Numbers

LEMMA ReportStep == Table /\ ReportInv /\ [Next]_vars => ReportInv'
<1> SUFFICES ASSUME Table, ReportInv, [Next]_vars PROVE ReportInv'
  OBVIOUS
<1>0. stranded \subseteq stranded' /\ reports \subseteq reports'
  BY TableChanges DEF Next, UiStep, ThreadStep, AnswerApproval, Enter, Interrupt, HandleInput,
       RegisterWorker,
    MarkWorker, ForkSession, StartTurn, RunCommand, BeginForegroundTask, BindForegroundTask,
    LoopReturns, Report, UnbindForegroundTask, RouteApproval, DeliverAnswer, AcceptResult, vars,
    workerVars
<1>1. ASSUME NEW t \in Turns, Report(t), contexts[ident[t]] # 0
      PROVE  /\ reports' = reports \union {<<contexts[ident[t]], t>>}
             /\ contexts[ident[t]] \notin stranded => contexts[ident[t]] = t
  BY <1>1, EntryIsOwn DEF Report, Bound, Trusted, Table
<1>2. ASSUME NEW r \in reports', r[1] \notin stranded'
      PROVE  r[2] = r[1]
  <2>1. CASE r \in reports
    BY <1>0, <1>2, <2>1 DEF ReportInv
  <2>2. CASE r \notin reports
    <3>1. PICK t \in Turns : Report(t) /\ contexts[ident[t]] # 0
      BY <1>2, <2>2 DEF Next, UiStep, ThreadStep, AnswerApproval, Enter, Interrupt, HandleInput,
        RegisterWorker, MarkWorker, ForkSession, StartTurn, RunCommand, BeginForegroundTask,
        BindForegroundTask, LoopReturns, Report, UnbindForegroundTask, RouteApproval, DeliverAnswer,
        AcceptResult, vars, workerVars
    <3>2. r = <<contexts[ident[t]], t>> /\ (contexts[ident[t]] \notin stranded => contexts[ident[t]] = t)
      BY <1>1, <2>2, <3>1
    <3> QED BY <1>0, <1>2, <3>2
  <2> QED BY <2>1, <2>2
<1>3. ASSUME NEW t \in Turns, t \notin stranded', status'[t] = "worker", <<t, t>> \notin reports'
      PROVE  Unreported(t)' /\ contexts'[ident'[t]] = t
  <2>1. CASE MarkWorker /\ moving = t
    BY <1>3, <2>1, MarkGivesEntry DEF Unreported
  <2>2. CASE ~(MarkWorker /\ moving = t)
    <3>1. status[t] = "worker"
      BY <1>3, <2>2 DEF Next, UiStep, ThreadStep, AnswerApproval, Enter, Interrupt, HandleInput,
        RegisterWorker, MarkWorker, ForkSession, StartTurn, RunCommand, BeginForegroundTask,
        BindForegroundTask, LoopReturns, Report, UnbindForegroundTask, RouteApproval, DeliverAnswer,
        AcceptResult, vars, turnVars, Table, Threads, TypeInv
    <3>2. Unreported(t) /\ contexts[ident[t]] = t /\ t # 0
      BY <1>0, <1>3, <3>1 DEF ReportInv, Turns
    <3>3. Bound(t) /\ ~UnbindForegroundTask(t)
      BY <3>2 DEF Unreported, Bound, UnbindForegroundTask
    <3>4. contexts'[ident[t]] = t /\ ident'[t] = ident[t]
      BY <1>0, <1>3, <3>2, <3>3, OwnStays, StaysBound DEF Table
    <3>5. ~Report(t)
      BY <1>1, <1>3, <3>2
    <3> QED BY <3>2, <3>4, <3>5, StaysUnreported
  <2> QED BY <2>1, <2>2
<1> QED BY <1>2, <1>3 DEF ReportInv

\* What a step does to the status of a promoted task.
LEMMA TaskChanges ==
  ASSUME Table, [Next]_vars, NEW t \in Turns
  PROVE  \/ worker'[t] = worker[t]
         \/ worker'[t] = "cancelled"
         \/ RegisterWorker /\ moving = t /\ worker'[t] = "running"
         \/ worker[t] = "reported"
         \/ \E u \in Turns : RouteApproval(u) /\ contexts[ident[u]] = t /\ worker'[t] = "running"
         \/ \E u \in Turns : Report(u) /\ contexts[ident[u]] = t /\ worker[t] = "running"
<1> USE DEF Table, Threads, TypeInv
<1>1. CASE Interrupt \/ RunCommand
  BY <1>1 DEF Interrupt, RunCommand, CancelWorker
<1>2. CASE RegisterWorker
  BY <1>2 DEF RegisterWorker
<1>3. ASSUME NEW u \in Turns, RouteApproval(u)
      PROVE  worker'[t] = worker[t] \/ (contexts[ident[u]] = t /\ worker'[t] = "running")
  BY <1>3 DEF RouteApproval
<1>4. ASSUME NEW u \in Turns, Report(u)
      PROVE  worker'[t] = worker[t] \/ (contexts[ident[u]] = t /\ worker[t] = "running")
  BY <1>4 DEF Report
<1>5. ASSUME NEW u \in Turns, AcceptResult(u)
      PROVE  worker'[t] = worker[t] \/ worker[t] = "reported"
  BY <1>5 DEF AcceptResult
<1>6. CASE UNCHANGED worker
  BY <1>6
<1> QED
  BY <1>1, <1>2, <1>3, <1>4, <1>5, <1>6
  DEF Next, UiStep, ThreadStep, AnswerApproval, Enter, HandleInput, MarkWorker, ForkSession,
       StartTurn,
    BeginForegroundTask, BindForegroundTask, LoopReturns, UnbindForegroundTask, DeliverAnswer, vars,
    workerVars

LEMMA TaskStep == Table /\ TaskInv /\ [Next]_vars => TaskInv'
<1> SUFFICES ASSUME Table, TaskInv, [Next]_vars PROVE TaskInv'
  OBVIOUS
<1>1. ASSUME ui' = "mark" PROVE worker'[moving'] \in {"running", "cancelled"}
  <2>1. CASE RegisterWorker
    BY <2>1 DEF RegisterWorker, Table, Threads, TypeInv, TurnOrNone
  <2>2. CASE ~RegisterWorker
    <3>1. ui = "mark" /\ UNCHANGED moving
      BY <1>1, <2>2 DEF Next, UiStep, ThreadStep, AnswerApproval, Enter, Interrupt, HandleInput,
           uiVars,
        MarkWorker, ForkSession, StartTurn, RunCommand, BeginForegroundTask,
        BindForegroundTask, LoopReturns, Report, UnbindForegroundTask, RouteApproval, DeliverAnswer,
        AcceptResult, vars
    <3>2. moving \in Turns /\ worker[moving] \in {"running", "cancelled"}
      BY <3>1 DEF TaskInv, Table, Threads, TypeInv, TurnOrNone
    <3>3. \A u \in Turns : Bound(u) => contexts[ident[u]] # moving
      BY <3>1 DEF Table, MovingInv, Threads, ThreadInv, Bound
    <3>4. \A u \in Turns : Report(u) => Bound(u)
      BY DEF Report, Bound
    <3> QED BY <2>2, <3>1, <3>2, <3>3, <3>4, TaskChanges
  <2> QED BY <2>1, <2>2
<1>2. ASSUME NEW t \in Turns, t \notin stranded', Unreported(t)', contexts'[ident'[t]] = t
      PROVE  worker'[t] \in {"running", "cancelled"}
  <2>1. CASE MarkWorker /\ moving = t
    <3>1. UNCHANGED worker /\ ui = "mark"
      BY <2>1 DEF MarkWorker
    <3> QED BY <2>1, <3>1 DEF TaskInv
  <2>2. CASE ~(MarkWorker /\ moving = t)
    <3>0. t \notin stranded /\ t # 0 /\ pc'[t] \notin {"none", "begin"}
      BY <1>2, TableChanges DEF Turns, Unreported
    <3>1. ident'[t] = ident[t] /\ ident[t] \in Idents
      <4>1. ~StartTurn \/ t # started'
        BY <3>0 DEF StartTurn, Table, Threads, TypeInv
      <4>2. ident'[t] = ident[t]
        BY <4>1 DEF Next, UiStep, ThreadStep, AnswerApproval, Enter, Interrupt, HandleInput,
             RegisterWorker,
          MarkWorker, ForkSession, StartTurn, RunCommand, BeginForegroundTask,
          BindForegroundTask, LoopReturns, Report, UnbindForegroundTask, RouteApproval, DeliverAnswer,
          AcceptResult, vars, Table, Threads, TypeInv
      <4>3. ident'[t] \in Idents
        BY <3>0, ThreadInvStep DEF Table, Threads, ThreadInv
      <4> QED BY <4>2, <4>3
    <3>2. contexts[ident[t]] = t
      <4>1. contexts'[ident[t]] = contexts[ident[t]] \/ contexts'[ident[t]] \in {0, moving}
        BY <3>1, TableChanges DEF MarkWorker, Table, Threads, TypeInv
      <4>2. MarkWorker => contexts'[ident[t]] \in {contexts[ident[t]], moving}
        BY <3>1 DEF MarkWorker, Table, Threads, TypeInv
      <4>3. ~MarkWorker => contexts'[ident[t]] \in {contexts[ident[t]], 0}
        BY <3>1, TableChanges DEF Table, Threads, TypeInv
      <4> QED BY <1>2, <2>2, <3>0, <3>1, <4>2, <4>3
    <3>3. Bound(t)
      BY <3>0, <3>1, <3>2 DEF Table, EntryInv, Trusted
    <3>4. Unreported(t)
      BY <1>2, <3>3, StaysUnreported
    <3>5. worker[t] \in {"running", "cancelled"}
      BY <3>0, <3>2, <3>4 DEF TaskInv
    <3>6. ASSUME NEW u \in Turns, Report(u), contexts[ident[u]] = t
          PROVE  FALSE
      <4>1. Bound(u) /\ Trusted(ident[u])
        BY <3>0, <3>6 DEF Report, Bound, Trusted
      <4>2. u = t
        BY <3>6, <4>1, EntryIsOwn DEF Table
      <4> QED BY <1>2, <3>6, <4>2 DEF Report, Goto, Unreported, Table, Threads, TypeInv
    <3> QED BY <3>5, <3>6, TaskChanges
  <2> QED BY <2>1, <2>2
<1> QED BY <1>1, <1>2 DEF TaskInv

LEMMA AskStep == Table /\ TaskInv /\ AskInv /\ [Next]_vars => AskInv'
<1> SUFFICES ASSUME Table, TaskInv, AskInv, [Next]_vars, NEW t \in Turns, pc'[t] = "ask"
             PROVE  /\ asking'[t] = t \/ asking'[t] \in stranded'
                    /\ t \notin stranded' /\ asking'[t] = t =>
                         contexts'[ident'[t]] = t /\ (t \in open' \/ worker'[t] = "cancelled")
  BY DEF AskInv
<1>0. stranded \subseteq stranded' /\ t # 0
  BY TableChanges DEF Turns
<1>1. CASE RouteApproval(t)
  <2>1. contexts[ident[t]] # 0
    BY <1>1 DEF RouteApproval, Goto, Table, Threads, TypeInv
  <2>2. /\ asking'[t] = contexts[ident[t]] /\ t \in open' /\ Bound(t)
        /\ UNCHANGED <<contexts, ident, stranded>>
    BY <1>1, <2>1 DEF RouteApproval, turnVars, Table, Threads, TypeInv, Bound
  <2>3. contexts[ident[t]] \notin stranded => contexts[ident[t]] = t
    BY <2>1, <2>2, EntryIsOwn DEF Trusted, Table
  <2> QED BY <2>2, <2>3
<1>2. CASE ~RouteApproval(t)
  <2>1. pc[t] = "ask" /\ asking'[t] = asking[t]
    <3>1. pc[t] = "ask"
      BY <1>2 DEF Next, UiStep, ThreadStep, AnswerApproval, Enter, Interrupt, HandleInput,
           RegisterWorker,
        MarkWorker, ForkSession, StartTurn, RunCommand, BeginForegroundTask, Goto,
        BindForegroundTask, LoopReturns, Report, UnbindForegroundTask, RouteApproval, DeliverAnswer,
        AcceptResult, vars, Table, Threads, TypeInv
    <3>2. ~DeliverAnswer(t)
      BY DEF DeliverAnswer, Goto, Table, Threads, TypeInv
    <3>3. asking'[t] = asking[t]
      BY <1>2, <3>2 DEF Next, UiStep, ThreadStep, AnswerApproval, Enter, Interrupt, HandleInput,
           RegisterWorker,
        MarkWorker, ForkSession, StartTurn, RunCommand, BeginForegroundTask, approvalVars,
        BindForegroundTask, LoopReturns, Report, UnbindForegroundTask, RouteApproval, DeliverAnswer,
        AcceptResult, vars, Table, Threads, TypeInv
    <3> QED BY <3>1, <3>3
  <2>2. ASSUME t \notin stranded', asking[t] = t
        PROVE  contexts'[ident'[t]] = t /\ (t \in open' \/ worker'[t] = "cancelled")
    <3>1. /\ contexts[ident[t]] = t /\ (t \in open \/ worker[t] = "cancelled")
          /\ Bound(t) /\ Unreported(t) /\ ~UnbindForegroundTask(t) /\ t \notin stranded
      BY <1>0, <2>1, <2>2 DEF AskInv, Bound, Unreported, UnbindForegroundTask
    <3>2. contexts'[ident'[t]] = t
      BY <3>1, OwnStays, StaysBound DEF Table
    <3>3. worker[t] \in {"running", "cancelled"} /\ Live(t) /\ ident[t] \in Idents
      BY <3>1 DEF TaskInv, Bound, Live, Table, Threads, ThreadInv
    <3>4. worker[t] = "cancelled" => worker'[t] = "cancelled"
      <4>1. ~(RegisterWorker /\ moving = t)
        BY <3>1, <3>3 DEF RegisterWorker, Table, MovingInv
      <4>2. ASSUME NEW u \in Turns, RouteApproval(u), contexts[ident[u]] = t
            PROVE  FALSE
        <5>1. Bound(u) /\ Trusted(ident[u])
          BY <1>0, <3>1, <4>2 DEF RouteApproval, Bound, Trusted
        <5>2. u = t
          BY <4>2, <5>1, EntryIsOwn DEF Table
        <5> QED BY <1>2, <4>2, <5>2
      <4> QED BY <4>1, <4>2, TaskChanges
    <3>5. t \in open => t \in open' \/ worker'[t] = "cancelled"
      <4>1. ASSUME NEW u \in Turns, CancelWorker(u)
            PROVE  t \in open => t \in open' \/ worker'[t] = "cancelled"
        BY <2>2, <4>1 DEF CancelWorker, Table, Threads, TypeInv
      <4>2. ASSUME NEW u \in Turns, DeliverAnswer(u)
            PROVE  t \in open => t \in open'
        BY <4>2, <2>1 DEF DeliverAnswer, Goto, Table, Threads, TypeInv
      <4>3. CASE open \subseteq open'
        BY <4>3
      <4> QED
        BY <4>1, <4>2, <4>3 DEF Next, UiStep, ThreadStep, AnswerApproval, Enter, Interrupt,
             HandleInput,
          RegisterWorker, MarkWorker, ForkSession, StartTurn, RunCommand, BeginForegroundTask,
          BindForegroundTask, LoopReturns, Report, UnbindForegroundTask, RouteApproval,
          AcceptResult, vars, workerVars
    <3> QED BY <3>1, <3>2, <3>4, <3>5
  <2> QED BY <1>0, <2>1, <2>2 DEF AskInv
<1> QED BY <1>1, <1>2
-----------------------------------------------------------------------------
LEMMA InitTable == Numbers /\ Init => Table /\ ReportInv /\ TaskInv /\ AskInv
<1> SUFFICES ASSUME Numbers, Init PROVE Table /\ ReportInv /\ TaskInv /\ AskInv
  OBVIOUS
<1>1. TypeInv
  BY DEF Init, TypeInv, Numbers, TurnOrNone, TurnPlaces
<1>2. ThreadInv
  BY DEF Init, ThreadInv, Bound, Live, Numbers, Turns
<1>3. EntryInv /\ FrontInv /\ MovingInv
  BY DEF Init, EntryInv, FrontInv, MovingInv, Trusted, Bound
<1>4. ReportInv /\ TaskInv /\ AskInv
  BY DEF Init, ReportInv, TaskInv, AskInv, Unreported
<1> QED BY <1>1, <1>2, <1>3, <1>4 DEF Table, Threads

\* Table is inductive on its own, and the three that rest on it are with it.
THEOREM TableInvariant == ASSUME Numbers PROVE Spec => [](Table /\ ReportInv /\ TaskInv /\ AskInv)
<1> DEFINE Inv == Table /\ ReportInv /\ TaskInv /\ AskInv
<1>1. Init => Inv
  BY InitTable
<1>2. Inv /\ [Next]_vars => Inv'
  <2>1. Table /\ [Next]_vars => Table'
    BY TypeStep, ThreadInvStep, EntryStep, FrontStep, MovingStep DEF Table, Threads, Numbers
  <2> QED BY <2>1, ReportStep, TaskStep, AskStep
<1> QED BY <1>1, <1>2, PTL DEF Spec

\* For any number of turns and idents: a turn that is promoted while it is in its
\* loop reports, from its own thread, and no other thread reports for it, however
\* idents are used again.
THEOREM PromotedTurnsReport == ASSUME Numbers PROVE Spec => []PromotedTurnReports
<1>1. Table /\ ReportInv => PromotedTurnReports
  BY DEF ReportInv, PromotedTurnReports, Unreported
<1> QED BY <1>1, TableInvariant, PTL

\* A turn that waits for an approval can get it: the terminal's pending request is its
\* own, or the question at its own handle is open, unless its task was cancelled.
THEOREM WaitingTurnsCanBeAnswered == ASSUME Numbers PROVE Spec => []WaitingTurnCanBeAnswered
<1>1. Table /\ TaskInv /\ AskInv => WaitingTurnCanBeAnswered
  BY DEF Table, Threads, ThreadInv, TaskInv, AskInv, WaitingTurnCanBeAnswered, Unreported
<1> QED BY <1>1, TableInvariant, PTL
=============================================================================
