------------------------------ MODULE ChatProofs ------------------------------
(***************************************************************************)
(* What ChatRuntime keeps of the user's messages, for any number of turns,   *)
(* commands and sessions and any order of their steps.                       *)
(*   - A turn that got an answer has its message in its session, right before *)
(*     the answer and nowhere else.                                         *)
(*   - A session that is resumed is what it was in memory.                    *)
(*                                                                         *)
(* Each action is first restated as the changes it makes (...Changes); the    *)
(* conjuncts of the invariant are then kept by these, one lemma for the       *)
(* threads of the turns and one for the lines of the user.                    *)
(***************************************************************************)
EXTENDS MCTerminal, SequenceFacts

---------------------------------------------------------------------------
(* Sequences *)

\* One element of a sequence is another one.
Updated(s, i, v, r) ==
    /\ Len(r) = Len(s) /\ DOMAIN r = DOMAIN s /\ r[i] = v
    /\ \A j \in DOMAIN s : j # i => r[j] = s[j]

\* An EXCEPT changes one element.
LEMMA Update ==
  ASSUME NEW T, NEW s \in Seq(T), NEW i \in DOMAIN s, NEW v \in T
  PROVE  LET r == [s EXCEPT ![i] = v] IN r \in Seq(T) /\ Updated(s, i, v, r)
<1> DEFINE r == [s EXCEPT ![i] = v]
<1>1. Len(s) \in Nat /\ DOMAIN s = 1..Len(s) /\ \A j \in 1..Len(s) : s[j] \in T
  OBVIOUS
<1>2. r \in [1..Len(s) -> T]
  BY <1>1
<1>3. r \in Seq(T)
  BY <1>1, <1>2, IsASeq
<1>4. Len(r) = Len(s)
  <2>1. DOMAIN r = 1..Len(r) /\ Len(r) \in Nat /\ DOMAIN r = 1..Len(s)
    BY <1>1, <1>2, <1>3, LenProperties
  <2> HIDE DEF r
  <2>2. \A m, n \in Nat : 1..m = 1..n => ~ (m < n)
    <3> SUFFICES ASSUME NEW m \in Nat, NEW n \in Nat, m < n, 1..m = 1..n PROVE FALSE
      OBVIOUS
    <3>1. n \in 1..n /\ n \notin 1..m
      OBVIOUS
    <3> QED BY <3>1
  <2>3. ~ (Len(r) < Len(s)) /\ ~ (Len(s) < Len(r))
    BY <1>1, <2>1, <2>2
  <2>4. Len(r) \in Nat /\ Len(s) \in Nat
    BY <1>1, <2>1
  <2>5. \A m, n \in Nat : ~ (m < n) /\ ~ (n < m) => m = n
    OBVIOUS
  <2> QED BY <2>3, <2>4, <2>5
<1> QED BY <1>1, <1>3, <1>4 DEF Updated

\* One element more.
Added(s, v, r) ==
    /\ Len(s) \in Nat /\ Len(r) = Len(s) + 1 /\ DOMAIN s = 1..Len(s)
    /\ DOMAIN r = DOMAIN s \union {Len(r)} /\ Len(r) \notin DOMAIN s
    /\ r[Len(r)] = v /\ \A j \in DOMAIN s : r[j] = s[j]

\* An Append adds one.
LEMMA Addition ==
  ASSUME NEW T, NEW s \in Seq(T), NEW v \in T
  PROVE  Append(s, v) \in Seq(T) /\ Added(s, v, Append(s, v))
<1> DEFINE r == Append(s, v)
<1>1. /\ Len(s) \in Nat /\ DOMAIN s = 1..Len(s) /\ r \in Seq(T) /\ Len(r) = Len(s) + 1
      /\ r[Len(s) + 1] = v /\ \A j \in 1..Len(s) : r[j] = s[j]
  BY AppendProperties
<1>2. DOMAIN r = 1..(Len(s) + 1)
  BY <1>1, LenProperties
<1> HIDE DEF r
<1>3. DOMAIN r = DOMAIN s \union {Len(r)} /\ Len(r) \notin DOMAIN s
  BY <1>1, <1>2
<1> QED BY <1>1, <1>3 DEF Added, r

---------------------------------------------------------------------------
(* Sessions and their files *)

Items == {"user", "answer", "promoted", "aborted"} \X Nat
Marks == {"started", "ended"}
ChatEvents == [kind : {"item"}, value : Items] \union [kind : {"replace"}, value : Seq(Items)]
                \union [kind : Marks, value : Nat]

\* ItemsOf by its recursion: what is left of each prefix.
Reads(log, f) ==
    /\ f \in [0..Len(log) -> Seq(Items)] /\ f[0] = <<>> /\ Chat!ItemsOf(log) = f[Len(log)]
    /\ \A n \in 1..Len(log) :
         f[n] = IF log[n].kind = "replace" THEN log[n].value
                ELSE IF log[n].kind = "item" THEN Append(f[n - 1], log[n].value)
                ELSE f[n - 1]

\* The recursion has a solution up to the n-th event.
Solves(log, n, f) ==
    f = [k \in 0..n |-> IF k = 0 THEN <<>>
                        ELSE IF log[k].kind = "replace" THEN log[k].value
                        ELSE IF log[k].kind = "item" THEN Append(f[k - 1], log[k].value)
                        ELSE f[k - 1]]

\* By induction over the events.
LEMMA SolvesExist ==
  ASSUME NEW log, NEW N \in Nat
  PROVE  \E f : Solves(log, N, f)
<1> DEFINE S == {n \in Nat : \E f : Solves(log, n, f)}
           After(f, k) == IF k = 0 THEN <<>>
                         ELSE IF log[k].kind = "replace" THEN log[k].value
                         ELSE IF log[k].kind = "item" THEN Append(f[k - 1], log[k].value)
                         ELSE f[k - 1]
<1>1. 0 \in S
  <2> DEFINE g == [k \in 0..0 |-> <<>>]
  <2>1. ASSUME NEW k \in 0..0 PROVE g[k] = After(g, k)
    OBVIOUS
  <2>2. g = [k \in 0..0 |-> After(g, k)]
    BY <2>1
  <2>3. Solves(log, 0, g)
    BY <2>2 DEF Solves
  <2> QED BY <2>3
<1>2. ASSUME NEW n \in 0..(N - 1), n \in S PROVE n + 1 \in S
  <2>1. PICK f : Solves(log, n, f)
    BY <1>2
  <2> DEFINE g == [k \in 0..(n + 1) |-> IF k = n + 1 THEN After(f, k) ELSE f[k]]
             h == [k \in 0..(n + 1) |-> After(g, k)]
  <2>2. ASSUME NEW k \in 0..(n + 1) PROVE g[k] = h[k]
    <3>1. CASE k = 0
      <4>1. f[0] = <<>>
        BY <2>1 DEF Solves
      <4> QED BY <3>1, <4>1
    <3>2. CASE k \in 1..(n + 1)
      <4>1. g[k - 1] = f[k - 1] /\ k # 0
        BY <3>2
      <4>2. After(g, k) = After(f, k)
        BY <4>1
      <4>3. k \in 1..n => f[k] = After(f, k)
        <5> SUFFICES ASSUME k \in 1..n PROVE f[k] = After(f, k)
          OBVIOUS
        <5>1. k \in 0..n
          OBVIOUS
        <5> DEFINE e == [j \in 0..n |-> After(f, j)]
        <5>2. e[k] = After(f, k)
          BY <5>1
        <5>3. f = e
          BY <2>1 DEF Solves
        <5> HIDE DEF e, After
        <5> QED BY <5>2, <5>3
      <4>4. g[k] = After(f, k)
        <5> HIDE DEF After
        <5>1. k \in 1..n \/ k = n + 1
          BY <3>2
        <5>2. k \in 1..n => k # n + 1
          OBVIOUS
        <5> QED BY <4>3, <5>1, <5>2
      <4> HIDE DEF After, g
      <4> QED BY <4>2, <4>4
    <3> QED BY <3>1, <3>2
  <2>3. g = h
    BY <2>2
  <2> HIDE DEF g
  <2>4. Solves(log, n + 1, g)
    BY <2>3 DEF Solves
  <2>5. n + 1 \in Nat
    OBVIOUS
  <2> QED BY <2>4, <2>5
<1> HIDE DEF S
<1>3. 0..N \subseteq S
  BY <1>1, <1>2, Induction
<1> QED BY <1>3 DEF S

\* The function rehydrate_session computes is what ItemsOf chooses.
LEMMA ReadsExist ==
  ASSUME NEW log \in Seq(ChatEvents)
  PROVE  \E f : Reads(log, f)
<1>1. Len(log) \in Nat /\ \A n \in 1..Len(log) : log[n] \in ChatEvents
  OBVIOUS
<1> DEFINE f == CHOOSE g : Solves(log, Len(log), g)
<1>2. Solves(log, Len(log), f)
  <2>1. \E g : Solves(log, Len(log), g)
    BY <1>1, SolvesExist
  <2> QED BY <2>1
<1>3. Chat!ItemsOf(log) = f[Len(log)]
  BY DEF Chat!ItemsOf, Solves
<1> HIDE DEF f
<1>4. f[0] = <<>> /\ DOMAIN f = 0..Len(log)
  BY <1>1, <1>2 DEF Solves
<1>5. \A n \in 1..Len(log) :
         f[n] = IF log[n].kind = "replace" THEN log[n].value
                ELSE IF log[n].kind = "item" THEN Append(f[n - 1], log[n].value)
                ELSE f[n - 1]
  <2> TAKE n \in 1..Len(log)
  <2>1. n \in 0..Len(log) /\ n # 0
    OBVIOUS
  <2> QED BY <1>2, <2>1 DEF Solves
<1> DEFINE S == {n \in Nat : f[n] \in Seq(Items)}
<1>6. 0 \in S
  BY <1>4
<1>7. ASSUME NEW k \in 0..(Len(log) - 1), k \in S PROVE k + 1 \in S
  <2>1. k + 1 \in 1..Len(log) /\ k + 1 - 1 = k /\ k + 1 \in Nat
    BY <1>1
  <2>2. log[k + 1] \in ChatEvents /\ f[k] \in Seq(Items)
    BY <1>1, <1>7, <2>1
  <2>3. f[k + 1] = IF log[k + 1].kind = "replace" THEN log[k + 1].value
                ELSE IF log[k + 1].kind = "item" THEN Append(f[k], log[k + 1].value)
                ELSE f[k]
    BY <1>5, <2>1
  <2>4. /\ log[k + 1].kind = "replace" => log[k + 1].value \in Seq(Items)
        /\ log[k + 1].kind = "item" => log[k + 1].value \in Items
    BY <2>2 DEF ChatEvents, Marks
  <2> HIDE DEF S
  <2>5. f[k + 1] \in Seq(Items)
    BY <2>2, <2>3, <2>4, AppendProperties
  <2> QED BY <2>1, <2>5 DEF S
<1> HIDE DEF S
<1>8. 0..Len(log) \subseteq S
  BY <1>1, <1>6, <1>7, Induction
<1>9. f = [n \in 0..Len(log) |-> f[n]]
  BY <1>1, <1>2 DEF Solves
<1>10. f \in [0..Len(log) -> Seq(Items)]
  BY <1>8, <1>9 DEF S
<1> QED BY <1>3, <1>4, <1>5, <1>10 DEF Reads

\* Reading goes on where the file goes on.
LEMMA ReadsOn ==
  ASSUME NEW log \in Seq(ChatEvents), NEW more \in Seq(ChatEvents),
         NEW f, Reads(log, f), NEW g, Reads(log \o more, g)
  PROVE  g[Len(log)] = f[Len(log)]
<1>1. InParts(log, more)
  BY PartsOf
<1>2. /\ Len(log) \in Nat /\ Len(more) \in Nat /\ Len(log \o more) = Len(log) + Len(more)
      /\ \A i \in 1..Len(log) : (log \o more)[i] = log[i]
  BY <1>1 DEF InParts
<1> DEFINE S == {n \in Nat : g[n] = f[n]}
<1>3. 0 \in S
  BY DEF Reads
<1>4. ASSUME NEW k \in 0..(Len(log) - 1), k \in S PROVE k + 1 \in S
  <2>1. k + 1 \in 1..Len(log) /\ k + 1 \in 1..Len(log \o more) /\ k + 1 - 1 = k /\ k + 1 \in Nat
    BY <1>2
  <2> DEFINE e == log[k + 1]
  <2>2. (log \o more)[k + 1] = e
    BY <1>2, <2>1
  <2>3. f[k + 1] = IF e.kind = "replace" THEN e.value
                   ELSE IF e.kind = "item" THEN Append(f[k + 1 - 1], e.value) ELSE f[k + 1 - 1]
    BY <2>1 DEF Reads
  <2>4. g[k + 1] = IF e.kind = "replace" THEN e.value
                   ELSE IF e.kind = "item" THEN Append(g[k + 1 - 1], e.value) ELSE g[k + 1 - 1]
    BY <2>1, <2>2 DEF Reads
  <2> HIDE DEF e
  <2> QED BY <1>4, <2>1, <2>3, <2>4
<1> HIDE DEF S
<1>5. 0..Len(log) \subseteq S
  BY <1>2, <1>3, <1>4, Induction
<1>6. Len(log) \in S
  BY <1>2, <1>5
<1> QED BY <1>6 DEF S

\* What one more event does to the items of a file.
ItemsAfter(items, event) ==
    IF event.kind = "replace" THEN event.value
    ELSE IF event.kind = "item" THEN Append(items, event.value)
    ELSE items

\* Reading a file that is one event longer.
LEMMA OneEvent ==
  ASSUME NEW log \in Seq(ChatEvents), NEW event \in ChatEvents
  PROVE  Chat!ItemsOf(log \o <<event>>) = ItemsAfter(Chat!ItemsOf(log), event)
<1> DEFINE more == <<event>>
<1>1. more \in Seq(ChatEvents) /\ Len(more) = 1 /\ more[1] = event
  OBVIOUS
<1> HIDE DEF more
<1>2. PICK f : Reads(log, f)
  BY ReadsExist
<1>3. InParts(log, more) /\ log \o more \in Seq(ChatEvents)
  BY <1>1, PartsOf, ConcatProperties
<1>4. PICK g : Reads(log \o more, g)
  BY <1>3, ReadsExist
<1>5. g[Len(log)] = f[Len(log)]
  BY <1>1, <1>2, <1>4, ReadsOn
<1> DEFINE n == Len(log) + 1
<1>6. Len(log) \in Nat /\ Len(log \o more) = n /\ (log \o more)[n] = event /\ n \in 1..n /\ n - 1 = Len(log)
  BY <1>1, <1>3 DEF InParts
<1>7. g[n] = IF event.kind = "replace" THEN event.value
             ELSE IF event.kind = "item" THEN Append(g[n - 1], event.value) ELSE g[n - 1]
  <2> HIDE DEF n
  <2> QED BY <1>4, <1>6 DEF Reads
<1> HIDE DEF n
<1>8. Chat!ItemsOf(log \o more) = g[n] /\ Chat!ItemsOf(log) = f[Len(log)]
  BY <1>2, <1>4, <1>6 DEF Reads
<1> QED BY <1>5, <1>6, <1>7, <1>8 DEF ItemsAfter, more

\* A file leaves items.
LEMMA ItemsType ==
  ASSUME NEW log \in Seq(ChatEvents)
  PROVE  Chat!ItemsOf(log) \in Seq(Items)
<1>1. PICK f : Reads(log, f)
  BY ReadsExist
<1>2. Len(log) \in 0..Len(log)
  BY LenProperties
<1> QED BY <1>1, <1>2 DEF Reads

\* Whose message is among items, or among what the events of a file leave.
Mentions(items, t) == \E k \in DOMAIN items : items[k] = Chat!User(t)
EventMentions(event, t) ==
    \/ event.kind = "item" /\ event.value = Chat!User(t)
    \/ event.kind = "replace" /\ Mentions(event.value, t)
MentionedIn(log, t) == \E n \in DOMAIN log : EventMentions(log[n], t)

\* An item more mentions its own turn only.
LEMMA AppendMentions ==
  ASSUME NEW items \in Seq(Items), NEW x \in Items, NEW t, Mentions(Append(items, x), t)
  PROVE  Mentions(items, t) \/ x = Chat!User(t)
<1>1. Added(items, x, Append(items, x))
  BY Addition
<1> QED BY <1>1 DEF Mentions, Added

\* A file that does not mention a message does not leave it.
LEMMA ReadsMention ==
  ASSUME NEW log \in Seq(ChatEvents), NEW t, ~ MentionedIn(log, t)
  PROVE  ~ Mentions(Chat!ItemsOf(log), t)
<1>1. PICK f : Reads(log, f)
  BY ReadsExist
<1>2. Len(log) \in Nat /\ DOMAIN log = 1..Len(log) /\ \A n \in 1..Len(log) : log[n] \in ChatEvents
  OBVIOUS
<1> DEFINE S == {n \in Nat : ~ Mentions(f[n], t)}
<1>3. 0 \in S
  <2>1. f[0] = <<>> /\ DOMAIN <<>> = {}
    BY <1>1 DEF Reads
  <2> QED BY <2>1 DEF Mentions
<1>4. ASSUME NEW k \in 0..(Len(log) - 1), k \in S PROVE k + 1 \in S
  <2>1. k + 1 \in 1..Len(log) /\ k + 1 - 1 = k /\ k + 1 \in Nat /\ k \in 0..Len(log)
    BY <1>2
  <2> DEFINE e == log[k + 1]
  <2>2. e \in ChatEvents /\ f[k] \in Seq(Items)
    BY <1>1, <1>2, <2>1 DEF Reads
  <2>3. /\ ~ (e.kind = "item" /\ e.value = Chat!User(t))
        /\ ~ (e.kind = "replace" /\ Mentions(e.value, t))
    BY <1>2, <2>1 DEF MentionedIn, EventMentions
  <2>4. f[k + 1] = IF e.kind = "replace" THEN e.value
                   ELSE IF e.kind = "item" THEN Append(f[k], e.value) ELSE f[k]
    BY <1>1, <2>1 DEF Reads
  <2> HIDE DEF e
  <2>5. e.kind = "item" => e.value \in Items
    BY <2>2 DEF ChatEvents, Marks
  <2>6. ~ Mentions(f[k + 1], t)
    BY <1>4, <2>2, <2>3, <2>4, <2>5, AppendMentions
  <2> QED BY <2>1, <2>6
<1> HIDE DEF S
<1>5. 0..Len(log) \subseteq S
  BY <1>2, <1>3, <1>4, Induction
<1>6. Len(log) \in S
  BY <1>2, <1>5
<1> QED BY <1>1, <1>6 DEF S, Reads

---------------------------------------------------------------------------
(* What each step changes *)

ChatPlaces == {"begin", "pick", "call", "sent", "answered", "finish", "failed", "over"}
TurnRecords == [pc : ChatPlaces, status : {"running", "worker"}, snapshot : Seq(Items),
                session : Nat]
SessionRecords == [id : Nat, items : Seq(Items), pending : Nat]

ChatTypes ==
    /\ turn \in Seq(TurnRecords) /\ sessions \in Seq(SessionRecords)
    /\ events \in Seq(Seq(ChatEvents))

\* A turn, a session and a file are known; the session of a turn exists once it is taken.
Placed ==
    /\ current = Len(sessions) /\ current \in DOMAIN sessions
    /\ \A s \in DOMAIN sessions : sessions[s].id \in DOMAIN events
    /\ \A t \in DOMAIN turn :
         /\ turn[t].session = 0 \/ turn[t].session \in DOMAIN sessions
         /\ turn[t].session = 0 <=> turn[t].pc \in {"begin", "pick"}
    /\ leaving \in DOMAIN turn \union {0} /\ typed \in DOMAIN turn \union {0}
    /\ typed # 0 => turn[typed].pc # "begin"
    /\ line = "fork" => leaving # 0 /\ turn[leaving].pc # "begin"
    /\ missed \subseteq DOMAIN turn

Known == ChatTypes /\ Placed

\* The turn t is changed, the session s, the file of id; a turn, a session, a file is new.
TurnIs(t, place, status_, snapshot, session) ==
    /\ turn' \in Seq(TurnRecords) /\ DOMAIN turn' = DOMAIN turn /\ t \in DOMAIN turn
    /\ \A u \in DOMAIN turn : u # t => turn'[u] = turn[u]
    /\ turn'[t].pc = place /\ turn'[t].status = status_
    /\ turn'[t].snapshot = snapshot /\ turn'[t].session = session

SessionIs(s, items, asks_) ==
    /\ sessions' \in Seq(SessionRecords) /\ DOMAIN sessions' = DOMAIN sessions
    /\ Len(sessions') = Len(sessions) /\ s \in DOMAIN sessions
    /\ \A r \in DOMAIN sessions : r # s => sessions'[r] = sessions[r]
    /\ sessions'[s].id = sessions[s].id /\ sessions'[s].items = items
    /\ sessions'[s].pending = asks_

FileIs(id, log) ==
    /\ events' \in Seq(Seq(ChatEvents)) /\ DOMAIN events' = DOMAIN events /\ id \in DOMAIN events
    /\ \A i \in DOMAIN events : i # id => events'[i] = events[i]
    /\ events'[id] = log

SessionOpened(id, items) ==
    /\ sessions' \in Seq(SessionRecords) /\ current' = Len(sessions')
    /\ DOMAIN sessions' = DOMAIN sessions \union {current'} /\ current' \notin DOMAIN sessions
    /\ \A s \in DOMAIN sessions : sessions'[s] = sessions[s] /\ s <= current'
    /\ sessions'[current'].id = id /\ sessions'[current'].items = items
    /\ sessions'[current'].pending = 0

FileOpened(id, log) ==
    /\ events' \in Seq(Seq(ChatEvents)) /\ DOMAIN events' = DOMAIN events \union {id}
    /\ id \notin DOMAIN events /\ id \in Nat /\ \A i \in DOMAIN events : events'[i] = events[i]
    /\ events'[id] = log

TurnBegun(t) ==
    /\ turn' \in Seq(TurnRecords) /\ DOMAIN turn' = DOMAIN turn \union {t} /\ t \notin DOMAIN turn
    /\ t \in Nat \ {0} /\ \A u \in DOMAIN turn : turn'[u] = turn[u]
    /\ turn'[t].pc = "begin" /\ turn'[t].status = "running"
    /\ turn'[t].snapshot = <<>> /\ turn'[t].session = 0

\* The EXCEPTs and Appends of the actions, as the changes above.
LEMMA SetTurn ==
  ASSUME ChatTypes, NEW t \in DOMAIN turn, NEW r \in TurnRecords, turn' = [turn EXCEPT ![t] = r]
  PROVE  TurnIs(t, r.pc, r.status, r.snapshot, r.session)
<1>1. turn' \in Seq(TurnRecords) /\ Updated(turn, t, r, turn')
  BY Update DEF ChatTypes
<1> QED BY <1>1 DEF Updated, TurnIs

\* A session is changed.
LEMMA SetSession ==
  ASSUME ChatTypes, NEW s \in DOMAIN sessions, NEW r \in SessionRecords,
         sessions' = [sessions EXCEPT ![s] = r], r.id = sessions[s].id
  PROVE  SessionIs(s, r.items, r.pending)
<1>1. sessions' \in Seq(SessionRecords) /\ Updated(sessions, s, r, sessions')
  BY Update DEF ChatTypes
<1> QED BY <1>1 DEF Updated, SessionIs

\* A file goes on.
LEMMA SetFile ==
  ASSUME ChatTypes, NEW id \in DOMAIN events, NEW more \in Seq(ChatEvents), Chat!Record(id, more)
  PROVE  FileIs(id, events[id] \o more)
<1> DEFINE log == events[id] \o more
<1>1. events[id] \in Seq(ChatEvents)
  BY ElementOfSeq DEF ChatTypes
<1>2. log \in Seq(ChatEvents)
  BY <1>1, ConcatProperties
<1>3. events' = [events EXCEPT ![id] = log]
  BY DEF Chat!Record
<1> HIDE DEF log
<1>4. events' \in Seq(Seq(ChatEvents)) /\ Updated(events, id, log, events')
  BY <1>2, <1>3, Update DEF ChatTypes
<1> QED BY <1>4 DEF Updated, FileIs, log

\* start_new_session, the fork and /resume open a session.
LEMMA AddSession ==
  ASSUME ChatTypes, NEW id \in Nat, NEW items \in Seq(Items),
         Chat!Open([id |-> id, items |-> items, pending |-> 0])
  PROVE  SessionOpened(id, items)
<1> DEFINE r == [id |-> id, items |-> items, pending |-> 0]
<1>1. r \in SessionRecords
  BY DEF SessionRecords
<1>2. sessions' = Append(sessions, r) /\ current' = Len(sessions')
  BY DEF Chat!Open
<1>3. r.id = id /\ r.items = items /\ r.pending = 0
  OBVIOUS
<1> HIDE DEF r
<1>4. sessions' \in Seq(SessionRecords) /\ Added(sessions, r, sessions')
  BY <1>1, <1>2, Addition DEF ChatTypes
<1>5. \A s \in DOMAIN sessions : s <= Len(sessions')
  BY <1>4 DEF Added
<1> QED BY <1>2, <1>3, <1>4, <1>5 DEF Added, SessionOpened

\* A file is begun.
LEMMA AddFile ==
  ASSUME ChatTypes, NEW log \in Seq(ChatEvents), events' = Append(events, log)
  PROVE  FileOpened(Len(events) + 1, log)
<1>1. events' \in Seq(Seq(ChatEvents)) /\ Added(events, log, events')
  BY Addition DEF ChatTypes
<1> QED BY <1>1 DEF Added, FileOpened

\* A turn is begun.
LEMMA AddTurn ==
  ASSUME ChatTypes,
         turn' = Append(turn, [pc |-> "begin", status |-> "running", snapshot |-> <<>>,
                               session |-> 0])
  PROVE  TurnBegun(Len(turn'))
<1> DEFINE r == [pc |-> "begin", status |-> "running", snapshot |-> <<>>, session |-> 0]
<1>1. r \in TurnRecords
  BY DEF TurnRecords, ChatPlaces
<1>2. r.pc = "begin" /\ r.status = "running" /\ r.snapshot = <<>> /\ r.session = 0
  OBVIOUS
<1>3. turn' = Append(turn, r)
  OBVIOUS
<1> HIDE DEF r
<1>4. turn' \in Seq(TurnRecords) /\ Added(turn, r, turn')
  BY <1>1, <1>3, Addition DEF ChatTypes
<1> QED BY <1>2, <1>4 DEF Added, TurnBegun

\* The items of a turn.
LEMMA UserIsItem ==
  ASSUME NEW t \in Nat
  PROVE  Chat!User(t) \in Items /\ Chat!Answer(t) \in Items /\ Chat!Promoted(t) \in Items
         /\ Chat!Aborted \in Items
  BY DEF Chat!User, Chat!Answer, Chat!Promoted, Chat!Aborted, Items

\* The record of a turn.
LEMMA TurnType ==
  ASSUME ChatTypes, NEW t \in DOMAIN turn
  PROVE  /\ turn[t] \in TurnRecords /\ t \in Nat \ {0} /\ turn[t].snapshot \in Seq(Items)
         /\ turn[t].session \in Nat /\ turn[t].pc \in ChatPlaces
         /\ turn[t].status \in {"running", "worker"}
<1>1. turn[t] \in TurnRecords /\ t \in 1..Len(turn) /\ Len(turn) \in Nat
  BY ElementOfSeq DEF ChatTypes
<1> QED BY <1>1 DEF TurnRecords

\* The record of a session.
LEMMA SessionType ==
  ASSUME ChatTypes, NEW s \in DOMAIN sessions
  PROVE  /\ sessions[s] \in SessionRecords /\ s \in Nat \ {0} /\ sessions[s].items \in Seq(Items)
         /\ sessions[s].id \in Nat /\ sessions[s].pending \in Nat
<1>1. sessions[s] \in SessionRecords /\ s \in 1..Len(sessions) /\ Len(sessions) \in Nat
  BY ElementOfSeq DEF ChatTypes
<1> QED BY <1>1 DEF SessionRecords

\* What begin_foreground_task remembers is a sequence of items.
LEMMA SnapshotType ==
  ASSUME Known, NEW t \in Nat
  PROVE  sessions[current].items \o <<Chat!User(t)>> \in Seq(Items)
<1>1. sessions[current].items \in Seq(Items) /\ <<Chat!User(t)>> \in Seq(Items)
  BY SessionType, UserIsItem DEF Known, Placed
<1> QED BY <1>1, ConcatProperties

\* begin_foreground_task
BeginChanges(t) ==
    /\ turn[t].pc = "begin"
    /\ TurnIs(t, "pick", turn[t].status, sessions[current].items \o <<Chat!User(t)>>, turn[t].session)
    /\ typed' = t /\ missed' = missed \union ({typed} \ {0})
    /\ UNCHANGED <<line, leaving, sessions, current, events, reopened, cleared>>

\* The action BeginForegroundTask is that change.
LEMMA Begins ==
  ASSUME Known, NEW t \in DOMAIN turn, Chat!BeginForegroundTask(t)
  PROVE  BeginChanges(t)
<1> DEFINE x == sessions[current].items \o <<Chat!User(t)>>
           r == [turn[t] EXCEPT !.pc = "pick", !.snapshot = x]
<1>1. /\ turn[t].pc = "begin" /\ typed' = t /\ missed' = missed \union ({typed} \ {0})
      /\ UNCHANGED <<line, leaving, sessions, current, events, reopened, cleared>>
  BY DEF Chat!BeginForegroundTask, Chat!TurnRests, Chat!None
<1>2. turn' = [turn EXCEPT ![t].pc = "pick", ![t].snapshot = x]
  BY DEF Chat!BeginForegroundTask
<1>3. x \in Seq(Items)
  BY SnapshotType, TurnType DEF Known
<1> HIDE DEF x
<1>4. turn' = [turn EXCEPT ![t] = r]
  BY <1>2
<1>5. turn[t] \in TurnRecords
  BY TurnType DEF Known
<1>6. /\ r \in TurnRecords /\ r.pc = "pick" /\ r.status = turn[t].status /\ r.snapshot = x
      /\ r.session = turn[t].session
  BY <1>3, <1>5 DEF TurnRecords, ChatPlaces
<1> HIDE DEF r
<1>7. TurnIs(t, r.pc, r.status, r.snapshot, r.session)
  BY <1>4, <1>6, SetTurn DEF Known
<1> QED BY <1>1, <1>6, <1>7 DEF BeginChanges, x

\* The thread takes runtime.session.
TakeChanges(t) ==
    /\ turn[t].pc = "pick"
    /\ TurnIs(t, "call", turn[t].status, turn[t].snapshot, current)
    /\ UNCHANGED <<line, leaving, sessions, current, events, typed, missed, reopened, cleared>>

\* The action TakeSession is that change.
LEMMA Takes ==
  ASSUME Known, NEW t \in DOMAIN turn, Chat!TakeSession(t)
  PROVE  TakeChanges(t)
<1> DEFINE r == [turn[t] EXCEPT !.pc = "call", !.session = current]
<1>1. /\ turn[t].pc = "pick"
      /\ UNCHANGED <<line, leaving, sessions, current, events, typed, missed, reopened, cleared>>
  BY DEF Chat!TakeSession, Chat!TurnRests, Chat!history
<1>2. turn' = [turn EXCEPT ![t].pc = "call", ![t].session = current]
  BY DEF Chat!TakeSession
<1>3. current \in Nat
  BY SessionType DEF Known, Placed
<1>4. turn' = [turn EXCEPT ![t] = r]
  BY <1>2
<1>5. turn[t] \in TurnRecords
  BY TurnType DEF Known
<1>6. /\ r \in TurnRecords /\ r.pc = "call" /\ r.status = turn[t].status
      /\ r.snapshot = turn[t].snapshot /\ r.session = current
  BY <1>3, <1>5 DEF TurnRecords, ChatPlaces
<1> HIDE DEF r
<1>7. TurnIs(t, r.pc, r.status, r.snapshot, r.session)
  BY <1>4, <1>6, SetTurn DEF Known
<1> QED BY <1>1, <1>6, <1>7 DEF TakeChanges

\* A turn goes to another place.
LEMMA Goes ==
  ASSUME Known, NEW t \in DOMAIN turn, NEW place \in ChatPlaces,
         turn' = [turn EXCEPT ![t].pc = place]
  PROVE  TurnIs(t, place, turn[t].status, turn[t].snapshot, turn[t].session)
<1> DEFINE r == [turn[t] EXCEPT !.pc = place]
<1>1. turn' = [turn EXCEPT ![t] = r]
  OBVIOUS
<1>2. turn[t] \in TurnRecords
  BY TurnType DEF Known
<1>3. /\ r \in TurnRecords /\ r.pc = place /\ r.status = turn[t].status
      /\ r.snapshot = turn[t].snapshot /\ r.session = turn[t].session
  BY <1>2 DEF TurnRecords
<1> HIDE DEF r
<1>4. TurnIs(t, r.pc, r.status, r.snapshot, r.session)
  BY <1>1, <1>3, SetTurn DEF Known
<1> QED BY <1>3, <1>4

\* prepare_turn
PrepareChanges(t, s) ==
    /\ turn[t].pc = "call" /\ s = turn[t].session /\ s \in DOMAIN sessions
    /\ TurnIs(t, "sent", turn[t].status, turn[t].snapshot, s)
    /\ SessionIs(s, sessions[s].items, t)
    /\ FileIs(sessions[s].id, events[sessions[s].id] \o <<Chat!Event("started", t)>>)
    /\ UNCHANGED <<line, leaving, current, typed, missed, reopened, cleared>>

\* The action Prepare is that change.
LEMMA Prepares ==
  ASSUME Known, NEW t \in DOMAIN turn, Chat!Prepare(t)
  PROVE  PrepareChanges(t, turn[t].session)
<1> DEFINE s == turn[t].session
           r == [sessions[s] EXCEPT !.pending = t]
           e == Chat!Event("started", t)
<1>1. /\ turn[t].pc = "call" /\ turn' = [turn EXCEPT ![t].pc = "sent"]
      /\ sessions' = [sessions EXCEPT ![s].pending = t]
      /\ Chat!Record(sessions[s].id, <<e>>)
      /\ UNCHANGED <<line, leaving, current, typed, missed, reopened, cleared>>
  BY DEF Chat!Prepare, Chat!TurnRests, Chat!history, Chat!Goto, Chat!Session
<1>2. s \in DOMAIN sessions /\ sessions[s].id \in DOMAIN events
  BY <1>1 DEF Known, Placed
<1>3. t \in Nat
  BY TurnType DEF Known
<1>4. e \in ChatEvents
  BY <1>3 DEF Chat!Event, ChatEvents, Marks
<1> HIDE DEF e, s
<1>5. sessions' = [sessions EXCEPT ![s] = r]
  BY <1>1
<1>6. sessions[s] \in SessionRecords
  BY <1>2, SessionType DEF Known
<1>7. /\ r \in SessionRecords /\ r.id = sessions[s].id /\ r.items = sessions[s].items
      /\ r.pending = t
  BY <1>3, <1>6 DEF SessionRecords
<1> HIDE DEF r
<1>8. SessionIs(s, r.items, r.pending)
  BY <1>2, <1>5, <1>7, SetSession DEF Known
<1>9. FileIs(sessions[s].id, events[sessions[s].id] \o <<e>>)
  <2>1. <<e>> \in Seq(ChatEvents)
    BY <1>4
  <2> QED BY <1>1, <1>2, <2>1, SetFile DEF Known
<1>10. TurnIs(t, "sent", turn[t].status, turn[t].snapshot, turn[t].session)
  BY <1>1, Goes DEF ChatPlaces
<1> QED BY <1>1, <1>2, <1>7, <1>8, <1>9, <1>10 DEF PrepareChanges, e, s

\* commit_turn
ItemEvent(x) == Chat!Event("item", x)
CommitChanges(t, s, p) ==
    /\ turn[t].pc = "sent" /\ s = turn[t].session /\ s \in DOMAIN sessions
    /\ p = sessions[s].pending
    /\ TurnIs(t, "answered", turn[t].status, turn[t].snapshot, s)
    /\ SessionIs(s, IF p = 0 THEN Append(sessions[s].items, Chat!Answer(t))
                    ELSE Append(Append(sessions[s].items, Chat!User(p)), Chat!Answer(t)), 0)
    /\ FileIs(sessions[s].id,
              IF p = 0 THEN events[sessions[s].id] \o <<ItemEvent(Chat!Answer(t))>>
              ELSE (events[sessions[s].id] \o <<ItemEvent(Chat!User(p))>>)
                     \o <<ItemEvent(Chat!Answer(t))>>)
    /\ UNCHANGED <<line, leaving, current, typed, missed, reopened, cleared>>

\* The items a commit adds, and their events.
LEMMA TwoJoined ==
  ASSUME NEW a, NEW b
  PROVE  /\ <<>> \o <<b>> = <<b>> /\ <<a>> \o <<b>> = <<a, b>>
         /\ [k \in DOMAIN <<b>> |-> ItemEvent(<<b>>[k])] = <<ItemEvent(b)>>
         /\ [k \in DOMAIN <<a, b>> |-> ItemEvent(<<a, b>>[k])] = <<ItemEvent(a), ItemEvent(b)>>
<1>1. <<>> \o <<b>> = <<b>>
  <2>1. <<b>> \in Seq({b})
    OBVIOUS
  <2> QED BY <2>1, ConcatEmptySeq
<1>2. <<a>> \o <<b>> = <<a, b>>
  <2>1. <<a>> \in Seq({a, b}) /\ b \in {a, b}
    OBVIOUS
  <2>2. Append(<<a>>, b) = <<a>> \o <<b>>
    BY <2>1, AppendIsConcat
  <2>3. Append(<<a>>, b) = <<a, b>>
    <3> DEFINE x == Append(<<a>>, b)
               y == <<a, b>>
    <3>1. x \in Seq({a, b}) /\ Len(x) = 2 /\ x[1] = a /\ x[2] = b
      BY <2>1, AppendProperties
    <3>2. y \in Seq({a, b}) /\ Len(y) = 2 /\ y[1] = a /\ y[2] = b
      OBVIOUS
    <3> HIDE DEF x, y
    <3>3. \A i \in 1..Len(x) : x[i] = y[i]
      BY <3>1, <3>2
    <3>4. x = y
      BY <3>1, <3>2, <3>3, SeqEqual
    <3> QED BY <3>4 DEF x, y
  <2> QED BY <2>2, <2>3
<1>3. [k \in DOMAIN <<b>> |-> ItemEvent(<<b>>[k])] = <<ItemEvent(b)>>
  OBVIOUS
<1>4. [k \in DOMAIN <<a, b>> |-> ItemEvent(<<a, b>>[k])] = <<ItemEvent(a), ItemEvent(b)>>
  OBVIOUS
<1> QED BY <1>1, <1>2, <1>3, <1>4

\* Two more elements, one by one.
OneByOne(s, a, b) ==
    /\ s \o <<b>> = Append(s, b) /\ s \o <<a, b>> = Append(Append(s, a), b)
    /\ s \o <<a, b>> = (s \o <<a>>) \o <<b>>

\* Adding both at once is adding one after the other.
LEMMA TwoMore ==
  ASSUME NEW T, NEW s \in Seq(T), NEW a \in T, NEW b \in T
  PROVE  OneByOne(s, a, b)
<1>1. <<a>> \in Seq(T) /\ <<b>> \in Seq(T)
  OBVIOUS
<1>7. <<a>> \o <<b>> = <<a, b>>
  BY TwoJoined
<1>2. Associates(s, <<a>>, <<b>>)
  BY <1>1, JoinAssociates
<1>3. s \o <<a, b>> = (s \o <<a>>) \o <<b>>
  BY <1>2, <1>7 DEF Associates
<1>4. Append(s, a) = s \o <<a>> /\ Append(s, b) = s \o <<b>>
  BY AppendIsConcat
<1>5. Append(s, a) \in Seq(T)
  BY AppendProperties
<1>6. Append(Append(s, a), b) = Append(s, a) \o <<b>>
  BY <1>5, AppendIsConcat
<1> QED BY <1>3, <1>4, <1>6 DEF OneByOne

\* The action Commit is that change.
LEMMA Commits ==
  ASSUME Known, NEW t \in DOMAIN turn, Chat!Commit(t)
  PROVE  CommitChanges(t, turn[t].session, Chat!Session(t).pending)
<1> DEFINE s == turn[t].session
           p == sessions[s].pending
           id == sessions[s].id
           more == (IF p = 0 THEN <<>> ELSE <<Chat!User(p)>>) \o <<Chat!Answer(t)>>
           log == [k \in DOMAIN more |-> ItemEvent(more[k])]
           r == [sessions[s] EXCEPT !.items = @ \o more, !.pending = 0]
<1>1. /\ turn[t].pc = "sent" /\ turn' = [turn EXCEPT ![t].pc = "answered"]
      /\ sessions' = [sessions EXCEPT ![s].items = @ \o more, ![s].pending = 0]
      /\ Chat!Record(id, log)
      /\ UNCHANGED <<line, leaving, current, typed, missed, reopened, cleared>>
  BY DEF Chat!Commit, Chat!TurnRests, Chat!history, Chat!Goto, Chat!Session, Chat!None, ItemEvent
<1>2. s \in DOMAIN sessions /\ id \in DOMAIN events
  BY <1>1 DEF Known, Placed
<1>3. t \in Nat /\ p \in Nat /\ sessions[s] \in SessionRecords /\ sessions[s].items \in Seq(Items)
  BY <1>2, TurnType, SessionType DEF Known
<1>4. Chat!Answer(t) \in Items /\ Chat!User(p) \in Items
  BY <1>3, UserIsItem
<1>5. events[id] \in Seq(ChatEvents)
  BY <1>2, ElementOfSeq DEF Known, ChatTypes
<1>6. ItemEvent(Chat!Answer(t)) \in ChatEvents /\ ItemEvent(Chat!User(p)) \in ChatEvents
  BY <1>4 DEF ItemEvent, Chat!Event, ChatEvents
<1>7. /\ more = IF p = 0 THEN <<Chat!Answer(t)>> ELSE <<Chat!User(p), Chat!Answer(t)>>
      /\ log = IF p = 0 THEN <<ItemEvent(Chat!Answer(t))>>
               ELSE <<ItemEvent(Chat!User(p)), ItemEvent(Chat!Answer(t))>>
  <2>1. more = IF p = 0 THEN <<Chat!Answer(t)>> ELSE <<Chat!User(p), Chat!Answer(t)>>
    <3> HIDE DEF p
    <3> QED BY TwoJoined
  <2> HIDE DEF more
  <2> QED BY <2>1, TwoJoined
<1> HIDE DEF more, log
<1>8. more \in Seq(Items) /\ log \in Seq(ChatEvents)
  BY <1>4, <1>6, <1>7
<1>9. sessions' = [sessions EXCEPT ![s] = r]
  <2> HIDE DEF s, p, id
  <2> QED BY <1>1
<1>10. sessions[s].items \o more \in Seq(Items)
  BY <1>3, <1>8, ConcatProperties
<1>11. /\ r \in SessionRecords /\ r.id = id /\ r.items = sessions[s].items \o more
       /\ r.pending = 0
  <2> HIDE DEF s
  <2> QED BY <1>3, <1>10 DEF SessionRecords
<1> HIDE DEF r
<1>12. SessionIs(s, r.items, r.pending)
  BY <1>2, <1>9, <1>11, SetSession DEF Known
<1>13. sessions[s].items \o more
         = IF p = 0 THEN Append(sessions[s].items, Chat!Answer(t))
           ELSE Append(Append(sessions[s].items, Chat!User(p)), Chat!Answer(t))
  <2> HIDE DEF s, p
  <2>1. OneByOne(sessions[s].items, Chat!User(p), Chat!Answer(t))
    BY <1>3, <1>4, TwoMore
  <2> QED BY <1>7, <2>1 DEF OneByOne
<1>14. FileIs(id, events[id] \o log)
  BY <1>1, <1>2, <1>8, SetFile DEF Known
<1>15. events[id] \o log
         = IF p = 0 THEN events[id] \o <<ItemEvent(Chat!Answer(t))>>
           ELSE (events[id] \o <<ItemEvent(Chat!User(p))>>) \o <<ItemEvent(Chat!Answer(t))>>
  <2> HIDE DEF s, p, id
  <2>1. OneByOne(events[id], ItemEvent(Chat!User(p)), ItemEvent(Chat!Answer(t)))
    BY <1>5, <1>6, TwoMore
  <2> QED BY <1>7, <2>1 DEF OneByOne
<1>16. TurnIs(t, "answered", turn[t].status, turn[t].snapshot, turn[t].session)
  BY <1>1, Goes DEF ChatPlaces
<1>17. SessionIs(s, sessions[s].items \o more, 0)
  BY <1>11, <1>12
<1> QED BY <1>1, <1>2, <1>13, <1>14, <1>15, <1>16, <1>17 DEF CommitChanges, Chat!Session

\* The turn is recorded as ended.
ReturnChanges(t, s) ==
    /\ turn[t].pc \in {"sent", "answered"} /\ s = turn[t].session /\ s \in DOMAIN sessions
    /\ TurnIs(t, IF turn[t].pc = "sent" THEN "failed" ELSE "finish", turn[t].status,
              turn[t].snapshot, s)
    /\ FileIs(sessions[s].id, events[sessions[s].id] \o <<Chat!Event("ended", t)>>)
    /\ UNCHANGED <<line, leaving, sessions, current, typed, missed, reopened, cleared>>

\* The action RunReturns is that change.
LEMMA RunsReturn ==
  ASSUME Known, NEW t \in DOMAIN turn, Chat!RunReturns(t)
  PROVE  ReturnChanges(t, turn[t].session)
<1> DEFINE s == turn[t].session
           e == Chat!Event("ended", t)
           place == IF turn[t].pc = "sent" THEN "failed" ELSE "finish"
<1>1. /\ turn[t].pc \in {"sent", "answered"} /\ turn' = [turn EXCEPT ![t].pc = place]
      /\ Chat!Record(sessions[s].id, <<e>>)
      /\ UNCHANGED <<line, leaving, sessions, current, typed, missed, reopened, cleared>>
  BY DEF Chat!RunReturns, Chat!TurnRests, Chat!history, Chat!Session
<1>2. s \in DOMAIN sessions /\ sessions[s].id \in DOMAIN events
  BY <1>1 DEF Known, Placed
<1>3. t \in Nat
  BY TurnType DEF Known
<1>4. <<e>> \in Seq(ChatEvents)
  <2>1. e \in ChatEvents
    BY <1>3 DEF Chat!Event, ChatEvents, Marks
  <2> QED BY <2>1
<1>5. FileIs(sessions[s].id, events[sessions[s].id] \o <<e>>)
  <2> HIDE DEF e, s
  <2> QED BY <1>1, <1>2, <1>4, SetFile DEF Known
<1>6. place \in ChatPlaces
  BY DEF ChatPlaces
<1>7. TurnIs(t, place, turn[t].status, turn[t].snapshot, turn[t].session)
  <2> HIDE DEF place
  <2> QED BY <1>1, <1>6, Goes
<1> QED BY <1>1, <1>2, <1>5, <1>7 DEF ReturnChanges

\* finish_foreground_task
FinishChanges(t) ==
    /\ turn[t].pc \in {"finish", "failed"}
    /\ TurnIs(t, "over", turn[t].status, turn[t].snapshot, turn[t].session)
    /\ \/ turn[t].status = "worker" /\ UNCHANGED <<typed, missed>>
       \/ typed' = 0 /\ missed' = missed \union ({typed} \ {0, t})
    /\ UNCHANGED <<line, leaving, sessions, current, events, reopened, cleared>>

\* The action Finish is that change.
LEMMA Finishes ==
  ASSUME Known, NEW t \in DOMAIN turn, Chat!Finish(t)
  PROVE  FinishChanges(t)
<1>1. /\ turn[t].pc \in {"finish", "failed"} /\ turn' = [turn EXCEPT ![t].pc = "over"]
      /\ \/ turn[t].status = "worker" /\ UNCHANGED <<typed, missed>>
         \/ typed' = 0 /\ missed' = missed \union ({typed} \ {0, t})
      /\ UNCHANGED <<line, leaving, sessions, current, events, reopened, cleared>>
  BY DEF Chat!Finish, Chat!TurnRests, Chat!Goto, Chat!None
<1>2. TurnIs(t, "over", turn[t].status, turn[t].snapshot, turn[t].session)
  BY <1>1, Goes DEF ChatPlaces
<1> QED BY <1>1, <1>2 DEF FinishChanges

\* promote_foreground_to_worker
ForkChanges(t) ==
    /\ line = "fork" /\ t = leaving /\ t \in DOMAIN turn
    /\ line' = "dispatch" /\ leaving' = 0 /\ typed' = 0
    /\ TurnIs(t, turn[t].pc, "worker", <<>>, turn[t].session)
    /\ missed' = missed \union ({typed} \ {0, t}) \union {u \in {t} : turn[t].session = 0}
    /\ \E id, items : /\ SessionOpened(id, items) /\ items = Append(turn[t].snapshot, Chat!Promoted(t))
                      /\ FileOpened(id, <<Chat!Event("replace", items)>>)
    /\ UNCHANGED <<reopened, cleared>>

\* The action ForkMainSession is that change.
LEMMA Forks ==
  ASSUME Known, Chat!ForkMainSession
  PROVE  ForkChanges(leaving)
<1> DEFINE t == leaving
           items == turn[t].snapshot \o <<Chat!Promoted(t)>>
           log == <<Chat!Event("replace", items)>>
           id == Len(events) + 1
           r == [turn[t] EXCEPT !.status = "worker", !.snapshot = <<>>]
<1>1. /\ line = "fork" /\ line' = "dispatch" /\ leaving' = 0 /\ typed' = 0
      /\ turn' = [turn EXCEPT ![t].status = "worker", ![t].snapshot = <<>>]
      /\ missed' = missed \union ({typed} \ {0, t}) \union {u \in {t} : turn[u].session = 0}
      /\ UNCHANGED <<reopened, cleared>>
  BY DEF Chat!ForkMainSession, Chat!HandOver, Chat!None
<1>2. t \in DOMAIN turn
  BY <1>1 DEF Known, Placed
<1>3. Chat!Open([id |-> id, items |-> items, pending |-> 0]) /\ events' = Append(events, log)
  BY DEF Chat!ForkMainSession, Chat!Fresh, Chat!ForkEvents, Chat!None
<1>4. t \in Nat /\ turn[t] \in TurnRecords /\ turn[t].snapshot \in Seq(Items)
  BY <1>2, TurnType DEF Known
<1>5. Chat!Promoted(t) \in Items
  BY <1>4, UserIsItem
<1> HIDE DEF t
<1>6. items = Append(turn[t].snapshot, Chat!Promoted(t)) /\ items \in Seq(Items)
  BY <1>4, <1>5, AppendIsConcat, AppendProperties
<1> HIDE DEF items
<1>7. log \in Seq(ChatEvents)
  <2>1. Chat!Event("replace", items) \in ChatEvents
    BY <1>6 DEF Chat!Event, ChatEvents
  <2> QED BY <2>1
<1>8. id \in Nat
  BY LenProperties DEF Known, ChatTypes
<1> HIDE DEF log, id
<1>9. SessionOpened(id, items)
  BY <1>3, <1>6, <1>8, AddSession DEF Known
<1>10. FileOpened(id, log)
  BY <1>3, <1>7, AddFile DEF Known, id
<1>11. turn' = [turn EXCEPT ![t] = r]
  BY <1>1
<1>12. /\ r \in TurnRecords /\ r.pc = turn[t].pc /\ r.status = "worker"
       /\ r.snapshot = <<>> /\ r.session = turn[t].session
  <2>1. <<>> \in Seq(Items)
    OBVIOUS
  <2> QED BY <1>4, <2>1 DEF TurnRecords
<1> HIDE DEF r
<1>13. TurnIs(t, r.pc, r.status, r.snapshot, r.session)
  BY <1>2, <1>11, <1>12, SetTurn DEF Known
<1>14. missed' = missed \union ({typed} \ {0, t}) \union {u \in {t} : turn[t].session = 0}
  BY <1>1
<1> QED BY <1>1, <1>2, <1>6, <1>9, <1>10, <1>12, <1>13, <1>14 DEF ForkChanges, t, log

\* The thread of a turn is started.
StartChanges(t) ==
    /\ line = "dispatch" /\ line' = "ready" /\ TurnBegun(t)
    /\ UNCHANGED <<leaving, typed, sessions, current, events, missed, reopened, cleared>>

\* The action StartTurn is that change.
LEMMA Starts ==
  ASSUME Known, Chat!StartTurn
  PROVE  StartChanges(Len(turn'))
<1>1. /\ line = "dispatch" /\ line' = "ready"
      /\ UNCHANGED <<leaving, typed, sessions, current, events, missed, reopened, cleared>>
      /\ turn' = Append(turn, [pc |-> "begin", status |-> "running", snapshot |-> <<>>,
                               session |-> 0])
  BY DEF Chat!StartTurn, Chat!storeVars, Chat!history, Chat!None
<1> QED BY <1>1, AddTurn DEF StartChanges, Known

\* /clear
ClearChanges(s) ==
    /\ line = "dispatch" /\ line' = "ready" /\ s = current
    /\ SessionIs(s, <<>>, 0) /\ cleared' = cleared \union {s}
    /\ UNCHANGED <<leaving, turn, typed, current, events, missed, reopened>>

\* The action Clear is that change.
LEMMA Clears ==
  ASSUME Known, Chat!Clear
  PROVE  ClearChanges(current)
<1> DEFINE r == [sessions[current] EXCEPT !.items = <<>>, !.pending = 0]
<1>1. /\ line = "dispatch" /\ line' = "ready" /\ cleared' = cleared \union {current}
      /\ sessions' = [sessions EXCEPT ![current].items = <<>>, ![current].pending = 0]
      /\ UNCHANGED <<leaving, turn, typed, current, events, missed, reopened>>
  BY DEF Chat!Clear, Chat!Command, Chat!None
<1>2. current \in DOMAIN sessions
  BY DEF Known, Placed
<1>3. sessions[current] \in SessionRecords
  BY <1>2, SessionType DEF Known
<1>4. sessions' = [sessions EXCEPT ![current] = r]
  BY <1>1
<1>5. /\ r \in SessionRecords /\ r.id = sessions[current].id /\ r.items = <<>> /\ r.pending = 0
  <2>1. <<>> \in Seq(Items)
    OBVIOUS
  <2> QED BY <1>3, <2>1 DEF SessionRecords
<1> HIDE DEF r
<1>6. SessionIs(current, r.items, r.pending)
  BY <1>2, <1>4, <1>5, SetSession DEF Known
<1> QED BY <1>1, <1>5, <1>6 DEF ClearChanges

\* start_new_session
NewChanges ==
    /\ line \in {"dispatch", "session", "rollback"} /\ line' \in {"ready", "restart"}
    /\ \E id : SessionOpened(id, <<>>) /\ FileOpened(id, <<>>)
    /\ UNCHANGED <<leaving, turn, typed, missed, reopened, cleared>>

\* /new does this, and so does the end of a rebuild.
LEMMA StartsNew ==
  ASSUME Known, Chat!New \/ Chat!EndRebuild
  PROVE  NewChanges
<1> DEFINE id == Len(events) + 1
<1>1. /\ line \in {"dispatch", "session", "rollback"} /\ line' \in {"ready", "restart"}
      /\ Chat!Open([id |-> id, items |-> <<>>, pending |-> 0]) /\ events' = Append(events, <<>>)
      /\ UNCHANGED <<leaving, turn, typed, missed, reopened, cleared>>
  BY DEF Chat!New, Chat!EndRebuild, Chat!Command, Chat!StartNewSession, Chat!Fresh, Chat!None,
         Chat!history, Chat!RolledBack
<1>2. id \in Nat
  BY LenProperties DEF Known, ChatTypes
<1>3. <<>> \in Seq(Items) /\ <<>> \in Seq(ChatEvents)
  OBVIOUS
<1>4. FileOpened(id, <<>>)
  BY <1>1, <1>3, AddFile DEF Known
<1> HIDE DEF id
<1>5. SessionOpened(id, <<>>)
  BY <1>1, <1>2, <1>3, AddSession DEF Known
<1> QED BY <1>1, <1>4, <1>5 DEF NewChanges

\* /resume
Inside(t, id) == turn[t].session # 0 /\ sessions[turn[t].session].id = id
ResumeChanges(id) ==
    /\ line = "dispatch" /\ line' = "ready" /\ id \in DOMAIN events
    /\ SessionOpened(id, Chat!Rehydrated(events[id]))
    /\ reopened \subseteq reopened'
    /\ \A t \in DOMAIN turn : turn[t].pc # "over" /\ Inside(t, id) => id \in reopened'
    /\ UNCHANGED <<leaving, turn, typed, events, missed, cleared>>

\* A session is resumed with items.
LEMMA RehydratedType ==
  ASSUME NEW log \in Seq(ChatEvents)
  PROVE  Chat!Rehydrated(log) \in Seq(Items)
<1>1. Chat!ItemsOf(log) \in Seq(Items)
  BY ItemsType
<1>2. Chat!Aborted \in Items
  BY DEF Chat!Aborted, Items
<1>3. <<Chat!Aborted>> \in Seq(Items) /\ <<>> \in Seq(Items)
  BY <1>2
<1> QED BY <1>1, <1>3, ConcatProperties DEF Chat!Rehydrated

\* The action Resume is that change.
LEMMA Resumes ==
  ASSUME Known, NEW id, Chat!Resume(id)
  PROVE  ResumeChanges(id)
<1> DEFINE items == Chat!Rehydrated(events[id])
<1>1. /\ line = "dispatch" /\ line' = "ready" /\ id \in DOMAIN events
      /\ Chat!Open([id |-> id, items |-> items, pending |-> 0])
      /\ UNCHANGED <<leaving, turn, typed, events, missed, cleared>>
  BY DEF Chat!Resume, Chat!Command, Chat!None
<1>2. /\ reopened \subseteq reopened'
      /\ \A t \in DOMAIN turn : turn[t].pc # "over" /\ Inside(t, id) => id \in reopened'
  BY DEF Chat!Resume, Chat!None, Chat!Begun, Inside
<1>3. id \in Nat /\ events[id] \in Seq(ChatEvents)
  BY <1>1, ElementOfSeq DEF Known, ChatTypes
<1>4. items \in Seq(Items)
  BY <1>3, RehydratedType
<1> HIDE DEF items
<1>5. SessionOpened(id, items)
  BY <1>1, <1>3, <1>4, AddSession DEF Known
<1> QED BY <1>1, <1>2, <1>5 DEF ResumeChanges, items

\* A line is entered: the interface sees a foreground task, or none.
InputChanges ==
    /\ line = "ready" /\ UNCHANGED <<turn, typed, sessions, current, events, reopened, cleared>>
    /\ missed' = missed \union {t \in DOMAIN turn : turn[t].pc = "begin"}
    /\ \/ line' = "fork" /\ leaving' = typed /\ typed # 0
       \/ /\ line' = "dispatch" /\ leaving' = leaving
          /\ ~ (typed # 0 /\ turn[typed].status = "running")

\* The action HandleInput is that change.
LEMMA Enters ==
  ASSUME Chat!HandleInput
  PROVE  InputChanges
  BY DEF Chat!HandleInput, InputChanges, Chat!None, Chat!Begun, Chat!storeVars

\* The commands about settings and rules.
SettingChanges ==
    /\ line # "ready" /\ line # "fork" /\ line' # "fork"
    /\ UNCHANGED <<leaving, turn, typed, sessions, current, events, missed, reopened, cleared>>

\* They leave turns, sessions and files alone.
LEMMA Sets ==
  ASSUME Chat!Rebuild \/ Chat!RestartCoordinator
         \/ (\E rule \in Rules : Chat!AddRule(rule)) \/ (\E config \in Configs : Chat!SetArgs(config))
  PROVE  SettingChanges
<1>1. CASE Chat!Rebuild
  BY <1>1 DEF Chat!Rebuild, SettingChanges, Chat!storeVars, Chat!history
<1>2. CASE Chat!RestartCoordinator
  BY <1>2 DEF Chat!RestartCoordinator, SettingChanges, Chat!storeVars, Chat!history
<1>3. ASSUME NEW rule \in Rules, Chat!AddRule(rule) PROVE SettingChanges
  BY <1>3 DEF Chat!AddRule, Chat!Command, SettingChanges, Chat!storeVars, Chat!history
<1>4. ASSUME NEW config \in Configs, Chat!SetArgs(config) PROVE SettingChanges
  BY <1>4 DEF Chat!SetArgs, Chat!Command, SettingChanges, Chat!storeVars, Chat!history
<1> QED BY <1>1, <1>2, <1>3, <1>4

\* Every step is one of these.
ThreadChanges(t) ==
    \/ BeginChanges(t) \/ TakeChanges(t) \/ PrepareChanges(t, turn[t].session)
    \/ CommitChanges(t, turn[t].session, Chat!Session(t).pending)
    \/ ReturnChanges(t, turn[t].session) \/ FinishChanges(t)
LineChanges ==
    \/ InputChanges \/ ForkChanges(leaving) \/ StartChanges(Len(turn')) \/ ClearChanges(current)
    \/ NewChanges \/ (\E id : ResumeChanges(id)) \/ SettingChanges

\* The actions of ChatRuntime, one by one.
LEMMA Changes ==
  ASSUME Known, Chat!Next
  PROVE  LineChanges \/ \E t \in DOMAIN turn : ThreadChanges(t)
<1>1. CASE Chat!Line
  <2>1. CASE Chat!HandleInput
    BY <2>1, Enters DEF LineChanges
  <2>2. CASE Chat!ForkMainSession
    BY <2>2, Forks DEF LineChanges
  <2>3. CASE Chat!StartTurn
    BY <2>3, Starts DEF LineChanges
  <2>4. CASE Chat!Clear
    BY <2>4, Clears DEF LineChanges
  <2>5. CASE Chat!New \/ Chat!EndRebuild
    BY <2>5, StartsNew DEF LineChanges
  <2>6. ASSUME NEW id, Chat!Resume(id) PROVE LineChanges
    BY <2>6, Resumes DEF LineChanges
  <2>7. CASE Chat!Rebuild \/ Chat!RestartCoordinator
             \/ (\E rule \in Rules : Chat!AddRule(rule)) \/ (\E config \in Configs : Chat!SetArgs(config))
    <3>1. SettingChanges
      BY <2>7, Sets
    <3> QED BY <3>1 DEF LineChanges
  <2> QED BY <1>1, <2>1, <2>2, <2>3, <2>4, <2>5, <2>6, <2>7 DEF Chat!Line
<1>2. ASSUME NEW t \in DOMAIN turn, Chat!Thread(t) PROVE ThreadChanges(t)
  BY <1>2, Begins, Takes, Prepares, Commits, RunsReturn, Finishes DEF Chat!Thread, ThreadChanges
<1> QED BY <1>1, <1>2 DEF Chat!Next, Chat!Begun

---------------------------------------------------------------------------
(* The turn the interface knows of *)

\* A turn that is not over and that the interface has not lost track of.
Followed(t) == t \in DOMAIN turn \ missed /\ turn[t].pc # "over"
Main(t) == Followed(t) /\ turn[t].status = "running"

\* There is one at most; it is the foreground task, as soon as its thread has begun; and
\* while a line is handled it is the one that becomes a worker.
Flow ==
    /\ \A t, u \in DOMAIN turn : Main(t) /\ Main(u) => t = u
    /\ \A t \in DOMAIN turn : Main(t) /\ turn[t].pc # "begin" => typed = t
    /\ line # "ready" => \A t \in DOMAIN turn : turn[t].pc = "begin" => t \in missed
    /\ line # "ready" => \A t \in DOMAIN turn : Main(t) => line = "fork" /\ leaving = t

\* The threads keep the references right.
LEMMA KnownThread ==
  ASSUME Known, NEW t \in DOMAIN turn, ThreadChanges(t)
  PROVE  Known'
<1> USE DEF Known, ChatTypes
<1>0. /\ \A u \in DOMAIN turn : u \in Nat \ {0} /\ turn[u].session \in Nat
      /\ t \in Nat \ {0}
  BY TurnType
<1>1. CASE BeginChanges(t)
  BY <1>0, <1>1 DEF BeginChanges, TurnIs, Placed
<1>2. CASE TakeChanges(t)
  <2>1. current # 0
    BY SessionType DEF Placed
  <2> QED BY <1>0, <1>2, <2>1 DEF TakeChanges, TurnIs, Placed
<1>3. ASSUME /\ turn' \in Seq(TurnRecords) /\ DOMAIN turn' = DOMAIN turn
             /\ sessions' \in Seq(SessionRecords) /\ DOMAIN sessions' = DOMAIN sessions
             /\ Len(sessions') = Len(sessions)
             /\ events' \in Seq(Seq(ChatEvents)) /\ DOMAIN events' = DOMAIN events
             /\ \A s \in DOMAIN sessions : sessions'[s].id = sessions[s].id
             /\ \A u \in DOMAIN turn : /\ turn'[u].session = turn[u].session
                                       /\ turn[u].pc \in {"begin", "pick"} <=> turn'[u].pc \in {"begin", "pick"}
                                       /\ turn[u].pc # "begin" => turn'[u].pc # "begin"
             /\ UNCHANGED <<line, leaving, current, typed, missed>>
      PROVE  Known'
  BY <1>0, <1>3 DEF Placed
<1>4. CASE PrepareChanges(t, turn[t].session)
  BY <1>3, <1>4 DEF PrepareChanges, TurnIs, SessionIs, FileIs
<1>5. CASE CommitChanges(t, turn[t].session, Chat!Session(t).pending)
  BY <1>3, <1>5 DEF CommitChanges, TurnIs, SessionIs, FileIs
<1>7. CASE ReturnChanges(t, turn[t].session)
  BY <1>3, <1>7 DEF ReturnChanges, TurnIs, FileIs
<1>6. CASE FinishChanges(t)
  BY <1>0, <1>6 DEF FinishChanges, TurnIs, Placed
<1> QED BY <1>1, <1>2, <1>4, <1>5, <1>6, <1>7 DEF ThreadChanges

\* So do the lines.
LEMMA KnownLine ==
  ASSUME Known, LineChanges
  PROVE  Known'
<1> USE DEF Known, ChatTypes
<1>0. \A u \in DOMAIN turn : u \in Nat \ {0} /\ turn[u].session \in Nat
  BY TurnType
<1>1. CASE InputChanges
  BY <1>0, <1>1 DEF InputChanges, Placed
<1>2. CASE ForkChanges(leaving)
  BY <1>0, <1>2 DEF ForkChanges, TurnIs, SessionOpened, FileOpened, Placed
<1>3. CASE StartChanges(Len(turn'))
  BY <1>0, <1>3 DEF StartChanges, TurnBegun, Placed
<1>4. CASE ClearChanges(current)
  BY <1>0, <1>4 DEF ClearChanges, SessionIs, Placed
<1>5. CASE NewChanges
  BY <1>0, <1>5 DEF NewChanges, SessionOpened, FileOpened, Placed
<1>6. ASSUME NEW id, ResumeChanges(id) PROVE Known'
  BY <1>0, <1>6 DEF ResumeChanges, SessionOpened, Placed
<1>7. CASE SettingChanges
  BY <1>0, <1>7 DEF SettingChanges, Placed
<1> QED BY <1>1, <1>2, <1>3, <1>4, <1>5, <1>6, <1>7 DEF LineChanges

\* A thread keeps the foreground task the turn that is followed.
LEMMA FlowThread ==
  ASSUME Known, Flow, NEW t \in DOMAIN turn, ThreadChanges(t)
  PROVE  Flow'
<1> USE DEF Flow, Main, Followed
<1>1. CASE BeginChanges(t)
  <2>1. /\ DOMAIN turn' = DOMAIN turn /\ turn'[t].pc = "pick" /\ turn'[t].status = turn[t].status
        /\ \A u \in DOMAIN turn : u # t => turn'[u] = turn[u]
        /\ typed' = t /\ missed' = missed \union ({typed} \ {0}) /\ turn[t].pc = "begin"
        /\ UNCHANGED <<line, leaving>>
    BY <1>1 DEF BeginChanges, TurnIs
  <2>2. 0 \notin DOMAIN turn
    BY TurnType DEF Known
  <2>3. \A u \in DOMAIN turn : Main(u)' => Main(u)
    BY <2>1
  <2>4. \A u \in DOMAIN turn : u # t /\ Main(u)' => turn[u].pc = "begin"
    BY <2>1, <2>2, <2>3
  <2> HIDE DEF Main
  <2>5. \A u \in DOMAIN turn : u # t => ~ (Main(u)' /\ turn'[u].pc # "begin")
    BY <2>1, <2>4
  <2>6. line' # "ready" => \A u \in DOMAIN turn : turn'[u].pc = "begin" => u \in missed'
    BY <2>1
  <2>7. \A u, v \in DOMAIN turn : Main(u)' /\ Main(v)' => u = v
    BY <2>3
  <2>8. line' # "ready" => \A u \in DOMAIN turn : Main(u)' => line' = "fork" /\ leaving' = u
    BY <2>1, <2>3
  <2> QED BY <2>1, <2>5, <2>6, <2>7, <2>8
<1>2. CASE TakeChanges(t)
  BY <1>2 DEF TakeChanges, TurnIs
<1>3. CASE PrepareChanges(t, turn[t].session)
  BY <1>3 DEF PrepareChanges, TurnIs
<1>4. CASE CommitChanges(t, turn[t].session, Chat!Session(t).pending)
  BY <1>4 DEF CommitChanges, TurnIs
<1>5. CASE ReturnChanges(t, turn[t].session)
  BY <1>5 DEF ReturnChanges, TurnIs
<1>6. CASE FinishChanges(t)
  BY <1>6 DEF FinishChanges, TurnIs, Known, Placed
<1> QED BY <1>1, <1>2, <1>3, <1>4, <1>5, <1>6 DEF ThreadChanges

\* When a line is handled, the turn that is followed is promoted.
LEMMA FlowLine ==
  ASSUME Known, Flow, LineChanges
  PROVE  Flow'
<1> USE DEF Flow, Main, Followed
<1>1. CASE InputChanges
  <2>1. \A u \in DOMAIN turn : Main(u)' => Main(u) /\ turn[u].pc # "begin"
    BY <1>1 DEF InputChanges
  <2>2. \A u \in DOMAIN turn : Main(u)' => typed = u /\ turn[u].status = "running" /\ u # 0
    BY <2>1, TurnType DEF Known
  <2>3. line' # "ready" => \A u \in DOMAIN turn : Main(u)' => line' = "fork" /\ leaving' = u
    <3> HIDE DEF Main
    <3> QED BY <1>1, <2>2 DEF InputChanges
  <2>4. turn' = turn /\ typed' = typed /\ \A u \in DOMAIN turn : turn[u].pc = "begin" => u \in missed'
    BY <1>1 DEF InputChanges
  <2> HIDE DEF Main
  <2> QED BY <2>1, <2>2, <2>3, <2>4
<1>2. CASE ForkChanges(leaving)
  BY <1>2 DEF ForkChanges, TurnIs, Known, Placed
<1>3. CASE StartChanges(Len(turn'))
  BY <1>3 DEF StartChanges, TurnBegun, Known, Placed
<1>4. CASE ClearChanges(current)
  BY <1>4 DEF ClearChanges
<1>5. CASE NewChanges
  BY <1>5 DEF NewChanges
<1>6. ASSUME NEW id, ResumeChanges(id) PROVE Flow'
  BY <1>6 DEF ResumeChanges
<1>7. CASE SettingChanges
  BY <1>7 DEF SettingChanges
<1> QED BY <1>1, <1>2, <1>3, <1>4, <1>5, <1>6, <1>7 DEF LineChanges

---------------------------------------------------------------------------
(* A turn has its session to itself *)

\* The session of a turn that has become a worker is not the main one any more; no two
\* turns that are followed are in the same session, unless the user has resumed it.
SessionOf(t) == sessions[turn[t].session].id
Apart ==
    /\ \A t \in DOMAIN turn : Followed(t) /\ turn[t].status = "worker" =>
         turn[t].session # 0 /\ (SessionOf(t) = sessions[current].id => SessionOf(t) \in reopened)
    /\ \A t, u \in DOMAIN turn :
         /\ Followed(t) /\ Followed(u) /\ t # u /\ turn[t].session # 0 /\ turn[u].session # 0
         /\ SessionOf(t) = SessionOf(u)
         => SessionOf(t) \in reopened

\* Whoever is followed was, and is where it was.
LEMMA ApartStays ==
  ASSUME Known, Apart, reopened \subseteq reopened',
         DOMAIN turn' = DOMAIN turn, DOMAIN sessions' = DOMAIN sessions, current' = current,
         \A t \in DOMAIN turn : /\ Followed(t)' => Followed(t)
                                /\ turn'[t].status = turn[t].status
                                /\ turn'[t].session = turn[t].session,
         \A s \in DOMAIN sessions : sessions'[s].id = sessions[s].id
  PROVE  Apart'
<1>1. \A t \in DOMAIN turn : turn[t].session # 0 => SessionOf(t)' = SessionOf(t)
  BY DEF Known, Placed, SessionOf
<1>2. sessions'[current'].id = sessions[current].id
  BY DEF Known, Placed
<1> HIDE DEF Followed, SessionOf
<1> QED BY <1>1, <1>2 DEF Apart

\* A turn that takes its session takes the main one, and is the main turn.
LEMMA ApartThread ==
  ASSUME Known, Flow, Apart, NEW t \in DOMAIN turn, ThreadChanges(t)
  PROVE  Apart'
<1>1. CASE BeginChanges(t)
  BY <1>1, ApartStays DEF BeginChanges, TurnIs, Followed
<1>2. CASE TakeChanges(t)
  <2>1. /\ DOMAIN turn' = DOMAIN turn /\ turn'[t].session = current /\ turn[t].pc = "pick"
        /\ \A u \in DOMAIN turn : u # t => turn'[u] = turn[u]
        /\ turn'[t].status = turn[t].status /\ turn'[t].pc = "call"
        /\ UNCHANGED <<sessions, current, reopened, missed>>
    BY <1>2 DEF TakeChanges, TurnIs
  <2>2. turn[t].session = 0 /\ current # 0
    BY <2>1, SessionType DEF Known, Placed
  <2>3. \A u \in DOMAIN turn : Followed(u)' => Followed(u)
    BY <2>1 DEF Followed
  <2>4. Followed(t) => Main(t)
    BY <2>2, TurnType DEF Apart, Main, Known
  <2>5. \A u \in DOMAIN turn : u # t /\ Followed(t) /\ Followed(u) => turn[u].status = "worker"
    BY <2>4, TurnType DEF Flow, Main, Known
  <2>6. /\ SessionOf(t)' = sessions[current].id
        /\ \A u \in DOMAIN turn : u # t => SessionOf(u)' = SessionOf(u) /\ Followed(u)' = Followed(u)
    BY <2>1 DEF SessionOf, Followed
  <2>7. ASSUME NEW u \in DOMAIN turn, Followed(u)', turn'[u].status = "worker"
        PROVE  turn'[u].session # 0 /\ (SessionOf(u)' = sessions'[current'].id => SessionOf(u)' \in reopened')
    <3>1. u # t
      BY <2>1, <2>3, <2>4, <2>7 DEF Main
    <3> HIDE DEF Followed
    <3> QED BY <2>1, <2>3, <2>6, <2>7, <3>1 DEF Apart
  <2>8. ASSUME NEW u \in DOMAIN turn, u # t, Followed(u)', Followed(t)', SessionOf(u)' = SessionOf(t)'
        PROVE  SessionOf(u)' \in reopened'
    <3> HIDE DEF Followed
    <3> QED BY <2>1, <2>3, <2>5, <2>6, <2>8 DEF Apart
  <2>9. ASSUME NEW u \in DOMAIN turn, NEW v \in DOMAIN turn, u # v, Followed(u)', Followed(v)',
               turn'[u].session # 0, turn'[v].session # 0, SessionOf(u)' = SessionOf(v)'
        PROVE  SessionOf(u)' \in reopened'
    <3> HIDE DEF Followed
    <3>1. CASE u = t \/ v = t
      BY <2>8, <2>9, <3>1
    <3>2. CASE u # t /\ v # t
      BY <2>1, <2>6, <2>9, <3>2 DEF Apart
    <3> QED BY <3>1, <3>2
  <2> HIDE DEF Followed
  <2> QED BY <2>1, <2>7, <2>9 DEF Apart
<1>3. CASE PrepareChanges(t, turn[t].session)
  BY <1>3, ApartStays DEF PrepareChanges, TurnIs, SessionIs, Followed
<1>4. CASE CommitChanges(t, turn[t].session, Chat!Session(t).pending)
  BY <1>4, ApartStays DEF CommitChanges, TurnIs, SessionIs, Followed
<1>5. CASE ReturnChanges(t, turn[t].session)
  BY <1>5, ApartStays DEF ReturnChanges, TurnIs, Followed
<1>6. CASE FinishChanges(t)
  BY <1>6, ApartStays DEF FinishChanges, TurnIs, Followed
<1> QED BY <1>1, <1>2, <1>3, <1>4, <1>5, <1>6 DEF ThreadChanges

\* The main session is another one: a new file, or one that no turn is in.
LEMMA ApartOpened ==
  ASSUME Known, Apart, reopened \subseteq reopened', NEW id, NEW items, SessionOpened(id, items),
         DOMAIN turn' = DOMAIN turn,
         \A t \in DOMAIN turn : /\ Followed(t)' => Followed(t)
                                /\ turn'[t].session = turn[t].session
                                /\ Followed(t)' /\ turn'[t].status = "worker" => turn[t].session # 0
                                /\ Followed(t)' /\ turn[t].session # 0 /\ SessionOf(t) = id => id \in reopened'
  PROVE  Apart'
<1>1. \A t \in DOMAIN turn : turn[t].session # 0 => SessionOf(t)' = SessionOf(t)
  BY DEF Known, Placed, SessionOf, SessionOpened
<1>2. sessions'[current'].id = id
  BY DEF SessionOpened
<1> HIDE DEF Followed, SessionOf
<1> QED BY <1>1, <1>2 DEF Apart

\* The promotion leaves the main session to the next turn.
LEMMA ApartLine ==
  ASSUME Known, Flow, Apart, LineChanges
  PROVE  Apart'
<1>1. CASE InputChanges
  BY <1>1, ApartStays DEF InputChanges, Followed
<1>2. CASE ForkChanges(leaving)
  <2>1. PICK id, items : SessionOpened(id, items) /\ FileOpened(id, <<Chat!Event("replace", items)>>)
    BY <1>2 DEF ForkChanges
  <2>2. /\ DOMAIN turn' = DOMAIN turn /\ leaving \in DOMAIN turn /\ line = "fork" /\ reopened' = reopened
        /\ \A u \in DOMAIN turn : u # leaving => turn'[u] = turn[u]
        /\ turn'[leaving].session = turn[leaving].session /\ turn'[leaving].pc = turn[leaving].pc
        /\ missed \subseteq missed' /\ (turn[leaving].session = 0 => leaving \in missed')
    BY <1>2 DEF ForkChanges, TurnIs
  <2>3. \A t \in DOMAIN turn : turn[t].session # 0 => SessionOf(t) # id
    BY <2>1 DEF FileOpened, Known, Placed, SessionOf
  <2>4. \A t \in DOMAIN turn : /\ Followed(t)' => Followed(t)
                               /\ turn'[t].session = turn[t].session
    BY <2>2 DEF Followed
  <2>5. ASSUME NEW t \in DOMAIN turn, Followed(t)', turn'[t].status = "worker"
        PROVE  turn[t].session # 0
    BY <2>2, <2>4, <2>5 DEF Followed, Apart
  <2> HIDE DEF Followed, SessionOf
  <2> QED BY <2>1, <2>2, <2>3, <2>4, <2>5, ApartOpened
<1>3. CASE StartChanges(Len(turn'))
  <2> DEFINE n == Len(turn')
  <2>1. /\ DOMAIN turn' = DOMAIN turn \union {n} /\ n \notin DOMAIN turn
        /\ \A u \in DOMAIN turn : turn'[u] = turn[u]
        /\ turn'[n].status = "running" /\ turn'[n].session = 0
        /\ UNCHANGED <<sessions, current, reopened, missed>>
    BY <1>3 DEF StartChanges, TurnBegun
  <2> HIDE DEF n
  <2>2. \A t \in DOMAIN turn : SessionOf(t)' = SessionOf(t) /\ Followed(t)' = Followed(t)
    BY <2>1 DEF SessionOf, Followed
  <2> HIDE DEF SessionOf, Followed
  <2> QED BY <2>1, <2>2 DEF Apart
<1>4. CASE ClearChanges(current)
  BY <1>4, ApartStays DEF ClearChanges, SessionIs, Followed
<1>5. CASE NewChanges
  <2>1. PICK id : SessionOpened(id, <<>>) /\ FileOpened(id, <<>>)
    BY <1>5 DEF NewChanges
  <2>2. turn' = turn /\ missed' = missed /\ reopened' = reopened
    BY <1>5 DEF NewChanges
  <2>3. \A t \in DOMAIN turn : turn[t].session # 0 => SessionOf(t) # id
    BY <2>1 DEF FileOpened, Known, Placed, SessionOf
  <2>4. \A t \in DOMAIN turn : Followed(t)' = Followed(t)
    BY <2>2 DEF Followed
  <2> HIDE DEF Followed, SessionOf
  <2>5. \A t \in DOMAIN turn : Followed(t) /\ turn[t].status = "worker" => turn[t].session # 0
    BY DEF Apart
  <2> QED BY <2>1, <2>2, <2>3, <2>4, <2>5, ApartOpened
<1>6. ASSUME NEW id, ResumeChanges(id) PROVE Apart'
  <2>1. /\ SessionOpened(id, Chat!Rehydrated(events[id])) /\ reopened \subseteq reopened'
        /\ turn' = turn /\ missed' = missed
        /\ \A t \in DOMAIN turn : turn[t].pc # "over" /\ Inside(t, id) => id \in reopened'
    BY <1>6 DEF ResumeChanges
  <2>2. \A t \in DOMAIN turn : Followed(t) /\ turn[t].session # 0 /\ SessionOf(t) = id => id \in reopened'
    BY <2>1 DEF Followed, SessionOf, Inside
  <2>3. \A t \in DOMAIN turn : Followed(t)' = Followed(t)
    BY <2>1 DEF Followed
  <2> HIDE DEF Followed, SessionOf
  <2>4. \A t \in DOMAIN turn : Followed(t) /\ turn[t].status = "worker" => turn[t].session # 0
    BY DEF Apart
  <2> QED BY <2>1, <2>2, <2>3, <2>4, ApartOpened
<1>7. CASE SettingChanges
  BY <1>7, ApartStays DEF SettingChanges, Followed
<1> QED BY <1>1, <1>2, <1>3, <1>4, <1>5, <1>6, <1>7 DEF LineChanges

---------------------------------------------------------------------------
(* Who has heard of a message *)

\* The user's messages differ from one another and from every other item.
LEMMA UsersDiffer ==
  ASSUME NEW t, NEW u
  PROVE  /\ Chat!User(u) = Chat!User(t) => u = t
         /\ Chat!Answer(u) # Chat!User(t) /\ Chat!Promoted(u) # Chat!User(t)
         /\ Chat!Aborted # Chat!User(t) /\ Chat!Answer(u) # Chat!Promoted(t)
  BY DEF Chat!User, Chat!Answer, Chat!Promoted, Chat!Aborted

\* What is joined mentions what its parts mention.
LEMMA JoinedMentions ==
  ASSUME NEW a \in Seq(Items), NEW x \in Items, NEW t, Mentions(a \o <<x>>, t)
  PROVE  Mentions(a, t) \/ x = Chat!User(t)
<1>1. Append(a, x) = a \o <<x>>
  BY AppendIsConcat
<1> QED BY <1>1, AppendMentions

\* A file that is one event longer.
LEMMA EventAdded ==
  ASSUME NEW log \in Seq(ChatEvents), NEW e \in ChatEvents
  PROVE  log \o <<e>> \in Seq(ChatEvents) /\ Added(log, e, log \o <<e>>)
<1>1. Append(log, e) = log \o <<e>>
  BY AppendIsConcat
<1> QED BY <1>1, Addition

\* A file that is one event longer mentions what that event does.
LEMMA LogMentions ==
  ASSUME NEW log \in Seq(ChatEvents), NEW e \in ChatEvents, NEW t, MentionedIn(log \o <<e>>, t)
  PROVE  MentionedIn(log, t) \/ EventMentions(e, t)
<1>1. Added(log, e, log \o <<e>>)
  BY EventAdded
<1> HIDE DEF EventMentions
<1> QED BY <1>1 DEF MentionedIn, Added

\* A session is resumed with what its file mentions.
LEMMA RehydratedMentions ==
  ASSUME NEW log \in Seq(ChatEvents), NEW t, ~ MentionedIn(log, t)
  PROVE  ~ Mentions(Chat!Rehydrated(log), t)
<1> DEFINE items == Chat!ItemsOf(log)
<1>1. items \in Seq(Items) /\ ~ Mentions(items, t)
  BY ItemsType, ReadsMention
<1>2. Chat!Aborted \in Items /\ Chat!Aborted # Chat!User(t)
  BY UsersDiffer DEF Chat!Aborted, Items
<1> HIDE DEF items
<1>3. items \o <<>> = items
  BY <1>1, ConcatEmptySeq
<1>4. ~ Mentions(items \o <<Chat!Aborted>>, t)
  BY <1>1, <1>2, JoinedMentions
<1> QED BY <1>1, <1>3, <1>4 DEF Chat!Rehydrated, items

\* A turn that has not begun, or that has and has not taken its session.
Untold(t) ==
    \/ t \notin DOMAIN turn \/ turn[t].pc = "begin"
    \/ turn[t].pc = "pick" /\ t \notin missed

\* Nobody but the turn itself has its message.
Unheard(t) ==
    /\ \A s \in DOMAIN sessions : ~ Mentions(sessions[s].items, t)
    /\ \A i \in DOMAIN events : ~ MentionedIn(events[i], t)
    /\ \A u \in DOMAIN turn : Mentions(turn[u].snapshot, t) => u = t /\ turn[t].pc = "pick"

\* What is pending in a session is the message of a turn that is in it and has sent it.
Sent(s) ==
    LET t == sessions[s].pending
    IN t # 0 => /\ t \in DOMAIN turn /\ turn[t].session = s
                /\ turn[t].pc \notin {"begin", "pick", "call"}

Told ==
    /\ \A t \in Nat \ {0} : Untold(t) => Unheard(t)
    /\ \A s \in DOMAIN sessions : Sent(s)

\* A turn only comes nearer to telling.
LEMMA UntoldBefore ==
  ASSUME DOMAIN turn \subseteq DOMAIN turn', missed \subseteq missed',
         \A u \in DOMAIN turn : /\ turn'[u].pc = "begin" => turn[u].pc = "begin"
                                /\ turn'[u].pc = "pick" => turn[u].pc \in {"begin", "pick"}
  PROVE  \A t : Untold(t)' => Untold(t)
  BY DEF Untold

\* A thread tells its session and its file of its own message, and no one of another.
LEMMA ToldThread ==
  ASSUME Known, Told, NEW t \in DOMAIN turn, ThreadChanges(t)
  PROVE  Told'
<1> USE DEF Told
<1>1. CASE BeginChanges(t)
  <2> DEFINE items == sessions[current].items
             snapshot == items \o <<Chat!User(t)>>
  <2>1. /\ DOMAIN turn' = DOMAIN turn /\ turn[t].pc = "begin" /\ turn'[t].pc = "pick"
        /\ \A u \in DOMAIN turn : u # t => turn'[u] = turn[u]
        /\ turn'[t].snapshot = snapshot /\ turn'[t].session = turn[t].session
        /\ missed \subseteq missed' /\ sessions' = sessions /\ events' = events
    BY <1>1 DEF BeginChanges, TurnIs
  <2>2. \A u : Untold(u)' => Untold(u)
    BY <2>1, UntoldBefore
  <2>3. /\ current \in DOMAIN sessions /\ items \in Seq(Items) /\ t \in Nat \ {0}
        /\ Chat!User(t) \in Items
    BY SessionType, TurnType, UserIsItem DEF Known, Placed
  <2> HIDE DEF items
  <2>4. ASSUME NEW u \in Nat \ {0}, Untold(u)' PROVE Unheard(u)'
    <3>1. Unheard(u)
      BY <2>2, <2>4
    <3>2. ~ Mentions(items, u)
      BY <2>3, <3>1 DEF Unheard, items
    <3>3. Mentions(snapshot, u) => u = t
      BY <2>3, <3>2, JoinedMentions, UsersDiffer
    <3> HIDE DEF snapshot
    <3>4. \A v \in DOMAIN turn : Mentions(turn'[v].snapshot, u) => v = u /\ turn'[u].pc = "pick"
      BY <2>1, <3>1, <3>3 DEF Unheard
    <3> QED BY <2>1, <3>1, <3>4 DEF Unheard
  <2>5. \A s \in DOMAIN sessions : Sent(s)'
    <3> HIDE DEF snapshot
    <3> QED BY <2>1 DEF Sent
  <2> QED BY <2>1, <2>4, <2>5
<1>2. CASE TakeChanges(t)
  <2>1. /\ DOMAIN turn' = DOMAIN turn /\ turn[t].pc = "pick" /\ turn'[t].pc = "call"
        /\ \A u \in DOMAIN turn : u # t => turn'[u] = turn[u]
        /\ turn'[t].snapshot = turn[t].snapshot
        /\ missed' = missed /\ sessions' = sessions /\ events' = events
    BY <1>2 DEF TakeChanges, TurnIs
  <2>2. \A u : Untold(u)' => Untold(u)
    BY <2>1, UntoldBefore
  <2>3. ASSUME NEW u \in Nat \ {0}, Untold(u)' PROVE Unheard(u)'
    <3>1. Unheard(u) /\ u # t
      BY <2>1, <2>2, <2>3 DEF Untold
    <3> QED BY <2>1, <3>1 DEF Unheard
  <2>4. \A s \in DOMAIN sessions : Sent(s)'
    BY <2>1 DEF Sent
  <2> QED BY <2>1, <2>3, <2>4
<1>3. CASE PrepareChanges(t, turn[t].session)
  <2> DEFINE s == turn[t].session
             id == sessions[s].id
             e == Chat!Event("started", t)
  <2>1. /\ DOMAIN turn' = DOMAIN turn /\ turn[t].pc = "call" /\ turn'[t].pc = "sent"
        /\ \A u \in DOMAIN turn : u # t => turn'[u] = turn[u]
        /\ turn'[t].snapshot = turn[t].snapshot /\ turn'[t].session = s
        /\ missed' = missed
    BY <1>3 DEF PrepareChanges, TurnIs
  <2>2. /\ DOMAIN sessions' = DOMAIN sessions /\ s \in DOMAIN sessions /\ sessions'[s].pending = t
        /\ sessions'[s].items = sessions[s].items
        /\ \A r \in DOMAIN sessions : r # s => sessions'[r] = sessions[r]
    BY <1>3 DEF PrepareChanges, SessionIs
  <2>3. /\ DOMAIN events' = DOMAIN events /\ id \in DOMAIN events /\ events'[id] = events[id] \o <<e>>
        /\ \A i \in DOMAIN events : i # id => events'[i] = events[i]
    BY <1>3 DEF PrepareChanges, FileIs
  <2>4. events[id] \in Seq(ChatEvents) /\ e \in ChatEvents /\ ~ EventMentions(e, 0)
    BY <2>3, ElementOfSeq, TurnType DEF Known, ChatTypes, Chat!Event, ChatEvents, Marks, EventMentions
  <2>5. \A u : ~ EventMentions(e, u)
    BY DEF Chat!Event, EventMentions
  <2> HIDE DEF s, id, e
  <2>6. \A u : Untold(u)' => Untold(u)
    BY <2>1, UntoldBefore
  <2>7. ASSUME NEW u \in Nat \ {0}, Untold(u)' PROVE Unheard(u)'
    <3>1. Unheard(u) /\ u # t
      BY <2>1, <2>6, <2>7 DEF Untold
    <3>2. ~ MentionedIn(events'[id], u)
      BY <2>3, <2>4, <2>5, <3>1, LogMentions DEF Unheard
    <3>3. \A r \in DOMAIN sessions' : ~ Mentions(sessions'[r].items, u)
      BY <2>2, <3>1 DEF Unheard
    <3>4. \A i \in DOMAIN events' : ~ MentionedIn(events'[i], u)
      BY <2>3, <3>1, <3>2 DEF Unheard
    <3>5. \A v \in DOMAIN turn' : Mentions(turn'[v].snapshot, u) => v = u /\ turn'[u].pc = "pick"
      BY <2>1, <3>1 DEF Unheard
    <3> QED BY <3>3, <3>4, <3>5 DEF Unheard
  <2>8. \A r \in DOMAIN sessions : Sent(r)'
    BY <2>1, <2>2 DEF Sent
  <2> QED BY <2>2, <2>7, <2>8
<1>4. CASE CommitChanges(t, turn[t].session, Chat!Session(t).pending)
  <2> DEFINE s == turn[t].session
             p == sessions[s].pending
             id == sessions[s].id
             items == sessions[s].items
             log == events[id]
             user == Chat!User(p)
             answer == Chat!Answer(t)
  <2>1. /\ DOMAIN turn' = DOMAIN turn /\ turn[t].pc = "sent" /\ turn'[t].pc = "answered"
        /\ \A u \in DOMAIN turn : u # t => turn'[u] = turn[u]
        /\ turn'[t].snapshot = turn[t].snapshot /\ turn'[t].session = s
        /\ missed' = missed
    BY <1>4 DEF CommitChanges, TurnIs
  <2>2. /\ DOMAIN sessions' = DOMAIN sessions /\ s \in DOMAIN sessions /\ sessions'[s].pending = 0
        /\ sessions'[s].items = IF p = 0 THEN Append(items, answer) ELSE Append(Append(items, user), answer)
        /\ \A r \in DOMAIN sessions : r # s => sessions'[r] = sessions[r]
    BY <1>4 DEF CommitChanges, SessionIs, Chat!Session
  <2>3. /\ DOMAIN events' = DOMAIN events /\ id \in DOMAIN events
        /\ events'[id] = IF p = 0 THEN log \o <<ItemEvent(answer)>>
                         ELSE (log \o <<ItemEvent(user)>>) \o <<ItemEvent(answer)>>
        /\ \A i \in DOMAIN events : i # id => events'[i] = events[i]
    BY <1>4 DEF CommitChanges, FileIs, Chat!Session
  <2>4. /\ log \in Seq(ChatEvents) /\ items \in Seq(Items) /\ user \in Items /\ answer \in Items
    BY <2>2, <2>3, ElementOfSeq, TurnType, SessionType, UserIsItem DEF Known, ChatTypes
  <2>5. /\ ItemEvent(user) \in ChatEvents /\ ItemEvent(answer) \in ChatEvents
        /\ \A u : /\ EventMentions(ItemEvent(user), u) => u = p
                  /\ ~ EventMentions(ItemEvent(answer), u) /\ answer # Chat!User(u)
                  /\ user = Chat!User(u) => u = p
    <3>1. \A u : answer # Chat!User(u) /\ (user = Chat!User(u) => u = p)
      BY UsersDiffer
    <3> HIDE DEF user, answer
    <3> QED BY <2>4, <3>1 DEF ItemEvent, Chat!Event, ChatEvents, EventMentions
  <2>6. \A u : Untold(u)' => Untold(u)
    BY <2>1, UntoldBefore
  <2>7. p # 0 => ~ Untold(p)
    BY <2>2 DEF Sent, Untold
  <2> HIDE DEF s, p, id, items, log, user, answer
  <2>8. Append(items, user) \in Seq(Items) /\ log \o <<ItemEvent(user)>> \in Seq(ChatEvents)
    BY <2>4, <2>5, AppendProperties, EventAdded
  <2>9. ASSUME NEW u \in Nat \ {0}, Untold(u)' PROVE Unheard(u)'
    <3>1. Unheard(u) /\ u # t /\ (p # 0 => u # p)
      BY <2>1, <2>6, <2>7, <2>9 DEF Untold
    <3>2. ~ MentionedIn(log, u) /\ ~ Mentions(items, u)
      BY <2>2, <2>3, <3>1 DEF Unheard, log, items
    <3>3. ~ MentionedIn(events'[id], u)
      <4>1. ~ MentionedIn(log \o <<ItemEvent(answer)>>, u)
        BY <2>4, <2>5, <3>2, LogMentions
      <4>2. p # 0 => ~ MentionedIn(log \o <<ItemEvent(user)>>, u)
        BY <2>4, <2>5, <3>1, <3>2, LogMentions
      <4>3. p # 0 => ~ MentionedIn((log \o <<ItemEvent(user)>>) \o <<ItemEvent(answer)>>, u)
        BY <2>5, <2>8, <4>2, LogMentions
      <4> QED BY <2>3, <4>1, <4>3
    <3>4. ~ Mentions(sessions'[s].items, u)
      <4>1. ~ Mentions(Append(items, answer), u)
        BY <2>4, <2>5, <3>2, AppendMentions
      <4>2. p # 0 => ~ Mentions(Append(items, user), u)
        BY <2>4, <2>5, <3>1, <3>2, AppendMentions
      <4>3. p # 0 => ~ Mentions(Append(Append(items, user), answer), u)
        BY <2>4, <2>5, <2>8, <4>2, AppendMentions
      <4> QED BY <2>2, <4>1, <4>3
    <3>5. \A r \in DOMAIN sessions' : ~ Mentions(sessions'[r].items, u)
      BY <2>2, <3>1, <3>4 DEF Unheard
    <3>6. \A i \in DOMAIN events' : ~ MentionedIn(events'[i], u)
      BY <2>3, <3>1, <3>3 DEF Unheard
    <3>7. \A v \in DOMAIN turn' : Mentions(turn'[v].snapshot, u) => v = u /\ turn'[u].pc = "pick"
      BY <2>1, <3>1 DEF Unheard
    <3> QED BY <3>5, <3>6, <3>7 DEF Unheard
  <2>10. \A r \in DOMAIN sessions : Sent(r)'
    BY <2>1, <2>2 DEF Sent, s
  <2> QED BY <2>2, <2>9, <2>10
<1>5. CASE ReturnChanges(t, turn[t].session)
  <2> DEFINE s == turn[t].session
             id == sessions[s].id
             e == Chat!Event("ended", t)
  <2>1. /\ DOMAIN turn' = DOMAIN turn /\ turn[t].pc \in {"sent", "answered"}
        /\ turn'[t].pc \in {"failed", "finish"}
        /\ \A u \in DOMAIN turn : u # t => turn'[u] = turn[u]
        /\ turn'[t].snapshot = turn[t].snapshot /\ turn'[t].session = s
        /\ missed' = missed /\ sessions' = sessions
    BY <1>5 DEF ReturnChanges, TurnIs
  <2>3. /\ DOMAIN events' = DOMAIN events /\ id \in DOMAIN events /\ events'[id] = events[id] \o <<e>>
        /\ \A i \in DOMAIN events : i # id => events'[i] = events[i]
    BY <1>5 DEF ReturnChanges, FileIs
  <2>4. events[id] \in Seq(ChatEvents) /\ e \in ChatEvents
    BY <2>3, ElementOfSeq, TurnType DEF Known, ChatTypes, Chat!Event, ChatEvents, Marks
  <2>5. \A u : ~ EventMentions(e, u)
    BY DEF Chat!Event, EventMentions
  <2> HIDE DEF s, id, e
  <2>6. \A u : Untold(u)' => Untold(u)
    BY <2>1, UntoldBefore
  <2>7. ASSUME NEW u \in Nat \ {0}, Untold(u)' PROVE Unheard(u)'
    <3>1. Unheard(u) /\ u # t
      BY <2>1, <2>6, <2>7 DEF Untold
    <3>2. ~ MentionedIn(events'[id], u)
      BY <2>3, <2>4, <2>5, <3>1, LogMentions DEF Unheard
    <3>3. \A r \in DOMAIN sessions' : ~ Mentions(sessions'[r].items, u)
      BY <2>1, <3>1 DEF Unheard
    <3>4. \A i \in DOMAIN events' : ~ MentionedIn(events'[i], u)
      BY <2>3, <3>1, <3>2 DEF Unheard
    <3>5. \A v \in DOMAIN turn' : Mentions(turn'[v].snapshot, u) => v = u /\ turn'[u].pc = "pick"
      BY <2>1, <3>1 DEF Unheard
    <3> QED BY <3>3, <3>4, <3>5 DEF Unheard
  <2>8. \A r \in DOMAIN sessions : Sent(r)'
    BY <2>1 DEF Sent, s
  <2> QED BY <2>1, <2>7, <2>8
<1>6. CASE FinishChanges(t)
  <2>1. /\ DOMAIN turn' = DOMAIN turn /\ turn[t].pc \in {"finish", "failed"} /\ turn'[t].pc = "over"
        /\ \A u \in DOMAIN turn : u # t => turn'[u] = turn[u]
        /\ turn'[t].snapshot = turn[t].snapshot /\ turn'[t].session = turn[t].session
        /\ missed \subseteq missed' /\ sessions' = sessions /\ events' = events
    BY <1>6 DEF FinishChanges, TurnIs
  <2>2. \A u : Untold(u)' => Untold(u)
    BY <2>1, UntoldBefore
  <2>3. ASSUME NEW u \in Nat \ {0}, Untold(u)' PROVE Unheard(u)'
    <3>1. Unheard(u)
      BY <2>2, <2>3
    <3> QED BY <2>1, <3>1 DEF Unheard
  <2>4. \A s \in DOMAIN sessions : Sent(s)'
    BY <2>1 DEF Sent
  <2> QED BY <2>1, <2>3, <2>4
<1> QED BY <1>1, <1>2, <1>3, <1>4, <1>5, <1>6 DEF ThreadChanges

\* What stays: nobody has learnt of a message.
LEMMA ToldStays ==
  ASSUME Told, missed \subseteq missed', turn' = turn, sessions' = sessions, events' = events
  PROVE  Told'
<1>1. \A u : Untold(u)' => Untold(u)
  BY UntoldBefore
<1>2. \A u : Unheard(u) => Unheard(u)'
  BY DEF Unheard
<1>3. \A s \in DOMAIN sessions : Sent(s) => Sent(s)'
  BY DEF Sent
<1> QED BY <1>1, <1>2, <1>3 DEF Told

\* A line tells a session only what a file or a snapshot has.
LEMMA ToldLine ==
  ASSUME Known, Told, LineChanges
  PROVE  Told'
<1>1. CASE InputChanges
  BY <1>1, ToldStays DEF InputChanges
<1>7. CASE SettingChanges
  BY <1>7, ToldStays DEF SettingChanges
<1>2. CASE ForkChanges(leaving)
  <2>1. PICK id, items : /\ SessionOpened(id, items) /\ items = Append(turn[leaving].snapshot, Chat!Promoted(leaving))
                         /\ FileOpened(id, <<Chat!Event("replace", items)>>)
    BY <1>2 DEF ForkChanges
  <2> DEFINE e == Chat!Event("replace", items)
  <2>2. /\ DOMAIN turn' = DOMAIN turn /\ leaving \in DOMAIN turn /\ turn'[leaving].pc = turn[leaving].pc
        /\ \A u \in DOMAIN turn : u # leaving => turn'[u] = turn[u]
        /\ turn'[leaving].session = turn[leaving].session /\ turn'[leaving].snapshot = <<>>
        /\ missed \subseteq missed' /\ (turn[leaving].session = 0 => leaving \in missed')
        /\ line = "fork"
    BY <1>2 DEF ForkChanges, TurnIs
  <2>3. /\ DOMAIN sessions' = DOMAIN sessions \union {current'}
        /\ \A s \in DOMAIN sessions : sessions'[s] = sessions[s]
        /\ sessions'[current'].items = items /\ sessions'[current'].pending = 0
    BY <2>1 DEF SessionOpened
  <2>4. /\ DOMAIN events' = DOMAIN events \union {id} /\ events'[id] = <<e>>
        /\ \A i \in DOMAIN events : events'[i] = events[i]
    BY <2>1 DEF FileOpened
  <2>5. \A u : Untold(u)' => Untold(u)
    BY <2>2, UntoldBefore
  <2> PICK w \in DOMAIN turn : w = leaving
    BY <2>2
  <2>6. ~ Untold(w)'
    <3>1. turn[leaving].pc # "begin" /\ (turn[leaving].pc = "pick" => turn[leaving].session = 0)
      BY <2>2 DEF Known, Placed
    <3> QED BY <2>2, <3>1 DEF Untold
  <2>7. turn[leaving].snapshot \in Seq(Items) /\ Chat!Promoted(leaving) \in Items
    BY <2>2, TurnType, UserIsItem DEF Known
  <2>8. \A u : ~ Mentions(<<>>, u)
    BY DEF Mentions
  <2>9. ASSUME NEW u \in Nat \ {0}, Untold(u)' PROVE Unheard(u)'
    <3>0. u # leaving
      BY <2>6, <2>9
    <3>1. Unheard(u) /\ u # leaving
      BY <2>5, <2>9, <3>0 DEF Told
    <3>2. ~ Mentions(turn[leaving].snapshot, u)
      BY <2>2, <3>1 DEF Unheard
    <3>3. ~ Mentions(items, u)
      BY <2>1, <2>7, <3>2, AppendMentions, UsersDiffer
    <3>4. ~ MentionedIn(<<e>>, u)
      <4>1. ~ EventMentions(e, u)
        BY <3>3 DEF EventMentions, Chat!Event
      <4> HIDE DEF e
      <4> QED BY <4>1 DEF MentionedIn
    <3> HIDE DEF e
    <3>5. \A s \in DOMAIN sessions' : ~ Mentions(sessions'[s].items, u)
      BY <2>3, <3>1, <3>3 DEF Unheard
    <3>6. \A i \in DOMAIN events' : ~ MentionedIn(events'[i], u)
      BY <2>4, <3>1, <3>4 DEF Unheard
    <3>7. \A v \in DOMAIN turn' : Mentions(turn'[v].snapshot, u) => v = u /\ turn'[u].pc = "pick"
      BY <2>2, <2>8, <3>1 DEF Unheard
    <3> QED BY <3>5, <3>6, <3>7 DEF Unheard
  <2>10. \A s \in DOMAIN sessions' : Sent(s)'
    <3>1. \A u \in DOMAIN turn : turn'[u].pc = turn[u].pc /\ turn'[u].session = turn[u].session
      BY <2>2
    <3> QED BY <2>2, <2>3, <3>1 DEF Sent, Told
  <2> QED BY <2>9, <2>10 DEF Told
<1>3. CASE StartChanges(Len(turn'))
  <2> DEFINE n == Len(turn')
  <2>1. /\ DOMAIN turn' = DOMAIN turn \union {n} /\ n \notin DOMAIN turn
        /\ \A u \in DOMAIN turn : turn'[u] = turn[u]
        /\ turn'[n].snapshot = <<>>
        /\ UNCHANGED <<sessions, events, missed>>
    BY <1>3 DEF StartChanges, TurnBegun
  <2> HIDE DEF n
  <2>2. \A u : Untold(u)' => Untold(u)
    BY <2>1, UntoldBefore
  <2>3. \A u : ~ Mentions(<<>>, u)
    BY DEF Mentions
  <2>4. ASSUME NEW u \in Nat \ {0}, Untold(u)' PROVE Unheard(u)'
    <3>1. Unheard(u)
      BY <2>2, <2>4 DEF Told
    <3> QED BY <2>1, <2>3, <3>1 DEF Unheard
  <2>5. \A s \in DOMAIN sessions : Sent(s)'
    BY <2>1 DEF Sent, Told
  <2> QED BY <2>1, <2>4, <2>5 DEF Told
<1>4. CASE ClearChanges(current)
  <2>1. /\ DOMAIN sessions' = DOMAIN sessions /\ turn' = turn /\ missed' = missed /\ events' = events
        /\ sessions'[current].items = <<>> /\ sessions'[current].pending = 0
        /\ \A r \in DOMAIN sessions : r # current => sessions'[r] = sessions[r]
    BY <1>4 DEF ClearChanges, SessionIs
  <2>2. \A u : Untold(u)' => Untold(u)
    BY <2>1, UntoldBefore
  <2>3. \A u : ~ Mentions(<<>>, u)
    BY DEF Mentions
  <2>4. \A u : Unheard(u) => Unheard(u)'
    BY <2>1, <2>3 DEF Unheard
  <2>5. \A s \in DOMAIN sessions : Sent(s)'
    BY <2>1 DEF Sent, Told
  <2> QED BY <2>1, <2>2, <2>4, <2>5 DEF Told
<1>5. CASE NewChanges
  <2>1. PICK id : SessionOpened(id, <<>>) /\ FileOpened(id, <<>>)
    BY <1>5 DEF NewChanges
  <2>2. /\ DOMAIN sessions' = DOMAIN sessions \union {current'}
        /\ \A s \in DOMAIN sessions : sessions'[s] = sessions[s]
        /\ sessions'[current'].items = <<>> /\ sessions'[current'].pending = 0
        /\ DOMAIN events' = DOMAIN events \union {id} /\ events'[id] = <<>>
        /\ \A i \in DOMAIN events : events'[i] = events[i]
        /\ turn' = turn /\ missed' = missed
    BY <1>5, <2>1 DEF SessionOpened, FileOpened, NewChanges
  <2>3. \A u : Untold(u)' => Untold(u)
    BY <2>2, UntoldBefore
  <2>4. \A u : ~ Mentions(<<>>, u) /\ ~ MentionedIn(<<>>, u)
    BY DEF Mentions, MentionedIn
  <2>5. \A u : Unheard(u) => Unheard(u)'
    BY <2>2, <2>4 DEF Unheard
  <2>6. \A s \in DOMAIN sessions' : Sent(s)'
    BY <2>2 DEF Sent, Told
  <2> QED BY <2>3, <2>5, <2>6 DEF Told
<1>6. ASSUME NEW id, ResumeChanges(id) PROVE Told'
  <2> DEFINE items == Chat!Rehydrated(events[id])
  <2>1. /\ DOMAIN sessions' = DOMAIN sessions \union {current'}
        /\ \A s \in DOMAIN sessions : sessions'[s] = sessions[s]
        /\ sessions'[current'].items = items /\ sessions'[current'].pending = 0
        /\ events' = events /\ turn' = turn /\ missed' = missed /\ id \in DOMAIN events
    BY <1>6 DEF SessionOpened, ResumeChanges
  <2>2. \A u : Untold(u)' => Untold(u)
    BY <2>1, UntoldBefore
  <2>3. events[id] \in Seq(ChatEvents)
    BY <2>1, ElementOfSeq DEF Known, ChatTypes
  <2>4. \A u : Unheard(u) => ~ Mentions(items, u)
    BY <2>1, <2>3, RehydratedMentions DEF Unheard
  <2> HIDE DEF items
  <2>5. \A u : Unheard(u) => Unheard(u)'
    BY <2>1, <2>4 DEF Unheard
  <2>6. \A s \in DOMAIN sessions' : Sent(s)'
    BY <2>1 DEF Sent, Told
  <2> QED BY <2>2, <2>5, <2>6 DEF Told
<1> QED BY <1>1, <1>2, <1>3, <1>4, <1>5, <1>6, <1>7 DEF LineChanges

---------------------------------------------------------------------------
(* The message of a turn is kept *)

\* The message is among items once, with its answer right after it.
HasKept(items, t) ==
    \E k \in DOMAIN items \ {1} :
      /\ items[k - 1] = Chat!User(t) /\ items[k] = Chat!Answer(t)
      /\ \A n \in DOMAIN items : items[n] = Chat!User(t) => n = k - 1

\* What the session of a turn holds of it, from place to place.
Holds(t) ==
    turn[t].session # 0 /\ Chat!OwnSession(t) /\ turn[t].session \notin cleared =>
      LET s == turn[t].session IN
        /\ turn[t].pc \in {"call", "sent"} => ~ Mentions(sessions[s].items, t)
        /\ turn[t].pc = "sent" => sessions[s].pending = t
        /\ turn[t].pc \in {"answered", "finish"} => HasKept(sessions[s].items, t)
Keeps == \A t \in DOMAIN turn : Holds(t)

\* What no step takes back.
Grows ==
    /\ DOMAIN turn \subseteq DOMAIN turn' /\ missed \subseteq missed'
    /\ reopened \subseteq reopened' /\ cleared \subseteq cleared'
    /\ \A t \in DOMAIN turn : turn[t].session # 0 => turn'[t].session = turn[t].session
    /\ DOMAIN sessions \subseteq DOMAIN sessions'
    /\ \A s \in DOMAIN sessions : sessions'[s].id = sessions[s].id

\* No thread takes these back.
LEMMA ThreadGrows ==
  ASSUME Known, NEW t \in DOMAIN turn, ThreadChanges(t)
  PROVE  Grows
<1> USE DEF Grows
<1>1. CASE BeginChanges(t)
  BY <1>1 DEF BeginChanges, TurnIs
<1>2. CASE TakeChanges(t)
  BY <1>2 DEF TakeChanges, TurnIs, Known, Placed
<1>3. CASE PrepareChanges(t, turn[t].session)
  BY <1>3 DEF PrepareChanges, TurnIs, SessionIs
<1>4. CASE CommitChanges(t, turn[t].session, Chat!Session(t).pending)
  BY <1>4 DEF CommitChanges, TurnIs, SessionIs
<1>5. CASE ReturnChanges(t, turn[t].session)
  BY <1>5 DEF ReturnChanges, TurnIs
<1>6. CASE FinishChanges(t)
  BY <1>6 DEF FinishChanges, TurnIs
<1> QED BY <1>1, <1>2, <1>3, <1>4, <1>5, <1>6 DEF ThreadChanges

\* No line does.
LEMMA LineGrows ==
  ASSUME Known, LineChanges
  PROVE  Grows
<1> USE DEF Grows
<1>1. CASE InputChanges
  BY <1>1 DEF InputChanges
<1>2. CASE ForkChanges(leaving)
  BY <1>2 DEF ForkChanges, TurnIs, SessionOpened
<1>3. CASE StartChanges(Len(turn'))
  BY <1>3 DEF StartChanges, TurnBegun
<1>4. CASE ClearChanges(current)
  BY <1>4 DEF ClearChanges, SessionIs
<1>5. CASE NewChanges
  BY <1>5 DEF NewChanges, SessionOpened
<1>6. ASSUME NEW id, ResumeChanges(id) PROVE Grows
  BY <1>6 DEF ResumeChanges, SessionOpened
<1>7. CASE SettingChanges
  BY <1>7 DEF SettingChanges
<1> QED BY <1>1, <1>2, <1>3, <1>4, <1>5, <1>6, <1>7 DEF LineChanges

\* A turn that has its session to itself had it to itself.
LEMMA OwnBefore ==
  ASSUME Known, Grows, NEW t \in DOMAIN turn, turn[t].session # 0, Chat!OwnSession(t)'
  PROVE  Chat!OwnSession(t)
<1>1. \A u \in DOMAIN turn : turn[u].session # 0 => SessionOf(u)' = SessionOf(u)
  BY DEF Known, Placed, Grows, SessionOf
<1>2. /\ SessionOf(t)' \notin reopened'
      /\ \A u \in DOMAIN turn' : turn'[u].session # 0 /\ SessionOf(u)' = SessionOf(t)' => u \notin missed'
  BY DEF Chat!OwnSession, Chat!Session, Chat!Begun, Chat!None, SessionOf
<1> HIDE DEF SessionOf
<1>3. /\ SessionOf(t) \notin reopened
      /\ \A u \in DOMAIN turn : turn[u].session # 0 /\ SessionOf(u) = SessionOf(t) => u \notin missed
  BY <1>1, <1>2 DEF Grows
<1> QED BY <1>3 DEF Chat!OwnSession, Chat!Session, Chat!Begun, Chat!None, SessionOf

\* Nobody else who is not over is in that session.
LEMMA Alone ==
  ASSUME Known, Apart, NEW t \in DOMAIN turn, NEW u \in DOMAIN turn, t # u, Chat!OwnSession(t),
         turn[t].session # 0, turn[u].session # 0, turn[t].pc # "over", turn[u].pc # "over"
  PROVE  SessionOf(t) # SessionOf(u)
<1>1. /\ SessionOf(t) \notin reopened
      /\ \A v \in DOMAIN turn : turn[v].session # 0 /\ SessionOf(v) = SessionOf(t) => v \notin missed
  BY DEF Chat!OwnSession, Chat!Session, Chat!Begun, Chat!None, SessionOf
<1> HIDE DEF SessionOf
<1>2. SessionOf(t) = SessionOf(u) => Followed(t) /\ Followed(u)
  BY <1>1 DEF Followed
<1> HIDE DEF Followed
<1> QED BY <1>1, <1>2 DEF Apart

\* Nothing has happened to the turn or to the session it is in.
LEMMA HoldsStill ==
  ASSUME Known, Grows, NEW t \in DOMAIN turn, Holds(t), turn'[t] = turn[t],
         turn[t].session # 0 /\ Chat!OwnSession(t)
           /\ turn[t].pc \in {"call", "sent", "answered", "finish"}
           /\ turn[t].session \notin cleared'
         => sessions'[turn[t].session] = sessions[turn[t].session]
  PROVE  Holds(t)'
<1> SUFFICES ASSUME turn[t].session # 0, Chat!OwnSession(t)', turn[t].session \notin cleared',
                    turn[t].pc \in {"call", "sent", "answered", "finish"}
             PROVE  Holds(t)'
  BY DEF Holds
<1>1. Chat!OwnSession(t) /\ turn[t].session \notin cleared
  BY OwnBefore DEF Grows
<1> QED BY <1>1 DEF Holds

\* A commit of a message that was not there keeps it before its answer.
LEMMA AddedAnswer ==
  ASSUME NEW items \in Seq(Items), NEW t \in Nat, ~ Mentions(items, t)
  PROVE  HasKept(Append(Append(items, Chat!User(t)), Chat!Answer(t)), t)
<1> DEFINE a == Append(items, Chat!User(t))
           b == Append(a, Chat!Answer(t))
           k == Len(b)
<1>1. Added(items, Chat!User(t), a) /\ a \in Seq(Items)
  BY UserIsItem, Addition
<1> HIDE DEF a
<1>2. Added(a, Chat!Answer(t), b)
  BY <1>1, UserIsItem, Addition
<1> HIDE DEF b
<1>3. /\ k \in DOMAIN b \ {1} /\ k - 1 = Len(a) /\ Len(a) \in DOMAIN a
      /\ b[k - 1] = Chat!User(t) /\ b[k] = Chat!Answer(t)
  <2>1. k = Len(a) + 1 /\ Len(a) = Len(items) + 1 /\ Len(items) \in Nat /\ k - 1 = Len(a) /\ k # 1
    BY <1>1, <1>2 DEF Added
  <2> HIDE DEF k
  <2> QED BY <1>1, <1>2, <2>1 DEF Added, k
<1> HIDE DEF k
<1>4. \A n \in DOMAIN b : b[n] = Chat!User(t) => n = k - 1
  <2>1. \A n \in DOMAIN b : n = k \/ n = Len(a) \/ n \in DOMAIN items
    BY <1>1, <1>2 DEF Added, k
  <2>2. \A n \in DOMAIN items : b[n] = items[n]
    BY <1>1, <1>2 DEF Added
  <2>3. Chat!Answer(t) # Chat!User(t)
    BY UsersDiffer
  <2> QED BY <1>3, <2>1, <2>2, <2>3 DEF Mentions
<1> QED BY <1>3, <1>4 DEF HasKept, a, b

\* A turn that has its session to itself finds there what it left.
LEMMA KeepsThread ==
  ASSUME Known, Apart, Told, Keeps, NEW t \in DOMAIN turn, ThreadChanges(t)
  PROVE  Keeps'
<1>1. Grows
  BY ThreadGrows
<1>2. /\ DOMAIN turn' = DOMAIN turn /\ turn[t].pc # "over"
      /\ \A u \in DOMAIN turn : u # t => turn'[u] = turn[u]
  BY DEF ThreadChanges, BeginChanges, TakeChanges, PrepareChanges, CommitChanges, ReturnChanges,
         FinishChanges, TurnIs
<1>3. \A s \in DOMAIN sessions :
        turn[t].session = 0 \/ s # turn[t].session => sessions'[s] = sessions[s]
  BY DEF ThreadChanges, BeginChanges, TakeChanges, PrepareChanges, CommitChanges, ReturnChanges,
         FinishChanges, SessionIs, Known, Placed
<1>4. ASSUME NEW u \in DOMAIN turn, u # t PROVE Holds(u)'
  <2>1. ASSUME turn[u].session # 0, Chat!OwnSession(u),
               turn[u].pc \in {"call", "sent", "answered", "finish"}
        PROVE  sessions'[turn[u].session] = sessions[turn[u].session]
    <3>1. turn[u].session \in DOMAIN sessions
      BY <2>1 DEF Known, Placed
    <3>2. turn[t].session # 0 => SessionOf(u) # SessionOf(t)
      BY <1>2, <1>4, <2>1, Alone
    <3> QED BY <1>3, <3>1, <3>2 DEF SessionOf
  <2> QED BY <1>1, <1>2, <1>4, <2>1, HoldsStill DEF Keeps
<1>5. Holds(t)'
  <2> SUFFICES ASSUME turn'[t].session # 0, Chat!OwnSession(t)', turn'[t].session \notin cleared'
               PROVE  Holds(t)'
    BY DEF Holds
  <2>0. t \in Nat \ {0}
    BY TurnType DEF Known
  <2>1. CASE BeginChanges(t)
    BY <2>1 DEF BeginChanges, TurnIs, Known, Placed
  <2>2. CASE TakeChanges(t)
    <3>1. /\ turn[t].pc = "pick" /\ turn'[t].pc = "call" /\ turn'[t].session = current
          /\ sessions' = sessions /\ missed' = missed /\ current \in DOMAIN sessions
      BY <2>2 DEF TakeChanges, TurnIs, Known, Placed
    <3>2. t \notin missed'
      BY <1>2, <3>1 DEF Chat!OwnSession, Chat!Begun, Chat!None
    <3>3. Unheard(t)
      BY <2>0, <3>1, <3>2 DEF Told, Untold
    <3>4. ~ Mentions(sessions[current].items, t)
      BY <3>1, <3>3 DEF Unheard
    <3> QED BY <3>1, <3>4 DEF Holds
  <2>3. CASE PrepareChanges(t, turn[t].session)
    <3>1. /\ turn[t].pc = "call" /\ turn'[t].pc = "sent" /\ turn'[t].session = turn[t].session
          /\ sessions'[turn[t].session].items = sessions[turn[t].session].items
          /\ sessions'[turn[t].session].pending = t /\ cleared' = cleared
      BY <2>3 DEF PrepareChanges, TurnIs, SessionIs
    <3>2. Chat!OwnSession(t)
      BY <1>1, <3>1, OwnBefore
    <3>3. ~ Mentions(sessions[turn[t].session].items, t)
      BY <3>1, <3>2 DEF Keeps, Holds
    <3> QED BY <3>1, <3>3 DEF Holds
  <2>4. CASE CommitChanges(t, turn[t].session, Chat!Session(t).pending)
    <3> DEFINE s == turn[t].session
               p == sessions[s].pending
               items == sessions[s].items
    <3>1. /\ turn[t].pc = "sent" /\ turn'[t].pc = "answered" /\ turn'[t].session = s
          /\ sessions'[s].items = IF p = 0 THEN Append(items, Chat!Answer(t))
                                  ELSE Append(Append(items, Chat!User(p)), Chat!Answer(t))
          /\ s \in DOMAIN sessions /\ cleared' = cleared
      BY <2>4 DEF CommitChanges, TurnIs, SessionIs, Chat!Session
    <3>2. Chat!OwnSession(t)
      BY <1>1, <3>1, OwnBefore
    <3>3. ~ Mentions(items, t) /\ p = t
      BY <3>1, <3>2 DEF Keeps, Holds
    <3>4. items \in Seq(Items)
      BY <3>1, SessionType DEF Known
    <3> HIDE DEF items, p, s
    <3>5. HasKept(sessions'[s].items, t)
      BY <2>0, <3>1, <3>3, <3>4, AddedAnswer
    <3> QED BY <3>1, <3>5 DEF Holds
  <2>5. CASE ReturnChanges(t, turn[t].session)
    <3>1. /\ turn'[t].session = turn[t].session /\ sessions' = sessions /\ cleared' = cleared
          /\ \/ turn[t].pc = "answered" /\ turn'[t].pc = "finish"
             \/ turn'[t].pc = "failed"
      BY <2>5 DEF ReturnChanges, TurnIs
    <3>2. Chat!OwnSession(t)
      BY <1>1, <3>1, OwnBefore
    <3> QED BY <3>1, <3>2 DEF Keeps, Holds
  <2>6. CASE FinishChanges(t)
    BY <2>6 DEF FinishChanges, TurnIs, Holds
  <2> QED BY <2>1, <2>2, <2>3, <2>4, <2>5, <2>6 DEF ThreadChanges
<1> QED BY <1>2, <1>4, <1>5 DEF Keeps

\* A line changes no session that exists, /clear excepted.
LEMMA KeepsLine ==
  ASSUME Known, Keeps, LineChanges
  PROVE  Keeps'
<1>1. Grows
  BY LineGrows
<1>2. CASE StartChanges(Len(turn'))
  <2>1. PICK n : /\ DOMAIN turn' = DOMAIN turn \union {n} /\ sessions' = sessions
                 /\ \A u \in DOMAIN turn : turn'[u] = turn[u]
                 /\ turn'[n].session = 0
    BY <1>2 DEF StartChanges, TurnBegun
  <2>2. ASSUME NEW u \in DOMAIN turn PROVE Holds(u)'
    BY <1>1, <2>1, HoldsStill DEF Keeps
  <2>3. Holds(n)'
    BY <2>1 DEF Holds
  <2> QED BY <2>1, <2>2, <2>3 DEF Keeps
<1>3. CASE ClearChanges(current)
  <2>1. /\ turn' = turn /\ current \in cleared'
        /\ \A s \in DOMAIN sessions : s # current => sessions'[s] = sessions[s]
    BY <1>3 DEF ClearChanges, SessionIs
  <2>2. ASSUME NEW u \in DOMAIN turn PROVE Holds(u)'
    <3>1. turn[u].session # 0 /\ turn[u].session \notin cleared'
            => sessions'[turn[u].session] = sessions[turn[u].session]
      BY <2>1 DEF Known, Placed
    <3> QED BY <1>1, <2>1, <3>1, HoldsStill DEF Keeps
  <2> QED BY <2>1, <2>2 DEF Keeps
<1>4. ASSUME DOMAIN turn' = DOMAIN turn,
             \A s \in DOMAIN sessions : sessions'[s] = sessions[s],
             \A u \in DOMAIN turn : turn'[u].session = turn[u].session /\ turn'[u].pc = turn[u].pc
      PROVE  Keeps'
  <2> SUFFICES ASSUME NEW u \in DOMAIN turn, turn[u].session # 0, Chat!OwnSession(u)',
                      turn[u].session \notin cleared'
               PROVE  Holds(u)'
    BY <1>4 DEF Keeps, Holds
  <2>1. Chat!OwnSession(u) /\ turn[u].session \notin cleared
    BY <1>1, OwnBefore DEF Grows
  <2>2. sessions'[turn[u].session] = sessions[turn[u].session]
    BY <1>4 DEF Known, Placed
  <2>3. Holds(u)
    BY DEF Keeps
  <2> QED BY <1>4, <2>1, <2>2, <2>3 DEF Holds
<1>5. CASE InputChanges
  BY <1>4, <1>5 DEF InputChanges
<1>6. CASE ForkChanges(leaving)
  BY <1>4, <1>6 DEF ForkChanges, TurnIs, SessionOpened
<1>7. CASE NewChanges
  BY <1>4, <1>7 DEF NewChanges, SessionOpened
<1>8. ASSUME NEW id, ResumeChanges(id) PROVE Keeps'
  BY <1>4, <1>8 DEF ResumeChanges, SessionOpened
<1>9. CASE SettingChanges
  BY <1>4, <1>9 DEF SettingChanges
<1> QED BY <1>2, <1>3, <1>5, <1>6, <1>7, <1>8, <1>9 DEF LineChanges

---------------------------------------------------------------------------
(* What a file leaves *)

\* The turns that are recorded as started in a file, and not as ended: one at most.
Running(log) == {log[n].value : n \in Chat!Unfinished(log)}

\* What one more event does to the turns that are running.
LEMMA RunningAfter ==
  ASSUME NEW log \in Seq(ChatEvents), NEW e \in ChatEvents
  PROVE  /\ e.kind = "started" => Running(log \o <<e>>) = {e.value}
         /\ e.kind = "ended" => Running(log \o <<e>>) = {}
         /\ e.kind \in {"item", "replace"} => Running(log \o <<e>>) \subseteq Running(log)
<1> DEFINE longer == log \o <<e>>
           last == Len(longer)
<1>1. Added(log, e, longer)
  BY EventAdded
<1> HIDE DEF longer
<1>2. \A n \in DOMAIN log : n < last /\ n \in Nat
  BY <1>1 DEF Added
<1>3. last \in DOMAIN longer /\ longer[last] = e /\ DOMAIN longer = DOMAIN log \union {last}
      /\ last \in Nat
  BY <1>1 DEF Added
<1> HIDE DEF last
<1>4. ASSUME e.kind \in {"started", "ended"} PROVE \A n \in Chat!Unfinished(longer) : n = last
  BY <1>2, <1>3, <1>4 DEF Chat!Unfinished
<1>5. ASSUME e.kind = "started" PROVE Running(longer) = {e.value}
  <2>1. last \in Chat!Unfinished(longer)
    BY <1>2, <1>3, <1>5 DEF Chat!Unfinished
  <2> QED BY <1>3, <1>4, <1>5, <2>1 DEF Running
<1>6. ASSUME e.kind = "ended" PROVE Running(longer) = {}
  <2>1. last \notin Chat!Unfinished(longer)
    BY <1>3, <1>6 DEF Chat!Unfinished
  <2> QED BY <1>4, <1>6, <2>1 DEF Running
<1>7. ASSUME e.kind \in {"item", "replace"} PROVE Running(longer) \subseteq Running(log)
  <2>1. last \notin Chat!Unfinished(longer)
    BY <1>3, <1>7 DEF Chat!Unfinished
  <2>2. \A n \in Chat!Unfinished(longer) : n \in DOMAIN log
    BY <1>3, <2>1 DEF Chat!Unfinished
  <2>3. \A n \in DOMAIN log : longer[n] = log[n]
    BY <1>1 DEF Added
  <2>4. \A n \in Chat!Unfinished(longer) : n \in Chat!Unfinished(log) /\ longer[n] = log[n]
    BY <1>3, <2>2, <2>3 DEF Chat!Unfinished
  <2> QED BY <2>4 DEF Running
<1> QED BY <1>5, <1>6, <1>7 DEF longer

\* In a file that begins, none is.
LEMMA NothingRuns ==
  /\ Running(<<>>) = {}
  /\ \A items : Running(<<Chat!Event("replace", items)>>) = {}
<1>1. Running(<<>>) = {}
  BY DEF Running, Chat!Unfinished
<1>2. ASSUME NEW items PROVE Running(<<Chat!Event("replace", items)>>) = {}
  <2> DEFINE e == Chat!Event("replace", items)
             log == <<e>>
  <2>1. e.kind = "replace"
    BY DEF Chat!Event
  <2> HIDE DEF e
  <2>2. DOMAIN log = {1} /\ log[1] = e
    OBVIOUS
  <2> HIDE DEF log
  <2>3. Chat!Unfinished(log) = {}
    BY <2>1, <2>2 DEF Chat!Unfinished
  <2> QED BY <2>3 DEF Running, log, e
<1> QED BY <1>1, <1>2

\* What the first events of a file leave.
LEMMA FirstItems ==
  ASSUME NEW items \in Seq(Items)
  PROVE  /\ Chat!ItemsOf(<<>>) = <<>> /\ Chat!ItemsOf(<<Chat!Event("replace", items)>>) = items
<1>1. <<>> \in Seq(ChatEvents) /\ Len(<<>>) = 0
  OBVIOUS
<1>2. Chat!ItemsOf(<<>>) = <<>>
  <2>1. PICK f : Reads(<<>>, f)
    BY <1>1, ReadsExist
  <2> QED BY <1>1, <2>1 DEF Reads
<1>3. Chat!ItemsOf(<<Chat!Event("replace", items)>>) = items
  <2> DEFINE e == Chat!Event("replace", items)
  <2>1. e \in ChatEvents /\ e.kind = "replace" /\ e.value = items
    BY DEF Chat!Event, ChatEvents
  <2> HIDE DEF e
  <2>2. <<>> \o <<e>> = <<e>>
    BY TwoJoined
  <2>3. Chat!ItemsOf(<<>> \o <<e>>) = ItemsAfter(Chat!ItemsOf(<<>>), e)
    BY <1>1, <2>1, OneEvent
  <2> QED BY <2>1, <2>2, <2>3 DEF ItemsAfter, e
<1> QED BY <1>2, <1>3

\* The last session object of a file.
Newest(s) == \A r \in DOMAIN sessions : sessions[r].id = sessions[s].id => r <= s

\* A turn that a file records as running is running in a session of that file.
Runs ==
    \A id \in DOMAIN events : \A t \in Running(events[id]) :
      t \in DOMAIN turn /\ turn[t].pc \in {"sent", "answered"} /\ Inside(t, id)

\* A turn is in the last object of its file, and the file leaves what that object holds,
\* unless the user has resumed the file while a turn was in it.
InNewest ==
    \A t \in DOMAIN turn :
      turn[t].session # 0 /\ turn[t].pc # "over" /\ SessionOf(t) \notin reopened
      => Newest(turn[t].session)
Written(s) ==
    Newest(s) /\ s \notin cleared /\ sessions[s].id \notin reopened
    => Chat!ItemsOf(events[sessions[s].id]) = sessions[s].items
Recorded == Runs /\ InNewest /\ \A s \in DOMAIN sessions : Written(s)

\* Sessions are as many as before, with the files they had.
LEMMA NewestStays ==
  ASSUME DOMAIN sessions' = DOMAIN sessions,
         \A s \in DOMAIN sessions : sessions'[s].id = sessions[s].id
  PROVE  \A s \in DOMAIN sessions : Newest(s)' <=> Newest(s)
  BY DEF Newest

\* A new object is the last of its file, and of no other.
LEMMA NewestOpened ==
  ASSUME NEW id, NEW items, SessionOpened(id, items)
  PROVE  /\ \A s \in DOMAIN sessions : Newest(s)' => Newest(s)
         /\ \A s \in DOMAIN sessions : Newest(s) /\ sessions[s].id # id => Newest(s)'
  BY DEF Newest, SessionOpened

\* Where the file and the session go on together, or neither does.
LEMMA WrittenStill ==
  ASSUME Grows, NEW s \in DOMAIN sessions, Written(s), Newest(s)' => Newest(s),
         sessions'[s].items = sessions[s].items,
         Chat!ItemsOf(events'[sessions[s].id]) = Chat!ItemsOf(events[sessions[s].id])
  PROVE  Written(s)'
  BY DEF Written, Grows

\* Nobody else is recorded as running, and who is still is.
LEMMA RunsStill ==
  ASSUME Known, Runs, Grows, DOMAIN events \subseteq DOMAIN events',
         \A i \in DOMAIN events : Running(events'[i]) \subseteq Running(events[i]),
         \A i \in DOMAIN events' \ DOMAIN events : Running(events'[i]) = {},
         \A i \in DOMAIN events : \A u \in DOMAIN turn :
           u \in Running(events'[i]) /\ Inside(u, i) /\ turn[u].pc \in {"sent", "answered"}
           => turn'[u].pc \in {"sent", "answered"}
  PROVE  Runs'
<1> SUFFICES ASSUME NEW i \in DOMAIN events', NEW u \in Running(events'[i])
             PROVE  u \in DOMAIN turn' /\ turn'[u].pc \in {"sent", "answered"} /\ Inside(u, i)'
  BY DEF Runs
<1>1. i \in DOMAIN events /\ u \in Running(events[i])
  OBVIOUS
<1>2. u \in DOMAIN turn /\ turn[u].pc \in {"sent", "answered"} /\ Inside(u, i)
  BY <1>1 DEF Runs
<1>3. Inside(u, i)'
  BY <1>2 DEF Inside, Grows, Known, Placed
<1> QED BY <1>1, <1>2, <1>3 DEF Grows

\* A turn is running from prepare_turn to the record of its end.
LEMMA RunsThread ==
  ASSUME Known, Runs, NEW t \in DOMAIN turn, ThreadChanges(t)
  PROVE  Runs'
<1>0. Grows
  BY ThreadGrows
<1>1. ASSUME events' = events, \A u \in DOMAIN turn : u # t => turn'[u] = turn[u],
             turn[t].pc \notin {"sent", "answered"}
      PROVE  Runs'
  BY <1>0, <1>1, RunsStill
<1>2. CASE BeginChanges(t)
  BY <1>1, <1>2 DEF BeginChanges, TurnIs
<1>3. CASE TakeChanges(t)
  BY <1>1, <1>3 DEF TakeChanges, TurnIs
<1>4. CASE FinishChanges(t)
  BY <1>1, <1>4 DEF FinishChanges, TurnIs
<1>5. CASE PrepareChanges(t, turn[t].session)
  <2> DEFINE s == turn[t].session
             id == sessions[s].id
             e == Chat!Event("started", t)
  <2>1. /\ DOMAIN turn' = DOMAIN turn /\ turn[t].pc = "call" /\ turn'[t].pc = "sent"
        /\ \A u \in DOMAIN turn : u # t => turn'[u] = turn[u]
        /\ turn'[t].session = s
    BY <1>5 DEF PrepareChanges, TurnIs
  <2>2. /\ DOMAIN events' = DOMAIN events /\ id \in DOMAIN events /\ events'[id] = events[id] \o <<e>>
        /\ \A i \in DOMAIN events : i # id => events'[i] = events[i]
        /\ s \in DOMAIN sessions
    BY <1>5 DEF PrepareChanges, FileIs
  <2>3. events[id] \in Seq(ChatEvents) /\ e \in ChatEvents /\ e.kind = "started" /\ e.value = t
    BY <2>2, ElementOfSeq, TurnType DEF Known, ChatTypes, Chat!Event, ChatEvents, Marks
  <2>4. turn'[t].session # 0 /\ sessions'[turn'[t].session].id = id
    BY <1>0, <2>1, <2>2, SessionType DEF Grows, Known
  <2> HIDE DEF s, id, e
  <2>5. Running(events'[id]) = {t}
    BY <2>2, <2>3, RunningAfter
  <2>6. ASSUME NEW i \in DOMAIN events', NEW u \in Running(events'[i])
        PROVE  u \in DOMAIN turn' /\ turn'[u].pc \in {"sent", "answered"} /\ Inside(u, i)'
    <3>1. CASE i = id
      <4>1. u = t
        BY <2>5, <2>6, <3>1
      <4>2. Inside(u, i)'
        BY <2>4, <3>1, <4>1 DEF Inside
      <4> QED BY <2>1, <4>1, <4>2
    <3>2. CASE i # id
      <4>1. u \in DOMAIN turn /\ turn[u].pc \in {"sent", "answered"} /\ Inside(u, i)
        BY <2>2, <2>6, <3>2 DEF Runs
      <4>2. Inside(u, i)'
        BY <1>0, <4>1 DEF Inside, Grows, Known, Placed
      <4> QED BY <2>1, <4>1, <4>2
    <3> QED BY <3>1, <3>2
  <2> QED BY <2>6 DEF Runs
<1>6. CASE CommitChanges(t, turn[t].session, Chat!Session(t).pending)
  <2> DEFINE s == turn[t].session
             p == sessions[s].pending
             id == sessions[s].id
             log == events[id]
             user == ItemEvent(Chat!User(p))
             answer == ItemEvent(Chat!Answer(t))
  <2>1. /\ DOMAIN turn' = DOMAIN turn /\ turn'[t].pc = "answered"
        /\ \A u \in DOMAIN turn : u # t => turn'[u] = turn[u]
    BY <1>6 DEF CommitChanges, TurnIs
  <2>2. /\ DOMAIN events' = DOMAIN events /\ id \in DOMAIN events
        /\ events'[id] = IF p = 0 THEN log \o <<answer>> ELSE (log \o <<user>>) \o <<answer>>
        /\ \A i \in DOMAIN events : i # id => events'[i] = events[i]
        /\ s \in DOMAIN sessions
    BY <1>6 DEF CommitChanges, FileIs, Chat!Session
  <2>3. /\ log \in Seq(ChatEvents) /\ user \in ChatEvents /\ answer \in ChatEvents
        /\ user.kind = "item" /\ answer.kind = "item"
    <3>1. Chat!User(p) \in Items /\ Chat!Answer(t) \in Items /\ log \in Seq(ChatEvents)
      BY <2>2, ElementOfSeq, TurnType, SessionType, UserIsItem DEF Known, ChatTypes
    <3> QED BY <3>1 DEF ItemEvent, Chat!Event, ChatEvents
  <2> HIDE DEF s, p, id, log, user, answer
  <2>4. Running(log \o <<answer>>) \subseteq Running(log)
    BY <2>3, RunningAfter
  <2>5. Running(log \o <<user>>) \subseteq Running(log) /\ log \o <<user>> \in Seq(ChatEvents)
    BY <2>3, RunningAfter, EventAdded
  <2>6. Running((log \o <<user>>) \o <<answer>>) \subseteq Running(log \o <<user>>)
    BY <2>3, <2>5, RunningAfter
  <2>7. Running(events'[id]) \subseteq Running(events[id])
    BY <2>2, <2>4, <2>5, <2>6 DEF log
  <2>8. \A i \in DOMAIN events : Running(events'[i]) \subseteq Running(events[i])
    BY <2>2, <2>7
  <2> QED BY <1>0, <2>1, <2>2, <2>8, RunsStill
<1>7. CASE ReturnChanges(t, turn[t].session)
  <2> DEFINE s == turn[t].session
             id == sessions[s].id
             e == Chat!Event("ended", t)
  <2>1. /\ DOMAIN turn' = DOMAIN turn
        /\ \A u \in DOMAIN turn : u # t => turn'[u] = turn[u]
    BY <1>7 DEF ReturnChanges, TurnIs
  <2>2. /\ DOMAIN events' = DOMAIN events /\ id \in DOMAIN events /\ events'[id] = events[id] \o <<e>>
        /\ \A i \in DOMAIN events : i # id => events'[i] = events[i]
    BY <1>7 DEF ReturnChanges, FileIs
  <2>3. events[id] \in Seq(ChatEvents) /\ e \in ChatEvents /\ e.kind = "ended"
    BY <2>2, ElementOfSeq, TurnType DEF Known, ChatTypes, Chat!Event, ChatEvents, Marks
  <2>4. \A i : Inside(t, i) => i = id
    BY DEF Inside
  <2> HIDE DEF s, id, e
  <2>5. Running(events'[id]) = {}
    BY <2>2, <2>3, RunningAfter
  <2>6. \A i \in DOMAIN events : Running(events'[i]) \subseteq Running(events[i])
    BY <2>2, <2>5
  <2>7. \A i \in DOMAIN events : \A u \in DOMAIN turn :
          u \in Running(events'[i]) /\ Inside(u, i) => u # t
    BY <2>4, <2>5
  <2> QED BY <1>0, <2>1, <2>2, <2>6, <2>7, RunsStill
<1> QED BY <1>2, <1>3, <1>4, <1>5, <1>6, <1>7 DEF ThreadChanges

\* A line records no turn.
LEMMA RunsLine ==
  ASSUME Known, Runs, LineChanges
  PROVE  Runs'
<1>0. Grows
  BY LineGrows
<1>1. ASSUME events' = events, \A u \in DOMAIN turn : turn'[u] = turn[u]
      PROVE  Runs'
  BY <1>0, <1>1, RunsStill
<1>2. CASE InputChanges
  BY <1>1, <1>2 DEF InputChanges
<1>3. CASE ForkChanges(leaving)
  <2>1. PICK id, items : FileOpened(id, <<Chat!Event("replace", items)>>)
    BY <1>3 DEF ForkChanges
  <2>2. \A u \in DOMAIN turn : turn'[u].pc = turn[u].pc
    BY <1>3 DEF ForkChanges, TurnIs
  <2> QED BY <1>0, <2>1, <2>2, NothingRuns, RunsStill DEF FileOpened
<1>4. CASE StartChanges(Len(turn'))
  BY <1>1, <1>4 DEF StartChanges, TurnBegun
<1>5. CASE ClearChanges(current)
  BY <1>1, <1>5 DEF ClearChanges
<1>6. CASE NewChanges
  <2>1. PICK id : FileOpened(id, <<>>)
    BY <1>6 DEF NewChanges
  <2>2. turn' = turn
    BY <1>6 DEF NewChanges
  <2> QED BY <1>0, <2>1, <2>2, NothingRuns, RunsStill DEF FileOpened
<1>7. ASSUME NEW id, ResumeChanges(id) PROVE Runs'
  BY <1>1, <1>7 DEF ResumeChanges
<1>8. CASE SettingChanges
  BY <1>1, <1>8 DEF SettingChanges
<1> QED BY <1>2, <1>3, <1>4, <1>5, <1>6, <1>7, <1>8 DEF LineChanges

\* The turns are where they were, and the objects are the last of their files.
LEMMA InNewestStays ==
  ASSUME Known, InNewest, Grows,
         \A u \in DOMAIN turn' : turn'[u].session # 0 /\ turn'[u].pc # "over" =>
           u \in DOMAIN turn /\ turn[u].session # 0 /\ turn[u].pc # "over",
         \A u \in DOMAIN turn : \A s \in DOMAIN sessions :
           s = turn[u].session /\ turn[u].pc # "over" /\ sessions[s].id \notin reopened' /\ Newest(s)
           => Newest(s)'
  PROVE  InNewest'
<1> SUFFICES ASSUME NEW u \in DOMAIN turn', turn'[u].session # 0, turn'[u].pc # "over",
                    SessionOf(u)' \notin reopened'
             PROVE  \A s : s = turn'[u].session => Newest(s)'
  BY DEF InNewest, Newest
<1>1. u \in DOMAIN turn /\ turn[u].session # 0 /\ turn[u].pc # "over"
  OBVIOUS
<1>2. /\ turn'[u].session = turn[u].session /\ SessionOf(u)' = SessionOf(u)
      /\ turn[u].session \in DOMAIN sessions
  BY <1>1 DEF Grows, SessionOf, Known, Placed
<1>3. SessionOf(u) \notin reopened' /\ SessionOf(u) \notin reopened
  BY <1>2 DEF Grows
<1>4. Newest(turn[u].session)
  BY <1>1, <1>3 DEF InNewest
<1> HIDE DEF Newest
<1> QED BY <1>1, <1>2, <1>3, <1>4 DEF SessionOf

\* A turn takes the main session, which is the last of its file.
LEMMA InNewestThread ==
  ASSUME Known, InNewest, NEW t \in DOMAIN turn, ThreadChanges(t)
  PROVE  InNewest'
<1>0. Grows
  BY ThreadGrows
<1>1. DOMAIN sessions' = DOMAIN sessions /\ DOMAIN turn' = DOMAIN turn
  BY DEF ThreadChanges, BeginChanges, TakeChanges, PrepareChanges, CommitChanges, ReturnChanges,
         FinishChanges, TurnIs, SessionIs
<1>2. \A s \in DOMAIN sessions : Newest(s)' <=> Newest(s)
  BY <1>0, <1>1, NewestStays DEF Grows
<1>3. \A u \in DOMAIN turn : turn[u].session # 0 => turn[u].session \in DOMAIN sessions
  BY DEF Known, Placed
<1>4. ASSUME \A u \in DOMAIN turn : turn'[u].session # 0 /\ turn'[u].pc # "over" =>
               turn[u].session # 0 /\ turn[u].pc # "over"
      PROVE  InNewest'
  <2> HIDE DEF Newest
  <2> QED BY <1>0, <1>1, <1>2, <1>3, <1>4, InNewestStays
<1>5. CASE TakeChanges(t)
  <2>1. /\ turn'[t].session = current /\ current' = current /\ sessions' = sessions
        /\ \A u \in DOMAIN turn : u # t => turn'[u] = turn[u]
        /\ reopened' = reopened
    BY <1>5 DEF TakeChanges, TurnIs
  <2>2. \A s : s = current => Newest(s)'
    <3>1. current = Len(sessions) /\ DOMAIN sessions = 1..Len(sessions) /\ Len(sessions) \in Nat
      BY LenProperties DEF Known, Placed, ChatTypes
    <3> QED BY <2>1, <3>1 DEF Newest
  <2>3. ASSUME NEW u \in DOMAIN turn, turn'[u].session # 0, turn'[u].pc # "over",
               SessionOf(u)' \notin reopened'
        PROVE  \A s : s = turn'[u].session => Newest(s)'
    <3>1. CASE u = t
      <4> HIDE DEF Newest
      <4> QED BY <2>1, <2>2, <3>1
    <3>2. CASE u # t
      <4>1. turn'[u] = turn[u] /\ SessionOf(u) \notin reopened /\ turn[u].session \in DOMAIN sessions
        BY <1>3, <2>1, <2>3, <3>2 DEF SessionOf
      <4>2. Newest(turn[u].session)
        BY <2>3, <4>1 DEF InNewest
      <4> HIDE DEF Newest
      <4> QED BY <1>2, <4>1, <4>2
    <3> QED BY <3>1, <3>2
  <2> QED BY <1>1, <2>3 DEF InNewest, Newest
<1>6. CASE BeginChanges(t)
  BY <1>4, <1>6 DEF BeginChanges, TurnIs, Known, Placed
<1>7. CASE PrepareChanges(t, turn[t].session)
  BY <1>4, <1>7 DEF PrepareChanges, TurnIs
<1>8. CASE CommitChanges(t, turn[t].session, Chat!Session(t).pending)
  BY <1>4, <1>8 DEF CommitChanges, TurnIs
<1>9. CASE ReturnChanges(t, turn[t].session)
  BY <1>4, <1>9 DEF ReturnChanges, TurnIs
<1>10. CASE FinishChanges(t)
  BY <1>4, <1>10 DEF FinishChanges, TurnIs
<1> QED BY <1>5, <1>6, <1>7, <1>8, <1>9, <1>10 DEF ThreadChanges

\* Only /resume opens an object of a file that has one.
LEMMA InNewestLine ==
  ASSUME Known, InNewest, LineChanges
  PROVE  InNewest'
<1>0. Grows
  BY LineGrows
<1>1. \A u \in DOMAIN turn : turn[u].session # 0 =>
        turn[u].session \in DOMAIN sessions /\ SessionOf(u) \in DOMAIN events
  BY DEF Known, Placed, SessionOf
<1>2. \A u \in DOMAIN turn' : turn'[u].session # 0 /\ turn'[u].pc # "over" =>
        u \in DOMAIN turn /\ turn[u].session # 0 /\ turn[u].pc # "over"
  <2>1. CASE StartChanges(Len(turn'))
    BY <2>1 DEF StartChanges, TurnBegun
  <2>2. CASE ForkChanges(leaving)
    BY <2>2 DEF ForkChanges, TurnIs
  <2>3. CASE turn' = turn
    BY <2>3
  <2> QED BY <2>1, <2>2, <2>3 DEF LineChanges, InputChanges, ClearChanges, NewChanges, ResumeChanges,
             SettingChanges
<1>3. ASSUME DOMAIN sessions' = DOMAIN sessions PROVE InNewest'
  <2>1. \A s \in DOMAIN sessions : Newest(s)' <=> Newest(s)
    BY <1>0, <1>3, NewestStays DEF Grows
  <2> QED BY <1>0, <1>1, <1>2, <2>1, InNewestStays
<1>4. ASSUME NEW id, NEW items, SessionOpened(id, items),
             \A u \in DOMAIN turn : turn[u].session # 0 /\ turn[u].pc # "over"
               /\ SessionOf(u) \notin reopened' => SessionOf(u) # id
      PROVE  InNewest'
  <2>1. \A s \in DOMAIN sessions : Newest(s) /\ sessions[s].id # id => Newest(s)'
    BY <1>4, NewestOpened
  <2>2. \A u \in DOMAIN turn : \A s \in DOMAIN sessions :
          s = turn[u].session /\ turn[u].pc # "over" /\ sessions[s].id \notin reopened' /\ Newest(s)
          => Newest(s)'
    <3>1. \A s \in DOMAIN sessions : s # 0
      BY SessionType DEF Known
    <3> HIDE DEF Newest
    <3> QED BY <1>4, <2>1, <3>1 DEF SessionOf
  <2> QED BY <1>0, <1>2, <2>2, InNewestStays
<1>5. CASE InputChanges
  BY <1>3, <1>5 DEF InputChanges
<1>6. CASE ForkChanges(leaving)
  <2>1. PICK id, items : SessionOpened(id, items) /\ FileOpened(id, <<Chat!Event("replace", items)>>)
    BY <1>6 DEF ForkChanges
  <2> QED BY <1>1, <1>4, <2>1 DEF FileOpened
<1>7. CASE StartChanges(Len(turn'))
  BY <1>3, <1>7 DEF StartChanges
<1>8. CASE ClearChanges(current)
  BY <1>3, <1>8 DEF ClearChanges, SessionIs
<1>9. CASE NewChanges
  <2>1. PICK id : SessionOpened(id, <<>>) /\ FileOpened(id, <<>>)
    BY <1>9 DEF NewChanges
  <2> QED BY <1>1, <1>4, <2>1 DEF FileOpened
<1>10. ASSUME NEW id, ResumeChanges(id) PROVE InNewest'
  <2>1. /\ SessionOpened(id, Chat!Rehydrated(events[id]))
        /\ \A t \in DOMAIN turn : turn[t].pc # "over" /\ Inside(t, id) => id \in reopened'
    BY <1>10 DEF ResumeChanges
  <2>2. \A u \in DOMAIN turn : turn[u].session # 0 /\ turn[u].pc # "over"
          /\ SessionOf(u) \notin reopened' => SessionOf(u) # id
    BY <2>1 DEF Inside, SessionOf
  <2> QED BY <1>4, <2>1, <2>2
<1>11. CASE SettingChanges
  BY <1>3, <1>11 DEF SettingChanges
<1> QED BY <1>5, <1>6, <1>7, <1>8, <1>9, <1>10, <1>11 DEF LineChanges

\* A mark leaves the items of a file what they were.
LEMMA MarkAdded ==
  ASSUME NEW log \in Seq(ChatEvents), NEW e \in ChatEvents, e.kind \in Marks
  PROVE  Chat!ItemsOf(log \o <<e>>) = Chat!ItemsOf(log)
<1>1. e.kind # "replace" /\ e.kind # "item"
  BY DEF Marks
<1> QED BY <1>1, OneEvent DEF ItemsAfter

\* An item is left behind the others.
LEMMA ItemAdded ==
  ASSUME NEW log \in Seq(ChatEvents), NEW x \in Items
  PROVE  Chat!ItemsOf(log \o <<ItemEvent(x)>>) = Append(Chat!ItemsOf(log), x)
<1> DEFINE e == ItemEvent(x)
<1>1. e \in ChatEvents /\ e.kind = "item" /\ e.value = x
  BY DEF ItemEvent, Chat!Event, ChatEvents
<1> HIDE DEF e
<1>2. Chat!ItemsOf(log \o <<e>>) = ItemsAfter(Chat!ItemsOf(log), e)
  BY <1>1, OneEvent
<1> QED BY <1>1, <1>2 DEF ItemsAfter, e

\* commit_turn records what it adds to the session; the marks add nothing.
LEMMA WrittenThread ==
  ASSUME Known, InNewest, NEW t \in DOMAIN turn, ThreadChanges(t), NEW r \in DOMAIN sessions, Written(r)
  PROVE  Written(r)'
<1>0. Grows
  BY ThreadGrows
<1>1. DOMAIN sessions' = DOMAIN sessions
  BY DEF ThreadChanges, BeginChanges, TakeChanges, PrepareChanges, CommitChanges, ReturnChanges,
         FinishChanges, SessionIs
<1>2. Newest(r)' <=> Newest(r)
  BY <1>0, <1>1, NewestStays DEF Grows
<1>3. ASSUME sessions'[r].items = sessions[r].items,
             Chat!ItemsOf(events'[sessions[r].id]) = Chat!ItemsOf(events[sessions[r].id])
      PROVE  Written(r)'
  BY <1>0, <1>2, <1>3, WrittenStill
<1>4. sessions[r].id \in DOMAIN events
  BY DEF Known, Placed
<1>5. CASE BeginChanges(t)
  BY <1>3, <1>5 DEF BeginChanges
<1>6. CASE TakeChanges(t)
  BY <1>3, <1>6 DEF TakeChanges
<1>7. CASE FinishChanges(t)
  BY <1>3, <1>7 DEF FinishChanges
<1>8. ASSUME NEW id \in DOMAIN events, NEW kind \in Marks, FileIs(id, events[id] \o <<Chat!Event(kind, t)>>),
             sessions'[r].items = sessions[r].items
      PROVE  Written(r)'
  <2> DEFINE e == Chat!Event(kind, t)
  <2>1. e \in ChatEvents /\ e.kind \in Marks /\ events[id] \in Seq(ChatEvents)
    BY TurnType, ElementOfSeq DEF Known, ChatTypes, Chat!Event, ChatEvents
  <2> HIDE DEF e
  <2>2. Chat!ItemsOf(events[id] \o <<e>>) = Chat!ItemsOf(events[id])
    BY <2>1, MarkAdded
  <2>3. \A i \in DOMAIN events : Chat!ItemsOf(events'[i]) = Chat!ItemsOf(events[i])
    BY <1>8, <2>2 DEF FileIs, e
  <2> QED BY <1>3, <1>4, <1>8, <2>3
<1>9. CASE PrepareChanges(t, turn[t].session)
  <2> DEFINE s == turn[t].session
  <2>1. FileIs(sessions[s].id, events[sessions[s].id] \o <<Chat!Event("started", t)>>)
        /\ SessionIs(s, sessions[s].items, t)
    BY <1>9 DEF PrepareChanges
  <2> HIDE DEF s
  <2>2. sessions[s].id \in DOMAIN events /\ sessions'[r].items = sessions[r].items
    BY <2>1 DEF FileIs, SessionIs
  <2> QED BY <1>8, <2>1, <2>2 DEF Marks
<1>10. CASE ReturnChanges(t, turn[t].session)
  <2> DEFINE s == turn[t].session
  <2>1. FileIs(sessions[s].id, events[sessions[s].id] \o <<Chat!Event("ended", t)>>)
        /\ sessions' = sessions
    BY <1>10 DEF ReturnChanges
  <2> HIDE DEF s
  <2>2. sessions[s].id \in DOMAIN events
    BY <2>1 DEF FileIs
  <2> QED BY <1>8, <2>1, <2>2 DEF Marks
<1>11. CASE CommitChanges(t, turn[t].session, Chat!Session(t).pending)
  <2> DEFINE s == turn[t].session
             p == sessions[s].pending
             id == sessions[s].id
             items == sessions[s].items
             log == events[id]
             user == Chat!User(p)
             answer == Chat!Answer(t)
  <2>1. /\ turn[t].pc = "sent" /\ reopened' = reopened /\ cleared' = cleared
        /\ s \in DOMAIN sessions /\ sessions'[s].id = id
        /\ sessions'[s].items = IF p = 0 THEN Append(items, answer) ELSE Append(Append(items, user), answer)
        /\ \A q \in DOMAIN sessions : q # s => sessions'[q] = sessions[q]
    BY <1>11 DEF CommitChanges, SessionIs, Chat!Session
  <2>2. /\ id \in DOMAIN events
        /\ events'[id] = IF p = 0 THEN log \o <<ItemEvent(answer)>>
                         ELSE (log \o <<ItemEvent(user)>>) \o <<ItemEvent(answer)>>
        /\ \A i \in DOMAIN events : i # id => events'[i] = events[i]
    BY <1>11 DEF CommitChanges, FileIs, Chat!Session
  <2>3. /\ log \in Seq(ChatEvents) /\ user \in Items /\ answer \in Items
    BY <2>1, <2>2, ElementOfSeq, TurnType, SessionType, UserIsItem DEF Known, ChatTypes
  <2>4. s # 0 /\ r \in Nat /\ s \in Nat
    BY <2>1, SessionType DEF Known
  <2>5. SessionOf(t) = id
    BY DEF SessionOf
  <2>6. s = turn[t].session
    OBVIOUS
  <2> HIDE DEF s, p, id, items, log, user, answer
  <2>7. log \o <<ItemEvent(user)>> \in Seq(ChatEvents)
    <3>1. ItemEvent(user) \in ChatEvents
      BY <2>3 DEF ItemEvent, Chat!Event, ChatEvents
    <3> QED BY <2>3, <3>1, EventAdded
  <2>8. /\ Chat!ItemsOf(log \o <<ItemEvent(answer)>>) = Append(Chat!ItemsOf(log), answer)
        /\ Chat!ItemsOf(log \o <<ItemEvent(user)>>) = Append(Chat!ItemsOf(log), user)
    BY <2>3, ItemAdded
  <2>9. Chat!ItemsOf((log \o <<ItemEvent(user)>>) \o <<ItemEvent(answer)>>)
          = Append(Chat!ItemsOf(log \o <<ItemEvent(user)>>), answer)
    BY <2>3, <2>7, ItemAdded
  <2>10. Chat!ItemsOf(events'[id]) = IF p = 0 THEN Append(Chat!ItemsOf(log), answer)
                                     ELSE Append(Append(Chat!ItemsOf(log), user), answer)
    BY <2>2, <2>8, <2>9
  <2>11. CASE r = s
    <3>1. Written(r) => (Newest(r) /\ r \notin cleared /\ id \notin reopened => Chat!ItemsOf(log) = items)
      BY <2>11 DEF Written, id, log, items
    <3>2. Newest(r) /\ r \notin cleared /\ id \notin reopened =>
            Chat!ItemsOf(events'[id]) = sessions'[s].items
      BY <2>1, <2>10, <3>1
    <3> QED BY <1>2, <2>1, <2>11, <3>2 DEF Written
  <2>12. CASE sessions[r].id # id
    <3>1. r # s
      BY <2>12 DEF id
    <3>2. events'[sessions[r].id] = events[sessions[r].id] /\ sessions'[r] = sessions[r]
      BY <1>4, <2>1, <2>2, <2>12, <3>1
    <3> QED BY <1>3, <3>2
  <2>13. CASE sessions[r].id = id /\ r # s
    <3>1. sessions'[r] = sessions[r]
      BY <2>1, <2>13
    <3>2. id \notin reopened => Newest(s)
      BY <2>1, <2>4, <2>5, <2>6 DEF InNewest
    <3>3. sessions[s].id = sessions[r].id
      BY <2>13 DEF id
    <3>4. id \notin reopened => ~ Newest(r)
      BY <2>1, <2>4, <2>13, <3>2, <3>3 DEF Newest
    <3> QED BY <1>2, <2>1, <2>13, <3>1, <3>4 DEF Written
  <2> QED BY <2>11, <2>12, <2>13
<1> QED BY <1>5, <1>6, <1>7, <1>9, <1>10, <1>11 DEF ThreadChanges

\* A fork is recorded as it is, and a file is resumed as it is.
LEMMA WrittenLine ==
  ASSUME Known, Recorded, LineChanges
  PROVE  \A r \in DOMAIN sessions' : Written(r)'
<1>0. Grows
  BY LineGrows
<1>1. \A r \in DOMAIN sessions : sessions[r].id \in DOMAIN events /\ Written(r)
  BY DEF Known, Placed, Recorded
<1>2. ASSUME DOMAIN sessions' = DOMAIN sessions, events' = events,
             \A r \in DOMAIN sessions : r \in cleared' \/ sessions'[r] = sessions[r]
      PROVE  \A r \in DOMAIN sessions' : Written(r)'
  <2> SUFFICES ASSUME NEW r \in DOMAIN sessions PROVE Written(r)'
    BY <1>2
  <2>1. CASE r \in cleared'
    BY <2>1 DEF Written
  <2>2. CASE sessions'[r] = sessions[r]
    <3>1. Newest(r)' => Newest(r)
      BY <1>0, <1>2, NewestStays DEF Grows
    <3> QED BY <1>0, <1>1, <1>2, <2>2, <3>1, WrittenStill
  <2> QED BY <1>2, <2>1, <2>2
<1>3. ASSUME NEW id, NEW items, SessionOpened(id, items),
             \A i \in DOMAIN events : events'[i] = events[i],
             id \notin reopened' => Chat!ItemsOf(events'[id]) = items
      PROVE  \A r \in DOMAIN sessions' : Written(r)'
  <2>1. PICK c : c = current'
    OBVIOUS
  <2>2. /\ DOMAIN sessions' = DOMAIN sessions \union {c}
        /\ \A r \in DOMAIN sessions : sessions'[r] = sessions[r]
        /\ sessions'[c].id = id /\ sessions'[c].items = items
    BY <1>3, <2>1 DEF SessionOpened
  <2>3. Written(c)'
    BY <1>3, <2>2 DEF Written
  <2>4. ASSUME NEW r \in DOMAIN sessions PROVE Written(r)'
    <3>1. Newest(r)' => Newest(r)
      BY <1>3, NewestOpened
    <3> QED BY <1>0, <1>1, <1>3, <2>2, <3>1, WrittenStill
  <2> QED BY <2>2, <2>3, <2>4
<1>4. CASE InputChanges
  BY <1>2, <1>4 DEF InputChanges
<1>5. CASE ForkChanges(leaving)
  <2>1. PICK id, items : /\ SessionOpened(id, items) /\ items = Append(turn[leaving].snapshot, Chat!Promoted(leaving))
                         /\ FileOpened(id, <<Chat!Event("replace", items)>>) /\ leaving \in DOMAIN turn
    BY <1>5 DEF ForkChanges
  <2>2. items \in Seq(Items)
    BY <2>1, TurnType, UserIsItem, AppendProperties DEF Known
  <2>3. Chat!ItemsOf(events'[id]) = items
    BY <2>1, <2>2, FirstItems DEF FileOpened
  <2> QED BY <1>3, <2>1, <2>3 DEF FileOpened
<1>6. CASE StartChanges(Len(turn'))
  BY <1>2, <1>6 DEF StartChanges
<1>7. CASE ClearChanges(current)
  BY <1>2, <1>7 DEF ClearChanges, SessionIs
<1>8. CASE NewChanges
  <2>1. PICK id : SessionOpened(id, <<>>) /\ FileOpened(id, <<>>)
    BY <1>8 DEF NewChanges
  <2>2. Chat!ItemsOf(<<>>) = <<>>
    <3>1. <<>> \in Seq(Items)
      OBVIOUS
    <3> QED BY <3>1, FirstItems
  <2> QED BY <1>3, <2>1, <2>2 DEF FileOpened
<1>9. ASSUME NEW id, ResumeChanges(id) PROVE \A r \in DOMAIN sessions' : Written(r)'
  <2> DEFINE items == Chat!Rehydrated(events[id])
  <2>1. /\ SessionOpened(id, items) /\ id \in DOMAIN events /\ events' = events
        /\ \A t \in DOMAIN turn : turn[t].pc # "over" /\ Inside(t, id) => id \in reopened'
    BY <1>9 DEF ResumeChanges
  <2>2. Running(events[id]) # {} => id \in reopened'
    BY <2>1 DEF Recorded, Runs
  <2>3. Running(events[id]) = {} => items = Chat!ItemsOf(events[id])
    <3>1. Chat!ItemsOf(events[id]) \in Seq(Items)
      BY <2>1, ElementOfSeq, ItemsType DEF Known, ChatTypes
    <3>2. Running(events[id]) = {} => Chat!Unfinished(events[id]) = {}
      BY DEF Running
    <3> QED BY <3>1, <3>2, ConcatEmptySeq DEF Chat!Rehydrated
  <2> HIDE DEF items
  <2> QED BY <1>3, <2>1, <2>2, <2>3
<1>10. CASE SettingChanges
  BY <1>2, <1>10 DEF SettingChanges
<1> QED BY <1>4, <1>5, <1>6, <1>7, <1>8, <1>9, <1>10 DEF LineChanges

---------------------------------------------------------------------------
(* The theorems *)

ChatInv == Known /\ Flow /\ Apart /\ Told /\ Keeps /\ Recorded

\* The invariant of the runtime is inductive.
LEMMA ChatInvStep ==
  ASSUME ChatInv, Chat!Next
  PROVE  ChatInv'
<1> USE DEF ChatInv, Recorded
<1>1. ASSUME LineChanges PROVE ChatInv'
  <2> HIDE DEF Recorded
  <2>1. Known' /\ Flow' /\ Apart' /\ Told' /\ Keeps'
    BY <1>1, KnownLine, FlowLine, ApartLine, ToldLine, KeepsLine
  <2>2. \A r \in DOMAIN sessions' : Written(r)'
    BY <1>1, WrittenLine
  <2>3. Runs' /\ InNewest'
    BY <1>1, RunsLine, InNewestLine DEF Recorded
  <2> QED BY <2>1, <2>2, <2>3 DEF Recorded
<1>2. ASSUME NEW t \in DOMAIN turn, ThreadChanges(t) PROVE ChatInv'
  <2>1. Known' /\ Flow' /\ Apart' /\ Told' /\ Keeps' /\ Runs' /\ InNewest'
    BY <1>2, KnownThread, FlowThread, ApartThread, ToldThread, KeepsThread, RunsThread, InNewestThread
  <2>2. \A r \in DOMAIN sessions : Written(r)'
    BY <1>2, WrittenThread
  <2>3. DOMAIN sessions' = DOMAIN sessions
    BY <1>2 DEF ThreadChanges, BeginChanges, TakeChanges, PrepareChanges, CommitChanges, ReturnChanges,
         FinishChanges, SessionIs
  <2> QED BY <2>1, <2>2, <2>3
<1> QED BY <1>1, <1>2, Changes

\* It holds of the program when it is started.
LEMMA ChatInvInit ==
  ASSUME Chat!Init
  PROVE  ChatInv
<1>1. /\ sessions = <<[id |-> 1, items |-> <<>>, pending |-> 0]>> /\ current = 1
      /\ events = << <<>> >> /\ typed = 0 /\ leaving = 0 /\ turn = <<>> /\ line = "ready"
      /\ missed = {} /\ reopened = {} /\ cleared = {}
  BY DEF Chat!Init, Chat!None
<1>2. ChatTypes
  <2>1. <<>> \in Seq(Items) /\ <<>> \in Seq(ChatEvents)
    OBVIOUS
  <2>2. [id |-> 1, items |-> <<>>, pending |-> 0] \in SessionRecords
    BY <2>1 DEF SessionRecords
  <2> QED BY <1>1, <2>1, <2>2 DEF ChatTypes
<1>3. /\ Len(sessions) = 1 /\ DOMAIN sessions = {1} /\ sessions[1].id = 1 /\ sessions[1].items = <<>>
      /\ sessions[1].pending = 0 /\ DOMAIN events = {1} /\ events[1] = <<>> /\ DOMAIN turn = {}
  BY <1>1
<1>4. Known
  BY <1>1, <1>2, <1>3 DEF Known, Placed
<1>5. Flow /\ Apart /\ Keeps /\ InNewest
  BY <1>3 DEF Flow, Apart, Keeps, InNewest
<1>6. Told
  BY <1>3 DEF Told, Unheard, Mentions, MentionedIn, Sent
<1>7. Runs
  BY <1>3, NothingRuns DEF Runs
<1>8. Chat!ItemsOf(<<>>) = <<>>
  <2>1. <<>> \in Seq(Items)
    OBVIOUS
  <2> QED BY <2>1, FirstItems
<1>9. \A s \in DOMAIN sessions : Written(s)
  BY <1>3, <1>8 DEF Written
<1> QED BY <1>4, <1>5, <1>6, <1>7, <1>9 DEF ChatInv, Recorded

\* The steps of the other parts leave it alone.
LEMMA ChatInvStill ==
  ASSUME ChatInv, UNCHANGED chatVars
  PROVE  ChatInv'
<1> USE DEF ChatInv, chatVars
<1>1. Known' /\ Flow' /\ Apart'
  BY DEF Known, ChatTypes, Placed, Flow, Main, Followed, Apart, SessionOf
<1>2. Told' /\ Keeps'
  BY DEF Told, Untold, Unheard, Sent, Keeps, Holds, Chat!OwnSession, Chat!Session, Chat!Begun
<1>3. Recorded'
  BY DEF Recorded, Runs, InNewest, Written, Newest, Inside, SessionOf
<1> QED BY <1>1, <1>2, <1>3

\* It is one of ChatRuntime, whose variables the other behaviours do not move.
LEMMA ChatInvAlways == MCSpec => [](part = "runtime" => ChatInv)
<1>1. MCInit => ChatInv
  BY ChatInvInit DEF MCInit
<1>2. /\ (part = "runtime" => ChatInv)
      /\ [MCNext]_<<part, vars, chatVars, editVars, mailVars, screenVars>>
      => (part = "runtime" => ChatInv)'
  BY ChatInvStep, ChatInvStill DEF MCNext
<1> QED BY <1>1, <1>2, PTL DEF MCSpec

\* Of ChatRuntime: a turn that has got an answer has its message in its session once, right
\* before that answer, however the lines of the user and the threads of the turns
\* interleave: promote_foreground_to_worker leaves a worker a session of its own.
THEOREM MessagesAreKept == MCSpec => []MessageIsKept
<1>1. ChatInv => Chat!MessageIsKept
  <2> SUFFICES ASSUME ChatInv, NEW t \in DOMAIN turn, turn[t].pc \in {"answered", "finish"},
                      Chat!OwnSession(t), turn[t].session \notin cleared
               PROVE  HasKept(Chat!Session(t).items, t)
    BY DEF Chat!MessageIsKept, Chat!Begun, HasKept
  <2>1. turn[t].session # 0
    BY DEF ChatInv, Known, Placed
  <2> QED BY <2>1 DEF ChatInv, Keeps, Holds, Chat!Session
<1>2. (part = "runtime" => ChatInv) => MessageIsKept
  BY <1>1 DEF MessageIsKept
<1> QED BY <1>2, ChatInvAlways, PTL

\* Of ChatRuntime: a session that is resumed is what it was in memory, when no turn is in
\* the middle of its work on it: what commit_turn, the fork of the main session and the
\* marks of a turn record is what rehydrate_session reads back.
THEOREM SessionsResumeAsTheyWere == MCSpec => []ResumedAsItWas
<1>1. ChatInv => Chat!ResumedAsItWas
  <2> SUFFICES ASSUME ChatInv, NEW s \in DOMAIN sessions,
                      s \notin cleared, sessions[s].id \notin reopened,
                      \A t \in DOMAIN turn : turn[t].session = s =>
                        turn[t].pc \in {"call", "finish", "failed", "over"},
                      Newest(s)
               PROVE  Chat!Rehydrated(events[sessions[s].id]) = sessions[s].items
    BY DEF Chat!ResumedAsItWas, Chat!Begun, Newest
  <2> DEFINE log == events[sessions[s].id]
  <2>1. sessions[s].id \in DOMAIN events /\ log \in Seq(ChatEvents)
    BY ElementOfSeq DEF ChatInv, Known, Placed, ChatTypes
  <2>2. ASSUME NEW t \in Running(log) PROVE FALSE
    <3>1. t \in DOMAIN turn /\ turn[t].pc \in {"sent", "answered"} /\ Inside(t, sessions[s].id)
      BY <2>1, <2>2 DEF ChatInv, Recorded, Runs
    <3>2. Newest(turn[t].session) /\ turn[t].session \in DOMAIN sessions
      BY <3>1 DEF ChatInv, Recorded, InNewest, Inside, SessionOf, Known, Placed
    <3>3. turn[t].session \in Nat /\ s \in Nat
      BY <3>2, SessionType DEF ChatInv, Known
    <3>4. turn[t].session = s
      <4>1. turn[t].session <= s /\ s <= turn[t].session
        BY <3>1, <3>2 DEF Newest, Inside
      <4> QED BY <3>3, <4>1
    <3> QED BY <3>1, <3>4
  <2>3. Chat!Unfinished(log) = {}
    BY <2>2 DEF Running
  <2>4. Chat!ItemsOf(log) = sessions[s].items
    BY DEF ChatInv, Recorded, Written
  <2>5. sessions[s].items \in Seq(Items)
    BY SessionType DEF ChatInv, Known
  <2> QED BY <2>3, <2>4, <2>5, ConcatEmptySeq DEF Chat!Rehydrated
<1>2. (part = "runtime" => ChatInv) => ResumedAsItWas
  BY <1>1 DEF ResumedAsItWas
<1> QED BY <1>2, ChatInvAlways, PTL
=============================================================================
