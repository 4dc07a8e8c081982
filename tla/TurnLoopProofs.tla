--------------------------- MODULE TurnLoopProofs ---------------------------
(* What a turn sends to the model, what a resumed session has and what a worker *)
(* forked from the conversation is given, for every number of turns, calls,     *)
(* retries and restarts.                                                        *)
EXTENDS ForkedContext, SequenceFacts

---------------------------------------------------------------------------
(* Histories *)

ChatIds(item) == IF item.kind = "chat" THEN item.ids ELSE {}
OutputIds(h) == {h[i].id : i \in {i \in DOMAIN h : IsOutput(h[i])}}

CallsApart(h) == \A i, j \in DOMAIN h : i # j => CallIds(h[i]) \intersect CallIds(h[j]) = {}
OutputsApart(h) ==
    \A i, j \in DOMAIN h : IsOutput(h[i]) /\ IsOutput(h[j]) /\ h[i].id = h[j].id => i = j
OutputsFollow(h) ==
    \A i, j \in DOMAIN h : IsOutput(h[i]) /\ h[i].id \in ChatIds(h[j]) =>
       j < i /\ \A k \in (j + 1)..i : IsOutput(h[k])
Given(h, n) == CallsOf(h) \subseteq 1..n /\ OutputIds(h) \subseteq 1..n
OfStyle(h, s) ==
    \A i \in DOMAIN h : /\ h[i].kind \in CallKinds => h[i].kind = s
                        /\ h[i].kind = "custom_output" => s = "custom"

\* A history: no call and no output twice, the outputs of a chat message directly
\* after it.
Sound(h, n, s) ==
    CallsApart(h) /\ OutputsApart(h) /\ OutputsFollow(h) /\ Given(h, n) /\ OfStyle(h, s)

\* Calls that have no output yet and may still get theirs.
Open(h, S) ==
    /\ S \intersect OutputIds(h) = {}
    /\ \A j \in DOMAIN h : ChatIds(h[j]) \intersect S # {} =>
         \A k \in (j + 1)..Len(h) : IsOutput(h[k])

NoOutputs(h) == \A i \in DOMAIN h : ~IsOutput(h[i])
OnlyOutputs(h) == \A i \in DOMAIN h : IsOutput(h[i])

\* What the fields of an item can be.
LEMMA ItemFields ==
  ASSUME NEW x \in Items
  PROVE  /\ CallIds(x) \subseteq 1..MaxCalls /\ ChatIds(x) \subseteq CallIds(x)
         /\ IsOutput(x) => x.id \in 1..MaxCalls /\ CallIds(x) = {}
         /\ x.kind \in CallKinds => CallIds(x) = x.ids
  BY DEF Items, Aborted, Diary, CallIds, CallKinds, ChatIds, IsOutput

\* What two histories are when joined.
LEMMA ItemParts ==
  ASSUME NEW a \in Seq(Items), NEW b \in Seq(Items)
  PROVE  /\ Len(a) \in Nat /\ Len(b) \in Nat /\ Len(a \o b) = Len(a) + Len(b)
         /\ DOMAIN (a \o b) = 1..(Len(a) + Len(b))
         /\ DOMAIN a = 1..Len(a) /\ DOMAIN b = 1..Len(b)
         /\ \A i \in 1..Len(a) : (a \o b)[i] = a[i]
         /\ \A i \in 1..Len(b) : (a \o b)[Len(a) + i] = b[i]
         /\ \A i \in DOMAIN (a \o b) : i \in 1..Len(a) \/ \E k \in 1..Len(b) : i = Len(a) + k
<1> DEFINE c == a \o b
<1>1. /\ Len(a) \in Nat /\ Len(b) \in Nat /\ Len(c) = Len(a) + Len(b)
      /\ DOMAIN c = 1..(Len(a) + Len(b))
      /\ DOMAIN a = 1..Len(a) /\ DOMAIN b = 1..Len(b)
      /\ \A i \in 1..Len(a) : c[i] = a[i]
      /\ \A i \in 1..Len(b) : c[Len(a) + i] = b[i]
      /\ \A i \in 1..(Len(a) + Len(b)) : i \in 1..Len(a) \/ \E k \in 1..Len(b) : i = Len(a) + k
  BY Parts
<1> HIDE DEF c
<1>2. \A i \in DOMAIN c : i \in 1..Len(a) \/ \E k \in 1..Len(b) : i = Len(a) + k
  BY ONLY <1>1
<1> QED BY <1>1, <1>2 DEF c

LEMMA CallsConcat ==
  ASSUME NEW a \in Seq(Items), NEW b \in Seq(Items)
  PROVE  CallsOf(a \o b) = CallsOf(a) \union CallsOf(b)
<1> DEFINE c == a \o b
<1>1. /\ Len(a) \in Nat /\ Len(b) \in Nat /\ DOMAIN c = 1..(Len(a) + Len(b))
      /\ DOMAIN a = 1..Len(a) /\ DOMAIN b = 1..Len(b)
      /\ \A i \in 1..Len(a) : c[i] = a[i]
      /\ \A i \in 1..Len(b) : c[Len(a) + i] = b[i]
      /\ \A i \in DOMAIN c : i \in 1..Len(a) \/ \E k \in 1..Len(b) : i = Len(a) + k
  BY ItemParts
<1> HIDE DEF c
<1>2. ASSUME NEW x \in CallsOf(c) PROVE x \in CallsOf(a) \union CallsOf(b)
  <2>1. PICK i \in DOMAIN c : x \in CallIds(c[i])
    BY DEF CallsOf
  <2>2. CASE i \in 1..Len(a)
    BY <1>1, <2>1, <2>2 DEF CallsOf
  <2>3. CASE \E k \in 1..Len(b) : i = Len(a) + k
    BY <1>1, <2>1, <2>3 DEF CallsOf
  <2> QED BY <1>1, <2>2, <2>3
<1>3. ASSUME NEW x \in CallsOf(a) PROVE x \in CallsOf(c)
  <2>1. PICK i \in 1..Len(a) : x \in CallIds(a[i])
    BY <1>1 DEF CallsOf
  <2>2. i \in DOMAIN c /\ c[i] = a[i]
    BY <1>1
  <2> QED BY <2>1, <2>2 DEF CallsOf
<1>4. ASSUME NEW x \in CallsOf(b) PROVE x \in CallsOf(c)
  <2>1. PICK i \in 1..Len(b) : x \in CallIds(b[i])
    BY <1>1 DEF CallsOf
  <2>2. Len(a) + i \in DOMAIN c /\ c[Len(a) + i] = b[i]
    BY <1>1
  <2> QED BY <2>1, <2>2 DEF CallsOf
<1> QED BY <1>2, <1>3, <1>4 DEF c

LEMMA OutputsConcat ==
  ASSUME NEW a \in Seq(Items), NEW b \in Seq(Items)
  PROVE  OutputIds(a \o b) = OutputIds(a) \union OutputIds(b)
<1> DEFINE c == a \o b
<1>1. /\ Len(a) \in Nat /\ Len(b) \in Nat /\ DOMAIN c = 1..(Len(a) + Len(b))
      /\ DOMAIN a = 1..Len(a) /\ DOMAIN b = 1..Len(b)
      /\ \A i \in 1..Len(a) : c[i] = a[i]
      /\ \A i \in 1..Len(b) : c[Len(a) + i] = b[i]
      /\ \A i \in DOMAIN c : i \in 1..Len(a) \/ \E k \in 1..Len(b) : i = Len(a) + k
  BY ItemParts
<1> HIDE DEF c
<1>2. ASSUME NEW x \in OutputIds(c) PROVE x \in OutputIds(a) \union OutputIds(b)
  BY <1>1 DEF OutputIds
<1>3. ASSUME NEW x \in OutputIds(a) PROVE x \in OutputIds(c)
  <2>1. PICK i \in 1..Len(a) : IsOutput(a[i]) /\ x = a[i].id
    BY <1>1 DEF OutputIds
  <2>2. i \in DOMAIN c /\ c[i] = a[i]
    BY <1>1
  <2> QED BY <2>1, <2>2 DEF OutputIds
<1>4. ASSUME NEW x \in OutputIds(b) PROVE x \in OutputIds(c)
  <2>1. PICK i \in 1..Len(b) : IsOutput(b[i]) /\ x = b[i].id
    BY <1>1 DEF OutputIds
  <2>2. Len(a) + i \in DOMAIN c /\ c[Len(a) + i] = b[i]
    BY <1>1
  <2> QED BY <2>1, <2>2 DEF OutputIds
<1> QED BY <1>2, <1>3, <1>4 DEF c

\* The beginning of a sound history is sound.
LEMMA SoundPrefix ==
  ASSUME NEW a \in Seq(Items), NEW b \in Seq(Items), NEW n, NEW s, Sound(a \o b, n, s)
  PROVE  Sound(a, n, s)
<1> DEFINE c == a \o b
<1>1. /\ Len(a) \in Nat /\ DOMAIN a = 1..Len(a) /\ DOMAIN a \subseteq DOMAIN c
      /\ \A i \in 1..Len(a) : c[i] = a[i]
  BY Parts
<1>2. Sound(c, n, s)
  OBVIOUS
<1>3. CallsOf(a) \subseteq CallsOf(c) /\ OutputIds(a) \subseteq OutputIds(c)
  BY CallsConcat, OutputsConcat
<1> HIDE DEF c
<1>4. CallsApart(a)
  BY <1>1, <1>2 DEF Sound, CallsApart
<1>5. OutputsApart(a)
  BY <1>1, <1>2 DEF Sound, OutputsApart
<1>6. OutputsFollow(a)
  <2> SUFFICES ASSUME NEW i \in DOMAIN a, NEW j \in DOMAIN a,
                      IsOutput(a[i]), a[i].id \in ChatIds(a[j])
               PROVE  j < i /\ \A k \in (j + 1)..i : IsOutput(a[k])
    BY DEF OutputsFollow
  <2>1. c[i] = a[i] /\ c[j] = a[j] /\ i \in DOMAIN c /\ j \in DOMAIN c
    BY <1>1
  <2>2. j < i /\ \A k \in (j + 1)..i : IsOutput(c[k])
    BY <1>2, <2>1 DEF Sound, OutputsFollow
  <2>3. ASSUME NEW k \in (j + 1)..i PROVE IsOutput(a[k])
    <3>1. k \in 1..Len(a)
      BY <1>1
    <3> QED BY <1>1, <2>2, <3>1
  <2> QED BY <2>2, <2>3
<1>7. Given(a, n) /\ OfStyle(a, s)
  BY <1>1, <1>2, <1>3 DEF Sound, Given, OfStyle
<1> QED BY <1>4, <1>5, <1>6, <1>7 DEF Sound

\* The ids of an item are among those of its history.
LEMMA IdsOfHistory ==
  ASSUME NEW h \in Seq(Items), NEW i \in DOMAIN h
  PROVE  /\ CallIds(h[i]) \subseteq CallsOf(h) /\ ChatIds(h[i]) \subseteq CallsOf(h)
         /\ IsOutput(h[i]) => h[i].id \in OutputIds(h) /\ CallIds(h[i]) = {} /\ ChatIds(h[i]) = {}
<1>1. h[i] \in Items
  OBVIOUS
<1>2. CallIds(h[i]) \subseteq CallsOf(h)
  BY DEF CallsOf
<1>3. IsOutput(h[i]) => h[i].id \in OutputIds(h)
  BY DEF OutputIds
<1> QED BY <1>1, <1>2, <1>3, ItemFields

\* Outputs of different calls stay different when joined.
LEMMA OutputsApartConcat ==
  ASSUME NEW a \in Seq(Items), NEW b \in Seq(Items), OutputsApart(a), OutputsApart(b),
         OutputIds(a) \intersect OutputIds(b) = {}
  PROVE  OutputsApart(a \o b)
<1> DEFINE c == a \o b
<1>1. /\ Len(a) \in Nat /\ Len(b) \in Nat /\ DOMAIN c = 1..(Len(a) + Len(b))
      /\ DOMAIN a = 1..Len(a) /\ DOMAIN b = 1..Len(b)
      /\ \A i \in 1..Len(a) : c[i] = a[i]
      /\ \A i \in 1..Len(b) : c[Len(a) + i] = b[i]
      /\ \A i \in DOMAIN c : i \in 1..Len(a) \/ \E k \in 1..Len(b) : i = Len(a) + k
  BY ItemParts
<1> HIDE DEF c
<1> SUFFICES ASSUME NEW i \in DOMAIN c, NEW j \in DOMAIN c,
                    IsOutput(c[i]), IsOutput(c[j]), c[i].id = c[j].id, i < j
             PROVE  FALSE
  <2>1. \A i, j \in DOMAIN c : i = j \/ i < j \/ j < i
    BY <1>1
  <2> QED BY <2>1 DEF OutputsApart, c
<1>2. CASE j \in 1..Len(a)
  <2>1. i \in 1..Len(a)
    BY <1>1, <1>2
  <2> QED BY <1>1, <1>2, <2>1 DEF OutputsApart
<1>3. CASE i \in 1..Len(a) /\ j \notin 1..Len(a)
  <2>1. PICK k \in 1..Len(b) : j = Len(a) + k
    BY <1>1, <1>3
  <2>2. c[i].id \in OutputIds(a) /\ c[j].id \in OutputIds(b)
    BY <1>1, <1>3, <2>1, IdsOfHistory
  <2> QED BY <2>2
<1>4. CASE i \notin 1..Len(a)
  <2>1. PICK k \in 1..Len(b) : i = Len(a) + k
    BY <1>1, <1>4
  <2>2. PICK l \in 1..Len(b) : j = Len(a) + l
    BY <1>1, <2>1
  <2>3. k # l /\ c[i] = b[k] /\ c[j] = b[l]
    BY <1>1, <2>1, <2>2
  <2> QED BY <1>1, <2>3 DEF OutputsApart
<1> QED BY <1>2, <1>3, <1>4

\* Items that are no outputs may follow if their calls are new.
LEMMA SoundItems ==
  ASSUME NEW a \in Seq(Items), NEW b \in Seq(Items), NEW n \in Nat, NEW m \in Nat, NEW s,
         Sound(a, n, s), n <= m, NoOutputs(b), CallsApart(b), OfStyle(b, s),
         CallsOf(b) \subseteq 1..m, CallsOf(b) \intersect CallsOf(a) = {},
         \A k \in DOMAIN b : ChatIds(b[k]) \intersect OutputIds(a) = {}
  PROVE  Sound(a \o b, m, s)
<1> DEFINE c == a \o b
<1>1. /\ Len(a) \in Nat /\ Len(b) \in Nat /\ DOMAIN c = 1..(Len(a) + Len(b))
      /\ DOMAIN a = 1..Len(a) /\ DOMAIN b = 1..Len(b)
      /\ \A i \in 1..Len(a) : c[i] = a[i]
      /\ \A i \in 1..Len(b) : c[Len(a) + i] = b[i]
      /\ \A i \in DOMAIN c : i \in 1..Len(a) \/ \E k \in 1..Len(b) : i = Len(a) + k
  BY ItemParts
<1>2. OutputIds(b) = {}
  BY DEF OutputIds, NoOutputs
<1>3. Given(c, m)
  <2>1. 1..n \subseteq 1..m
    OBVIOUS
  <2> QED BY <1>2, <2>1, CallsConcat, OutputsConcat DEF Given, Sound
<1> HIDE DEF c
<1>4. CallsApart(c)
  <2> SUFFICES ASSUME NEW i \in DOMAIN c, NEW j \in DOMAIN c, i < j
               PROVE  CallIds(c[i]) \intersect CallIds(c[j]) = {}
    <3>1. \A i, j \in DOMAIN c : i # j => i < j \/ j < i
      BY <1>1
    <3> QED BY <3>1 DEF CallsApart
  <2>1. CASE j \in 1..Len(a)
    <3>1. i \in 1..Len(a)
      BY <1>1, <2>1
    <3> QED BY <1>1, <2>1, <3>1 DEF Sound, CallsApart
  <2>2. CASE i \in 1..Len(a) /\ j \notin 1..Len(a)
    <3>1. PICK k \in 1..Len(b) : j = Len(a) + k
      BY <1>1, <2>2
    <3>2. c[i] = a[i] /\ c[j] = b[k]
      BY <1>1, <2>2, <3>1
    <3>3. CallIds(a[i]) \subseteq CallsOf(a) /\ CallIds(b[k]) \subseteq CallsOf(b)
      BY <1>1, <2>2, IdsOfHistory
    <3> QED BY <3>2, <3>3
  <2>3. CASE i \notin 1..Len(a)
    <3>1. PICK k \in 1..Len(b) : i = Len(a) + k
      BY <1>1, <2>3
    <3>2. PICK l \in 1..Len(b) : j = Len(a) + l
      BY <1>1, <3>1
    <3>3. k # l /\ c[i] = b[k] /\ c[j] = b[l]
      BY <1>1, <3>1, <3>2
    <3> QED BY <1>1, <3>3 DEF CallsApart
  <2> QED BY <2>1, <2>2, <2>3
<1>5. \A i \in DOMAIN c : IsOutput(c[i]) => i \in 1..Len(a)
  BY <1>1 DEF NoOutputs
<1>6. OutputsApart(c)
  <2>1. OutputsApart(b)
    BY DEF OutputsApart, NoOutputs
  <2> QED BY <1>2, <2>1, OutputsApartConcat DEF Sound, c
<1>7. OutputsFollow(c)
  <2> SUFFICES ASSUME NEW i \in DOMAIN c, NEW j \in DOMAIN c,
                      IsOutput(c[i]), c[i].id \in ChatIds(c[j])
               PROVE  j < i /\ \A k \in (j + 1)..i : IsOutput(c[k])
    BY DEF OutputsFollow
  <2>1. i \in 1..Len(a) /\ c[i] = a[i]
    BY <1>1, <1>5
  <2>2. j \in 1..Len(a)
    <3> SUFFICES ASSUME j \notin 1..Len(a) PROVE FALSE
      OBVIOUS
    <3>1. PICK k \in 1..Len(b) : j = Len(a) + k
      BY <1>1
    <3>2. c[i].id \in ChatIds(b[k]) /\ k \in DOMAIN b
      BY <1>1, <3>1
    <3>3. c[i].id \in OutputIds(a)
      BY <1>1, <2>1, IdsOfHistory
    <3> QED BY <3>2, <3>3
  <2>3. c[j] = a[j]
    BY <1>1, <2>2
  <2>4. j < i /\ \A k \in (j + 1)..i : IsOutput(a[k])
    BY <1>1, <2>1, <2>2, <2>3 DEF Sound, OutputsFollow
  <2>5. ASSUME NEW k \in (j + 1)..i PROVE IsOutput(c[k])
    <3>1. k \in 1..Len(a)
      BY <1>1, <2>1, <2>2
    <3> QED BY <1>1, <2>4, <3>1
  <2> QED BY <2>4, <2>5
<1>8. OfStyle(c, s)
  <2> SUFFICES ASSUME NEW i \in DOMAIN c
               PROVE  /\ c[i].kind \in CallKinds => c[i].kind = s
                      /\ c[i].kind = "custom_output" => s = "custom"
    BY DEF OfStyle
  <2>1. CASE i \in 1..Len(a)
    BY <1>1, <2>1 DEF Sound, OfStyle
  <2>2. CASE \E k \in 1..Len(b) : i = Len(a) + k
    <3>1. PICK k \in 1..Len(b) : i = Len(a) + k
      BY <2>2
    <3>2. c[i] = b[k] /\ k \in DOMAIN b
      BY <1>1, <3>1
    <3> QED BY <3>2 DEF OfStyle
  <2> QED BY <1>1, <2>1, <2>2
<1> QED BY <1>3, <1>4, <1>6, <1>7, <1>8 DEF Sound, c

\* Outputs of calls that are open may follow.
LEMMA SoundOutputs ==
  ASSUME NEW a \in Seq(Items), NEW b \in Seq(Items), NEW n \in Nat, NEW s,
         Sound(a, n, s), OnlyOutputs(b), OutputsApart(b), OutputIds(b) \subseteq 1..n,
         Open(a, OutputIds(b))
  PROVE  Sound(a \o b, n, s)
<1> DEFINE c == a \o b
<1>1. /\ Len(a) \in Nat /\ Len(b) \in Nat /\ DOMAIN c = 1..(Len(a) + Len(b))
      /\ DOMAIN a = 1..Len(a) /\ DOMAIN b = 1..Len(b)
      /\ \A i \in 1..Len(a) : c[i] = a[i]
      /\ \A i \in 1..Len(b) : c[Len(a) + i] = b[i]
      /\ \A i \in DOMAIN c : i \in 1..Len(a) \/ \E k \in 1..Len(b) : i = Len(a) + k
  BY ItemParts
<1>2. \A k \in 1..Len(b) : CallIds(b[k]) = {} /\ ChatIds(b[k]) = {}
  BY <1>1, IdsOfHistory DEF OnlyOutputs
<1>3. Given(c, n)
  <2>1. CallsOf(b) = {}
    BY <1>1, <1>2 DEF CallsOf
  <2> QED BY <2>1, CallsConcat, OutputsConcat DEF Given, Sound
<1> HIDE DEF c
<1>4. CallsApart(c)
  <2> SUFFICES ASSUME NEW i \in DOMAIN c, NEW j \in DOMAIN c, i # j
               PROVE  CallIds(c[i]) \intersect CallIds(c[j]) = {}
    BY DEF CallsApart
  <2>1. CASE i \in 1..Len(a) /\ j \in 1..Len(a)
    BY <1>1, <2>1 DEF Sound, CallsApart
  <2>2. CASE i \notin 1..Len(a)
    BY <1>1, <1>2, <2>2
  <2>3. CASE j \notin 1..Len(a)
    BY <1>1, <1>2, <2>3
  <2> QED BY <2>1, <2>2, <2>3
<1>5. OutputsApart(c)
  BY OutputsApartConcat DEF Sound, Open, c
<1>6. OutputsFollow(c)
  <2> SUFFICES ASSUME NEW i \in DOMAIN c, NEW j \in DOMAIN c,
                      IsOutput(c[i]), c[i].id \in ChatIds(c[j])
               PROVE  j < i /\ \A k \in (j + 1)..i : IsOutput(c[k])
    BY DEF OutputsFollow
  <2>1. j \in 1..Len(a) /\ c[j] = a[j]
    BY <1>1, <1>2
  <2>2. CASE i \in 1..Len(a)
    <3>1. j < i /\ \A k \in (j + 1)..i : IsOutput(a[k])
      BY <1>1, <2>1, <2>2 DEF Sound, OutputsFollow
    <3>2. ASSUME NEW k \in (j + 1)..i PROVE IsOutput(c[k])
      <4>1. k \in 1..Len(a)
        BY <1>1, <2>1, <2>2
      <4> QED BY <1>1, <3>1, <4>1
    <3> QED BY <3>1, <3>2
  <2>3. CASE i \notin 1..Len(a)
    <3>1. PICK l \in 1..Len(b) : i = Len(a) + l
      BY <1>1, <2>3
    <3>2. c[i].id \in OutputIds(b)
      BY <1>1, <3>1, IdsOfHistory
    <3>3. \A k \in (j + 1)..Len(a) : IsOutput(a[k])
      BY <1>1, <2>1, <3>2 DEF Open
    <3>4. ASSUME NEW k \in (j + 1)..i PROVE IsOutput(c[k])
      <4>1. k \in DOMAIN c
        BY <1>1, <2>1
      <4>2. CASE k \in 1..Len(a)
        <5>1. k \in (j + 1)..Len(a)
          BY <1>1, <2>1, <4>2
        <5> QED BY <1>1, <3>3, <4>2, <5>1
      <4>3. CASE k \notin 1..Len(a)
        BY <1>1, <4>1, <4>3 DEF OnlyOutputs
      <4> QED BY <4>2, <4>3
    <3> QED BY <1>1, <2>1, <3>1, <3>4
  <2> QED BY <2>2, <2>3
<1>7. OfStyle(c, s)
  <2>1. \A k \in 1..Len(b) : b[k].kind = "output"
    BY <1>1 DEF OnlyOutputs, IsOutput
  <2> QED BY <1>1, <2>1 DEF Sound, OfStyle, CallKinds
<1> QED BY <1>3, <1>4, <1>5, <1>6, <1>7 DEF Sound, c

\* Calls stay open while other outputs follow.
LEMMA OpenOutputs ==
  ASSUME NEW a \in Seq(Items), NEW b \in Seq(Items), NEW S, NEW R \in SUBSET S,
         Open(a, S), OnlyOutputs(b), OutputIds(b) \intersect R = {}
  PROVE  Open(a \o b, R)
<1> DEFINE c == a \o b
<1>1. /\ Len(a) \in Nat /\ Len(b) \in Nat /\ DOMAIN c = 1..(Len(a) + Len(b))
      /\ Len(c) = Len(a) + Len(b)
      /\ DOMAIN a = 1..Len(a) /\ DOMAIN b = 1..Len(b)
      /\ \A i \in 1..Len(a) : c[i] = a[i]
      /\ \A i \in 1..Len(b) : c[Len(a) + i] = b[i]
      /\ \A i \in DOMAIN c : i \in 1..Len(a) \/ \E k \in 1..Len(b) : i = Len(a) + k
  BY ItemParts
<1>2. R \intersect OutputIds(c) = {}
  BY OutputsConcat DEF Open
<1>3. \A k \in 1..Len(b) : ChatIds(b[k]) = {}
  BY <1>1, IdsOfHistory DEF OnlyOutputs
<1> HIDE DEF c
<1>4. ASSUME NEW j \in DOMAIN c, ChatIds(c[j]) \intersect R # {}, NEW k \in (j + 1)..Len(c)
      PROVE  IsOutput(c[k])
  <2>1. j \in 1..Len(a) /\ c[j] = a[j]
    BY <1>1, <1>3, <1>4
  <2>2. \A l \in (j + 1)..Len(a) : IsOutput(a[l])
    BY <1>1, <1>4, <2>1 DEF Open
  <2>3. k \in DOMAIN c
    BY <1>1, <2>1
  <2>4. CASE k \in 1..Len(a)
    <3>1. k \in (j + 1)..Len(a)
      BY <1>1, <2>1, <2>4
    <3> QED BY <1>1, <2>2, <2>4, <3>1
  <2>5. CASE k \notin 1..Len(a)
    BY <1>1, <2>3, <2>5 DEF OnlyOutputs
  <2> QED BY <2>4, <2>5
<1> QED BY <1>2, <1>4 DEF Open, c

\* The calls of a last item are open.
LEMMA OpenItems ==
  ASSUME NEW a \in Seq(Items), NEW b \in Seq(Items), NEW S,
         S \intersect (CallsOf(a) \union OutputIds(a)) = {}, NoOutputs(b),
         \A j \in 1..(Len(b) - 1) : ChatIds(b[j]) \intersect S = {}
  PROVE  Open(a \o b, S)
<1> DEFINE c == a \o b
<1>1. /\ Len(a) \in Nat /\ Len(b) \in Nat /\ DOMAIN c = 1..(Len(a) + Len(b))
      /\ Len(c) = Len(a) + Len(b)
      /\ DOMAIN a = 1..Len(a) /\ DOMAIN b = 1..Len(b)
      /\ \A i \in 1..Len(a) : c[i] = a[i]
      /\ \A i \in 1..Len(b) : c[Len(a) + i] = b[i]
      /\ \A i \in DOMAIN c : i \in 1..Len(a) \/ \E k \in 1..Len(b) : i = Len(a) + k
  BY ItemParts
<1>2. S \intersect OutputIds(c) = {}
  <2>1. OutputIds(b) = {}
    BY DEF OutputIds, NoOutputs
  <2> QED BY <2>1, OutputsConcat
<1> HIDE DEF c
<1>3. ASSUME NEW j \in DOMAIN c, ChatIds(c[j]) \intersect S # {} PROVE j = Len(c)
  <2>1. j \notin 1..Len(a)
    <3> SUFFICES ASSUME j \in 1..Len(a) PROVE FALSE
      OBVIOUS
    <3>1. ChatIds(c[j]) \subseteq CallsOf(a)
      BY <1>1, IdsOfHistory
    <3> QED BY <1>3, <3>1
  <2>2. PICK k \in 1..Len(b) : j = Len(a) + k
    BY <1>1, <2>1
  <2>3. k \notin 1..(Len(b) - 1)
    BY <1>1, <1>3, <2>2
  <2>4. Len(b) \in Nat
    BY <1>1
  <2>5. k = Len(b)
    BY <2>3, <2>4
  <2> QED BY <1>1, <2>2, <2>5
<1>4. \A k \in (Len(c) + 1)..Len(c) : FALSE
  BY <1>1
<1> QED BY <1>2, <1>3, <1>4 DEF Open, c

---------------------------------------------------------------------------
(* Prompts *)

\* Each output is behind the item of its call and other outputs.
Owned(p) ==
    \A i \in DOMAIN p : IsOutput(p[i]) =>
      \E j \in 1..(i - 1) : /\ p[i].id \in CallIds(p[j])
                            /\ \A k \in (j + 1)..i : IsOutput(p[k])

\* All calls but those in M have their output.
Pairs(p, M) ==
    /\ M \subseteq CallsOf(p) /\ M \intersect OutputIds(p) = {}
    /\ CallsOf(p) \subseteq M \union OutputIds(p)
    /\ OutputsApart(p) /\ Owned(p)

\* The calls in S are those of the last item that is no output.
LastCalls(p, S) ==
    S # {} => \E j \in DOMAIN p : /\ S \subseteq CallIds(p[j])
                                  /\ \A k \in (j + 1)..Len(p) : IsOutput(p[k])

LEMMA OwnedOutputs ==
  ASSUME NEW p \in Seq(Items), Owned(p)
  PROVE  OutputIds(p) \subseteq CallsOf(p)
<1> SUFFICES ASSUME NEW i \in DOMAIN p, IsOutput(p[i]) PROVE p[i].id \in CallsOf(p)
  BY DEF OutputIds
<1>1. PICK j \in 1..(i - 1) : p[i].id \in CallIds(p[j])
  BY DEF Owned
<1>2. j \in DOMAIN p
  OBVIOUS
<1> QED BY <1>1, <1>2, IdsOfHistory

\* Outputs of calls that miss them may follow the item of the calls.
LEMMA PairsOutputs ==
  ASSUME NEW a \in Seq(Items), NEW b \in Seq(Items), NEW M, NEW S,
         Pairs(a, M), LastCalls(a, S), OnlyOutputs(b), OutputsApart(b),
         OutputIds(b) \subseteq M, OutputIds(b) \subseteq S
  PROVE  Pairs(a \o b, M \ OutputIds(b)) /\ LastCalls(a \o b, S)
<1> DEFINE c == a \o b
<1>1. /\ Len(a) \in Nat /\ Len(b) \in Nat /\ DOMAIN c = 1..(Len(a) + Len(b))
      /\ Len(c) = Len(a) + Len(b)
      /\ DOMAIN a = 1..Len(a) /\ DOMAIN b = 1..Len(b)
      /\ \A i \in 1..Len(a) : c[i] = a[i]
      /\ \A i \in 1..Len(b) : c[Len(a) + i] = b[i]
      /\ \A i \in DOMAIN c : i \in 1..Len(a) \/ \E k \in 1..Len(b) : i = Len(a) + k
  BY ItemParts
<1>2. CallsOf(c) = CallsOf(a) /\ OutputIds(c) = OutputIds(a) \union OutputIds(b)
  <2>1. CallsOf(b) = {}
    BY IdsOfHistory DEF OnlyOutputs, CallsOf
  <2>2. CallsOf(c) = CallsOf(a) \union CallsOf(b)
    BY CallsConcat
  <2>3. OutputIds(c) = OutputIds(a) \union OutputIds(b)
    BY OutputsConcat
  <2> HIDE DEF c
  <2> QED BY <2>1, <2>2, <2>3
<1>3. OutputsApart(c)
  BY OutputsApartConcat DEF Pairs
<1> HIDE DEF c
<1>4. \A k \in (Len(a) + 1)..Len(c) : IsOutput(c[k])
  <2> SUFFICES ASSUME NEW k \in (Len(a) + 1)..Len(c) PROVE IsOutput(c[k])
    OBVIOUS
  <2>1. k \in DOMAIN c /\ k \notin 1..Len(a)
    BY <1>1
  <2>2. PICK l \in 1..Len(b) : k = Len(a) + l
    BY <1>1, <2>1
  <2> QED BY <1>1, <2>2 DEF OnlyOutputs
<1>5. LastCalls(c, S)
  <2> SUFFICES ASSUME S # {}
               PROVE  \E j \in DOMAIN c : /\ S \subseteq CallIds(c[j])
                                          /\ \A k \in (j + 1)..Len(c) : IsOutput(c[k])
    BY DEF LastCalls
  <2>1. PICK j \in DOMAIN a : /\ S \subseteq CallIds(a[j])
                              /\ \A k \in (j + 1)..Len(a) : IsOutput(a[k])
    BY DEF LastCalls
  <2>2. j \in DOMAIN c /\ c[j] = a[j] /\ j \in 1..Len(a)
    BY <1>1
  <2>3. ASSUME NEW k \in (j + 1)..Len(c) PROVE IsOutput(c[k])
    <3>1. CASE k \in 1..Len(a)
      <4>1. k \in (j + 1)..Len(a)
        BY <1>1, <2>2, <3>1
      <4> QED BY <1>1, <2>1, <3>1, <4>1
    <3>2. CASE k \notin 1..Len(a)
      <4>1. k \in (Len(a) + 1)..Len(c)
        BY <1>1, <2>2, <3>2
      <4> QED BY <1>4, <4>1
    <3> QED BY <3>1, <3>2
  <2> QED BY <2>1, <2>2, <2>3
<1>6. Owned(c)
  <2> SUFFICES ASSUME NEW i \in DOMAIN c, IsOutput(c[i])
               PROVE  \E j \in 1..(i - 1) : /\ c[i].id \in CallIds(c[j])
                                            /\ \A k \in (j + 1)..i : IsOutput(c[k])
    BY DEF Owned
  <2>1. CASE i \in 1..Len(a)
    <3>1. PICK j \in 1..(i - 1) : /\ a[i].id \in CallIds(a[j])
                                  /\ \A k \in (j + 1)..i : IsOutput(a[k])
      BY <1>1, <2>1 DEF Pairs, Owned
    <3>2. j \in 1..Len(a) /\ c[j] = a[j] /\ c[i] = a[i]
      BY <1>1, <2>1
    <3>3. ASSUME NEW k \in (j + 1)..i PROVE IsOutput(c[k])
      <4>1. k \in 1..Len(a)
        BY <1>1, <2>1, <3>2
      <4> QED BY <1>1, <3>1, <4>1
    <3> QED BY <3>1, <3>2, <3>3
  <2>2. CASE i \notin 1..Len(a)
    <3>1. PICK l \in 1..Len(b) : i = Len(a) + l
      BY <1>1, <2>2
    <3>2. c[i].id \in OutputIds(b)
      BY <1>1, <3>1, IdsOfHistory
    <3>3. PICK j \in DOMAIN c : /\ S \subseteq CallIds(c[j])
                                /\ \A k \in (j + 1)..Len(c) : IsOutput(c[k])
      BY <1>5, <3>2 DEF LastCalls
    <3>4. c[i].id \in CallIds(c[j])
      BY <3>2, <3>3
    <3>5. j < i
      <4> SUFFICES ASSUME ~(j < i) PROVE FALSE
        OBVIOUS
      <4>1. j \notin 1..Len(a) /\ j \in DOMAIN c
        BY <1>1, <3>1
      <4>2. PICK m \in 1..Len(b) : j = Len(a) + m
        BY <1>1, <4>1
      <4>3. c[j] = b[m] /\ m \in DOMAIN b
        BY <1>1, <4>2
      <4>4. CallIds(b[m]) = {}
        BY <4>3, IdsOfHistory DEF OnlyOutputs
      <4> QED BY <3>4, <4>3, <4>4
    <3>6. j \in 1..(i - 1) /\ \A k \in (j + 1)..i : k \in (j + 1)..Len(c)
      BY <1>1, <3>5
    <3> QED BY <3>3, <3>4, <3>6
  <2> QED BY <2>1, <2>2
<1> QED BY <1>2, <1>3, <1>5, <1>6 DEF Pairs, c

\* Another item may follow when no call misses its output.
LEMMA PairsItem ==
  ASSUME NEW a \in Seq(Items), NEW x \in Items, Pairs(a, {}), ~IsOutput(x),
         CallIds(x) \intersect CallsOf(a) = {}
  PROVE  Pairs(a \o <<x>>, CallIds(x)) /\ LastCalls(a \o <<x>>, CallIds(x))
<1> DEFINE b == <<x>>
           c == a \o b
<1>1. b \in Seq(Items) /\ Len(b) = 1 /\ b[1] = x /\ DOMAIN b = {1}
  OBVIOUS
<1> HIDE DEF b
<1>2. /\ Len(a) \in Nat /\ DOMAIN c = 1..(Len(a) + 1)
      /\ Len(c) = Len(a) + 1 /\ DOMAIN a = 1..Len(a)
      /\ \A i \in 1..Len(a) : c[i] = a[i]
      /\ c[Len(a) + 1] = x
  <2>1. /\ Len(a) \in Nat /\ DOMAIN c = 1..(Len(a) + Len(b))
        /\ Len(c) = Len(a) + Len(b) /\ DOMAIN a = 1..Len(a)
        /\ \A i \in 1..Len(a) : c[i] = a[i]
        /\ \A i \in 1..Len(b) : c[Len(a) + i] = b[i]
    <3>1. a \in Seq(Items) /\ b \in Seq(Items)
      BY <1>1
    <3> QED BY ONLY <3>1, Parts
  <2>2. 1 \in 1..Len(b)
    BY <1>1
  <2> HIDE DEF c
  <2> QED BY <1>1, <2>1, <2>2
<1>3. CallsOf(c) = CallsOf(a) \union CallIds(x) /\ OutputIds(c) = OutputIds(a)
  <2>1. CallsOf(b) = CallIds(x) /\ OutputIds(b) = {}
    BY <1>1 DEF CallsOf, OutputIds
  <2>2. CallsOf(c) = CallsOf(a) \union CallsOf(b)
    BY <1>1, CallsConcat
  <2>3. OutputIds(c) = OutputIds(a) \union OutputIds(b)
    BY <1>1, OutputsConcat
  <2> HIDE DEF c
  <2> QED BY <2>1, <2>2, <2>3
<1>4. OutputsApart(c)
  <2>1. OutputsApart(b) /\ OutputIds(b) = {}
    BY <1>1 DEF OutputsApart, OutputIds
  <2> QED BY <1>1, <2>1, OutputsApartConcat DEF Pairs
<1> HIDE DEF c
<1>5. LastCalls(c, CallIds(x))
  <2>1. Len(a) + 1 \in DOMAIN c /\ \A k \in (Len(a) + 1 + 1)..Len(c) : FALSE
    BY <1>2
  <2> QED BY <1>2, <2>1 DEF LastCalls
<1>6. Owned(c)
  <2> SUFFICES ASSUME NEW i \in DOMAIN c, IsOutput(c[i])
               PROVE  \E j \in 1..(i - 1) : /\ c[i].id \in CallIds(c[j])
                                            /\ \A k \in (j + 1)..i : IsOutput(c[k])
    BY DEF Owned
  <2>1. i \in 1..Len(a)
    <3>1. i # Len(a) + 1
      BY <1>2
    <3> QED BY <1>2, <3>1
  <2>2. PICK j \in 1..(i - 1) : /\ a[i].id \in CallIds(a[j])
                                /\ \A k \in (j + 1)..i : IsOutput(a[k])
    BY <1>2, <2>1 DEF Pairs, Owned
  <2>3. j \in 1..Len(a) /\ c[j] = a[j] /\ c[i] = a[i]
    BY <1>2, <2>1
  <2>4. ASSUME NEW k \in (j + 1)..i PROVE IsOutput(c[k])
    <3>1. k \in 1..Len(a)
      BY <1>2, <2>1, <2>3
    <3> QED BY <1>2, <2>2, <3>1
  <2> QED BY <2>2, <2>3, <2>4
<1>7. CallIds(x) \intersect OutputIds(c) = {}
  BY <1>3, OwnedOutputs DEF Pairs
<1> QED BY <1>3, <1>4, <1>5, <1>6, <1>7 DEF Pairs, b, c

\* Outputs(S, state): one output for each call in S.
LEMMA OutputsFacts ==
  ASSUME NEW S \in SUBSET (1..MaxCalls), NEW state \in {"result", "refused", "interrupted", "placeholder"}
  PROVE  /\ Outputs(S, state) \in Seq(Items) /\ OnlyOutputs(Outputs(S, state))
         /\ OutputsApart(Outputs(S, state)) /\ OutputIds(Outputs(S, state)) = S
         /\ \A i \in DOMAIN Outputs(S, state) : Outputs(S, state)[i].state = state
<1> DEFINE s == [id \in 1..MaxCalls |-> Output("output", id, state)]
           r == Outputs(S, state)
<1>1. MaxCalls \in Nat
  BY TurnBounds
<1>2. \A id \in 1..MaxCalls : s[id] \in Items /\ IsOutput(s[id]) /\ s[id].id = id
                              /\ s[id].state = state
  BY DEF Output, Items, IsOutput
<1>3. s \in Seq(Items) /\ Len(s) = MaxCalls
  <2> HIDE DEF s
  <2>1. DOMAIN s = 1..MaxCalls
    BY DEF s
  <2>2. s = [i \in 1..MaxCalls |-> s[i]]
    BY DEF s
  <2> QED BY <1>1, <1>2, <2>1, <2>2
<1>4. r = Sub(s, S)
  BY DEF Outputs
<1> HIDE DEF s, r
<1>5. r \in Seq(Items)
  BY <1>3, <1>4, SubType
<1>6. PICK p : Positions(s, S, Len(s), r, p)
  BY <1>3, <1>4, SubPositions
<1>7. \A k \in 1..Len(r) : p[k] \in S /\ p[k] \in 1..MaxCalls /\ r[k] = s[p[k]]
  BY <1>3, <1>6 DEF Positions
<1>8. \A k \in 1..Len(r) : IsOutput(r[k]) /\ r[k].id = p[k] /\ r[k].state = state
  BY <1>2, <1>7
<1>9. DOMAIN r = 1..Len(r) /\ Len(r) \in Nat
  BY <1>5
<1>10. OutputsApart(r)
  <2> SUFFICES ASSUME NEW i \in 1..Len(r), NEW j \in 1..Len(r), p[i] = p[j], i < j
               PROVE  FALSE
    BY <1>8, <1>9 DEF OutputsApart
  <2>1. p[i] < p[j] /\ p[i] \in Int
    BY <1>6, <1>7 DEF Positions
  <2> QED BY <2>1
<1>11. OutputIds(r) = S
  <2>1. \A id \in S : \E k \in 1..Len(r) : p[k] = id
    BY <1>3, <1>6 DEF Positions
  <2>2. OutputIds(r) \subseteq S
    BY <1>7, <1>8, <1>9 DEF OutputIds
  <2>3. ASSUME NEW id \in S PROVE id \in OutputIds(r)
    <3>1. PICK k \in 1..Len(r) : p[k] = id
      BY <2>1
    <3> QED BY <1>8, <1>9, <3>1 DEF OutputIds
  <2> QED BY <2>2, <2>3
<1> QED BY <1>5, <1>8, <1>9, <1>10, <1>11 DEF r, OnlyOutputs

LEMMA InterruptedFacts ==
  ASSUME NEW S \in SUBSET (1..MaxCalls)
  PROVE  /\ Interrupted(S) \in Seq(Items) /\ OnlyOutputs(Interrupted(S))
         /\ OutputsApart(Interrupted(S)) /\ OutputIds(Interrupted(S)) = S
         /\ \A i \in DOMAIN Interrupted(S) : Interrupted(S)[i].state = "interrupted"
  BY OutputsFacts DEF Interrupted

\* The block of a position is that of the one before it, or begins with it.
LEMMA BlockStep ==
  ASSUME NEW h \in Seq(Items), NEW n \in Nat, n + 1 \in DOMAIN h
  PROVE  /\ IsOutput(h[n + 1]) => Block(h, n + 1) = Block(h, n) \union {n + 1}
         /\ ~IsOutput(h[n + 1]) => Block(h, n + 1) = {n + 1}
<1>1. ASSUME IsOutput(h[n + 1]), NEW i \in 1..n
      PROVE  (\A k \in (i + 1)..(n + 1) : IsOutput(h[k])) <=> (\A k \in (i + 1)..n : IsOutput(h[k]))
  <2>1. (i + 1)..(n + 1) = ((i + 1)..n) \union {n + 1}
    OBVIOUS
  <2> QED BY <1>1, <2>1
<1>2. \A k \in (n + 2)..(n + 1) : FALSE
  OBVIOUS
<1>3. ASSUME ~IsOutput(h[n + 1]), NEW i \in 1..n
      PROVE  ~(\A k \in (i + 1)..(n + 1) : IsOutput(h[k]))
  <2>1. n + 1 \in (i + 1)..(n + 1)
    OBVIOUS
  <2> QED BY <1>3, <2>1
<1>4. 1..(n + 1) = (1..n) \union {n + 1} /\ n + 1 + 1 = n + 2
  OBVIOUS
<1> QED BY <1>1, <1>2, <1>3, <1>4 DEF Block

LEMMA BlockEmpty == \A h : Block(h, 0) = {}
  BY DEF Block

\* The calls of a block, and those of them that miss their output.
LEMMA MissingStep ==
  ASSUME NEW h \in Seq(Items), NEW n \in Nat, n + 1 \in DOMAIN h, NEW K \in SUBSET CallKinds
  PROVE  /\ IsOutput(h[n + 1]) =>
              /\ Own(h, n + 1, K) = Own(h, n, K)
              /\ Missing(h, n + 1, K) = Missing(h, n, K) \ {h[n + 1].id}
         /\ ~IsOutput(h[n + 1]) =>
              /\ Own(h, n + 1, K) = IF h[n + 1].kind \in K THEN h[n + 1].ids ELSE {}
              /\ Missing(h, n + 1, K) = Own(h, n + 1, K)
<1>1. CASE IsOutput(h[n + 1])
  <2>1. Block(h, n + 1) = Block(h, n) \union {n + 1} /\ h[n + 1].kind \notin K
    BY <1>1, BlockStep DEF IsOutput, CallKinds
  <2>2. Own(h, n + 1, K) = Own(h, n, K)
    BY <2>1 DEF Own
  <2> QED BY <1>1, <2>1, <2>2 DEF Missing
<1>2. CASE ~IsOutput(h[n + 1])
  <2>1. Block(h, n + 1) = {n + 1}
    BY <1>2, BlockStep
  <2> QED BY <1>2, <2>1 DEF Missing, Own
<1> QED BY <1>1, <1>2

LEMMA MissingEmpty == \A h, K : Own(h, 0, K) = {} /\ Missing(h, 0, K) = {}
  BY BlockEmpty DEF Own, Missing

LEMMA OwnType ==
  ASSUME NEW h \in Seq(Items), NEW n \in 0..Len(h), NEW K \in SUBSET CallKinds
  PROVE  Own(h, n, K) \subseteq 1..MaxCalls /\ Missing(h, n, K) \subseteq Own(h, n, K)
<1>1. ASSUME NEW i \in Block(h, n), h[i].kind \in K PROVE h[i].ids \subseteq 1..MaxCalls
  <2>1. i \in DOMAIN h
    BY DEF Block
  <2>2. h[i] \in Items /\ h[i].kind \in CallKinds
    BY <1>1, <2>1
  <2> QED BY <2>2, ItemFields
<1> QED BY <1>1 DEF Own, Missing

\* What for_prompt shows of each position, added up.
ShownParts(h) == [n \in 1..Len(h) |-> Shown(h, n)]

LEMMA ShownType ==
  ASSUME NEW h \in Seq(Items), NEW n \in 1..Len(h)
  PROVE  Shown(h, n) \in Seq(Items)
<1>1. h[n] \in Items /\ n - 1 \in 0..Len(h) /\ <<h[n]>> \in Seq(Items) /\ <<>> \in Seq(Items)
  OBVIOUS
<1>2. Interrupted(Missing(h, n - 1, CallKinds)) \in Seq(Items)
  <2>1. Missing(h, n - 1, CallKinds) \subseteq 1..MaxCalls
    BY <1>1, OwnType
  <2> QED BY <2>1, InterruptedFacts
<1>3. Interrupted(Missing(h, n - 1, CallKinds)) \o <<h[n]>> \in Seq(Items)
  BY <1>1, <1>2, ConcatProperties
<1> QED BY <1>1, <1>3 DEF Shown

LEMMA ShownSteps ==
  ASSUME NEW h \in Seq(Items)
  PROVE  \E f : JoinedSteps(Items, ShownParts(h), Len(h), AllShown(h), f)
<1>1. Len(h) \in Nat
  OBVIOUS
<1> DEFINE q == ShownParts(h)
           Solves(g) == g = [k \in 0..Len(h) |-> IF k = 0 THEN <<>>
                                                 ELSE g[k - 1] \o Shown(h, k)]
           f == CHOOSE g : Solves(g)
<1>2. \A n \in 1..Len(h) : q[n] \in Seq(Items)
  BY ShownType DEF ShownParts
<1>3. \A g : Joins(q, Len(h), g) <=> Solves(g)
  <2> TAKE g
  <2>1. ASSUME NEW k \in 0..Len(h)
        PROVE  (IF k = 0 THEN <<>> ELSE g[k - 1] \o q[k])
                 = (IF k = 0 THEN <<>> ELSE g[k - 1] \o Shown(h, k))
    <3>1. CASE k = 0
      BY <3>1
    <3>2. CASE k # 0
      <4>1. k \in 1..Len(h)
        BY <1>1, <3>2
      <4>2. q[k] = Shown(h, k)
        BY <4>1 DEF ShownParts
      <4> HIDE DEF q
      <4> QED BY <3>2, <4>2
    <3> QED BY <3>1, <3>2
  <2> HIDE DEF q
  <2>2. [k \in 0..Len(h) |-> IF k = 0 THEN <<>> ELSE g[k - 1] \o q[k]]
          = [k \in 0..Len(h) |-> IF k = 0 THEN <<>> ELSE g[k - 1] \o Shown(h, k)]
    BY <2>1
  <2> QED BY <2>2 DEF Joins
<1>4. AllShown(h) = f[Len(h)]
  BY DEF AllShown, Joined
<1> HIDE DEF q, Solves
<1>5. \E g : Solves(g)
  BY <1>1, <1>3, JoinsExist
<1>6. Solves(f)
  BY <1>5
<1> HIDE DEF f
<1>7. JoinedSteps(Items, q, Len(h), f[Len(h)], f)
  BY <1>1, <1>2, <1>3, <1>6, JoinsSteps
<1> QED BY <1>4, <1>7 DEF q

\* One position more is shown.
LEMMA ShownStep ==
  ASSUME NEW h \in Seq(Items), NEW f,
         JoinedSteps(Items, ShownParts(h), Len(h), AllShown(h), f),
         NEW n \in 0..(Len(h) - 1)
  PROVE  f[n] \in Seq(Items) /\ f[n + 1] = f[n] \o Shown(h, n + 1)
<1>1. n + 1 \in 1..Len(h) /\ n + 1 - 1 = n /\ n \in 0..Len(h)
  OBVIOUS
<1>2. IsJoin(f[n + 1], f[n], ShownParts(h)[n + 1])
  BY <1>1 DEF JoinedSteps
<1>3. ShownParts(h)[n + 1] = Shown(h, n + 1)
  BY <1>1 DEF ShownParts
<1>4. f[n] \in Seq(Items)
  BY <1>1 DEF JoinedSteps
<1> QED BY <1>2, <1>3, <1>4 DEF IsJoin

\* A prompt compiled from a sound history is paired.
LEMMA PromptPairs ==
  ASSUME NEW h \in Seq(Items), CallsApart(h), OutputsApart(h)
  PROVE  /\ NormalizeForPrompt(h) \in Seq(Items) /\ Pairs(NormalizeForPrompt(h), {})
         /\ AllShown(h) \in Seq(Items)
<1>1. Len(h) \in Nat /\ DOMAIN h = 1..Len(h)
  OBVIOUS
<1>2. PICK f : JoinedSteps(Items, ShownParts(h), Len(h), AllShown(h), f)
  BY ShownSteps
<1> DEFINE To(n) == UNION {CallIds(h[i]) : i \in 1..n}
           S == {n \in Nat : /\ Pairs(f[n], Missing(h, n, CallKinds))
                             /\ LastCalls(f[n], Own(h, n, CallKinds))
                             /\ CallsOf(f[n]) \subseteq To(n)}
<1>3. 0 \in S
  <2>1. f[0] = <<>> /\ DOMAIN f[0] = {}
    BY <1>2 DEF JoinedSteps
  <2>2. Own(h, 0, CallKinds) = {} /\ Missing(h, 0, CallKinds) = {}
    BY MissingEmpty
  <2>3. CallsOf(f[0]) = {} /\ OutputIds(f[0]) = {}
    BY <2>1 DEF CallsOf, OutputIds
  <2>4. OutputsApart(f[0]) /\ Owned(f[0]) /\ LastCalls(f[0], {})
    BY <2>1 DEF OutputsApart, Owned, LastCalls
  <2> QED BY <2>2, <2>3, <2>4 DEF Pairs
<1>4. ASSUME NEW n \in 0..(Len(h) - 1), n \in S PROVE n + 1 \in S
  <2> DEFINE x == h[n + 1]
             M == Missing(h, n, CallKinds)
             O == Own(h, n, CallKinds)
  <2>1. /\ n + 1 \in DOMAIN h /\ n \in Nat /\ n \in 0..Len(h) /\ x \in Items
        /\ n + 1 - 1 = n /\ n + 1 \in Nat
    BY <1>1
  <2>2. f[n] \in Seq(Items) /\ f[n + 1] = f[n] \o Shown(h, n + 1)
    BY <1>2, ShownStep
  <2>3. Pairs(f[n], M) /\ LastCalls(f[n], O) /\ CallsOf(f[n]) \subseteq To(n)
    BY <1>4
  <2>4. M \subseteq O /\ O \subseteq 1..MaxCalls
    BY <2>1, OwnType
  <2>5. To(n) \subseteq To(n + 1) /\ CallIds(x) \subseteq To(n + 1)
    <3>1. 1..n \subseteq 1..(n + 1) /\ n + 1 \in 1..(n + 1)
      BY <2>1
    <3> QED BY <3>1
  <2> HIDE DEF To
  <2>6. CASE IsOutput(x)
    <3>1. /\ Own(h, n + 1, CallKinds) = O
          /\ Missing(h, n + 1, CallKinds) = M \ {x.id}
      BY <2>1, <2>6, MissingStep
    <3>2. CASE x.id \in O
      <4>1. x.id \in M
        <5> SUFFICES ASSUME x.id \notin M PROVE FALSE
          OBVIOUS
        <5>1. PICK i \in Block(h, n) : IsOutput(h[i]) /\ h[i].id = x.id
          BY <3>2 DEF Missing
        <5>2. i \in 1..n
          BY <5>1 DEF Block
        <5>3. i \in DOMAIN h /\ i # n + 1
          BY <1>1, <5>2
        <5> QED BY <2>1, <2>6, <5>1, <5>3 DEF OutputsApart
      <4> DEFINE b == <<x>>
      <4>2. f[n + 1] = f[n] \o b
        BY <2>2, <2>6, <3>1, <3>2 DEF Shown
      <4>3. b \in Seq(Items) /\ DOMAIN b = {1} /\ b[1] = x
        BY <2>1
      <4> HIDE DEF b
      <4>4. OnlyOutputs(b) /\ OutputsApart(b) /\ OutputIds(b) = {x.id} /\ CallsOf(b) = {}
        <5>1. CallIds(x) = {}
          BY <2>1, <2>6, ItemFields
        <5> QED BY <2>6, <4>3, <5>1 DEF OnlyOutputs, OutputsApart, OutputIds, CallsOf
      <4>5. Pairs(f[n + 1], M \ {x.id}) /\ LastCalls(f[n + 1], O)
        <5>1. OutputIds(b) \subseteq M /\ OutputIds(b) \subseteq O
          BY <3>2, <4>1, <4>4
        <5>2. Pairs(f[n] \o b, M \ OutputIds(b)) /\ LastCalls(f[n] \o b, O)
          BY <2>2, <2>3, <4>3, <4>4, <5>1, PairsOutputs
        <5> QED BY <4>2, <4>4, <5>2
      <4>6. CallsOf(f[n + 1]) \subseteq To(n + 1)
        <5>1. CallsOf(f[n] \o b) = CallsOf(f[n]) \union CallsOf(b)
          BY <2>2, <4>3, CallsConcat
        <5> QED BY <2>3, <2>5, <4>2, <4>4, <5>1
      <4> QED BY <2>1, <3>1, <4>5, <4>6
    <3>3. CASE x.id \notin O
      <4>1. f[n + 1] = f[n]
        <5>1. Shown(h, n + 1) = <<>>
          BY <2>6, <3>1, <3>3 DEF Shown
        <5> QED BY <2>2, <5>1, ConcatEmptySeq
      <4>2. M \ {x.id} = M
        BY <2>4, <3>3
      <4> QED BY <2>1, <2>3, <2>5, <3>1, <4>1, <4>2
    <3> QED BY <3>2, <3>3
  <2>7. CASE ~IsOutput(x)
    <3>1. Own(h, n + 1, CallKinds) = CallIds(x) /\ Missing(h, n + 1, CallKinds) = CallIds(x)
      <4>1. /\ Own(h, n + 1, CallKinds) = IF x.kind \in CallKinds THEN x.ids ELSE {}
            /\ Missing(h, n + 1, CallKinds) = Own(h, n + 1, CallKinds)
        BY <2>1, <2>7, MissingStep
      <4> QED BY <4>1 DEF CallIds
    <3> DEFINE r == Interrupted(M)
    <3>2. /\ r \in Seq(Items) /\ OnlyOutputs(r) /\ OutputsApart(r) /\ OutputIds(r) = M
      BY <2>4, InterruptedFacts
    <3> HIDE DEF r
    <3>3. Pairs(f[n] \o r, {}) /\ f[n] \o r \in Seq(Items)
      <4>1. Pairs(f[n] \o r, M \ OutputIds(r))
        BY <2>2, <2>3, <2>4, <3>2, PairsOutputs
      <4> QED BY <2>2, <3>2, <4>1, ConcatProperties
    <3>4. CallsOf(f[n] \o r) \subseteq To(n)
      <4>1. CallsOf(r) = {}
        BY <3>2, IdsOfHistory DEF OnlyOutputs, CallsOf
      <4>2. CallsOf(f[n] \o r) = CallsOf(f[n]) \union CallsOf(r)
        BY <2>2, <3>2, CallsConcat
      <4> QED BY <2>3, <4>1, <4>2
    <3>5. CallIds(x) \intersect To(n) = {}
      <4>1. \A i \in 1..n : i \in DOMAIN h /\ i # n + 1
        BY <1>1
      <4>2. \A i \in 1..n : CallIds(h[i]) \intersect CallIds(x) = {}
        BY <2>1, <4>1 DEF CallsApart
      <4> QED BY <4>2 DEF To
    <3>6. f[n + 1] = (f[n] \o r) \o <<x>>
      <4>1. Shown(h, n + 1) = r \o <<x>>
        <5>1. Interrupted(Missing(h, n + 1 - 1, CallKinds)) = r
          BY <2>1 DEF r
        <5> QED BY <2>7, <5>1 DEF Shown
      <4>2. <<x>> \in Seq(Items)
        BY <2>1
      <4>3. Associates(f[n], r, <<x>>)
        BY <2>2, <3>2, <4>2, JoinAssociates
      <4> QED BY <2>2, <4>1, <4>3 DEF Associates
    <3>7. Pairs(f[n + 1], CallIds(x)) /\ LastCalls(f[n + 1], CallIds(x))
      <4>1. CallIds(x) \intersect CallsOf(f[n] \o r) = {}
        BY <3>4, <3>5
      <4> QED BY <2>1, <2>7, <3>3, <3>6, <4>1, PairsItem
    <3>8. CallsOf(f[n + 1]) \subseteq To(n + 1)
      <4>1. <<x>> \in Seq(Items) /\ CallsOf(<<x>>) = CallIds(x)
        BY <2>1 DEF CallsOf
      <4>2. CallsOf((f[n] \o r) \o <<x>>) = CallsOf(f[n] \o r) \union CallsOf(<<x>>)
        BY <3>3, <4>1, CallsConcat
      <4> QED BY <2>5, <3>4, <3>6, <4>1, <4>2
    <3> QED BY <2>1, <3>1, <3>7, <3>8
  <2> QED BY <2>6, <2>7
<1> HIDE DEF S
<1>5. 0..Len(h) \subseteq S
  BY <1>1, <1>3, <1>4, Induction
<1> DEFINE M == Missing(h, Len(h), CallKinds)
<1>6. /\ AllShown(h) \in Seq(Items) /\ Pairs(AllShown(h), M)
      /\ LastCalls(AllShown(h), Own(h, Len(h), CallKinds))
  <2>1. Len(h) \in S /\ Len(h) \in 0..Len(h)
    BY <1>1, <1>5
  <2>2. f[Len(h)] = AllShown(h) /\ f[Len(h)] \in Seq(Items)
    BY <1>2, <2>1 DEF JoinedSteps
  <2> QED BY <2>1, <2>2 DEF S
<1>7. M \subseteq Own(h, Len(h), CallKinds) /\ M \subseteq 1..MaxCalls
  BY <1>1, OwnType
<1>8. /\ Interrupted(M) \in Seq(Items) /\ OnlyOutputs(Interrupted(M))
      /\ OutputsApart(Interrupted(M)) /\ OutputIds(Interrupted(M)) = M
  BY <1>7, InterruptedFacts
<1>9. NormalizeForPrompt(h) = AllShown(h) \o Interrupted(M)
  BY DEF NormalizeForPrompt
<1> HIDE DEF M
<1>10. Pairs(NormalizeForPrompt(h), M \ OutputIds(Interrupted(M)))
  BY <1>6, <1>7, <1>8, <1>9, PairsOutputs
<1>11. NormalizeForPrompt(h) \in Seq(Items)
  BY <1>6, <1>8, <1>9, ConcatProperties
<1> QED BY <1>6, <1>8, <1>10, <1>11

\* Each output of a chat history that has its call is in the prompt.
LEMMA PromptShows ==
  ASSUME NEW h \in Seq(Items), CallsApart(h), OutputsApart(h), OutputsFollow(h),
         OfStyle(h, "chat")
  PROVE  OutputsAreShown(h, NormalizeForPrompt(h))
<1> SUFFICES ASSUME NEW i \in DOMAIN h, h[i].kind \in {"output", "custom_output"},
                    h[i].id \in CallsOf(h)
             PROVE  \E j \in DOMAIN NormalizeForPrompt(h) : NormalizeForPrompt(h)[j] = h[i]
  BY DEF OutputsAreShown
<1>1. Len(h) \in Nat /\ DOMAIN h = 1..Len(h) /\ i \in 1..Len(h)
  OBVIOUS
<1>2. IsOutput(h[i])
  BY DEF OfStyle, IsOutput
<1>3. h[i].id \in Own(h, i, CallKinds)
  <2>1. PICK j \in DOMAIN h : h[i].id \in CallIds(h[j])
    BY DEF CallsOf
  <2>2. h[j].kind = "chat" /\ h[i].id \in h[j].ids
    BY <2>1 DEF CallIds, OfStyle
  <2>3. j < i /\ \A k \in (j + 1)..i : IsOutput(h[k])
    BY <1>2, <2>2 DEF OutputsFollow, ChatIds
  <2>4. j \in Block(h, i)
    BY <1>1, <2>3 DEF Block
  <2> QED BY <2>2, <2>4 DEF Own, CallKinds
<1>4. Shown(h, i) = <<h[i]>>
  BY <1>2, <1>3 DEF Shown
<1>5. PICK f : JoinedSteps(Items, ShownParts(h), Len(h), AllShown(h), f)
  BY ShownSteps
<1> DEFINE S == {n \in Nat : n >= i => \E j \in DOMAIN f[n] : f[n][j] = h[i]}
<1>6. 0 \in S
  BY <1>1
<1>7. ASSUME NEW n \in 0..(Len(h) - 1), n \in S PROVE n + 1 \in S
  <2>1. f[n] \in Seq(Items) /\ f[n + 1] = f[n] \o Shown(h, n + 1)
    BY <1>5, ShownStep
  <2>2. n + 1 \in 1..Len(h) /\ n + 1 \in Nat
    BY <1>1
  <2> DEFINE b == Shown(h, n + 1)
  <2>3. b \in Seq(Items)
    BY <2>2, ShownType
  <2>4. /\ Len(f[n]) \in Nat /\ DOMAIN (f[n] \o b) = 1..(Len(f[n]) + Len(b))
        /\ DOMAIN f[n] = 1..Len(f[n]) /\ Len(b) \in Nat
        /\ \A k \in 1..Len(f[n]) : (f[n] \o b)[k] = f[n][k]
        /\ \A k \in 1..Len(b) : (f[n] \o b)[Len(f[n]) + k] = b[k]
    <3> HIDE DEF b
    <3>1. f[n] \in Seq(Items) /\ b \in Seq(Items)
      BY <2>1, <2>3
    <3> QED BY ONLY <3>1, Parts
  <2>5. CASE n >= i
    <3>1. PICK j \in DOMAIN f[n] : f[n][j] = h[i]
      BY <1>7, <2>5
    <3> HIDE DEF b
    <3>2. j \in DOMAIN (f[n] \o b) /\ (f[n] \o b)[j] = h[i]
      BY <2>4, <3>1
    <3> QED BY <2>1, <2>2, <3>2 DEF b
  <2>6. CASE n + 1 = i
    <3>1. b = <<h[i]>>
      BY <1>4, <2>6
    <3>2. Len(b) = 1 /\ b[1] = h[i]
      BY <3>1
    <3> HIDE DEF b
    <3>3. Len(f[n]) + 1 \in DOMAIN (f[n] \o b) /\ (f[n] \o b)[Len(f[n]) + 1] = h[i]
      BY <2>4, <3>2
    <3> QED BY <2>1, <2>2, <3>3 DEF b
  <2>7. CASE ~(n + 1 >= i)
    BY <2>2, <2>7
  <2> QED BY <1>1, <2>2, <2>5, <2>6, <2>7
<1> HIDE DEF S
<1>8. 0..Len(h) \subseteq S
  BY <1>1, <1>6, <1>7, Induction
<1>9. PICK j \in DOMAIN AllShown(h) : AllShown(h)[j] = h[i]
  <2>1. Len(h) \in S /\ Len(h) >= i
    BY <1>1, <1>8
  <2>2. f[Len(h)] = AllShown(h)
    BY <1>5 DEF JoinedSteps
  <2> QED BY <2>1, <2>2 DEF S
<1> DEFINE r == Interrupted(Missing(h, Len(h), CallKinds))
<1>10. AllShown(h) \in Seq(Items) /\ r \in Seq(Items)
  <2>1. Missing(h, Len(h), CallKinds) \subseteq 1..MaxCalls
    BY <1>1, OwnType
  <2> QED BY <2>1, PromptPairs, InterruptedFacts
<1>11. NormalizeForPrompt(h) = AllShown(h) \o r
  BY DEF NormalizeForPrompt
<1> HIDE DEF r
<1>12. j \in DOMAIN (AllShown(h) \o r) /\ (AllShown(h) \o r)[j] = AllShown(h)[j]
  BY <1>10
<1> QED BY <1>9, <1>11, <1>12

\* What is shown stays shown when items are added to the prompt.
LEMMA ShownMore ==
  ASSUME NEW h, NEW p \in Seq(Items), NEW q \in Seq(Items), OutputsAreShown(h, p)
  PROVE  OutputsAreShown(h, p \o q)
<1>1. DOMAIN p \subseteq DOMAIN (p \o q) /\ \A j \in DOMAIN p : (p \o q)[j] = p[j]
  OBVIOUS
<1> DEFINE c == p \o q
<1> HIDE DEF c
<1> QED BY <1>1 DEF OutputsAreShown, c

---------------------------------------------------------------------------
(* The repair of a history that was read back *)

RepairedParts(h) == [n \in 1..Len(h) |-> Repaired(h, n)]
RepairedAll(h) == Joined(Len(h), LAMBDA n : Repaired(h, n))

LEMMA RepairedType ==
  ASSUME NEW h \in Seq(Items), NEW n \in 1..Len(h)
  PROVE  Repaired(h, n) \in Seq(Items)
<1>1. h[n] \in Items /\ n - 1 \in 0..Len(h) /\ <<h[n]>> \in Seq(Items)
  OBVIOUS
<1>2. Interrupted(Missing(h, n - 1, {"chat"})) \in Seq(Items)
  <2>1. Missing(h, n - 1, {"chat"}) \subseteq 1..MaxCalls
    BY <1>1, OwnType DEF CallKinds
  <2> QED BY <2>1, InterruptedFacts
<1>3. Interrupted(Missing(h, n - 1, {"chat"})) \o <<h[n]>> \in Seq(Items)
  BY <1>1, <1>2, ConcatProperties
<1> QED BY <1>1, <1>3 DEF Repaired

LEMMA RepairedSteps ==
  ASSUME NEW h \in Seq(Items)
  PROVE  \E f : JoinedSteps(Items, RepairedParts(h), Len(h), RepairedAll(h), f)
<1>1. Len(h) \in Nat
  OBVIOUS
<1> DEFINE q == RepairedParts(h)
           Solves(g) == g = [k \in 0..Len(h) |-> IF k = 0 THEN <<>>
                                                 ELSE g[k - 1] \o Repaired(h, k)]
           f == CHOOSE g : Solves(g)
<1>2. \A n \in 1..Len(h) : q[n] \in Seq(Items)
  BY RepairedType DEF RepairedParts
<1>3. \A g : Joins(q, Len(h), g) <=> Solves(g)
  <2> TAKE g
  <2>1. ASSUME NEW k \in 0..Len(h)
        PROVE  (IF k = 0 THEN <<>> ELSE g[k - 1] \o q[k])
                 = (IF k = 0 THEN <<>> ELSE g[k - 1] \o Repaired(h, k))
    <3>1. CASE k = 0
      BY <3>1
    <3>2. CASE k # 0
      <4>1. k \in 1..Len(h)
        BY <1>1, <3>2
      <4>2. q[k] = Repaired(h, k)
        BY <4>1 DEF RepairedParts
      <4> HIDE DEF q
      <4> QED BY <3>2, <4>2
    <3> QED BY <3>1, <3>2
  <2> HIDE DEF q
  <2>2. [k \in 0..Len(h) |-> IF k = 0 THEN <<>> ELSE g[k - 1] \o q[k]]
          = [k \in 0..Len(h) |-> IF k = 0 THEN <<>> ELSE g[k - 1] \o Repaired(h, k)]
    BY <2>1
  <2> QED BY <2>2 DEF Joins
<1>4. RepairedAll(h) = f[Len(h)]
  BY DEF RepairedAll, Joined
<1> HIDE DEF q, Solves
<1>5. \E g : Solves(g)
  BY <1>1, <1>3, JoinsExist
<1>6. Solves(f)
  BY <1>5
<1> HIDE DEF f
<1>7. JoinedSteps(Items, q, Len(h), f[Len(h)], f)
  BY <1>1, <1>2, <1>3, <1>6, JoinsSteps
<1> QED BY <1>4, <1>7 DEF q

LEMMA RepairedStep ==
  ASSUME NEW h \in Seq(Items), NEW f,
         JoinedSteps(Items, RepairedParts(h), Len(h), RepairedAll(h), f),
         NEW n \in 0..(Len(h) - 1)
  PROVE  f[n] \in Seq(Items) /\ f[n + 1] = f[n] \o Repaired(h, n + 1)
<1>1. n + 1 \in 1..Len(h) /\ n + 1 - 1 = n /\ n \in 0..Len(h)
  OBVIOUS
<1>2. IsJoin(f[n + 1], f[n], RepairedParts(h)[n + 1])
  BY <1>1 DEF JoinedSteps
<1>3. RepairedParts(h)[n + 1] = Repaired(h, n + 1)
  BY <1>1 DEF RepairedParts
<1>4. f[n] \in Seq(Items)
  BY <1>1 DEF JoinedSteps
<1> QED BY <1>2, <1>3, <1>4 DEF IsJoin

\* What the repair has made of the first n items: it is sound, its items that are no
\* outputs are those of the history, and its outputs are those of the history or
\* belong to calls the history has left behind.
RepairedTo(h, n, out, c, s) ==
    /\ Sound(out, c, s)
    /\ \A j \in DOMAIN out : ~IsOutput(out[j]) =>
         \E i \in 1..n : /\ out[j] = h[i]
                         /\ i \in Block(h, n) => \A k \in (j + 1)..Len(out) : IsOutput(out[k])
    /\ \A id \in OutputIds(out) :
         \/ \E i \in 1..n : IsOutput(h[i]) /\ h[i].id = id
         \/ \E i \in 1..n : id \in ChatIds(h[i]) /\ i \notin Block(h, n)

\* The calls the repair finds unanswered are open.
LEMMA RepairOpen ==
  ASSUME NEW h \in Seq(Items), NEW n \in 0..Len(h), NEW out \in Seq(Items), NEW c, NEW s,
         Sound(h, c, s), RepairedTo(h, n, out, c, s)
  PROVE  Open(out, Missing(h, n, {"chat"}))
<1> DEFINE M == Missing(h, n, {"chat"})
<1>1. Len(h) \in Nat /\ DOMAIN h = 1..Len(h) /\ n \in Nat
  OBVIOUS
<1>2. ASSUME NEW id \in M
      PROVE  \E i \in Block(h, n) : i \in 1..n /\ i \in DOMAIN h /\ id \in ChatIds(h[i])
                                    /\ id \in CallIds(h[i])
  <2>1. PICK i \in Block(h, n) : h[i].kind = "chat" /\ id \in h[i].ids
    BY <1>2 DEF Missing, Own
  <2>2. i \in 1..n
    BY DEF Block
  <2> QED BY <1>1, <2>1, <2>2 DEF ChatIds, CallIds, CallKinds
<1>3. M \intersect OutputIds(out) = {}
  <2> SUFFICES ASSUME NEW id \in M, id \in OutputIds(out) PROVE FALSE
    OBVIOUS
  <2>1. PICK i \in Block(h, n) : /\ i \in 1..n /\ i \in DOMAIN h /\ id \in ChatIds(h[i])
                                 /\ id \in CallIds(h[i])
    BY <1>2
  <2>2. CASE \E l \in 1..n : IsOutput(h[l]) /\ h[l].id = id
    <3>1. PICK l \in 1..n : IsOutput(h[l]) /\ h[l].id = id
      BY <2>2
    <3>2. l \in DOMAIN h
      BY <1>1
    <3>3. i < l
      BY <2>1, <3>1, <3>2 DEF Sound, OutputsFollow
    <3>4. \A k \in (i + 1)..n : IsOutput(h[k])
      BY <2>1 DEF Block
    <3>5. \A k \in (l + 1)..n : k \in (i + 1)..n
      BY <2>1, <3>3
    <3>6. l \in Block(h, n)
      BY <3>4, <3>5 DEF Block
    <3> QED BY <3>1, <3>6 DEF Missing
  <2>3. CASE \E l \in 1..n : id \in ChatIds(h[l]) /\ l \notin Block(h, n)
    <3>1. PICK l \in 1..n : id \in ChatIds(h[l]) /\ l \notin Block(h, n)
      BY <2>3
    <3>2. l \in DOMAIN h
      BY <1>1
    <3>3. id \in CallIds(h[l]) /\ l # i
      BY <3>1, <3>2, ItemFields
    <3> QED BY <2>1, <3>2, <3>3 DEF Sound, CallsApart
  <2> QED BY <2>2, <2>3 DEF RepairedTo
<1>4. ASSUME NEW j \in DOMAIN out, ChatIds(out[j]) \intersect M # {}
      PROVE  \A k \in (j + 1)..Len(out) : IsOutput(out[k])
  <2>1. PICK id \in M : id \in ChatIds(out[j])
    BY <1>4
  <2>2. PICK i \in Block(h, n) : /\ i \in 1..n /\ i \in DOMAIN h /\ id \in ChatIds(h[i])
                                 /\ id \in CallIds(h[i])
    BY <1>2
  <2>3. ~IsOutput(out[j])
    BY <2>1, IdsOfHistory
  <2>4. PICK l \in 1..n : /\ out[j] = h[l]
                          /\ l \in Block(h, n) => \A k \in (j + 1)..Len(out) : IsOutput(out[k])
    BY <2>3 DEF RepairedTo
  <2>5. l \in DOMAIN h
    BY <1>1
  <2>6. id \in CallIds(h[l])
    BY <2>1, <2>4, <2>5, ItemFields
  <2>7. l = i
    BY <2>2, <2>5, <2>6 DEF Sound, CallsApart
  <2> QED BY <2>2, <2>4, <2>7
<1> QED BY <1>3, <1>4 DEF Open

LEMMA OneItem ==
  ASSUME NEW x \in Items
  PROVE  /\ <<x>> \in Seq(Items) /\ DOMAIN <<x>> = {1} /\ <<x>>[1] = x /\ Len(<<x>>) = 1
         /\ CallsOf(<<x>>) = CallIds(x)
         /\ OutputIds(<<x>>) = IF IsOutput(x) THEN {x.id} ELSE {}
         /\ OutputsApart(<<x>>) /\ CallsApart(<<x>>)
<1> DEFINE b == <<x>>
<1>1. b \in Seq(Items) /\ Len(b) = 1 /\ b[1] = x /\ DOMAIN b = {1}
  OBVIOUS
<1> HIDE DEF b
<1>2. CallsOf(b) = CallIds(x)
  BY <1>1 DEF CallsOf
<1>3. OutputIds(b) = IF IsOutput(x) THEN {x.id} ELSE {}
  BY <1>1 DEF OutputIds
<1>4. OutputsApart(b) /\ CallsApart(b)
  BY <1>1 DEF OutputsApart, CallsApart
<1> QED BY <1>1, <1>2, <1>3, <1>4 DEF b

\* An output of the history is kept.
LEMMA RepairOutput ==
  ASSUME NEW h \in Seq(Items), NEW n \in 0..(Len(h) - 1), NEW out \in Seq(Items),
         NEW c \in Nat, NEW s, Sound(h, c, s), RepairedTo(h, n, out, c, s),
         IsOutput(h[n + 1])
  PROVE  RepairedTo(h, n + 1, out \o <<h[n + 1]>>, c, s)
<1> DEFINE x == h[n + 1]
           b == <<x>>
           new == out \o b
<1>1. /\ Len(h) \in Nat /\ DOMAIN h = 1..Len(h) /\ n \in Nat /\ n + 1 \in DOMAIN h
      /\ x \in Items /\ n + 1 \in 1..(n + 1) /\ n + 1 \notin 1..n
      /\ 1..n \subseteq DOMAIN h /\ 1..n \subseteq 1..(n + 1)
  OBVIOUS
<1>2. /\ b \in Seq(Items) /\ DOMAIN b = {1} /\ b[1] = x /\ Len(b) = 1
      /\ OutputIds(b) = {x.id} /\ OutputsApart(b)
  BY <1>1, OneItem
<1> HIDE DEF b
<1>3. Block(h, n + 1) = Block(h, n) \union {n + 1}
  BY <1>1, BlockStep
<1>4. ASSUME NEW i \in 1..n, x.id \in ChatIds(h[i]) PROVE i \in Block(h, n)
  <2>1. \A k \in (i + 1)..(n + 1) : IsOutput(h[k])
    BY <1>1, <1>4 DEF Sound, OutputsFollow
  <2>2. \A k \in (i + 1)..n : k \in (i + 1)..(n + 1)
    BY <1>1
  <2> QED BY <2>1, <2>2 DEF Block
<1>5. Open(out, {x.id})
  <2>1. x.id \notin OutputIds(out)
    <3> SUFFICES ASSUME x.id \in OutputIds(out) PROVE FALSE
      OBVIOUS
    <3>1. \A i \in 1..n : ~(IsOutput(h[i]) /\ h[i].id = x.id)
      BY <1>1 DEF Sound, OutputsApart
    <3> QED BY <1>4, <3>1 DEF RepairedTo
  <2>2. ASSUME NEW j \in DOMAIN out, x.id \in ChatIds(out[j])
        PROVE  \A k \in (j + 1)..Len(out) : IsOutput(out[k])
    <3>1. ~IsOutput(out[j])
      BY <2>2, IdsOfHistory
    <3>2. PICK i \in 1..n : /\ out[j] = h[i]
                            /\ i \in Block(h, n) => \A k \in (j + 1)..Len(out) : IsOutput(out[k])
      BY <3>1 DEF RepairedTo
    <3> QED BY <1>4, <2>2, <3>2
  <2> QED BY <2>1, <2>2 DEF Open
<1>6. Sound(new, c, s)
  <2>1. x.id \in 1..c
    <3>1. x.id \in OutputIds(h)
      BY <1>1, IdsOfHistory
    <3> QED BY <3>1 DEF Sound, Given
  <2>2. OnlyOutputs(b)
    BY <1>2 DEF OnlyOutputs
  <2> QED BY <1>2, <1>5, <2>1, <2>2, SoundOutputs DEF RepairedTo
<1>7. /\ Len(out) \in Nat /\ DOMAIN new = 1..(Len(out) + 1) /\ Len(new) = Len(out) + 1
      /\ DOMAIN out = 1..Len(out) /\ new[Len(out) + 1] = x
      /\ \A k \in 1..Len(out) : new[k] = out[k]
  <2>1. new = Append(out, x)
    BY <1>1 DEF b
  <2> HIDE DEF new
  <2> QED BY <1>1, <2>1, AppendProperties
<1>8. OutputIds(new) = OutputIds(out) \union {x.id}
  <2>1. OutputIds(new) = OutputIds(out) \union OutputIds(b)
    BY <1>2, OutputsConcat
  <2> HIDE DEF new
  <2> QED BY <1>2, <2>1
<1> HIDE DEF new
<1>9. ASSUME NEW j \in DOMAIN new, ~IsOutput(new[j])
      PROVE  \E i \in 1..(n + 1) :
               /\ new[j] = h[i]
               /\ i \in Block(h, n + 1) => \A k \in (j + 1)..Len(new) : IsOutput(new[k])
  <2>1. j \in 1..Len(out) /\ new[j] = out[j]
    BY <1>7, <1>9
  <2>2. PICK i \in 1..n : /\ out[j] = h[i]
                          /\ i \in Block(h, n) => \A k \in (j + 1)..Len(out) : IsOutput(out[k])
    BY <1>7, <1>9, <2>1 DEF RepairedTo
  <2>3. ASSUME i \in Block(h, n + 1), NEW k \in (j + 1)..Len(new) PROVE IsOutput(new[k])
    <3>1. i \in Block(h, n)
      BY <1>1, <1>3, <2>3
    <3>2. CASE k \in 1..Len(out)
      <4>1. k \in (j + 1)..Len(out)
        BY <1>7, <2>1, <3>2
      <4> QED BY <1>7, <2>2, <3>1, <3>2, <4>1
    <3>3. CASE k \notin 1..Len(out)
      <4>1. k = Len(out) + 1
        BY <1>7, <2>1, <3>3
      <4> QED BY <1>7, <4>1
    <3> QED BY <3>2, <3>3
  <2> QED BY <1>1, <2>1, <2>2, <2>3
<1>10. ASSUME NEW id \in OutputIds(new)
       PROVE  \/ \E i \in 1..(n + 1) : IsOutput(h[i]) /\ h[i].id = id
              \/ \E i \in 1..(n + 1) : id \in ChatIds(h[i]) /\ i \notin Block(h, n + 1)
  <2>1. CASE id = x.id
    BY <1>1, <2>1
  <2>2. CASE id \in OutputIds(out)
    <3>1. \/ \E i \in 1..n : IsOutput(h[i]) /\ h[i].id = id
          \/ \E i \in 1..n : id \in ChatIds(h[i]) /\ i \notin Block(h, n)
      BY <2>2 DEF RepairedTo
    <3>2. \A i \in 1..n : i \in 1..(n + 1) /\ (i \notin Block(h, n) => i \notin Block(h, n + 1))
      BY <1>1, <1>3
    <3> QED BY <3>1, <3>2
  <2> QED BY <1>8, <2>1, <2>2
<1> QED BY <1>6, <1>9, <1>10 DEF RepairedTo, new, b

\* Another item closes the calls before it.
LEMMA RepairItem ==
  ASSUME NEW h \in Seq(Items), NEW n \in 0..(Len(h) - 1), NEW out \in Seq(Items),
         NEW c \in Nat, NEW s, Sound(h, c, s), RepairedTo(h, n, out, c, s),
         ~IsOutput(h[n + 1])
  PROVE  RepairedTo(h, n + 1, (out \o Interrupted(Missing(h, n, {"chat"}))) \o <<h[n + 1]>>, c, s)
<1> DEFINE x == h[n + 1]
           b == <<x>>
           M == Missing(h, n, {"chat"})
           r == Interrupted(M)
           mid == out \o r
           new == mid \o b
<1>1. /\ Len(h) \in Nat /\ DOMAIN h = 1..Len(h) /\ n \in Nat /\ n + 1 \in DOMAIN h
      /\ x \in Items /\ n + 1 \in 1..(n + 1) /\ n + 1 \notin 1..n /\ n \in 0..Len(h)
      /\ 1..n \subseteq DOMAIN h /\ 1..n \subseteq 1..(n + 1)
  OBVIOUS
<1>2. /\ b \in Seq(Items) /\ DOMAIN b = {1} /\ b[1] = x /\ Len(b) = 1
      /\ CallsOf(b) = CallIds(x) /\ CallsApart(b)
  BY <1>1, OneItem
<1> HIDE DEF b
<1>3. Block(h, n + 1) = {n + 1}
  BY <1>1, BlockStep
<1>4. ASSUME NEW id \in M
      PROVE  \E i \in 1..n : i \in DOMAIN h /\ id \in ChatIds(h[i]) /\ id \in CallIds(h[i])
  <2>1. PICK i \in Block(h, n) : h[i].kind = "chat" /\ id \in h[i].ids
    BY <1>4 DEF Missing, Own
  <2>2. i \in 1..n
    BY DEF Block
  <2> QED BY <1>1, <2>1, <2>2 DEF ChatIds, CallIds, CallKinds
<1>5. M \subseteq 1..c /\ M \subseteq 1..MaxCalls
  <2>1. ASSUME NEW id \in M PROVE id \in CallsOf(h)
    BY <1>4, IdsOfHistory
  <2>2. CallsOf(h) \subseteq 1..c
    BY DEF Sound, Given
  <2>3. M \subseteq 1..MaxCalls
    BY <1>1, OwnType DEF CallKinds
  <2> QED BY <2>1, <2>2, <2>3
<1>6. Open(out, M)
  BY <1>1, RepairOpen
<1> HIDE DEF M
<1>7. /\ r \in Seq(Items) /\ OnlyOutputs(r) /\ OutputsApart(r) /\ OutputIds(r) = M
      /\ CallsOf(r) = {}
  <2>1. /\ r \in Seq(Items) /\ OnlyOutputs(r) /\ OutputsApart(r) /\ OutputIds(r) = M
    BY <1>5, InterruptedFacts
  <2> HIDE DEF r
  <2> QED BY <2>1, IdsOfHistory DEF OnlyOutputs, CallsOf
<1> HIDE DEF r
<1>8. mid \in Seq(Items) /\ Sound(mid, c, s)
  BY <1>5, <1>6, <1>7, SoundOutputs, ConcatProperties DEF RepairedTo
<1>9. CallsOf(mid) = CallsOf(out) /\ OutputIds(mid) = OutputIds(out) \union M
  <2>1. CallsOf(mid) = CallsOf(out) \union CallsOf(r)
    BY <1>7, CallsConcat
  <2>2. OutputIds(mid) = OutputIds(out) \union OutputIds(r)
    BY <1>7, OutputsConcat
  <2> HIDE DEF mid
  <2> QED BY <1>7, <2>1, <2>2
<1>10. /\ Len(mid) \in Nat /\ DOMAIN new = 1..(Len(mid) + 1) /\ Len(new) = Len(mid) + 1
       /\ DOMAIN mid = 1..Len(mid) /\ new[Len(mid) + 1] = x
       /\ \A k \in 1..Len(mid) : new[k] = mid[k]
  <2>1. new = Append(mid, x)
    BY <1>1, <1>8 DEF b
  <2> HIDE DEF new, mid
  <2> QED BY <1>1, <1>8, <2>1, AppendProperties
<1>11. /\ Len(out) \in Nat /\ DOMAIN out = 1..Len(out) /\ Len(r) \in Nat
       /\ DOMAIN mid = 1..(Len(out) + Len(r)) /\ Len(mid) = Len(out) + Len(r)
       /\ \A k \in 1..Len(out) : mid[k] = out[k]
       /\ \A k \in 1..Len(r) : mid[Len(out) + k] = r[k]
       /\ \A k \in 1..(Len(out) + Len(r)) :
            k \in 1..Len(out) \/ \E l \in 1..Len(r) : k = Len(out) + l
       /\ DOMAIN r = 1..Len(r)
  BY <1>7, Parts
<1> HIDE DEF mid
<1>12. ASSUME NEW j \in DOMAIN new, ~IsOutput(new[j])
       PROVE  \/ j = Len(mid) + 1
              \/ \E i \in 1..n : new[j] = h[i] /\ j \in DOMAIN out /\ new[j] = out[j]
  <2> SUFFICES ASSUME j # Len(mid) + 1
               PROVE  \E i \in 1..n : new[j] = h[i] /\ j \in DOMAIN out /\ new[j] = out[j]
    OBVIOUS
  <2>1. j \in 1..Len(mid) /\ new[j] = mid[j]
    BY <1>10
  <2>2. j \in 1..Len(out)
    <3> SUFFICES ASSUME NEW l \in 1..Len(r), j = Len(out) + l PROVE FALSE
      BY <1>11, <2>1
    <3> QED BY <1>7, <1>11, <1>12, <2>1 DEF OnlyOutputs
  <2>3. new[j] = out[j]
    BY <1>11, <2>1, <2>2
  <2>4. PICK i \in 1..n : out[j] = h[i]
    BY <1>11, <1>12, <2>2, <2>3 DEF RepairedTo
  <2> QED BY <1>11, <2>2, <2>3, <2>4
<1>13. CallIds(x) \intersect CallsOf(mid) = {}
  <2> SUFFICES ASSUME NEW j \in DOMAIN out, NEW id \in CallIds(x), id \in CallIds(out[j])
               PROVE  FALSE
    BY <1>9 DEF CallsOf
  <2>1. ~IsOutput(out[j])
    BY IdsOfHistory
  <2>2. PICK i \in 1..n : out[j] = h[i]
    BY <2>1 DEF RepairedTo
  <2>3. i \in DOMAIN h /\ i # n + 1
    BY <1>1
  <2> QED BY <1>1, <2>2, <2>3 DEF Sound, CallsApart
<1>14. ChatIds(x) \intersect OutputIds(mid) = {}
  <2> SUFFICES ASSUME NEW id \in ChatIds(x), id \in OutputIds(out) \union M PROVE FALSE
    BY <1>9
  <2>1. ASSUME NEW i \in 1..n, id \in ChatIds(h[i]) PROVE FALSE
    <3>1. i \in DOMAIN h /\ i # n + 1 /\ id \in CallIds(h[i]) /\ id \in CallIds(x)
      <4>1. i \in DOMAIN h /\ i # n + 1
        BY <1>1
      <4> QED BY <1>1, <2>1, <4>1, ItemFields
    <3> QED BY <1>1, <3>1 DEF Sound, CallsApart
  <2>2. ASSUME NEW i \in 1..n, IsOutput(h[i]), h[i].id = id PROVE FALSE
    <3>1. n + 1 < i
      <4>1. i \in DOMAIN h
        BY <1>1
      <4> QED BY <1>1, <2>2, <4>1 DEF Sound, OutputsFollow
    <3> QED BY <1>1, <3>1
  <2> QED BY <1>4, <2>1, <2>2 DEF RepairedTo
<1>15. Sound(new, c, s)
  <2>1. CallIds(x) \subseteq 1..c
    BY <1>1, IdsOfHistory DEF Sound, Given
  <2>2. OfStyle(b, s) /\ NoOutputs(b)
    BY <1>1, <1>2 DEF Sound, OfStyle, NoOutputs
  <2>3. \A k \in DOMAIN b : ChatIds(b[k]) \intersect OutputIds(mid) = {}
    BY <1>2, <1>14
  <2> QED BY <1>2, <1>8, <1>13, <2>1, <2>2, <2>3, SoundItems
<1>16. OutputIds(new) = OutputIds(out) \union M
  <2>1. OutputIds(b) = {}
    BY <1>2 DEF OutputIds
  <2>2. OutputIds(new) = OutputIds(mid) \union OutputIds(b)
    BY <1>2, <1>8, OutputsConcat
  <2> HIDE DEF new
  <2> QED BY <1>9, <2>1, <2>2
<1> HIDE DEF new
<1>17. ASSUME NEW j \in DOMAIN new, ~IsOutput(new[j])
       PROVE  \E i \in 1..(n + 1) :
                /\ new[j] = h[i]
                /\ i \in Block(h, n + 1) => \A k \in (j + 1)..Len(new) : IsOutput(new[k])
  <2>1. CASE j = Len(mid) + 1
    <3>1. new[j] = h[n + 1] /\ \A k \in (j + 1)..Len(new) : FALSE
      BY <1>10, <2>1
    <3> QED BY <1>1, <3>1
  <2>2. CASE \E i \in 1..n : new[j] = h[i]
    BY <1>1, <1>3, <2>2
  <2> QED BY <1>12, <1>17, <2>1, <2>2
<1>18. ASSUME NEW id \in OutputIds(new)
       PROVE  \/ \E i \in 1..(n + 1) : IsOutput(h[i]) /\ h[i].id = id
              \/ \E i \in 1..(n + 1) : id \in ChatIds(h[i]) /\ i \notin Block(h, n + 1)
  <2>1. \A i \in 1..n : i \in 1..(n + 1) /\ i \notin Block(h, n + 1)
    BY <1>1, <1>3
  <2>2. CASE id \in M
    BY <1>4, <2>1, <2>2
  <2>3. CASE id \in OutputIds(out)
    BY <2>1, <2>3 DEF RepairedTo
  <2> QED BY <1>16, <2>2, <2>3
<1> QED BY <1>15, <1>17, <1>18 DEF RepairedTo, new, mid, b, r, M

\* The history a new process repairs stays sound.
LEMMA RepairSound ==
  ASSUME NEW h \in Seq(Items), NEW c \in Nat, NEW s, Sound(h, c, s)
  PROVE  /\ RepairDanglingToolCalls(h) \in Seq(Items)
         /\ Sound(RepairDanglingToolCalls(h), c, s)
<1>1. Len(h) \in Nat /\ Len(h) \in 0..Len(h)
  OBVIOUS
<1>2. PICK f : JoinedSteps(Items, RepairedParts(h), Len(h), RepairedAll(h), f)
  BY RepairedSteps
<1> DEFINE S == {n \in Nat : RepairedTo(h, n, f[n], c, s)}
<1>3. 0 \in S
  <2>1. f[0] = <<>> /\ DOMAIN f[0] = {}
    BY <1>2 DEF JoinedSteps
  <2>2. CallsOf(f[0]) = {} /\ OutputIds(f[0]) = {}
    BY <2>1 DEF CallsOf, OutputIds
  <2>3. Sound(f[0], c, s)
    BY <2>1, <2>2 DEF Sound, CallsApart, OutputsApart, OutputsFollow, Given, OfStyle
  <2> QED BY <2>1, <2>2, <2>3 DEF RepairedTo
<1>4. ASSUME NEW n \in 0..(Len(h) - 1), n \in S PROVE n + 1 \in S
  <2> DEFINE x == h[n + 1]
             r == Interrupted(Missing(h, n, {"chat"}))
  <2>1. n + 1 \in 1..Len(h) /\ n + 1 \in Nat /\ n + 1 - 1 = n /\ n \in 0..Len(h) /\ x \in Items
    BY <1>1
  <2>2. f[n] \in Seq(Items) /\ f[n + 1] = f[n] \o Repaired(h, n + 1)
    BY <1>2, RepairedStep
  <2>3. RepairedTo(h, n, f[n], c, s)
    BY <1>4
  <2>4. CASE IsOutput(x)
    <3>1. f[n + 1] = f[n] \o <<x>>
      BY <2>2, <2>4 DEF Repaired
    <3>2. RepairedTo(h, n + 1, f[n + 1], c, s)
      BY <2>2, <2>3, <2>4, <3>1, RepairOutput
    <3> QED BY <2>1, <3>2
  <2>5. CASE ~IsOutput(x)
    <3>1. r \in Seq(Items)
      <4>1. Missing(h, n, {"chat"}) \subseteq 1..MaxCalls
        BY <2>1, OwnType DEF CallKinds
      <4> QED BY <4>1, InterruptedFacts
    <3>2. f[n + 1] = (f[n] \o r) \o <<x>>
      <4>1. Repaired(h, n + 1) = r \o <<x>>
        <5>1. Interrupted(Missing(h, n + 1 - 1, {"chat"})) = r
          BY <2>1
        <5> QED BY <2>5, <5>1 DEF Repaired
      <4>2. <<x>> \in Seq(Items)
        BY <2>1
      <4> HIDE DEF r
      <4>3. Associates(f[n], r, <<x>>)
        BY <2>2, <3>1, <4>2, JoinAssociates
      <4> QED BY <2>2, <4>1, <4>3 DEF Associates
    <3>3. RepairedTo(h, n + 1, f[n + 1], c, s)
      BY <2>2, <2>3, <2>5, <3>2, RepairItem
    <3> QED BY <2>1, <3>3
  <2> QED BY <2>4, <2>5
<1> HIDE DEF S
<1>5. 0..Len(h) \subseteq S
  BY <1>1, <1>3, <1>4, Induction
<1> DEFINE M == Missing(h, Len(h), {"chat"})
<1>6. RepairedAll(h) \in Seq(Items) /\ RepairedTo(h, Len(h), RepairedAll(h), c, s)
  <2>1. f[Len(h)] = RepairedAll(h) /\ f[Len(h)] \in Seq(Items)
    BY <1>1, <1>2 DEF JoinedSteps
  <2> QED BY <1>1, <1>5, <2>1 DEF S
<1>7. Open(RepairedAll(h), M)
  BY <1>1, <1>6, RepairOpen
<1>8. M \subseteq 1..MaxCalls /\ M \subseteq 1..c
  <2>1. M \subseteq 1..MaxCalls /\ M \subseteq Own(h, Len(h), {"chat"})
    BY <1>1, OwnType DEF CallKinds
  <2>2. Own(h, Len(h), {"chat"}) \subseteq CallsOf(h)
    <3> SUFFICES ASSUME NEW i \in Block(h, Len(h)), h[i].kind = "chat" PROVE h[i].ids \subseteq CallsOf(h)
      BY DEF Own
    <3>1. i \in DOMAIN h
      BY DEF Block
    <3>2. h[i].ids = CallIds(h[i])
      BY DEF CallIds, CallKinds
    <3> QED BY <3>1, <3>2 DEF CallsOf
  <2> QED BY <2>1, <2>2 DEF Sound, Given
<1>9. /\ Interrupted(M) \in Seq(Items) /\ OnlyOutputs(Interrupted(M))
      /\ OutputsApart(Interrupted(M)) /\ OutputIds(Interrupted(M)) = M
  BY <1>8, InterruptedFacts
<1>10. RepairDanglingToolCalls(h) = RepairedAll(h) \o Interrupted(M)
  BY DEF RepairDanglingToolCalls, RepairedAll
<1> HIDE DEF M
<1>11. Sound(RepairedAll(h) \o Interrupted(M), c, s)
  BY <1>6, <1>7, <1>8, <1>9, SoundOutputs DEF RepairedTo
<1>12. RepairedAll(h) \o Interrupted(M) \in Seq(Items)
  BY <1>6, <1>9, ConcatProperties
<1> QED BY <1>10, <1>11, <1>12

---------------------------------------------------------------------------
(* What a resumed session is compared by *)

Spoken(h) == {i \in DOMAIN h : h[i].kind \notin {"output", "custom_output", "aborted"}}
SameAs(a, b) == Conversation(a) = Conversation(b) /\ Results(a) = Results(b)

LEMMA ConversationIsSub == \A h : Conversation(h) = Sub(h, Spoken(h))
  BY DEF Conversation, Filter, Spoken

LEMMA ConversationConcat ==
  ASSUME NEW a \in Seq(Items), NEW b \in Seq(Items)
  PROVE  Conversation(a \o b) = Conversation(a) \o Conversation(b)
<1> DEFINE c == a \o b
<1>1. /\ Len(a) \in Nat /\ Len(b) \in Nat /\ DOMAIN c = 1..(Len(a) + Len(b))
      /\ DOMAIN a = 1..Len(a) /\ DOMAIN b = 1..Len(b)
      /\ \A i \in 1..Len(a) : c[i] = a[i]
      /\ \A i \in 1..Len(b) : c[Len(a) + i] = b[i]
  BY Parts
<1> HIDE DEF c
<1>2. \A i \in 1..Len(a) : i \in Spoken(c) <=> i \in Spoken(a)
  BY <1>1 DEF Spoken
<1>3. \A i \in 1..Len(b) : Len(a) + i \in Spoken(c) <=> i \in Spoken(b)
  <2> SUFFICES ASSUME NEW i \in 1..Len(b)
               PROVE  Len(a) + i \in Spoken(c) <=> i \in Spoken(b)
    OBVIOUS
  <2>1. Len(a) + i \in DOMAIN c /\ c[Len(a) + i] = b[i] /\ i \in DOMAIN b
    BY <1>1
  <2> QED BY <2>1 DEF Spoken
<1>4. Sub(a \o b, Spoken(c)) = Sub(a, Spoken(a)) \o Sub(b, Spoken(b))
  <2>1. IsJoin(Sub(a \o b, Spoken(c)), Sub(a, Spoken(a)), Sub(b, Spoken(b)))
    BY <1>2, <1>3, SubConcat
  <2> QED BY <2>1 DEF IsJoin
<1> QED BY <1>4, ConversationIsSub DEF c

LEMMA ResultsConcat ==
  ASSUME NEW a \in Seq(Items), NEW b \in Seq(Items)
  PROVE  Results(a \o b) = Results(a) \union Results(b)
<1> DEFINE c == a \o b
           IsResult(x) == x.kind \in {"output", "custom_output"} /\ x.state = "result"
<1>1. /\ Len(a) \in Nat /\ Len(b) \in Nat /\ DOMAIN c = 1..(Len(a) + Len(b))
      /\ DOMAIN a = 1..Len(a) /\ DOMAIN b = 1..Len(b)
      /\ \A i \in 1..Len(a) : c[i] = a[i]
      /\ \A i \in 1..Len(b) : c[Len(a) + i] = b[i]
      /\ \A i \in DOMAIN c : i \in 1..Len(a) \/ \E k \in 1..Len(b) : i = Len(a) + k
  BY ItemParts
<1>2. \A h : Results(h) = {h[i] : i \in {i \in DOMAIN h : IsResult(h[i])}}
  BY DEF Results
<1> HIDE DEF c, IsResult
<1>3. ASSUME NEW x \in Results(c) PROVE x \in Results(a) \union Results(b)
  <2>1. PICK i \in DOMAIN c : IsResult(c[i]) /\ x = c[i]
    BY <1>2
  <2>2. CASE i \in 1..Len(a)
    BY <1>1, <1>2, <2>1, <2>2
  <2>3. CASE \E k \in 1..Len(b) : i = Len(a) + k
    BY <1>1, <1>2, <2>1, <2>3
  <2> QED BY <1>1, <2>2, <2>3
<1>4. ASSUME NEW x \in Results(a) PROVE x \in Results(c)
  <2>1. PICK i \in 1..Len(a) : IsResult(a[i]) /\ x = a[i]
    BY <1>1, <1>2
  <2>2. i \in DOMAIN c /\ c[i] = a[i]
    BY <1>1
  <2> QED BY <1>2, <2>1, <2>2
<1>5. ASSUME NEW x \in Results(b) PROVE x \in Results(c)
  <2>1. PICK i \in 1..Len(b) : IsResult(b[i]) /\ x = b[i]
    BY <1>1, <1>2
  <2>2. Len(a) + i \in DOMAIN c /\ c[Len(a) + i] = b[i]
    BY <1>1
  <2> QED BY <1>2, <2>1, <2>2
<1> QED BY <1>3, <1>4, <1>5 DEF c

LEMMA SameConcat ==
  ASSUME NEW a \in Seq(Items), NEW b \in Seq(Items), NEW c \in Seq(Items), NEW d \in Seq(Items),
         SameAs(a, b), SameAs(c, d)
  PROVE  SameAs(a \o c, b \o d)
<1>1. Conversation(a \o c) = Conversation(a) \o Conversation(c)
  BY ConversationConcat
<1>2. Conversation(b \o d) = Conversation(b) \o Conversation(d)
  BY ConversationConcat
<1>3. Results(a \o c) = Results(a) \union Results(c)
  BY ResultsConcat
<1>4. Results(b \o d) = Results(b) \union Results(d)
  BY ResultsConcat
<1> QED BY <1>1, <1>2, <1>3, <1>4 DEF SameAs

\* Items that no comparison sees.
Silent(h) == \A i \in DOMAIN h :
    /\ h[i].kind \in {"output", "custom_output", "aborted"}
    /\ h[i].kind \in {"output", "custom_output"} => h[i].state # "result"

LEMMA SilentItems ==
  ASSUME NEW a \in Seq(Items), NEW b \in Seq(Items), Silent(b)
  PROVE  SameAs(a \o b, a)
<1>1. Results(b) = {}
  BY DEF Results, Silent
<1>2. Conversation(b) = <<>>
  <2>1. Spoken(b) = {}
    BY DEF Spoken, Silent
  <2>2. PICK p : Positions(b, {}, Len(b), Sub(b, {}), p)
    BY SubPositions
  <2>3. Sub(b, {}) \in Seq(Items)
    BY SubType
  <2>4. Len(Sub(b, {})) = 0
    <3> SUFFICES ASSUME Len(Sub(b, {})) # 0 PROVE FALSE
      OBVIOUS
    <3>1. 1 \in 1..Len(Sub(b, {}))
      BY <2>3
    <3>2. p[1] \in {}
      BY <2>2, <3>1 DEF Positions
    <3> QED BY <3>2
  <2>5. Sub(b, {}) = <<>>
    BY <2>3, <2>4, EmptySeq
  <2> QED BY <2>1, <2>5, ConversationIsSub
<1>3. Conversation(a) \in Seq(Items)
  BY SubType, ConversationIsSub
<1>4. Conversation(a \o b) = Conversation(a)
  <2>1. Conversation(a \o b) = Conversation(a) \o <<>>
    BY <1>2, ConversationConcat
  <2> QED BY <1>3, <2>1, ConcatEmptySeq
<1>5. Results(a \o b) = Results(a)
  <2>1. Results(a \o b) = Results(a) \union Results(b)
    BY ResultsConcat
  <2> DEFINE c == a \o b
  <2> HIDE DEF c
  <2> QED BY <1>1, <2>1 DEF c
<1> QED BY <1>4, <1>5 DEF SameAs

\* The repair adds nothing that was said and no result.
LEMMA RepairIsSilent ==
  ASSUME NEW h \in Seq(Items)
  PROVE  SameAs(RepairDanglingToolCalls(h), h)
<1>1. Len(h) \in Nat /\ Len(h) \in 0..Len(h)
  OBVIOUS
<1>2. PICK f : JoinedSteps(Items, RepairedParts(h), Len(h), RepairedAll(h), f)
  BY RepairedSteps
<1> DEFINE Prefix(n) == SubSeq(h, 1, n)
           S == {n \in Nat : SameAs(f[n], Prefix(n))}
<1>3. ASSUME NEW n \in 0..Len(h)
      PROVE  LET r == Interrupted(Missing(h, n, {"chat"})) IN r \in Seq(Items) /\ Silent(r)
  <2>1. Missing(h, n, {"chat"}) \subseteq 1..MaxCalls
    BY OwnType DEF CallKinds
  <2> DEFINE r == Interrupted(Missing(h, n, {"chat"}))
  <2>2. r \in Seq(Items) /\ OnlyOutputs(r) /\ \A i \in DOMAIN r : r[i].state = "interrupted"
    BY <2>1, InterruptedFacts
  <2> HIDE DEF r
  <2>3. Silent(r)
    BY <2>2 DEF Silent, OnlyOutputs, IsOutput
  <2> QED BY <2>2, <2>3 DEF r
<1>4. 0 \in S
  <2>1. f[0] = <<>>
    BY <1>2 DEF JoinedSteps
  <2>2. Prefix(0) = <<>>
    BY SubSeqEmpty
  <2> QED BY <2>1, <2>2 DEF SameAs
<1>5. ASSUME NEW n \in 0..(Len(h) - 1), n \in S PROVE n + 1 \in S
  <2> DEFINE x == h[n + 1]
             b == <<x>>
             r == Interrupted(Missing(h, n, {"chat"}))
  <2>1. n + 1 \in 1..Len(h) /\ n + 1 \in Nat /\ n + 1 - 1 = n /\ n \in 0..Len(h) /\ x \in Items
        /\ 1 \in 1..Len(h)
    BY <1>1
  <2>2. f[n] \in Seq(Items) /\ f[n + 1] = f[n] \o Repaired(h, n + 1)
    BY <1>2, RepairedStep
  <2>3. SameAs(f[n], Prefix(n))
    BY <1>5
  <2>4. Prefix(n) \in Seq(Items) /\ Prefix(n + 1) = Prefix(n) \o b
    BY <2>1, SubSeqProperties, SubSeqRecursiveSecond
  <2>5. b \in Seq(Items) /\ SameAs(b, b)
    BY <2>1 DEF SameAs
  <2>6. r \in Seq(Items) /\ Silent(r)
    BY <1>3, <2>1
  <2>7. Interrupted(Missing(h, n + 1 - 1, {"chat"})) = r
    BY <2>1
  <2> HIDE DEF b, r, Prefix
  <2>8. CASE IsOutput(x)
    <3>1. f[n + 1] = f[n] \o b
      BY <2>2, <2>8 DEF Repaired, b
    <3>2. SameAs(f[n + 1], Prefix(n + 1))
      BY <2>2, <2>3, <2>4, <2>5, <3>1, SameConcat
    <3> QED BY <2>1, <3>2
  <2>9. CASE ~IsOutput(x)
    <3>1. Repaired(h, n + 1) = r \o b
      BY <2>7, <2>9 DEF Repaired, b
    <3>2. f[n + 1] = (f[n] \o r) \o b
      <4>1. Associates(f[n], r, b)
        BY <2>2, <2>5, <2>6, JoinAssociates
      <4> QED BY <2>2, <3>1, <4>1 DEF Associates
    <3>3. SameAs(f[n] \o r, Prefix(n)) /\ f[n] \o r \in Seq(Items)
      <4>1. SameAs(f[n] \o r, f[n])
        BY <2>2, <2>6, SilentItems
      <4> QED BY <2>2, <2>3, <2>6, <4>1, ConcatProperties DEF SameAs
    <3>4. SameAs(f[n + 1], Prefix(n + 1))
      BY <2>4, <2>5, <3>2, <3>3, SameConcat
    <3> QED BY <2>1, <3>4
  <2> QED BY <2>8, <2>9
<1> HIDE DEF S
<1>6. 0..Len(h) \subseteq S
  BY <1>1, <1>4, <1>5, Induction
<1>7. RepairedAll(h) \in Seq(Items) /\ SameAs(RepairedAll(h), h)
  <2>1. f[Len(h)] = RepairedAll(h) /\ f[Len(h)] \in Seq(Items)
    BY <1>1, <1>2 DEF JoinedSteps
  <2>2. Prefix(Len(h)) = h
    BY SubSeqFull
  <2> HIDE DEF Prefix
  <2> QED BY <1>1, <1>6, <2>1, <2>2 DEF S
<1> DEFINE r == Interrupted(Missing(h, Len(h), {"chat"}))
<1>8. r \in Seq(Items) /\ Silent(r)
  BY <1>1, <1>3
<1>9. RepairDanglingToolCalls(h) = RepairedAll(h) \o r
  BY DEF RepairDanglingToolCalls, RepairedAll
<1> HIDE DEF r
<1>10. SameAs(RepairedAll(h) \o r, RepairedAll(h))
  BY <1>7, <1>8, SilentItems
<1> QED BY <1>7, <1>9, <1>10 DEF SameAs

---------------------------------------------------------------------------
(* The log *)

Compaction == "context_compaction_completed"
EventTypes == {"turn_started", "memory_diary", "turn_aborted", "error", "turn_failed",
               "turn_completed", "prompt_item", "user_message", "assistant_output",
               "tool_output", Compaction}
Events == [type : EventTypes, items : Seq(Items)]
Plain(events) == \A i \in DOMAIN events : events[i].type # Compaction
ReplayPart(events, n) ==
    IF \E k \in (n + 1)..Len(events) : events[k].type = Compaction THEN <<>> ELSE events[n].items
ReplayParts(events) == [n \in 1..Len(events) |-> ReplayPart(events, n)]

LEMMA ReplayPartType ==
  ASSUME NEW l \in Seq(Events), NEW n \in 1..Len(l)
  PROVE  ReplayPart(l, n) \in Seq(Items)
<1>1. l[n] \in Events /\ <<>> \in Seq(Items)
  OBVIOUS
<1>2. l[n].items \in Seq(Items)
  BY <1>1 DEF Events
<1> QED BY <1>1, <1>2 DEF ReplayPart

LEMMA ReplaySteps ==
  ASSUME NEW l \in Seq(Events)
  PROVE  \E f : JoinedSteps(Items, ReplayParts(l), Len(l), Replay(l), f)
<1>1. Len(l) \in Nat
  OBVIOUS
<1> DEFINE q == ReplayParts(l)
           Solves(g) == g = [k \in 0..Len(l) |-> IF k = 0 THEN <<>>
                                                 ELSE g[k - 1] \o ReplayPart(l, k)]
           f == CHOOSE g : Solves(g)
<1>2. \A n \in 1..Len(l) : q[n] \in Seq(Items)
  BY ReplayPartType DEF ReplayParts
<1>3. \A g : Joins(q, Len(l), g) <=> Solves(g)
  <2> TAKE g
  <2>1. ASSUME NEW k \in 0..Len(l)
        PROVE  (IF k = 0 THEN <<>> ELSE g[k - 1] \o q[k])
                 = (IF k = 0 THEN <<>> ELSE g[k - 1] \o ReplayPart(l, k))
    <3>1. CASE k = 0
      BY <3>1
    <3>2. CASE k # 0
      <4>1. k \in 1..Len(l)
        BY <1>1, <3>2
      <4>2. q[k] = ReplayPart(l, k)
        BY <4>1 DEF ReplayParts
      <4> HIDE DEF q
      <4> QED BY <3>2, <4>2
    <3> QED BY <3>1, <3>2
  <2> HIDE DEF q
  <2>2. [k \in 0..Len(l) |-> IF k = 0 THEN <<>> ELSE g[k - 1] \o q[k]]
          = [k \in 0..Len(l) |-> IF k = 0 THEN <<>> ELSE g[k - 1] \o ReplayPart(l, k)]
    BY <2>1
  <2> QED BY <2>2 DEF Joins
<1>4. Replay(l) = f[Len(l)]
  BY DEF Replay, Joined, ReplayPart, Compaction
<1> HIDE DEF q, Solves
<1>5. \E g : Solves(g)
  BY <1>1, <1>3, JoinsExist
<1>6. Solves(f)
  BY <1>5
<1> HIDE DEF f
<1>7. JoinedSteps(Items, q, Len(l), f[Len(l)], f)
  BY <1>1, <1>2, <1>3, <1>6, JoinsSteps
<1> QED BY <1>4, <1>7 DEF q

LEMMA ReplayType ==
  ASSUME NEW l \in Seq(Events)
  PROVE  Replay(l) \in Seq(Items)
<1>1. PICK f : JoinedSteps(Items, ReplayParts(l), Len(l), Replay(l), f)
  BY ReplaySteps
<1>2. Len(l) \in 0..Len(l)
  BY LenProperties
<1> QED BY <1>1, <1>2 DEF JoinedSteps

LEMMA ReplayEmpty == Replay(<<>>) = <<>>
<1>1. <<>> \in Seq(Events) /\ Len(<<>>) = 0
  OBVIOUS
<1>2. PICK f : JoinedSteps(Items, ReplayParts(<<>>), 0, Replay(<<>>), f)
  BY <1>1, ReplaySteps
<1> QED BY <1>2 DEF JoinedSteps

\* One event more.
LEMMA ReplayOne ==
  ASSUME NEW l \in Seq(Events), NEW e \in Events
  PROVE  /\ e.type # Compaction => IsJoin(Replay(l \o <<e>>), Replay(l), e.items)
         /\ e.type = Compaction => Replay(l \o <<e>>) = e.items
<1> DEFINE t == l \o <<e>>
           L == Len(l)
<1>1. /\ L \in Nat /\ Len(t) = L + 1 /\ t \in Seq(Events) /\ t[L + 1] = e
      /\ \A n \in 1..L : t[n] = l[n]
  <2>1. t = Append(l, e)
    OBVIOUS
  <2> HIDE DEF t
  <2> QED BY <2>1, AppendProperties
<1> HIDE DEF t
<1>2. PICK f : JoinedSteps(Items, ReplayParts(l), L, Replay(l), f)
  BY ReplaySteps
<1>3. PICK g : JoinedSteps(Items, ReplayParts(t), L + 1, Replay(t), g)
  BY <1>1, ReplaySteps
<1>4. g[L + 1] = g[L] \o e.items /\ Replay(t) = g[L + 1] /\ g[L] \in Seq(Items)
  <2>1. L + 1 \in 1..(L + 1) /\ L + 1 - 1 = L /\ L \in 0..(L + 1)
    BY <1>1
  <2>2. IsJoin(g[L + 1], g[L], ReplayParts(t)[L + 1])
    <3>1. IsJoin(g[L + 1], g[L + 1 - 1], ReplayParts(t)[L + 1])
      BY <1>3, <2>1 DEF JoinedSteps
    <3> QED BY <2>1, <3>1
  <2>3. ReplayParts(t)[L + 1] = e.items
    <3>1. ReplayPart(t, L + 1) = e.items
      <4>1. \A k \in (L + 1 + 1)..Len(t) : FALSE
        BY <1>1
      <4> QED BY <1>1, <4>1 DEF ReplayPart
    <3> QED BY <1>1, <2>1, <3>1 DEF ReplayParts
  <2>4. Replay(t) = g[L + 1] /\ g[L] \in Seq(Items)
    BY <1>3, <2>1 DEF JoinedSteps
  <2> QED BY <2>2, <2>3, <2>4 DEF IsJoin
<1>5. e.items \in Seq(Items)
  BY DEF Events
<1>6. CASE e.type # Compaction
  <2>1. ASSUME NEW n \in 1..L PROVE ReplayPart(t, n) = ReplayPart(l, n)
    <3>1. (n + 1)..Len(t) = ((n + 1)..L) \union {L + 1}
      BY <1>1
    <3>2. \A k \in (n + 1)..L : t[k] = l[k]
      BY <1>1
    <3> QED BY <1>1, <1>6, <3>1, <3>2 DEF ReplayPart
  <2> DEFINE S == {n \in Nat : g[n] = f[n]}
  <2>2. 0 \in S
    BY <1>2, <1>3 DEF JoinedSteps
  <2>3. ASSUME NEW k \in 0..(L - 1), k \in S PROVE k + 1 \in S
    <3>1. k + 1 \in 1..L /\ k + 1 \in 1..(L + 1) /\ k + 1 - 1 = k /\ k + 1 \in Nat
      BY <1>1
    <3>2. IsJoin(g[k + 1], g[k + 1 - 1], ReplayParts(t)[k + 1])
      BY <1>3, <3>1 DEF JoinedSteps
    <3>3. IsJoin(f[k + 1], f[k + 1 - 1], ReplayParts(l)[k + 1])
      BY <1>2, <3>1 DEF JoinedSteps
    <3>4. ReplayParts(t)[k + 1] = ReplayPart(t, k + 1)
      BY <1>1, <3>1 DEF ReplayParts
    <3>5. ReplayParts(l)[k + 1] = ReplayPart(l, k + 1)
      BY <1>1, <3>1 DEF ReplayParts
    <3>6. ReplayPart(t, k + 1) = ReplayPart(l, k + 1)
      BY <2>1, <3>1
    <3>7. g[k] = f[k]
      BY <2>3
    <3>8. g[k + 1] = g[k] \o ReplayPart(t, k + 1)
      BY <3>1, <3>2, <3>4 DEF IsJoin
    <3>9. f[k + 1] = f[k] \o ReplayPart(l, k + 1)
      BY <3>1, <3>3, <3>5 DEF IsJoin
    <3> QED BY <3>1, <3>6, <3>7, <3>8, <3>9
  <2> HIDE DEF S
  <2>4. 0..L \subseteq S
    BY <1>1, <2>2, <2>3, Induction
  <2>5. g[L] = f[L]
    BY <1>1, <2>4 DEF S
  <2>6. f[L] = Replay(l)
    BY <1>2 DEF JoinedSteps
  <2> QED BY <1>4, <1>6, <2>5, <2>6 DEF IsJoin, t
<1>7. CASE e.type = Compaction
  <2>1. ASSUME NEW n \in 1..L PROVE ReplayPart(t, n) = <<>>
    <3>1. L + 1 \in (n + 1)..Len(t)
      BY <1>1
    <3> QED BY <1>1, <1>7, <3>1 DEF ReplayPart
  <2> DEFINE S == {n \in Nat : g[n] = <<>>}
  <2>2. 0 \in S
    BY <1>3 DEF JoinedSteps
  <2>3. ASSUME NEW k \in 0..(L - 1), k \in S PROVE k + 1 \in S
    <3>1. k + 1 \in 1..L /\ k + 1 \in 1..(L + 1) /\ k + 1 - 1 = k /\ k + 1 \in Nat
      BY <1>1
    <3>2. IsJoin(g[k + 1], g[k + 1 - 1], ReplayParts(t)[k + 1])
      BY <1>3, <3>1 DEF JoinedSteps
    <3>3. ReplayParts(t)[k + 1] = <<>>
      BY <1>1, <2>1, <3>1 DEF ReplayParts
    <3>4. g[k] = <<>>
      BY <2>3
    <3>5. g[k + 1] = <<>> \o <<>>
      BY <3>1, <3>2, <3>3, <3>4 DEF IsJoin
    <3> QED BY <3>1, <3>5
  <2> HIDE DEF S
  <2>4. 0..L \subseteq S
    BY <1>1, <2>2, <2>3, Induction
  <2>5. g[L] = <<>>
    BY <1>1, <2>4 DEF S
  <2>6. <<>> \o e.items = e.items
    BY <1>5, ConcatEmptySeq
  <2> QED BY <1>4, <1>7, <2>5, <2>6 DEF t
<1> QED BY <1>6, <1>7

\* A written event adds its items to what is replayed.
LEMMA ReplayPlain ==
  ASSUME NEW l \in Seq(Events), NEW evs \in Seq(Events), Plain(evs)
  PROVE  IsJoin(Replay(l \o evs), Replay(l), Replay(evs))
<1> DEFINE S == {n \in Nat : n <= Len(evs) =>
               IsJoin(Replay(l \o SubSeq(evs, 1, n)), Replay(l), Replay(SubSeq(evs, 1, n)))}
<1>1. /\ Len(evs) \in Nat
      /\ \A n \in 0..Len(evs) : SubSeq(evs, 1, n) \in Seq(Events)
  OBVIOUS
<1>2. 0 \in S
  <2>1. SubSeq(evs, 1, 0) = <<>> /\ l \o <<>> = l
    OBVIOUS
  <2>2. Replay(l) \in Seq(Items)
    BY ReplayType
  <2>3. Replay(l) \o <<>> = Replay(l)
    BY <2>2, ConcatEmptySeq
  <2> QED BY <2>1, <2>3, ReplayEmpty DEF IsJoin
<1>3. ASSUME NEW k \in 0..(Len(evs) - 1), k \in S PROVE k + 1 \in S
  <2> DEFINE s == SubSeq(evs, 1, k)
             e == evs[k + 1]
  <2>1. k + 1 \in 1..Len(evs) /\ k <= Len(evs) /\ k \in Nat /\ k + 1 \in Nat
    BY <1>1
  <2>2. e \in Events /\ e.type # Compaction
    BY <2>1 DEF Plain
  <2>3. SubSeq(evs, 1, k + 1) = s \o <<e>>
    BY <2>1
  <2>4. s \in Seq(Events) /\ <<e>> \in Seq(Events)
    BY <1>1, <2>1, <2>2
  <2>5. IsJoin(Replay(l \o s), Replay(l), Replay(s))
    BY <1>3, <2>1
  <2> HIDE DEF s, e
  <2>6. l \o s \in Seq(Events)
    BY <2>4, ConcatProperties
  <2>7. l \o (s \o <<e>>) = (l \o s) \o <<e>>
    BY <2>4, JoinAssociates DEF Associates
  <2>8. IsJoin(Replay((l \o s) \o <<e>>), Replay(l \o s), e.items)
    BY <2>2, <2>6, ReplayOne
  <2>9. IsJoin(Replay(s \o <<e>>), Replay(s), e.items)
    BY <2>2, <2>4, ReplayOne
  <2>10. e.items \in Seq(Items) /\ Replay(l) \in Seq(Items) /\ Replay(s) \in Seq(Items)
    BY <2>2, <2>4, ReplayType DEF Events
  <2>11. Replay(l) \o (Replay(s) \o e.items) = (Replay(l) \o Replay(s)) \o e.items
    <3>1. Associates(Replay(l), Replay(s), e.items)
      BY <2>10, JoinAssociates
    <3> QED BY ONLY <3>1 DEF Associates
  <2>12. Replay((l \o s) \o <<e>>) = (Replay(l) \o Replay(s)) \o e.items
    BY <2>5, <2>8 DEF IsJoin
  <2>13. Replay(s \o <<e>>) = Replay(s) \o e.items
    BY <2>9 DEF IsJoin
  <2>14. IsJoin(Replay(l \o (s \o <<e>>)), Replay(l), Replay(s \o <<e>>))
    BY <2>7, <2>11, <2>12, <2>13 DEF IsJoin
  <2> QED BY <2>1, <2>3, <2>14
<1> HIDE DEF S
<1>4. 0..Len(evs) \subseteq S
  BY <1>1, <1>2, <1>3, Induction
<1>5. SubSeq(evs, 1, Len(evs)) = evs /\ Len(evs) \in 0..Len(evs)
  BY <1>1
<1>6. Len(evs) \in S /\ Len(evs) <= Len(evs)
  BY <1>1, <1>4
<1>7. IsJoin(Replay(l \o SubSeq(evs, 1, Len(evs))), Replay(l), Replay(SubSeq(evs, 1, Len(evs))))
  BY <1>6 DEF S
<1> QED BY <1>5, <1>7

\* What one event replays as.
LEMMA ReplayEvent ==
  ASSUME NEW e \in Events
  PROVE  Replay(<<e>>) = e.items /\ <<e>> \in Seq(Events)
<1>1. <<>> \in Seq(Events) /\ <<>> \o <<e>> = <<e>> /\ e.items \in Seq(Items)
  BY DEF Events
<1>2. <<>> \o e.items = e.items
  BY <1>1, ConcatEmptySeq
<1>3. CASE e.type = Compaction
  <2>1. Replay(<<>> \o <<e>>) = e.items
    BY <1>1, <1>3, ReplayOne
  <2> QED BY <1>1, <2>1
<1>4. CASE e.type # Compaction
  <2>1. IsJoin(Replay(<<>> \o <<e>>), Replay(<<>>), e.items)
    BY <1>1, <1>4, ReplayOne
  <2> QED BY <1>1, <1>2, <2>1, ReplayEmpty DEF IsJoin
<1> QED BY <1>3, <1>4

\* Two groups of events that are written together.
LEMMA ReplayBoth ==
  ASSUME NEW a \in Seq(Events), NEW b \in Seq(Events), Plain(a), Plain(b)
  PROVE  /\ a \o b \in Seq(Events) /\ Plain(a \o b)
         /\ Replay(a \o b) = Replay(a) \o Replay(b)
<1>1. /\ a \o b \in Seq(Events) /\ Len(a) \in Nat /\ Len(b) \in Nat
      /\ DOMAIN (a \o b) = 1..(Len(a) + Len(b))
      /\ DOMAIN a = 1..Len(a) /\ DOMAIN b = 1..Len(b)
      /\ \A i \in 1..Len(a) : (a \o b)[i] = a[i]
      /\ \A i \in 1..Len(b) : (a \o b)[Len(a) + i] = b[i]
      /\ \A i \in 1..(Len(a) + Len(b)) :
           i \in 1..Len(a) \/ \E k \in 1..Len(b) : i = Len(a) + k
  BY Parts
<1>2. Plain(a \o b)
  <2> SUFFICES ASSUME NEW i \in 1..(Len(a) + Len(b)) PROVE (a \o b)[i].type # Compaction
    BY <1>1 DEF Plain
  <2>1. CASE i \in 1..Len(a)
    BY <1>1, <2>1 DEF Plain
  <2>2. ASSUME NEW k \in 1..Len(b), i = Len(a) + k PROVE (a \o b)[i].type # Compaction
    BY <1>1, <2>2 DEF Plain
  <2> QED BY <1>1, <2>1, <2>2
<1>3. IsJoin(Replay(a \o b), Replay(a), Replay(b))
  BY ReplayPlain
<1> QED BY <1>1, <1>2, <1>3 DEF IsJoin

\* Events without items replay as nothing.
LEMMA ReplayNothing ==
  ASSUME NEW evs \in Seq(Events), \A i \in DOMAIN evs : evs[i].items = <<>>
  PROVE  Replay(evs) = <<>>
<1>1. PICK f : JoinedSteps(Items, ReplayParts(evs), Len(evs), Replay(evs), f)
  BY ReplaySteps
<1>2. Len(evs) \in Nat
  OBVIOUS
<1> DEFINE S == {n \in Nat : f[n] = <<>>}
<1>3. 0 \in S
  BY <1>1 DEF JoinedSteps
<1>4. ASSUME NEW k \in 0..(Len(evs) - 1), k \in S PROVE k + 1 \in S
  <2>1. k + 1 \in 1..Len(evs) /\ k + 1 - 1 = k /\ k + 1 \in Nat
    BY <1>2
  <2>2. IsJoin(f[k + 1], f[k + 1 - 1], ReplayParts(evs)[k + 1])
    BY <1>1, <2>1 DEF JoinedSteps
  <2>3. ReplayParts(evs)[k + 1] = <<>>
    BY <2>1 DEF ReplayParts, ReplayPart
  <2>4. f[k] = <<>>
    BY <1>4
  <2>5. f[k + 1] = <<>> \o <<>>
    BY <2>1, <2>2, <2>3, <2>4 DEF IsJoin
  <2> QED BY <2>1, <2>5
<1> HIDE DEF S
<1>5. 0..Len(evs) \subseteq S
  BY <1>2, <1>3, <1>4, Induction
<1>6. f[Len(evs)] = <<>>
  BY <1>2, <1>5 DEF S
<1> QED BY <1>1, <1>6 DEF JoinedSteps

\* A history stays sound when more call ids are given out.
LEMMA SoundMore ==
  ASSUME NEW h, NEW c \in Nat, NEW d \in Nat, c <= d, NEW s, Sound(h, c, s)
  PROVE  Sound(h, d, s)
  BY DEF Sound, Given

LEMMA SoundEmpty == \A n, s : Sound(<<>>, n, s)
  BY DEF Sound, CallsApart, OutputsApart, OutputsFollow, Given, OfStyle, CallsOf, OutputIds

\* However much of the log a crash keeps, what it replays as is sound.
LogSound(l, c, s) == \A n \in 0..Len(l) : Sound(Replay(SubSeq(l, 1, n)), c, s)

\* The beginnings of a log that was written to.
LEMMA Beginnings ==
  ASSUME NEW l \in Seq(Events), NEW evs \in Seq(Events), NEW n \in 0..Len(l \o evs)
  PROVE  /\ n \in 0..Len(l) => SubSeq(l \o evs, 1, n) = SubSeq(l, 1, n)
         /\ n \notin 0..Len(l) =>
              \E m \in 1..Len(evs) : SubSeq(l \o evs, 1, n) = l \o SubSeq(evs, 1, m)
<1> DEFINE t == l \o evs
<1>1. /\ t \in Seq(Events) /\ Len(l) \in Nat /\ Len(evs) \in Nat
      /\ Len(t) = Len(l) + Len(evs)
      /\ \A i \in 1..Len(l) : t[i] = l[i]
      /\ \A i \in 1..Len(evs) : t[Len(l) + i] = evs[i]
  BY Parts
<1> HIDE DEF t
<1>2. ASSUME n \in 0..Len(l) PROVE SubSeq(t, 1, n) = SubSeq(l, 1, n)
  BY <1>1, <1>2
<1>3. ASSUME n \notin 0..Len(l)
      PROVE  \E m \in 1..Len(evs) : SubSeq(t, 1, n) = l \o SubSeq(evs, 1, m)
  <2> DEFINE m == n - Len(l)
             a == SubSeq(evs, 1, m)
             b == SubSeq(t, 1, n)
  <2>1. m \in 1..Len(evs) /\ n \in Nat /\ n = Len(l) + m /\ n <= Len(t)
    BY <1>1, <1>3 DEF t
  <2>2. a \in Seq(Events) /\ Len(a) = m /\ \A i \in 1..m : a[i] = evs[i]
    BY <1>1, <2>1
  <2>3. b \in Seq(Events) /\ Len(b) = n /\ \A i \in 1..n : b[i] = t[i]
    BY <1>1, <2>1
  <2> HIDE DEF a, b
  <2>4. /\ l \o a \in Seq(Events) /\ Len(l \o a) = Len(l) + Len(a)
        /\ \A i \in 1..Len(l) : (l \o a)[i] = l[i]
        /\ \A i \in 1..Len(a) : (l \o a)[Len(l) + i] = a[i]
    <3>1. a \in Seq(Events) /\ l \in Seq(Events)
      BY <2>2
    <3> QED BY ONLY <3>1, Parts
  <2> DEFINE c == l \o a
  <2>5. c \in Seq(Events) /\ Len(c) = n
    BY <2>1, <2>2, <2>4
  <2>6. ASSUME NEW i \in 1..n PROVE b[i] = c[i]
    <3>1. CASE i \in 1..Len(l)
      BY <1>1, <2>3, <2>4, <3>1
    <3>2. CASE i \notin 1..Len(l)
      <4>1. i - Len(l) \in 1..m /\ i = Len(l) + (i - Len(l))
        BY <1>1, <2>1, <3>2
      <4>2. c[Len(l) + (i - Len(l))] = evs[i - Len(l)]
        BY <2>2, <2>4, <4>1
      <4>3. t[Len(l) + (i - Len(l))] = evs[i - Len(l)]
        BY <1>1, <2>1, <4>1
      <4> QED BY <2>3, <4>1, <4>2, <4>3
    <3> QED BY <3>1, <3>2
  <2> HIDE DEF c
  <2>7. b = c
    BY <2>3, <2>5, <2>6, SeqEqual
  <2> QED BY <2>1, <2>7 DEF a, b, c
<1> QED BY <1>2, <1>3 DEF t

\* Events that are plain keep the log sound if all of them together do.
LEMMA LogPlain ==
  ASSUME NEW l \in Seq(Events), NEW evs \in Seq(Events), Plain(evs),
         NEW c \in Nat, NEW d \in Nat, c <= d, NEW s,
         LogSound(l, c, s), Sound(Replay(l) \o Replay(evs), d, s)
  PROVE  LogSound(l \o evs, d, s)
<1> SUFFICES ASSUME NEW n \in 0..Len(l \o evs)
             PROVE  Sound(Replay(SubSeq(l \o evs, 1, n)), d, s)
  BY DEF LogSound
<1>1. CASE n \in 0..Len(l)
  <2>1. Sound(Replay(SubSeq(l, 1, n)), c, s)
    BY <1>1 DEF LogSound
  <2>2. SubSeq(l \o evs, 1, n) = SubSeq(l, 1, n)
    BY <1>1, Beginnings
  <2> QED BY <2>1, <2>2, SoundMore
<1>2. CASE n \notin 0..Len(l)
  <2>1. PICK m \in 1..Len(evs) : SubSeq(l \o evs, 1, n) = l \o SubSeq(evs, 1, m)
    BY <1>2, Beginnings
  <2> DEFINE a == SubSeq(evs, 1, m)
             b == SubSeq(evs, m + 1, Len(evs))
  <2>2. a \in Seq(Events) /\ b \in Seq(Events) /\ a \o b = evs
    OBVIOUS
  <2>3. Plain(a) /\ Plain(b)
    BY DEF Plain
  <2> HIDE DEF a, b
  <2>4. Replay(evs) = Replay(a) \o Replay(b)
    BY <2>2, <2>3, ReplayBoth
  <2>5. Replay(l \o a) = Replay(l) \o Replay(a)
    BY <2>2, <2>3, ReplayPlain DEF IsJoin
  <2>6. Replay(l) \in Seq(Items) /\ Replay(a) \in Seq(Items) /\ Replay(b) \in Seq(Items)
    BY <2>2, ReplayType
  <2>7. Associates(Replay(l), Replay(a), Replay(b)) /\ Replay(l) \o Replay(a) \in Seq(Items)
    BY <2>6, JoinAssociates, ConcatProperties
  <2>8. Sound((Replay(l) \o Replay(a)) \o Replay(b), d, s)
    BY <2>4, <2>7 DEF Associates
  <2>9. Sound(Replay(l) \o Replay(a), d, s)
    BY <2>6, <2>7, <2>8, SoundPrefix
  <2> QED BY <2>1, <2>5, <2>9 DEF a
<1> QED BY <1>1, <1>2

\* A compaction replaces what the log replays as.
LEMMA LogCompaction ==
  ASSUME NEW l \in Seq(Events), NEW e \in Events, e.type = Compaction,
         NEW c \in Nat, NEW s, LogSound(l, c, s), Sound(e.items, c, s)
  PROVE  LogSound(l \o <<e>>, c, s)
<1> SUFFICES ASSUME NEW n \in 0..Len(l \o <<e>>)
             PROVE  Sound(Replay(SubSeq(l \o <<e>>, 1, n)), c, s)
  BY DEF LogSound
<1>1. <<e>> \in Seq(Events) /\ Len(<<e>>) = 1 /\ SubSeq(<<e>>, 1, 1) = <<e>>
  <2>1. <<e>> \in Seq(Events) /\ Len(<<e>>) = 1
    OBVIOUS
  <2>2. \A q \in Seq(Events) : SubSeq(q, 1, Len(q)) = q
    OBVIOUS
  <2> QED BY <2>1, <2>2
<1>2. CASE n \in 0..Len(l)
  BY <1>1, <1>2, Beginnings DEF LogSound
<1>3. CASE n \notin 0..Len(l)
  <2>1. PICK m \in 1..Len(<<e>>) : SubSeq(l \o <<e>>, 1, n) = l \o SubSeq(<<e>>, 1, m)
    BY <1>1, <1>3, Beginnings
  <2>2. m = 1
    BY <1>1, <2>1
  <2>3. SubSeq(l \o <<e>>, 1, n) = l \o <<e>>
    BY <1>1, <2>1, <2>2
  <2> QED BY <2>3, ReplayOne
<1> QED BY <1>2, <1>3

\* A log that a crash has cut.
LEMMA LogCut ==
  ASSUME NEW l \in Seq(Events), NEW c, NEW s, LogSound(l, c, s), NEW n \in 0..Len(l)
  PROVE  /\ SubSeq(l, 1, n) \in Seq(Events) /\ Len(SubSeq(l, 1, n)) = n
         /\ \A i \in 1..n : SubSeq(l, 1, n)[i] = l[i]
         /\ LogSound(SubSeq(l, 1, n), c, s)
         /\ Sound(Replay(SubSeq(l, 1, n)), c, s)
<1>1. /\ SubSeq(l, 1, n) \in Seq(Events) /\ Len(SubSeq(l, 1, n)) = n /\ n \in Nat
      /\ \A i \in 1..n : SubSeq(l, 1, n)[i] = l[i] /\ Len(l) \in Nat
  OBVIOUS
<1>2. ASSUME NEW m \in 0..n PROVE SubSeq(SubSeq(l, 1, n), 1, m) = SubSeq(l, 1, m)
  OBVIOUS
<1>3. Sound(Replay(SubSeq(l, 1, n)), c, s)
  BY DEF LogSound
<1> DEFINE k == SubSeq(l, 1, n)
<1>4. ASSUME NEW m \in 0..Len(k) PROVE Sound(Replay(SubSeq(k, 1, m)), c, s)
  <2>1. m \in 0..n /\ m \in 0..Len(l)
    BY <1>1
  <2>2. Sound(Replay(SubSeq(l, 1, m)), c, s)
    BY <2>1 DEF LogSound
  <2> QED BY <1>2, <2>1, <2>2
<1>5. LogSound(k, c, s)
  BY <1>4 DEF LogSound
<1> QED BY <1>1, <1>3, <1>5

LEMMA LogEmpty == \A c, s : LogSound(<<>>, c, s)
<1> TAKE c, s
<1>1. Len(<<>>) = 0 /\ SubSeq(<<>>, 1, 0) = <<>>
  OBVIOUS
<1>2. ASSUME NEW n \in 0..Len(<<>>) PROVE Sound(Replay(SubSeq(<<>>, 1, n)), c, s)
  <2>1. n = 0
    BY <1>1
  <2>2. Sound(<<>>, c, s)
    BY SoundEmpty
  <2> QED BY <1>1, <2>1, <2>2, ReplayEmpty
<1> QED BY <1>2 DEF LogSound

---------------------------------------------------------------------------
(* What the handlers write *)

\* Items that are neither calls nor outputs.
Quiet(h) == \A i \in DOMAIN h : h[i].kind \notin CallKinds \union {"output", "custom_output"}

LEMMA QuietFacts ==
  ASSUME NEW h \in Seq(Items), Quiet(h)
  PROVE  /\ NoOutputs(h) /\ CallsOf(h) = {} /\ CallsApart(h) /\ OutputIds(h) = {}
         /\ \A i \in DOMAIN h : ChatIds(h[i]) = {}
         /\ \A s : OfStyle(h, s)
<1>1. ASSUME NEW i \in DOMAIN h
      PROVE  ~IsOutput(h[i]) /\ CallIds(h[i]) = {} /\ ChatIds(h[i]) = {}
  BY DEF Quiet, IsOutput, CallIds, ChatIds, CallKinds
<1>2. NoOutputs(h) /\ CallsOf(h) = {} /\ OutputIds(h) = {}
  BY <1>1 DEF NoOutputs, CallsOf, OutputIds
<1>3. CallsApart(h)
  BY <1>1 DEF CallsApart
<1>4. \A s : OfStyle(h, s)
  BY DEF OfStyle, Quiet
<1> QED BY <1>1, <1>2, <1>3, <1>4

\* Quiet items may follow whatever is there.
LEMMA SoundQuiet ==
  ASSUME NEW a \in Seq(Items), NEW b \in Seq(Items), NEW n \in Nat, NEW s,
         Sound(a, n, s), Quiet(b)
  PROVE  /\ a \o b \in Seq(Items) /\ Sound(a \o b, n, s)
         /\ CallsOf(a \o b) = CallsOf(a) /\ OutputIds(a \o b) = OutputIds(a)
<1>1. /\ NoOutputs(b) /\ CallsOf(b) = {} /\ CallsApart(b) /\ OutputIds(b) = {} /\ OfStyle(b, s)
      /\ \A i \in DOMAIN b : ChatIds(b[i]) = {}
  BY QuietFacts
<1>2. /\ CallsOf(b) \subseteq 1..n /\ CallsOf(b) \intersect CallsOf(a) = {} /\ n <= n
      /\ \A k \in DOMAIN b : ChatIds(b[k]) \intersect OutputIds(a) = {}
  BY <1>1
<1>3. Sound(a \o b, n, s)
  BY <1>1, <1>2, SoundItems
<1>4. CallsOf(a \o b) = CallsOf(a) \union CallsOf(b)
  BY CallsConcat
<1>5. OutputIds(a \o b) = OutputIds(a) \union OutputIds(b)
  BY OutputsConcat
<1>6. a \o b \in Seq(Items)
  BY Parts
<1> HIDE DEF Sound
<1> QED BY <1>1, <1>3, <1>4, <1>5, <1>6

LEMMA PairConcat ==
  ASSUME NEW T, NEW x \in T, NEW y \in T
  PROVE  /\ <<x>> \in Seq(T) /\ <<y>> \in Seq(T) /\ Len(<<x>>) = 1 /\ Len(<<y>>) = 1
         /\ <<x>> \o <<y>> = <<x, y>> /\ <<x, y>> \in Seq(T)
<1>1. <<x>> \in Seq(T) /\ <<y>> \in Seq(T) /\ Len(<<x>>) = 1 /\ Len(<<y>>) = 1
  OBVIOUS
<1>2. <<x, y>> \in Seq(T) /\ Len(<<x, y>>) = 2 /\ <<x, y>>[1] = x /\ <<x, y>>[2] = y
  OBVIOUS
<1>3. <<x>> \o <<y>> \in Seq(T) /\ Len(<<x>> \o <<y>>) = 2
  BY <1>1, ConcatProperties
<1>4. (<<x>> \o <<y>>)[1] = x /\ (<<x>> \o <<y>>)[2] = y
  OBVIOUS
<1>5. \A i \in 1..2 : (<<x>> \o <<y>>)[i] = <<x, y>>[i]
  <2> SUFFICES ASSUME NEW i \in 1..2 PROVE (<<x>> \o <<y>>)[i] = <<x, y>>[i]
    OBVIOUS
  <2>1. i = 1 \/ i = 2
    OBVIOUS
  <2> QED BY <1>2, <1>4, <2>1

<1>6. <<x>> \o <<y>> = <<x, y>>
  BY <1>2, <1>3, <1>5, SeqEqual
<1> QED BY <1>1, <1>2, <1>6

LEMMA SubTwo ==
  ASSUME NEW T, NEW x \in T, NEW y \in T, NEW at
  PROVE  Sub(<<x, y>>, at) = IF 1 \in at THEN (IF 2 \in at THEN <<x, y>> ELSE <<x>>)
                                         ELSE (IF 2 \in at THEN <<y>> ELSE <<>>)
<1> DEFINE bt == IF 2 \in at THEN {1} ELSE {}
<1>1. /\ <<x>> \in Seq(T) /\ <<y>> \in Seq(T) /\ Len(<<x>>) = 1 /\ Len(<<y>>) = 1
      /\ <<x>> \o <<y>> = <<x, y>>
  BY PairConcat
<1>2. \A i \in 1..Len(<<y>>) : Len(<<x>>) + i \in at <=> i \in bt
  <2> SUFFICES ASSUME NEW i \in 1..1 PROVE 1 + i \in at <=> i \in bt
    BY <1>1
  <2>1. i = 1 /\ 1 + i = 2
    OBVIOUS
  <2> QED BY <2>1
<1> HIDE DEF bt
<1>3. IsJoin(Sub(<<x>> \o <<y>>, at), Sub(<<x>>, at), Sub(<<y>>, bt))
  BY <1>1, <1>2, SubConcat
<1>4. Sub(<<x, y>>, at) = Sub(<<x>>, at) \o Sub(<<y>>, bt)
  BY <1>1, <1>3 DEF IsJoin
<1>5. /\ Sub(<<x>>, at) = IF 1 \in at THEN <<x>> ELSE <<>>
      /\ Sub(<<y>>, bt) = IF 1 \in bt THEN <<y>> ELSE <<>>
  BY SubOne
<1>6. 1 \in bt <=> 2 \in at
  BY DEF bt
<1>7. <<>> \o <<y>> = <<y>> /\ <<x>> \o <<>> = <<x>> /\ <<>> \o <<>> = <<>>
  OBVIOUS
<1>8. CASE 1 \in at /\ 2 \in at
  BY <1>1, <1>4, <1>5, <1>6, <1>8
<1>9. CASE 1 \in at /\ 2 \notin at
  BY <1>4, <1>5, <1>6, <1>7, <1>9
<1>10. CASE 1 \notin at /\ 2 \in at
  BY <1>4, <1>5, <1>6, <1>7, <1>10
<1>11. CASE 1 \notin at /\ 2 \notin at
  BY <1>4, <1>5, <1>6, <1>7, <1>11
<1> QED BY <1>8, <1>9, <1>10, <1>11

LEMMA EventFacts ==
  ASSUME NEW type \in EventTypes, NEW added \in Seq(Items)
  PROVE  /\ Event(type, added) \in Events
         /\ Event(type, added).type = type /\ Event(type, added).items = added
  BY DEF Event, Events

\* Events that hold no output of the model or of a tool.
NoneCut(events) == \A i \in DOMAIN events : events[i].type \notin {"assistant_output", "tool_output"}

\* The staged items a turn commits are quiet, and so the log has them.
LEMMA CommitFacts ==
  ASSUME turn \in 0..MaxTurns
  PROVE  /\ Committed \in Seq(Items) /\ Quiet(Committed)
         /\ CommitEvents \in Seq(Events) /\ Plain(CommitEvents) /\ NoneCut(CommitEvents)
         /\ Replay(CommitEvents) = Committed
<1> DEFINE x == Context(turn)
           y == User(turn)
           e == Event("prompt_item", <<x>>)
           g == UserEvent
<1>1. /\ x \in Items /\ y \in Items /\ x.kind = "context" /\ y.kind = "user"
  BY DEF Items, Context, User
<1>2. /\ e \in Events /\ g \in Events /\ e.items = <<x>> /\ g.items = <<y>>
      /\ e.type = "prompt_item" /\ g.type = "user_message"
  <2>1. <<x>> \in Seq(Items) /\ <<y>> \in Seq(Items)
    BY <1>1
  <2>2. e = Event("prompt_item", <<x>>) /\ g = Event("user_message", <<y>>)
    BY Zenon DEF UserEvent
  <2>5. "prompt_item" \in EventTypes /\ "user_message" \in EventTypes
    BY DEF EventTypes
  <2> HIDE DEF x, y, e, g
  <2>3. e \in Events /\ e.items = <<x>> /\ e.type = "prompt_item"
    BY ONLY <2>1, <2>2, <2>5, EventFacts
  <2>4. g \in Events /\ g.items = <<y>> /\ g.type = "user_message"
    BY ONLY <2>1, <2>2, <2>5, EventFacts
  <2> QED BY <2>3, <2>4
<1>3. Staged = <<x, y>> /\ StagedEvents = <<e, g>>
  BY DEF Staged, StagedFor, StagedEvents
<1>4. /\ Replay(<<e>>) = <<x>> /\ Replay(<<g>>) = <<y>> /\ Replay(<<>>) = <<>>
      /\ <<e>> \in Seq(Events) /\ <<g>> \in Seq(Events) /\ <<>> \in Seq(Events)
  BY <1>2, ReplayEvent, ReplayEmpty
<1>5. Committed = IF 1 \in Uncommitted THEN (IF 2 \in Uncommitted THEN <<x, y>> ELSE <<x>>)
                                       ELSE (IF 2 \in Uncommitted THEN <<y>> ELSE <<>>)
  BY <1>1, <1>3, SubTwo DEF Committed
<1>6. CommitEvents = IF 1 \in Uncommitted THEN (IF 2 \in Uncommitted THEN <<e, g>> ELSE <<e>>)
                                          ELSE (IF 2 \in Uncommitted THEN <<g>> ELSE <<>>)
  BY <1>2, <1>3, SubTwo DEF CommitEvents
<1> HIDE DEF x, y, e, g
<1>7. /\ <<x, y>> \in Seq(Items) /\ Quiet(<<x, y>>) /\ <<x>> \in Seq(Items) /\ Quiet(<<x>>)
      /\ <<y>> \in Seq(Items) /\ Quiet(<<y>>) /\ <<>> \in Seq(Items) /\ Quiet(<<>>)
  BY <1>1 DEF Quiet, CallKinds
<1>8. /\ Plain(<<e>>) /\ NoneCut(<<e>>) /\ Plain(<<g>>) /\ NoneCut(<<g>>)
      /\ Plain(<<>>) /\ NoneCut(<<>>) /\ Plain(<<e, g>>) /\ NoneCut(<<e, g>>)
  BY <1>2 DEF Plain, NoneCut, Compaction
<1>9. <<e, g>> \in Seq(Events) /\ Replay(<<e, g>>) = <<x, y>>
  <2>1. <<e>> \o <<g>> = <<e, g>> /\ <<x>> \o <<y>> = <<x, y>>
    BY <1>1, <1>2, PairConcat
  <2>2. <<e>> \o <<g>> \in Seq(Events) /\ Replay(<<e>> \o <<g>>) = Replay(<<e>>) \o Replay(<<g>>)
    BY <1>4, <1>8, ReplayBoth
  <2> QED BY <1>4, <2>1, <2>2
<1>10. CASE 1 \in Uncommitted /\ 2 \in Uncommitted
  BY <1>5, <1>6, <1>7, <1>8, <1>9, <1>10
<1>11. CASE 1 \in Uncommitted /\ 2 \notin Uncommitted
  BY <1>4, <1>5, <1>6, <1>7, <1>8, <1>11
<1>12. CASE 1 \notin Uncommitted /\ 2 \in Uncommitted
  BY <1>4, <1>5, <1>6, <1>7, <1>8, <1>12
<1>13. CASE 1 \notin Uncommitted /\ 2 \notin Uncommitted
  BY <1>4, <1>5, <1>6, <1>7, <1>8, <1>13
<1> QED BY <1>10, <1>11, <1>12, <1>13

\* Sequences of calls.
Elements(s) == {s[i] : i \in DOMAIN s}
Distinct(s) == \A i, j \in DOMAIN s : s[i] = s[j] => i = j

LEMMA InOrderFacts ==
  ASSUME NEW S \in SUBSET (1..MaxCalls)
  PROVE  /\ InOrder(S) \in Seq(1..MaxCalls)
         /\ Elements(InOrder(S)) = S /\ Distinct(InOrder(S))
<1> DEFINE q == [id \in 1..MaxCalls |-> id]
           r == InOrder(S)
<1>1. MaxCalls \in Nat
  BY TurnBounds
<1>2. q \in Seq(1..MaxCalls) /\ Len(q) = MaxCalls /\ \A i \in 1..MaxCalls : q[i] = i
  BY <1>1
<1>3. r = Sub(q, S)
  BY DEF InOrder
<1> HIDE DEF q, r
<1>4. r \in Seq(1..MaxCalls) /\ DOMAIN r = 1..Len(r) /\ Len(r) \in Nat
  BY <1>2, <1>3, SubType
<1>5. PICK p : Positions(q, S, Len(q), r, p)
  BY <1>2, <1>3, SubPositions
<1>6. ASSUME NEW k \in 1..Len(r) PROVE r[k] = p[k] /\ p[k] \in S /\ p[k] \in 1..MaxCalls
  BY <1>2, <1>5, <1>6 DEF Positions
<1>7. ASSUME NEW id \in S PROVE \E k \in 1..Len(r) : r[k] = id
  <2>1. id \in (1..Len(q)) \intersect S
    BY <1>2
  <2>2. PICK k \in 1..Len(r) : p[k] = id
    BY <1>5, <2>1 DEF Positions
  <2> QED BY <1>6, <2>2
<1>8. Elements(r) = S
  BY <1>4, <1>6, <1>7 DEF Elements
<1>9. ASSUME NEW i \in 1..Len(r), NEW j \in 1..Len(r), r[i] = r[j] PROVE i = j
  <2>1. p[i] = p[j] /\ p[i] \in Int /\ p[j] \in Int
    BY <1>6, <1>9
  <2>2. /\ i < j => p[i] < p[j]
        /\ j < i => p[j] < p[i]
    BY <1>5 DEF Positions
  <2> QED BY <2>1, <2>2
<1> QED BY <1>4, <1>8, <1>9 DEF Distinct, r

\* The items of an answer with calls.
LEMMA CallItemsFacts ==
  ASSUME style \in Styles, NEW S \in SUBSET (1..MaxCalls)
  PROVE  /\ CallItems(S) \in Seq(Items) /\ NoOutputs(CallItems(S)) /\ CallsApart(CallItems(S))
         /\ CallsOf(CallItems(S)) = S /\ OfStyle(CallItems(S), style)
         /\ \A j \in 1..(Len(CallItems(S)) - 1) : ChatIds(CallItems(S)[j]) = {}
<1> DEFINE r == CallItems(S)
<1>1. style \in {"chat", "function", "custom"} /\ MaxCalls \in Nat
  BY TurnBounds
<1>2. CASE style = "chat"
  <2> DEFINE x == [kind |-> "chat", ids |-> S]
  <2>1. x \in Items /\ CallIds(x) = S /\ ~IsOutput(x) /\ x.kind = "chat"
    BY DEF Items, CallIds, CallKinds, IsOutput
  <2>2. r = <<x>>
    BY <1>2 DEF CallItems
  <2> HIDE DEF x, r
  <2>3. /\ r \in Seq(Items) /\ DOMAIN r = {1} /\ r[1] = x /\ Len(r) = 1
        /\ CallsOf(r) = S /\ CallsApart(r)
    BY <2>1, <2>2, OneItem
  <2>4. NoOutputs(r) /\ OfStyle(r, style)
    BY <1>2, <2>1, <2>3 DEF NoOutputs, OfStyle
  <2>5. \A j \in 1..(Len(r) - 1) : FALSE
    BY <2>3
  <2> QED BY <2>3, <2>4, <2>5 DEF r
<1>3. CASE style # "chat"
  <2> DEFINE q == [id \in 1..MaxCalls |-> [kind |-> style, ids |-> {id}]]
  <2>1. r = Sub(q, S)
    BY <1>3 DEF CallItems
  <2>2. ASSUME NEW id \in 1..MaxCalls
        PROVE /\ q[id] \in Items /\ CallIds(q[id]) = {id} /\ ~IsOutput(q[id]) /\ q[id].kind = style
              /\ ChatIds(q[id]) = {}
    BY <1>1, <1>3 DEF Items, CallIds, CallKinds, IsOutput, ChatIds
  <2>3. q \in Seq(Items) /\ Len(q) = MaxCalls
    BY <1>1, <2>2
  <2> HIDE DEF q, r
  <2>4. r \in Seq(Items) /\ DOMAIN r = 1..Len(r) /\ Len(r) \in Nat
    BY <2>1, <2>3, SubType
  <2>5. PICK p : Positions(q, S, Len(q), r, p)
    BY <2>1, <2>3, SubPositions
  <2>6. ASSUME NEW k \in 1..Len(r)
        PROVE  r[k] = q[p[k]] /\ p[k] \in S /\ p[k] \in 1..MaxCalls
    BY <2>3, <2>5, <2>6 DEF Positions
  <2>7. ASSUME NEW k \in 1..Len(r)
        PROVE  /\ CallIds(r[k]) = {p[k]} /\ ~IsOutput(r[k]) /\ r[k].kind = style
               /\ ChatIds(r[k]) = {}
    BY <2>2, <2>6
  <2>8. NoOutputs(r) /\ OfStyle(r, style)
    BY <1>1, <2>4, <2>7 DEF NoOutputs, OfStyle
  <2>9. ASSUME NEW i \in 1..Len(r), NEW j \in 1..Len(r), i # j
        PROVE  CallIds(r[i]) \intersect CallIds(r[j]) = {}
    <3>1. p[i] \in Int /\ p[j] \in Int
      BY <2>6
    <3>2. /\ i < j => p[i] < p[j]
          /\ j < i => p[j] < p[i]
      BY <2>5 DEF Positions
    <3>3. p[i] # p[j]
      BY <2>4, <2>9, <3>1, <3>2
    <3> QED BY <2>7, <3>3
  <2>10. CallsApart(r)
    BY <2>4, <2>9 DEF CallsApart
  <2>11. ASSUME NEW id \in S PROVE \E k \in 1..Len(r) : p[k] = id
    <3>1. id \in (1..Len(q)) \intersect S
      BY <2>3
    <3> QED BY <2>5, <3>1 DEF Positions
  <2>12. CallsOf(r) = S
    <3>1. CallsOf(r) \subseteq S
      BY <2>4, <2>6, <2>7 DEF CallsOf
    <3>2. ASSUME NEW id \in S PROVE id \in CallsOf(r)
      <4>1. PICK k \in 1..Len(r) : p[k] = id
        BY <2>11
      <4>2. id \in CallIds(r[k]) /\ k \in DOMAIN r
        BY <2>4, <2>7, <4>1
      <4> QED BY <4>2 DEF CallsOf
    <3> QED BY <3>1, <3>2
  <2>13. \A j \in 1..(Len(r) - 1) : ChatIds(r[j]) = {}
    BY <2>4, <2>7
  <2> QED BY <2>4, <2>8, <2>10, <2>12, <2>13 DEF r
<1> QED BY <1>2, <1>3

\* The user items a compaction keeps, behind its summary.
LEMMA CompactFacts ==
  ASSUME turn \in 0..MaxTurns, items \in Seq(Items), NEW first \in Nat,
         NEW users, users = Filter(items, LAMBDA item : item.kind \in UserKinds),
         first >= 1
  PROVE  /\ <<Summary(turn)>> \o SubSeq(users, first, Len(users)) \in Seq(Items)
         /\ Quiet(<<Summary(turn)>> \o SubSeq(users, first, Len(users)))
<1> DEFINE at == {i \in DOMAIN items : items[i].kind \in UserKinds}
           x == Summary(turn)
           b == SubSeq(users, first, Len(users))
<1>1. users = Sub(items, at)
  BY DEF Filter
<1>2. users \in Seq(Items) /\ Len(users) \in Nat
  BY <1>1, SubType
<1>3. PICK p : Positions(items, at, Len(items), users, p)
  BY <1>1, SubPositions
<1>4. ASSUME NEW k \in 1..Len(users) PROVE users[k].kind \in UserKinds
  <2>1. users[k] = items[p[k]] /\ p[k] \in at
    BY <1>3 DEF Positions
  <2> QED BY <2>1
<1>5. ASSUME NEW k \in 1..Len(users)
      PROVE users[k].kind \notin CallKinds \union {"output", "custom_output"}
  BY <1>4 DEF UserKinds, CallKinds
<1>6. b \in Seq(Items) /\ \A i \in DOMAIN b : \E k \in 1..Len(users) : b[i] = users[k]
  <2>1. b \in Seq(Items) /\ Len(b) = IF first <= Len(users) THEN Len(users) - first + 1 ELSE 0
    <3>1. \A i \in first..Len(users) : users[i] \in Items
      BY <1>2
    <3> QED BY ONLY <1>2, <3>1, first \in Nat, SubSeqProperties
  <2>2. ASSUME NEW i \in DOMAIN b PROVE \E k \in 1..Len(users) : b[i] = users[k]
    <3>1. i \in 1..(Len(users) - first + 1) /\ first <= Len(users)
      BY <1>2, <2>1
    <3>2. first + i - 1 \in 1..Len(users) /\ b[i] = users[first + i - 1]
      BY <1>2, <3>1
    <3> QED BY <3>2
  <2> QED BY <2>1, <2>2
<1>7. x \in Items /\ x.kind = "summary"
  BY DEF Items, Summary
<1> HIDE DEF x, b
<1>8. <<x>> \in Seq(Items) /\ Len(<<x>>) = 1 /\ <<x>>[1] = x
  BY <1>7
<1>9. /\ <<x>> \o b \in Seq(Items) /\ DOMAIN (<<x>> \o b) = 1..(1 + Len(b))
      /\ DOMAIN b = 1..Len(b)
      /\ (<<x>> \o b)[1] = x
      /\ \A i \in 1..Len(b) : (<<x>> \o b)[1 + i] = b[i]
      /\ \A i \in 1..(1 + Len(b)) : i \in 1..1 \/ \E k \in 1..Len(b) : i = 1 + k
  BY ONLY <1>6, <1>8, Parts
<1>10. ASSUME NEW i \in 1..(1 + Len(b))
       PROVE  (<<x>> \o b)[i].kind \notin CallKinds \union {"output", "custom_output"}
  <2>1. CASE i \in 1..1
    BY <1>7, <1>9, <2>1 DEF CallKinds
  <2>2. ASSUME NEW k \in 1..Len(b), i = 1 + k
        PROVE  (<<x>> \o b)[i].kind \notin CallKinds \union {"output", "custom_output"}
    <3>1. b[k].kind \notin CallKinds \union {"output", "custom_output"}
      BY <1>5, <1>6, <1>9
    <3>2. (<<x>> \o b)[i] = b[k]
      BY <1>9, <2>2
    <3> QED BY <3>1, <3>2
  <2> QED BY <1>9, <2>1, <2>2
<1> QED BY <1>9, <1>10 DEF Quiet, x, b

---------------------------------------------------------------------------
(* The inductive invariant *)

\* The calls of the response that have no result yet, and where a turn has them.
Running == batch \o rest
Flow ==
    /\ pc # "tools" => batch = <<>> /\ rest = <<>>
    /\ pc = "input" => turn < MaxTurns
    /\ pc \in {"idle", "input"} => step = 0
    /\ pc \notin {"idle", "input"} => turn >= 1
    /\ pc \in {"model", "backoff", "tools"} => step >= 1
    /\ Distinct(Running) /\ Elements(Running) \subseteq 1..calls

\* A history and the calls that are running.
Consistent(h, n, s, S) == h \in Seq(Items) /\ Sound(h, n, s) /\ Open(h, S)

Uncut(events) == \A i \in DOMAIN events :
    events[i].type \in {"assistant_output", "tool_output"} => events[i].items # <<>>

\* The history, and what the log replays as wherever it ends, are sound; unless a
\* payload was cut they say the same.
Recorded ==
    /\ Consistent(items, calls, style, Elements(Running))
    /\ log \in Seq(Events) /\ LogSound(log, calls, style)
    /\ Consistent(Replay(log), calls, style, Elements(Running))
    /\ Uncut(log) => SameAs(Replay(log), items)

\* A prompt is paired from when it is compiled, and shows the outputs of the history
\* unless it is the first after a dream.
PromptOK ==
    pc \in {"ask", "model", "backoff"} =>
      /\ prompt \in Seq(Items) /\ Pairs(prompt, {})
      /\ style = "chat" /\ ~(diaries /\ step = IF pc = "ask" THEN 0 ELSE 1)
           => OutputsAreShown(items, prompt)

Inv == TypeOK /\ Flow /\ Recorded /\ PromptOK

\* Fewer calls are open as well.
LEMMA OpenLess ==
  ASSUME NEW h, NEW S, NEW R \in SUBSET S, Open(h, S)
  PROVE  Open(h, R)
  BY DEF Open

LEMMA OpenNone == \A h : Open(h, {})
  BY DEF Open

\* A payload is cut in the log if one is in what was written or was before.
LEMMA UncutParts ==
  ASSUME NEW l \in Seq(Events), NEW evs \in Seq(Events), Uncut(l \o evs)
  PROVE  Uncut(l) /\ Uncut(evs)
<1>1. /\ Len(l) \in Nat /\ Len(evs) \in Nat
      /\ DOMAIN (l \o evs) = 1..(Len(l) + Len(evs))
      /\ DOMAIN l = 1..Len(l) /\ DOMAIN evs = 1..Len(evs)
      /\ \A i \in 1..Len(l) : (l \o evs)[i] = l[i]
      /\ \A i \in 1..Len(evs) : (l \o evs)[Len(l) + i] = evs[i]
  BY Parts
<1>2. \A i \in 1..(Len(l) + Len(evs)) :
        (l \o evs)[i].type \in {"assistant_output", "tool_output"} => (l \o evs)[i].items # <<>>
  BY <1>1 DEF Uncut
<1>3. ASSUME NEW i \in 1..Len(l)
      PROVE l[i].type \in {"assistant_output", "tool_output"} => l[i].items # <<>>
  <2>1. i \in 1..(Len(l) + Len(evs)) /\ (l \o evs)[i] = l[i]
    BY <1>1
  <2> QED BY <1>2, <2>1
<1>4. ASSUME NEW i \in 1..Len(evs)
      PROVE evs[i].type \in {"assistant_output", "tool_output"} => evs[i].items # <<>>
  <2>1. Len(l) + i \in 1..(Len(l) + Len(evs)) /\ (l \o evs)[Len(l) + i] = evs[i]
    BY <1>1
  <2> QED BY <1>2, <2>1
<1> QED BY <1>1, <1>3, <1>4 DEF Uncut

\* What a handler writes keeps the record if the history it makes does and so does
\* what its events replay as.
LEMMA RecordedStep ==
  ASSUME Recorded, NEW evs \in Seq(Events), Plain(evs), log' = log \o evs, style' = style,
         calls \in Nat, calls' \in Nat, calls <= calls',
         Consistent(items', calls', style, Elements(Running')),
         Consistent(Replay(log) \o Replay(evs), calls', style, Elements(Running')),
         Uncut(evs) /\ SameAs(Replay(log), items)
           => SameAs(Replay(log) \o Replay(evs), items')
  PROVE  Recorded'
<1>1. log \in Seq(Events) /\ LogSound(log, calls, style)
  BY DEF Recorded
<1>2. log' \in Seq(Events)
  BY <1>1, ConcatProperties
<1>3. LogSound(log', calls', style)
  <2>1. Sound(Replay(log) \o Replay(evs), calls', style)
    BY DEF Consistent
  <2>2. LogSound(log \o evs, calls', style)
    BY <1>1, <2>1, LogPlain
  <2> QED BY <2>2
<1>4. Replay(log') = Replay(log) \o Replay(evs)
  <2>1. IsJoin(Replay(log \o evs), Replay(log), Replay(evs))
    BY <1>1, ReplayPlain
  <2> QED BY <2>1 DEF IsJoin
<1>5. Uncut(log') => Uncut(log) /\ Uncut(evs)
  BY <1>1, UncutParts
<1>6. Uncut(log) => SameAs(Replay(log), items)
  BY DEF Recorded
<1>7. Uncut(log') => SameAs(Replay(log'), items')
  BY <1>4, <1>5, <1>6
<1>8. Consistent(Replay(log'), calls', style', Elements(Running'))
  BY <1>4
<1> QED BY <1>2, <1>3, <1>7, <1>8 DEF Recorded

\* Events without items leave it as it is.
LEMMA NothingRecorded ==
  ASSUME Recorded, NEW evs \in Seq(Events), Plain(evs), log' = log \o evs, style' = style,
         \A i \in DOMAIN evs : evs[i].items = <<>>,
         calls \in Nat, calls' = calls, items' = items,
         Elements(Running') \subseteq Elements(Running)
  PROVE  Recorded'
<1>1. Replay(evs) = <<>>
  BY ReplayNothing
<1>2. Replay(log) \in Seq(Items)
  BY DEF Recorded, Consistent
<1>3. Replay(log) \o Replay(evs) = Replay(log)
  BY <1>1, <1>2, ConcatEmptySeq
<1>4. Consistent(items', calls', style, Elements(Running'))
  BY OpenLess DEF Recorded, Consistent
<1>5. Consistent(Replay(log) \o Replay(evs), calls', style, Elements(Running'))
  BY <1>3, OpenLess DEF Recorded, Consistent
<1>6. SameAs(Replay(log), items) => SameAs(Replay(log) \o Replay(evs), items')
  BY <1>3
<1> QED BY <1>4, <1>5, <1>6, RecordedStep

\* A turn that is left runs no calls.
LEMMA NoneRunning ==
  ASSUME batch' = <<>>, rest' = <<>>
  PROVE  Running' = <<>> /\ Elements(Running') = {} /\ Distinct(Running')
<1>1. Running' = <<>>
  BY DEF Running
<1> QED BY <1>1 DEF Elements, Distinct

LEMMA Same ==
  ASSUME batch' = batch, rest' = rest
  PROVE  Running' = Running
  BY DEF Running

---------------------------------------------------------------------------
(* Steps that add nothing to the history *)

LEMMA Bounds ==
  /\ MaxTurns \in Nat /\ MaxCalls \in Nat /\ MaxRetries \in Nat /\ MaxRestarts \in Nat
  /\ MaxSteps \in Nat /\ MaxSteps >= 1 /\ MaxParallel \in Nat /\ RepeatLimit \in Nat
  /\ Styles \subseteq {"chat", "function", "custom"}
  BY TurnBounds

LEMMA InitInv ==
  ASSUME Init
  PROVE  Inv
<1>1. TypeOK
  <2>1. <<>> \in Seq(1..MaxCalls) /\ <<>> \in Seq(Items) /\ Len(<<>>) = 0
    OBVIOUS
  <2>2. {stopped, cancel, diaries} \subseteq BOOLEAN
    BY DEF Init
  <2> QED BY <2>1, <2>2, Bounds DEF Init, TypeOK
<1>2. Running = <<>> /\ Elements(Running) = {} /\ Distinct(Running)
  BY DEF Init, Running, Elements, Distinct
<1>3. Flow
  BY <1>2 DEF Init, Flow
<1>4. <<>> \in Seq(Items) /\ <<>> \in Seq(Events)
  OBVIOUS
<1>5. Recorded
  BY <1>2, <1>4, SoundEmpty, OpenNone, LogEmpty, ReplayEmpty DEF Init, Recorded, Consistent, SameAs
<1>6. PromptOK
  BY DEF Init, PromptOK
<1> QED BY <1>1, <1>3, <1>5, <1>6 DEF Inv

LEMMA NoEvents ==
  /\ <<>> \in Seq(Events) /\ Plain(<<>>)
  /\ \A i \in DOMAIN <<>> : <<>>[i].items = <<>>
  /\ \A l \in Seq(Events) : l \o <<>> = l
  BY ConcatEmptySeq DEF Plain

\* A turn that is left: by an interrupt, a limit, a hook.
LEMMA LeaveType ==
  ASSUME TypeOK, Leave, style' = style, turn' = turn, calls' = calls, diaries' = diaries,
         restarts' = restarts, items' \in Seq(Items), mark' \in 0..Len(log'),
         pending' \in {"none", "staged", "sent", "committed", "failed", "interrupted"}
  PROVE  TypeOK' /\ Flow' /\ PromptOK' /\ Elements(Running') = {}
<1>1. Running' = <<>> /\ Elements(Running') = {} /\ Distinct(Running')
  BY NoneRunning DEF Leave
<1>2. TypeOK'
  <2>1. <<>> \in Seq(1..MaxCalls) /\ <<>> \in Seq(Items)
    OBVIOUS
  <2>2. {stopped, cancel, diaries}' \subseteq BOOLEAN
    BY DEF TypeOK, Leave
  <2> QED BY <2>1, <2>2, Bounds DEF TypeOK, Leave
<1>3. Flow'
  BY <1>1 DEF Flow, Leave
<1>4. PromptOK'
  BY DEF PromptOK, Leave
<1> QED BY <1>1, <1>2, <1>3, <1>4

LEMMA MarkType ==
  ASSUME NEW evs \in Seq(Events), log \in Seq(Events), Write(evs)
  PROVE  mark' \in 0..Len(log') /\ log' = log \o evs
<1>1. Len(log \o evs) = Len(log) + Len(evs) /\ Len(log) \in Nat /\ Len(evs) \in Nat
  BY Parts
<1> QED BY <1>1 DEF Write

Pendings == {"none", "staged", "sent", "committed", "failed", "interrupted"}

\* A turn that is left with nothing for the history.
LEMMA LeaveNothing ==
  ASSUME Inv, Leave, NEW evs \in Seq(Events), Write(evs), Plain(evs),
         \A i \in DOMAIN evs : evs[i].items = <<>>,
         style' = style, turn' = turn, items' = items, calls' = calls, diaries' = diaries,
         restarts' = restarts, pending' \in Pendings
  PROVE  Inv'
<1>1. TypeOK /\ Recorded /\ calls \in Nat /\ items \in Seq(Items)
  BY Bounds DEF Inv, TypeOK
<1>2. mark' \in 0..Len(log') /\ log' = log \o evs
  BY <1>1, MarkType DEF Recorded
<1>3. TypeOK' /\ Flow' /\ PromptOK' /\ Elements(Running') = {}
  BY <1>1, <1>2, LeaveType DEF Pendings
<1>4. Recorded'
  BY <1>1, <1>2, <1>3, NothingRecorded
<1> QED BY <1>3, <1>4 DEF Inv

LEMMA BlockTurnStep ==
  ASSUME Inv, BlockTurn
  PROVE  Inv'
<1>1. pending' \in Pendings
  BY DEF BlockTurn, Inv, TypeOK, Pendings
<1> QED BY <1>1, NoEvents, LeaveNothing DEF BlockTurn

LEMMA RunOutOfStepsStep ==
  ASSUME Inv, RunOutOfSteps
  PROVE  Inv'
<1>1. pending' \in Pendings
  BY DEF RunOutOfSteps, Inv, TypeOK, Pendings
<1> QED BY <1>1, NoEvents, LeaveNothing DEF RunOutOfSteps

LEMMA InterruptModelStep ==
  ASSUME Inv, InterruptModel
  PROVE  Inv'
<1>1. pending' \in Pendings
  BY DEF InterruptModel, Inv, TypeOK, Pendings
<1> QED BY <1>1, NoEvents, LeaveNothing DEF InterruptModel

\* Events without items.
LEMMA EmptyEvents ==
  ASSUME NEW t \in EventTypes \ {Compaction}
  PROVE  /\ <<Event(t, <<>>)>> \in Seq(Events) /\ Plain(<<Event(t, <<>>)>>)
         /\ \A i \in DOMAIN <<Event(t, <<>>)>> : <<Event(t, <<>>)>>[i].items = <<>>
<1>1. <<>> \in Seq(Items)
  OBVIOUS
<1>2. /\ Event(t, <<>>) \in Events
      /\ Event(t, <<>>).type = t /\ Event(t, <<>>).items = <<>>
  BY <1>1, EventFacts
<1> DEFINE e == Event(t, <<>>)
<1> HIDE DEF e
<1>3. <<e>> \in Seq(Events) /\ Plain(<<e>>) /\ \A i \in DOMAIN <<e>> : <<e>>[i].items = <<>>
  BY <1>2 DEF e, Plain
<1> QED BY <1>3 DEF e

LEMMA FailModelStep ==
  ASSUME Inv, FailModel
  PROVE  Inv'
<1> DEFINE e == Event("error", <<>>)
           g == Event("turn_failed", <<>>)
           evs == <<e, g>>
<1>1. pending' \in Pendings
  BY DEF FailModel, FailPending, Inv, TypeOK, Pendings
<1>2. /\ e \in Events /\ g \in Events /\ e.items = <<>> /\ g.items = <<>>
      /\ e.type # Compaction /\ g.type # Compaction
  <2>1. <<>> \in Seq(Items) /\ {"error", "turn_failed"} \subseteq EventTypes
    BY DEF EventTypes
  <2> QED BY <2>1, EventFacts DEF Compaction
<1>3. Write(evs) /\ Leave
  BY DEF FailModel
<1> HIDE DEF e, g
<1>4. /\ evs \in Seq(Events) /\ Plain(evs) /\ \A i \in DOMAIN evs : evs[i].items = <<>>
  BY <1>2 DEF Plain
<1> HIDE DEF evs
<1> QED BY <1>1, <1>3, <1>4, LeaveNothing DEF FailModel

\* A step that stays in the turn, or begins one, and writes no items.
LEMMA StayRecorded ==
  ASSUME Inv, NEW evs \in Seq(Events), Write(evs), Plain(evs),
         \A i \in DOMAIN evs : evs[i].items = <<>>,
         style' = style, items' = items, calls' = calls,
         Elements(Running') \subseteq Elements(Running)
  PROVE  Recorded' /\ mark' \in 0..Len(log')
<1>1. Recorded /\ calls \in Nat
  BY Bounds DEF Inv, TypeOK
<1>2. mark' \in 0..Len(log') /\ log' = log \o evs
  BY <1>1, MarkType DEF Recorded
<1> QED BY <1>1, <1>2, NothingRecorded

LEMMA InputStep ==
  ASSUME Inv, Input
  PROVE  Inv'
<1>1. /\ batch' = batch /\ rest' = rest /\ Running' = Running
  BY Same DEF Input, TurnVars
<1>2. Recorded' /\ mark' \in 0..Len(log')
  BY <1>1, NoEvents, StayRecorded DEF Input, TurnVars
<1>3. TypeOK'
  <2>1. {stopped, cancel, diaries}' \subseteq BOOLEAN
    BY DEF TypeOK, Inv, Input, TurnVars
  <2> QED BY <1>2, <2>1 DEF TypeOK, Inv, Input, TurnVars
<1>4. Flow'
  BY <1>1 DEF Flow, Inv, Input, TurnVars
<1>5. PromptOK'
  BY DEF PromptOK, Input
<1> QED BY <1>2, <1>3, <1>4, <1>5 DEF Inv

LEMMA AcceptDreamStep ==
  ASSUME Inv, AcceptDream
  PROVE  Inv'
<1>1. /\ batch' = batch /\ rest' = rest /\ Running' = Running
  BY Same DEF AcceptDream, TurnVars
<1>2. Recorded' /\ mark' \in 0..Len(log')
  <2>1. "memory_diary" \in EventTypes \ {Compaction}
    BY DEF EventTypes, Compaction
  <2> QED BY <1>1, <2>1, EmptyEvents, StayRecorded DEF AcceptDream, TurnVars
<1>3. TypeOK'
  <2>1. {stopped, cancel, diaries}' \subseteq BOOLEAN
    BY DEF TypeOK, Inv, AcceptDream, TurnVars
  <2> QED BY <1>2, <2>1 DEF TypeOK, Inv, AcceptDream, TurnVars
<1>4. Flow'
  BY <1>1 DEF Flow, Inv, AcceptDream, TurnVars
<1>5. PromptOK'
  BY DEF PromptOK, AcceptDream
<1> QED BY <1>2, <1>3, <1>4, <1>5 DEF Inv

\* A prompt that is paired stays so when quiet items are added.
LEMMA PairsQuiet ==
  ASSUME NEW p \in Seq(Items), Pairs(p, {}), NEW x \in Items, NEW y \in Items,
         Quiet(<<x, y>>)
  PROVE  p \o <<x, y>> \in Seq(Items) /\ Pairs(p \o <<x, y>>, {})
<1>1. ASSUME NEW z \in {x, y} PROVE ~IsOutput(z) /\ CallIds(z) = {}
  <2>1. <<x, y>>[1] = x /\ <<x, y>>[2] = y /\ {1, 2} = DOMAIN <<x, y>>
    OBVIOUS
  <2>2. z.kind \notin CallKinds \union {"output", "custom_output"}
    BY <2>1 DEF Quiet
  <2> QED BY <2>2 DEF IsOutput, CallIds
<1>2. <<x>> \in Seq(Items) /\ <<y>> \in Seq(Items) /\ <<x>> \o <<y>> = <<x, y>>
  BY PairConcat
<1>3. p \o <<x>> \in Seq(Items) /\ Pairs(p \o <<x>>, {})
  BY <1>1, <1>2, PairsItem, ConcatProperties
<1>4. (p \o <<x>>) \o <<y>> \in Seq(Items) /\ Pairs((p \o <<x>>) \o <<y>>, {})
  BY <1>1, <1>2, <1>3, PairsItem, ConcatProperties
<1>5. p \o (<<x>> \o <<y>>) = (p \o <<x>>) \o <<y>>
  BY <1>2, JoinAssociates DEF Associates
<1> QED BY <1>2, <1>4, <1>5

LEMMA PrepareTurnStep ==
  ASSUME Inv, PrepareTurn
  PROVE  Inv'
<1>1. /\ batch' = batch /\ rest' = rest /\ Running' = Running
  BY Same DEF PrepareTurn
<1>2. Recorded' /\ mark' \in 0..Len(log')
  <2>1. "turn_started" \in EventTypes \ {Compaction}
    BY DEF EventTypes, Compaction
  <2> QED BY <1>1, <2>1, EmptyEvents, StayRecorded DEF PrepareTurn
<1>3. turn' \in 1..MaxTurns
  BY Bounds DEF PrepareTurn, Inv, TypeOK, Flow
<1> DEFINE x == Context(turn')
           y == User(turn')
           p == IF diaries THEN <<Diary>> ELSE NormalizeForPrompt(items)
<1>4. x \in Items /\ y \in Items /\ Quiet(<<x, y>>)
  BY <1>3 DEF Items, Context, User, Quiet, CallKinds
<1>5. prompt' = p \o <<x, y>>
  BY DEF PrepareTurn, StagedFor
<1>6. items \in Seq(Items) /\ CallsApart(items) /\ OutputsApart(items) /\ OutputsFollow(items)
      /\ OfStyle(items, style)
  BY DEF Inv, Recorded, Consistent, Sound
<1>7. p \in Seq(Items) /\ Pairs(p, {})
  <2>1. CASE diaries
    <3>1. Diary \in Items /\ ~IsOutput(Diary) /\ CallIds(Diary) = {}
      BY DEF Items, Diary, IsOutput, CallIds, CallKinds
    <3>2. <<>> \in Seq(Items) /\ <<>> \o <<Diary>> = <<Diary>> /\ <<Diary>> \in Seq(Items)
      BY <3>1
    <3>3. Pairs(<<>>, {}) /\ CallsOf(<<>>) = {}
      BY DEF Pairs, CallsOf, OutputIds, OutputsApart, Owned
    <3>4. Pairs(<<>> \o <<Diary>>, {})
      BY <3>1, <3>2, <3>3, PairsItem
    <3> QED BY <2>1, <3>2, <3>4
  <2>2. CASE ~diaries
    BY <1>6, <2>2, PromptPairs
  <2> QED BY <2>1, <2>2
<1>8. ASSUME style = "chat", ~diaries
      PROVE  OutputsAreShown(items, p \o <<x, y>>)
  <2>1. OutputsAreShown(items, p)
    BY <1>6, <1>8, PromptShows
  <2>2. <<x, y>> \in Seq(Items)
    BY <1>4, PairConcat
  <2> HIDE DEF p, x, y
  <2> QED BY <1>7, <2>1, <2>2, ShownMore
<1> HIDE DEF p, x, y
<1>9. prompt' \in Seq(Items) /\ Pairs(prompt', {})
  BY <1>4, <1>5, <1>7, PairsQuiet
<1>10. PromptOK'
  <2>1. items' = items /\ diaries' = diaries /\ style' = style /\ pc' = "ask" /\ step' = step
    BY DEF PrepareTurn
  <2>2. step = 0
    BY DEF PrepareTurn, Inv, Flow
  <2>3. style = "chat" /\ ~diaries => OutputsAreShown(items, prompt')
    BY <1>5, <1>8
  <2> QED BY <1>9, <2>1, <2>2, <2>3 DEF PromptOK
<1>11. TypeOK'
  <2>1. {stopped, cancel, diaries}' \subseteq BOOLEAN
    BY DEF TypeOK, Inv, PrepareTurn
  <2>2. turn' \in 0..MaxTurns
    BY <1>3
  <2> QED BY <1>2, <1>9, <2>1, <2>2 DEF TypeOK, Inv, PrepareTurn
<1>12. Flow'
  BY <1>1, <1>3 DEF Flow, Inv, PrepareTurn
<1> QED BY <1>2, <1>10, <1>11, <1>12 DEF Inv

LEMMA RequestCancelStep ==
  ASSUME Inv, RequestCancel
  PROVE  Inv'
<1>1. Running' = Running
  BY Same DEF RequestCancel, TurnVars
<1>2. Recorded'
  <2>1. log' = log \o <<>>
    BY NoEvents DEF Inv, Recorded, RequestCancel
  <2>2. Recorded /\ calls \in Nat
    BY Bounds DEF Inv, TypeOK
  <2> QED BY <1>1, <2>1, <2>2, NoEvents, NothingRecorded DEF RequestCancel, TurnVars
<1>3. TypeOK'
  <2>1. {stopped, cancel, diaries}' \subseteq BOOLEAN
    BY DEF TypeOK, Inv, RequestCancel, TurnVars
  <2> QED BY <2>1 DEF TypeOK, Inv, RequestCancel, TurnVars
<1>4. Flow'
  BY <1>1 DEF Flow, Inv, RequestCancel, TurnVars
<1>5. PromptOK'
  BY DEF PromptOK, Inv, RequestCancel, TurnVars
<1> QED BY <1>2, <1>3, <1>4, <1>5 DEF Inv

LEMMA SendPromptStep ==
  ASSUME Inv, SendPrompt
  PROVE  Inv'
<1>1. /\ batch' = batch /\ rest' = rest /\ Running' = Running
  BY Same DEF SendPrompt
<1>2. Recorded' /\ mark' \in 0..Len(log')
  BY <1>1, NoEvents, StayRecorded DEF SendPrompt
<1>3. TypeOK'
  <2>1. {stopped, cancel, diaries}' \subseteq BOOLEAN
    BY DEF TypeOK, Inv, SendPrompt
  <2>2. step' \in 0..MaxSteps /\ retries' \in 0..MaxRetries
    BY Bounds DEF TypeOK, Inv, SendPrompt
  <2> QED BY <1>2, <2>1, <2>2 DEF TypeOK, Inv, SendPrompt
<1>4. Flow'
  <2>1. step' >= 1
    BY DEF TypeOK, Inv, SendPrompt
  <2> QED BY <1>1, <2>1 DEF Flow, Inv, SendPrompt
<1>5. PromptOK'
  <2>1. step \in Nat /\ step' = step + 1
    BY Bounds DEF TypeOK, Inv, SendPrompt
  <2>2. step = 0 <=> step' = 1
    BY <2>1
  <2> QED BY <2>2 DEF PromptOK, Inv, SendPrompt
<1> QED BY <1>2, <1>3, <1>4, <1>5 DEF Inv

LEMMA RetryModelStep ==
  ASSUME Inv, RetryModel
  PROVE  Inv'
<1>1. /\ batch' = batch /\ rest' = rest /\ Running' = Running
  BY Same DEF RetryModel
<1>2. Recorded' /\ mark' \in 0..Len(log')
  BY <1>1, NoEvents, StayRecorded DEF RetryModel
<1>3. TypeOK'
  <2>1. {stopped, cancel, diaries}' \subseteq BOOLEAN
    BY DEF TypeOK, Inv, RetryModel
  <2>2. retries' \in 0..MaxRetries
    BY Bounds DEF TypeOK, Inv, RetryModel, NextAttempt
  <2> QED BY <1>2, <2>1, <2>2 DEF TypeOK, Inv, RetryModel
<1>4. Flow'
  BY <1>1 DEF Flow, Inv, RetryModel
<1>5. PromptOK'
  BY DEF PromptOK, Inv, RetryModel
<1> QED BY <1>2, <1>3, <1>4, <1>5 DEF Inv

LEMMA AskAgainStep ==
  ASSUME Inv, AskAgain
  PROVE  Inv'
<1>1. /\ batch' = batch /\ rest' = rest /\ Running' = Running
  BY Same DEF AskAgain
<1>2. Recorded' /\ mark' \in 0..Len(log')
  BY <1>1, NoEvents, StayRecorded DEF AskAgain
<1>3. TypeOK'
  <2>1. {stopped, cancel, diaries}' \subseteq BOOLEAN
    BY DEF TypeOK, Inv, AskAgain
  <2> QED BY <1>2, <2>1 DEF TypeOK, Inv, AskAgain
<1>4. Flow'
  BY <1>1 DEF Flow, Inv, AskAgain
<1>5. PromptOK'
  BY DEF PromptOK, Inv, AskAgain
<1> QED BY <1>2, <1>3, <1>4, <1>5 DEF Inv

LEMMA SplitAt ==
  ASSUME NEW T, NEW q \in Seq(T), NEW n \in 1..Len(q)
  PROVE  /\ SubSeq(q, 1, n) \in Seq(T) /\ SubSeq(q, n + 1, Len(q)) \in Seq(T)
         /\ SubSeq(q, 1, n) \o SubSeq(q, n + 1, Len(q)) = q
  OBVIOUS

LEMMA RunGroupStep ==
  ASSUME Inv, RunGroup
  PROVE  Inv'
<1>1. rest \in Seq(1..MaxCalls) /\ batch = <<>>
  BY DEF Inv, TypeOK, RunGroup
<1>2. /\ batch' \in Seq(1..MaxCalls) /\ rest' \in Seq(1..MaxCalls) /\ Running' = Running
  <2>1. PICK n \in 1..MaxParallel :
            /\ n <= Len(rest)
            /\ batch' = SubSeq(rest, 1, n)
            /\ rest' = SubSeq(rest, n + 1, Len(rest))
    BY DEF RunGroup
  <2>2. n \in Nat /\ n >= 1
    BY Bounds
  <2>3. batch' \in Seq(1..MaxCalls) /\ rest' \in Seq(1..MaxCalls) /\ batch' \o rest' = rest
    <3>1. n \in 1..Len(rest)
      BY <1>1, <2>1, <2>2
    <3> QED BY <1>1, <2>1, <3>1, SplitAt
  <2>4. batch \o rest = rest
    BY <1>1, ConcatEmptySeq
  <2> QED BY <2>3, <2>4 DEF Running
<1>3. Recorded' /\ mark' \in 0..Len(log')
  BY <1>2, NoEvents, StayRecorded DEF RunGroup
<1>4. TypeOK'
  <2>1. {stopped, cancel, diaries}' \subseteq BOOLEAN
    BY DEF TypeOK, Inv, RunGroup
  <2> QED BY <1>2, <1>3, <2>1 DEF TypeOK, Inv, RunGroup
<1>5. Flow'
  BY <1>2 DEF Flow, Inv, RunGroup
<1>6. PromptOK'
  BY DEF PromptOK, RunGroup
<1> QED BY <1>3, <1>4, <1>5, <1>6 DEF Inv

---------------------------------------------------------------------------
(* Steps that add to the history *)

\* Quiet items may follow; the calls before them are no longer open.
LEMMA ConsistentQuiet ==
  ASSUME NEW h, NEW n \in Nat, NEW s, NEW S, Consistent(h, n, s, S),
         NEW b \in Seq(Items), Quiet(b)
  PROVE  Consistent(h \o b, n, s, {})
  BY SoundQuiet, OpenNone DEF Consistent

LEMMA QuietConcat ==
  ASSUME NEW a \in Seq(Items), NEW b \in Seq(Items), Quiet(a), Quiet(b)
  PROVE  a \o b \in Seq(Items) /\ Quiet(a \o b)
<1>1. /\ a \o b \in Seq(Items) /\ DOMAIN (a \o b) = 1..(Len(a) + Len(b))
      /\ DOMAIN a = 1..Len(a) /\ DOMAIN b = 1..Len(b)
      /\ \A i \in 1..Len(a) : (a \o b)[i] = a[i]
      /\ \A i \in 1..Len(b) : (a \o b)[Len(a) + i] = b[i]
      /\ \A i \in 1..(Len(a) + Len(b)) :
           i \in 1..Len(a) \/ \E k \in 1..Len(b) : i = Len(a) + k
  BY Parts
<1>2. ASSUME NEW i \in 1..(Len(a) + Len(b))
      PROVE  (a \o b)[i].kind \notin CallKinds \union {"output", "custom_output"}
  <2>1. CASE i \in 1..Len(a)
    BY <1>1, <2>1 DEF Quiet
  <2>2. ASSUME NEW k \in 1..Len(b), i = Len(a) + k
        PROVE  (a \o b)[i].kind \notin CallKinds \union {"output", "custom_output"}
    BY <1>1, <2>2 DEF Quiet
  <2> QED BY <1>1, <2>1, <2>2
<1> QED BY <1>1, <1>2 DEF Quiet

\* One output of a running call.
LEMMA ConsistentOutput ==
  ASSUME NEW h, NEW n \in Nat, NEW s, NEW S \in SUBSET (1..n), Consistent(h, n, s, S),
         NEW x \in Items, x.kind \in {"output", "custom_output"},
         x.kind = "custom_output" => s = "custom",
         x.id \in S, NEW R \in SUBSET (S \ {x.id})
  PROVE  Consistent(h \o <<x>>, n, s, R)
<1>1. h \in Seq(Items) /\ Sound(h, n, s) /\ Open(h, S)
  BY DEF Consistent
<1>2. <<x>> \in Seq(Items) /\ DOMAIN <<x>> = {1} /\ <<x>>[1] = x /\ Len(<<x>>) = 1
  BY OneItem
<1>3. h \o <<x>> \in Seq(Items)
  BY <1>1, <1>2, ConcatProperties
<1>4. CASE x.kind = "output"
  <2>1. IsOutput(x)
    BY <1>4 DEF IsOutput
  <2>2. OnlyOutputs(<<x>>) /\ OutputsApart(<<x>>) /\ OutputIds(<<x>>) = {x.id}
    BY <1>2, <2>1, OneItem DEF OnlyOutputs
  <2>3. Open(h, {x.id})
    BY <1>1, OpenLess
  <2>4. Sound(h \o <<x>>, n, s)
    BY <1>1, <1>2, <2>2, <2>3, SoundOutputs
  <2>5. Open(h \o <<x>>, R)
    <3>1. R \in SUBSET S /\ OutputIds(<<x>>) \intersect R = {}
      BY <2>2
    <3> QED BY ONLY <1>1, <1>2, <2>2, <3>1, OpenOutputs
  <2> QED BY <1>3, <2>4, <2>5 DEF Consistent
<1>5. CASE x.kind = "custom_output"
  <2>1. ~IsOutput(x) /\ CallIds(x) = {} /\ ChatIds(x) = {} /\ s = "custom"
    BY <1>5 DEF IsOutput, CallIds, CallKinds, ChatIds
  <2>2. /\ NoOutputs(<<x>>) /\ CallsOf(<<x>>) = {} /\ CallsApart(<<x>>)
        /\ OfStyle(<<x>>, s) /\ OutputIds(<<x>>) = {}
        /\ \A k \in DOMAIN <<x>> : ChatIds(<<x>>[k]) = {}
    <3>1. OfStyle(<<x>>, s)
      BY <1>2, <1>5, <2>1 DEF OfStyle, CallKinds
    <3> QED BY <1>2, <2>1, <3>1, OneItem DEF NoOutputs
  <2>3. /\ n <= n /\ CallsOf(<<x>>) \subseteq 1..n
        /\ CallsOf(<<x>>) \intersect CallsOf(h) = {}
        /\ \A k \in DOMAIN <<x>> : ChatIds(<<x>>[k]) \intersect OutputIds(h) = {}
    BY <2>2
  <2>4. Sound(h \o <<x>>, n, s)
    BY <1>1, <1>2, <2>2, <2>3, SoundItems
  <2>5. OutputIds(h \o <<x>>) = OutputIds(h)
    <3>1. OutputIds(h \o <<x>>) = OutputIds(h) \union OutputIds(<<x>>)
      BY <1>1, <1>2, OutputsConcat
    <3>2. OutputIds(h) \union {} = OutputIds(h)
      OBVIOUS
    <3> QED BY <2>2, <3>1, <3>2
  <2>6. \A j \in DOMAIN (h \o <<x>>) : ChatIds((h \o <<x>>)[j]) = {}
    BY <2>1, <2>4 DEF Sound, OfStyle, ChatIds, CallKinds
  <2>7. R \intersect OutputIds(h) = {}
    BY <1>1 DEF Open
  <2>8. Open(h \o <<x>>, R)
    BY <2>5, <2>6, <2>7 DEF Open
  <2> QED BY <1>3, <2>4, <2>8 DEF Consistent
<1> QED BY <1>4, <1>5

\* The items of an answer with calls, behind the staged items; in the log they may
\* be cut.
LEMMA ConsistentCalls ==
  ASSUME style \in Styles, NEW h, NEW c \in Nat, NEW d \in Nat, c <= d, d <= MaxCalls,
         NEW S, Consistent(h, c, style, S), NEW k \in Seq(Items), Quiet(k),
         NEW b \in {CallItems((c + 1)..d), <<>>}
  PROVE  Consistent((h \o k) \o b, d, style, (c + 1)..d)
<1> DEFINE ids == (c + 1)..d
           a == h \o k
<1>1. h \in Seq(Items) /\ Sound(h, c, style)
  BY DEF Consistent
<1>2. /\ a \in Seq(Items) /\ Sound(a, c, style)
      /\ CallsOf(a) = CallsOf(h) /\ OutputIds(a) = OutputIds(h)
  BY <1>1, SoundQuiet
<1>3. CallsOf(a) \subseteq 1..c /\ OutputIds(a) \subseteq 1..c
  BY <1>2 DEF Sound, Given
<1>4. ids \subseteq 1..MaxCalls /\ ids \subseteq 1..d /\ ids \intersect 1..c = {}
  BY Bounds
<1> HIDE DEF a
<1>5. /\ b \in Seq(Items) /\ NoOutputs(b) /\ CallsApart(b) /\ OfStyle(b, style)
      /\ CallsOf(b) \subseteq ids
      /\ \A j \in 1..(Len(b) - 1) : ChatIds(b[j]) = {}
  <2>1. CASE b = CallItems(ids)
    <3> HIDE DEF ids
    <3> QED BY <1>4, <2>1, CallItemsFacts
  <2>2. CASE b = <<>>
    <3>1. b \in Seq(Items) /\ Quiet(b) /\ Len(b) = 0
      BY <2>2 DEF Quiet
    <3>2. \A j \in 1..(Len(b) - 1) : FALSE
      BY <3>1
    <3> QED BY <3>1, <3>2, QuietFacts
  <2> QED BY <2>1, <2>2
<1> HIDE DEF ids
<1>6. /\ CallsOf(b) \subseteq 1..d /\ CallsOf(b) \intersect CallsOf(a) = {}
      /\ \A j \in DOMAIN b : ChatIds(b[j]) \intersect OutputIds(a) = {}
  <2>1. \A j \in DOMAIN b : ChatIds(b[j]) \subseteq CallsOf(b)
    BY <1>5, IdsOfHistory
  <2> QED BY <1>3, <1>4, <1>5, <2>1
<1>7. Sound(a \o b, d, style)
  BY <1>2, <1>5, <1>6, SoundItems
<1>8. ids \intersect (CallsOf(a) \union OutputIds(a)) = {}
  BY <1>3, <1>4
<1>9. Open(a \o b, ids)
  BY <1>2, <1>5, <1>8, OpenItems
<1>10. a \o b \in Seq(Items)
  BY <1>2, <1>5, ConcatProperties
<1> QED BY <1>7, <1>9, <1>10 DEF Consistent, a, ids

\* An event of which a payload may have been cut.
LEMMA WrittenFacts ==
  ASSUME NEW t \in EventTypes \ {Compaction}, NEW q \in Seq(Items), NEW cut \in BOOLEAN
  PROVE  /\ <<Written(Event(t, q), cut)>> \in Seq(Events) /\ Plain(<<Written(Event(t, q), cut)>>)
         /\ Replay(<<Written(Event(t, q), cut)>>) = IF cut THEN <<>> ELSE q
         /\ t \in {"assistant_output", "tool_output"} /\ cut
              => ~Uncut(<<Written(Event(t, q), cut)>>)
<1> DEFINE w == Written(Event(t, q), cut)
<1>1. /\ Event(t, q) \in Events /\ Event(t, q).type = t /\ Event(t, q).items = q
      /\ Event(t, <<>>) \in Events /\ Event(t, <<>>).type = t /\ Event(t, <<>>).items = <<>>
  <2>1. <<>> \in Seq(Items)
    OBVIOUS
  <2> QED BY <2>1, EventFacts
<1>2. w \in Events /\ w.type = t /\ w.items = IF cut THEN <<>> ELSE q
  <2>1. CASE cut
    <3>1. w = Event(t, <<>>)
      BY <1>1, <2>1 DEF Written
    <3> QED BY <1>1, <2>1, <3>1
  <2>2. CASE ~cut
    <3>1. w = Event(t, q)
      BY <2>2 DEF Written
    <3> QED BY <1>1, <2>2, <3>1
  <2> QED BY <2>1, <2>2
<1> HIDE DEF w
<1>3. <<w>> \in Seq(Events) /\ Replay(<<w>>) = w.items
  BY <1>2, ReplayEvent
<1>4. Plain(<<w>>)
  BY <1>2 DEF Plain
<1>5. t \in {"assistant_output", "tool_output"} /\ cut => ~Uncut(<<w>>)
  BY <1>2 DEF Uncut
<1> QED BY <1>2, <1>3, <1>4, <1>5 DEF w

\* A turn that is left with quiet items for the history.
LEMMA LeaveQuiet ==
  ASSUME Inv, Leave, NEW evs \in Seq(Events), Write(evs), Plain(evs),
         NEW b \in Seq(Items), Quiet(b), Replay(evs) = b, items' = items \o b,
         style' = style, turn' = turn, calls' = calls, diaries' = diaries,
         restarts' = restarts, pending' \in Pendings
  PROVE  Inv'
<1>1. TypeOK /\ Recorded /\ calls \in Nat /\ log \in Seq(Events)
  BY Bounds DEF Inv, TypeOK, Recorded
<1>2. mark' \in 0..Len(log') /\ log' = log \o evs
  BY <1>1, MarkType
<1>3. /\ Consistent(items \o b, calls, style, {})
      /\ Consistent(Replay(log) \o b, calls, style, {})
  BY <1>1, ConsistentQuiet DEF Recorded
<1>4. items' \in Seq(Items)
  BY <1>3 DEF Consistent
<1>5. TypeOK' /\ Flow' /\ PromptOK' /\ Elements(Running') = {}
  BY <1>1, <1>2, <1>4, LeaveType DEF Pendings
<1>6. SameAs(Replay(log), items) => SameAs(Replay(log) \o b, items \o b)
  <2>1. SameAs(b, b) /\ items \in Seq(Items) /\ Replay(log) \in Seq(Items)
    BY <1>1 DEF SameAs, Recorded, Consistent
  <2> QED BY <2>1, SameConcat
<1>7. Recorded'
  <2>1. calls' \in Nat /\ calls <= calls'
    BY <1>1
  <2>2. /\ Consistent(items', calls', style, Elements(Running'))
        /\ Consistent(Replay(log) \o Replay(evs), calls', style, Elements(Running'))
    BY <1>3, <1>5
  <2>3. SameAs(Replay(log), items) => SameAs(Replay(log) \o Replay(evs), items')
    BY <1>6
  <2> QED BY <1>1, <1>2, <2>1, <2>2, <2>3, RecordedStep
<1> QED BY <1>5, <1>7 DEF Inv

LEMMA AbortedFacts ==
  /\ Aborted \in Items /\ <<Aborted>> \in Seq(Items) /\ Quiet(<<Aborted>>) /\ Silent(<<Aborted>>)
  /\ <<AbortedEvent>> \in Seq(Events) /\ Plain(<<AbortedEvent>>)
  /\ Replay(<<AbortedEvent>>) = <<Aborted>>
<1>1. Aborted \in Items /\ <<Aborted>> \in Seq(Items) /\ Aborted.kind = "aborted"
  BY DEF Items, Aborted
<1>2. Quiet(<<Aborted>>) /\ Silent(<<Aborted>>)
  BY <1>1 DEF Quiet, Silent, CallKinds
<1>3. "turn_aborted" \in EventTypes \ {Compaction}
  BY DEF EventTypes, Compaction
<1>4. AbortedEvent \in Events /\ AbortedEvent.type # Compaction /\ AbortedEvent.items = <<Aborted>>
  BY <1>1, <1>3, EventFacts DEF AbortedEvent
<1>5. <<AbortedEvent>> \in Seq(Events) /\ Replay(<<AbortedEvent>>) = <<Aborted>>
  BY <1>4, ReplayEvent
<1>6. Plain(<<AbortedEvent>>)
  BY <1>4 DEF Plain
<1> QED BY <1>1, <1>2, <1>5, <1>6

LEMMA StopBeforeRequestStep ==
  ASSUME Inv, StopBeforeRequest
  PROVE  Inv'
<1>1. pending' \in Pendings
  BY DEF StopBeforeRequest, FailPending, Inv, TypeOK, Pendings
<1>2. items' = items \o <<Aborted>>
  <2>1. items \in Seq(Items)
    BY DEF Inv, TypeOK
  <2>2. items \o <<Aborted>> = Append(items, Aborted)
    BY <2>1, AbortedFacts, AppendIsConcat
  <2> QED BY <2>2 DEF StopBeforeRequest
<1> QED BY <1>1, <1>2, AbortedFacts, LeaveQuiet DEF StopBeforeRequest

LEMMA AnswerWithTextStep ==
  ASSUME Inv, AnswerWithText
  PROVE  Inv'
<1> DEFINE x == Text(turn, step)
           e == Event("assistant_output", <<x>>)
           g == Event("turn_completed", <<>>)
           b == Committed \o <<x>>
           evs == CommitEvents \o <<e, g>>
<1>1. turn \in 0..MaxTurns /\ turn \in 1..MaxTurns /\ step \in 1..MaxSteps /\ items \in Seq(Items)
  BY Bounds DEF Inv, TypeOK, Flow, AnswerWithText
<1>2. x \in Items /\ <<x>> \in Seq(Items) /\ Quiet(<<x>>)
  BY <1>1 DEF Items, Text, Quiet, CallKinds
<1>3. /\ Committed \in Seq(Items) /\ Quiet(Committed)
      /\ CommitEvents \in Seq(Events) /\ Plain(CommitEvents)
      /\ Replay(CommitEvents) = Committed
  BY <1>1, CommitFacts
<1>4. /\ items' = items \o Committed \o <<x>> /\ Write(evs)
      /\ pending' = "committed" /\ Leave
  BY DEF AnswerWithText
<1>5. /\ e \in Events /\ g \in Events /\ e.items = <<x>> /\ g.items = <<>>
      /\ e.type # Compaction /\ g.type # Compaction
  <2>1. /\ <<>> \in Seq(Items) /\ {"assistant_output", "turn_completed"} \subseteq EventTypes
        /\ "assistant_output" # Compaction /\ "turn_completed" # Compaction
    BY DEF EventTypes, Compaction
  <2> HIDE DEF x
  <2> QED BY <1>2, <2>1, EventFacts
<1> HIDE DEF x, e, g
<1>6. <<e, g>> \in Seq(Events) /\ Plain(<<e, g>>) /\ Replay(<<e, g>>) = <<x>>
  <2>1. /\ <<e>> \in Seq(Events) /\ Plain(<<e>>) /\ <<g>> \in Seq(Events) /\ Plain(<<g>>)
        /\ <<e>> \o <<g>> = <<e, g>>
    BY <1>5, PairConcat DEF Plain
  <2>2. Replay(<<e>>) = <<x>> /\ Replay(<<g>>) = <<>>
    BY <1>5, ReplayEvent
  <2>3. <<x>> \o <<>> = <<x>>
    BY <1>2, ConcatEmptySeq
  <2> QED BY <2>1, <2>2, <2>3, ReplayBoth
<1>7. evs \in Seq(Events) /\ Plain(evs) /\ Replay(evs) = b
  BY <1>3, <1>6, ReplayBoth
<1>8. b \in Seq(Items) /\ Quiet(b)
  BY <1>2, <1>3, QuietConcat
<1>9. items' = items \o b
  <2>1. Associates(items, Committed, <<x>>)
    BY <1>1, <1>2, <1>3, JoinAssociates
  <2> QED BY <1>4, <2>1 DEF Associates
<1> HIDE DEF b, evs
<1>10. /\ style' = style /\ turn' = turn /\ calls' = calls /\ diaries' = diaries
       /\ restarts' = restarts /\ pending' \in Pendings
  BY DEF AnswerWithText, Pendings
<1> QED BY <1>4, <1>7, <1>8, <1>9, <1>10, LeaveQuiet

LEMMA CompactStep ==
  ASSUME Inv, Compact
  PROVE  Inv'
<1> DEFINE users == Filter(items, LAMBDA item : item.kind \in UserKinds)
           e == Event(Compaction, items')
<1>1. /\ TypeOK /\ Flow /\ Recorded /\ items \in Seq(Items) /\ Len(items) \in Nat
      /\ turn \in 0..MaxTurns /\ pc = "input" /\ calls \in Nat /\ log \in Seq(Events)
  BY Bounds DEF Inv, TypeOK, Compact, Recorded
<1>2. PICK first \in Nat : first >= 1 /\ items' = <<Summary(turn)>> \o SubSeq(users, first, Len(users))
  <2>1. PICK first \in IF users = <<>> THEN {1} ELSE DOMAIN users :
           items' = <<Summary(turn)>> \o SubSeq(users, first, Len(users))
    BY DEF Compact, Filter
  <2>3. users \in Seq(Items)
    BY <1>1, SubType DEF Filter
  <2> HIDE DEF users
  <2>2. first \in Nat /\ first >= 1
    BY <2>1, <2>3
  <2> QED BY <2>1, <2>2
<1>3. items' \in Seq(Items) /\ Quiet(items')
  BY <1>1, <1>2, CompactFacts
<1>4. Write(<<e>>)
  BY DEF Compact, Compaction
<1>5. e \in Events /\ e.type = Compaction /\ e.items = items'
  <2>1. Compaction \in EventTypes
    BY DEF EventTypes
  <2> QED BY <1>3, <2>1, EventFacts
<1> HIDE DEF e, users
<1>6. <<e>> \in Seq(Events)
  BY <1>5
<1>7. mark' \in 0..Len(log') /\ log' = log \o <<e>>
  BY <1>1, <1>4, <1>6, MarkType
<1>8. /\ batch' = batch /\ rest' = rest /\ Running' = Running
      /\ style' = style /\ calls' = calls
  BY Same DEF Compact, TurnVars
<1>9. Running = <<>> /\ Elements(Running) = {}
  BY <1>1 DEF Flow, Running, Elements
<1>10. Consistent(items', calls, style, {})
  <2>1. <<>> \in Seq(Items) /\ Consistent(<<>>, calls, style, {}) /\ <<>> \o items' = items'
    BY <1>3, SoundEmpty, OpenNone, ConcatEmptySeq DEF Consistent
  <2> QED BY <1>1, <1>3, <2>1, ConsistentQuiet
<1>11. Replay(log') = items'
  BY <1>1, <1>5, <1>7, ReplayOne
<1>12. LogSound(log', calls, style)
  <2>1. Sound(e.items, calls, style) /\ LogSound(log, calls, style)
    BY <1>1, <1>5, <1>10 DEF Consistent, Recorded
  <2> QED BY <1>1, <1>5, <1>7, <2>1, LogCompaction
<1>13. log' \in Seq(Events)
  BY <1>1, <1>6, <1>7, ConcatProperties
<1>14. Recorded'
  <2>1. SameAs(Replay(log'), items')
    BY <1>11 DEF SameAs
  <2>2. /\ Consistent(items', calls', style', Elements(Running'))
        /\ Consistent(Replay(log'), calls', style', Elements(Running'))
    BY <1>8, <1>9, <1>10, <1>11
  <2>3. LogSound(log', calls', style')
    BY <1>8, <1>12
  <2> QED BY <1>13, <2>1, <2>2, <2>3 DEF Recorded
<1>15. TypeOK'
  <2>1. {stopped, cancel, diaries}' \subseteq BOOLEAN
    BY DEF TypeOK, Inv, Compact, TurnVars
  <2> QED BY <1>3, <1>7, <2>1 DEF TypeOK, Inv, Compact, TurnVars
<1>16. Flow'
  BY <1>8 DEF Flow, Inv, Compact, TurnVars
<1>17. PromptOK'
  BY DEF PromptOK, Compact
<1> QED BY <1>14, <1>15, <1>16, <1>17 DEF Inv

\* An answer with n calls: its items, its events, and what they replay as.
Answered(n) == CallItems((calls + 1)..(calls + n))
AnswerEvents(n, cut) ==
    CommitEvents \o <<Written(Event("assistant_output", Answered(n)), cut)>>
Kept(n, cut) == IF cut THEN <<>> ELSE Answered(n)

\* An answer with calls, as the history and as the log have it.
LEMMA CallsRecorded ==
  ASSUME Inv, pc = "model", NEW n \in 1..(MaxCalls - calls), NEW cut \in BOOLEAN
  PROVE  /\ AnswerEvents(n, cut) \in Seq(Events) /\ Plain(AnswerEvents(n, cut))
         /\ Replay(log) \o Replay(AnswerEvents(n, cut)) = (Replay(log) \o Committed) \o Kept(n, cut)
         /\ Consistent((items \o Committed) \o Answered(n), calls + n, style,
                       (calls + 1)..(calls + n))
         /\ Consistent((Replay(log) \o Committed) \o Kept(n, cut), calls + n, style,
                       (calls + 1)..(calls + n))
         /\ Uncut(AnswerEvents(n, cut)) /\ SameAs(Replay(log), items)
              => SameAs((Replay(log) \o Committed) \o Kept(n, cut),
                        (items \o Committed) \o Answered(n))
<1> DEFINE output == Answered(n)
           evs == AnswerEvents(n, cut)
           add == Kept(n, cut)
           w == <<Written(Event("assistant_output", output), cut)>>
           ids == (calls + 1)..(calls + n)
<1>1. /\ turn \in 0..MaxTurns /\ calls \in Nat /\ calls + n \in Nat /\ calls <= calls + n
      /\ calls + n <= MaxCalls /\ style \in Styles
      /\ Consistent(items, calls, style, Elements(Running))
      /\ Consistent(Replay(log), calls, style, Elements(Running))
      /\ items \in Seq(Items) /\ Replay(log) \in Seq(Items)
  BY Bounds DEF Inv, TypeOK, Recorded, Consistent
<1>2. /\ Committed \in Seq(Items) /\ Quiet(Committed)
      /\ CommitEvents \in Seq(Events) /\ Plain(CommitEvents)
      /\ Replay(CommitEvents) = Committed
  BY <1>1, CommitFacts
<1>3. /\ Consistent((items \o Committed) \o output, calls + n, style, ids)
      /\ Consistent((Replay(log) \o Committed) \o add, calls + n, style, ids)
  <2>1. output \in {CallItems(ids), <<>>} /\ add \in {CallItems(ids), <<>>}
    BY DEF Answered, Kept
  <2> QED BY <1>1, <1>2, <2>1, ConsistentCalls
<1>4. output \in Seq(Items) /\ add \in Seq(Items)
  <2>1. ids \in SUBSET (1..MaxCalls)
    BY <1>1, Bounds
  <2>2. output \in Seq(Items)
    BY <1>1, <2>1, CallItemsFacts DEF Answered
  <2>3. <<>> \in Seq(Items)
    OBVIOUS
  <2> QED BY <2>2, <2>3 DEF Kept
<1>5. w \in Seq(Events) /\ Plain(w) /\ Replay(w) = add /\ (cut => ~Uncut(w))
  <2>1. "assistant_output" \in EventTypes \ {Compaction}
    BY DEF EventTypes, Compaction
  <2> QED BY <1>4, <2>1, WrittenFacts DEF Kept
<1>6. evs = CommitEvents \o w
  BY DEF AnswerEvents
<1>10. ~cut => add = output
  BY DEF Kept
<1> HIDE DEF w, ids, output, evs, add
<1>7. evs \in Seq(Events) /\ Plain(evs) /\ Replay(evs) = Committed \o add
  BY <1>2, <1>5, <1>6, ReplayBoth
<1>8. Replay(log) \o Replay(evs) = (Replay(log) \o Committed) \o add
  <2>1. Associates(Replay(log), Committed, add)
    BY <1>1, <1>2, <1>4, JoinAssociates
  <2> QED BY <1>7, <2>1 DEF Associates
<1>9. ASSUME Uncut(evs), SameAs(Replay(log), items)
      PROVE  SameAs((Replay(log) \o Committed) \o add, (items \o Committed) \o output)
  <2>1. Uncut(w)
    BY <1>2, <1>5, <1>6, <1>9, UncutParts
  <2>2. add = output
    BY <1>5, <1>10, <2>1
  <2>3. SameAs(Committed, Committed) /\ SameAs(output, output)
    BY DEF SameAs
  <2>4. SameAs(Replay(log) \o Committed, items \o Committed)
    BY <1>1, <1>2, <1>9, <2>3, SameConcat
  <2>5. Replay(log) \o Committed \in Seq(Items) /\ items \o Committed \in Seq(Items)
    BY <1>1, <1>2, ConcatProperties
  <2> QED BY <1>4, <2>2, <2>3, <2>4, <2>5, SameConcat
<1> QED BY <1>3, <1>7, <1>8, <1>9 DEF ids, output, evs, add

LEMMA AnswerWithCallsStep ==
  ASSUME Inv, AnswerWithCalls
  PROVE  Inv'
<1>1. PICK n \in 1..(MaxCalls - calls), cut \in BOOLEAN :
         /\ calls' = calls + n
         /\ rest' = InOrder((calls + 1)..(calls + n))
         /\ Commit(CallItems((calls + 1)..(calls + n)), cut)
  BY DEF AnswerWithCalls
<1> DEFINE ids == (calls + 1)..(calls + n)
           output == Answered(n)
           evs == AnswerEvents(n, cut)
           add == Kept(n, cut)
<1>2. /\ TypeOK /\ Flow /\ Recorded /\ pc = "model" /\ pc' = "tools" /\ batch = <<>> /\ batch' = batch
      /\ style' = style /\ log \in Seq(Events)
      /\ calls \in Nat /\ calls' \in Nat /\ calls <= calls' /\ calls' \in 0..MaxCalls
      /\ ids \subseteq 1..MaxCalls /\ ids \subseteq 1..calls'
  BY <1>1, Bounds DEF Inv, TypeOK, Flow, Recorded, AnswerWithCalls
<1>3. /\ items' = (items \o Committed) \o output /\ Write(evs) /\ pending' = "committed"
  BY <1>1 DEF Commit, Answered, AnswerEvents
<1>4. /\ evs \in Seq(Events) /\ Plain(evs)
      /\ Replay(log) \o Replay(evs) = (Replay(log) \o Committed) \o add
      /\ Consistent((items \o Committed) \o output, calls + n, style, ids)
      /\ Consistent((Replay(log) \o Committed) \o add, calls + n, style, ids)
      /\ Uncut(evs) /\ SameAs(Replay(log), items)
           => SameAs((Replay(log) \o Committed) \o add, (items \o Committed) \o output)
  BY <1>2, CallsRecorded
<1>5. /\ rest' \in Seq(1..MaxCalls) /\ Elements(rest') = ids /\ Distinct(rest')
  BY <1>1, <1>2, InOrderFacts
<1>6. Running' = rest'
  <2>1. Running' = <<>> \o rest'
    BY <1>2 DEF Running
  <2> QED BY <1>5, <2>1, ConcatEmptySeq
<1> HIDE DEF evs, add, output, ids
<1>7. mark' \in 0..Len(log') /\ log' = log \o evs
  BY <1>2, <1>3, <1>4, MarkType
<1>8. Recorded'
  <2>1. /\ Consistent(items', calls', style, Elements(Running'))
        /\ Consistent(Replay(log) \o Replay(evs), calls', style, Elements(Running'))
    BY <1>1, <1>3, <1>4, <1>5, <1>6
  <2>2. Uncut(evs) /\ SameAs(Replay(log), items)
          => SameAs(Replay(log) \o Replay(evs), items')
    BY <1>3, <1>4
  <2> QED BY <1>2, <1>4, <1>7, <2>1, <2>2, RecordedStep
<1>9. TypeOK'
  <2>1. {stopped, cancel, diaries}' \subseteq BOOLEAN
    BY DEF TypeOK, Inv, AnswerWithCalls
  <2>2. items' \in Seq(Items)
    BY <1>3, <1>4 DEF Consistent
  <2> QED BY <1>2, <1>3, <1>5, <1>7, <2>1, <2>2 DEF TypeOK, AnswerWithCalls
<1>10. Flow'
  <2>1. Elements(Running') \subseteq 1..calls'
    BY <1>2, <1>5, <1>6
  <2> QED BY <1>2, <1>5, <1>6, <2>1 DEF Flow, AnswerWithCalls
<1>11. PromptOK'
  BY <1>2 DEF PromptOK
<1> QED BY <1>8, <1>9, <1>10, <1>11 DEF Inv

\* Outputs of calls in S whose state is not that of a result.
LEMMA ConsistentRefusals ==
  ASSUME NEW h, NEW n \in Nat, n <= MaxCalls, NEW s, NEW S \in SUBSET (1..n),
         Consistent(h, n, s, S), NEW bad \in SUBSET S
  PROVE  /\ Consistent(h \o Outputs(bad, "refused"), n, s, {})
         /\ SameAs(h \o Outputs(bad, "refused"), h)
<1> DEFINE b == Outputs(bad, "refused")
<1>1. bad \in SUBSET (1..MaxCalls) /\ bad \subseteq 1..n
  BY Bounds
<1>2. /\ b \in Seq(Items) /\ OnlyOutputs(b) /\ OutputsApart(b) /\ OutputIds(b) = bad
      /\ \A i \in DOMAIN b : b[i].state = "refused"
  BY <1>1, OutputsFacts
<1> HIDE DEF b
<1>3. h \in Seq(Items) /\ Sound(h, n, s) /\ Open(h, bad)
  BY OpenLess DEF Consistent
<1>4. Sound(h \o b, n, s)
  BY <1>1, <1>2, <1>3, SoundOutputs
<1>5. Silent(b)
  BY <1>2 DEF Silent, OnlyOutputs, IsOutput
<1>6. SameAs(h \o b, h)
  BY <1>2, <1>3, <1>5, SilentItems
<1>7. h \o b \in Seq(Items)
  BY <1>2, <1>3, ConcatProperties
<1> QED BY <1>4, <1>6, <1>7, OpenNone DEF Consistent, b

LEMMA ErrorEvents ==
  ASSUME NEW h \in Seq(Items)
  PROVE  /\ [i \in DOMAIN h |-> Event("error", <<>>)] \in Seq(Events)
         /\ Plain([i \in DOMAIN h |-> Event("error", <<>>)])
         /\ Replay([i \in DOMAIN h |-> Event("error", <<>>)]) = <<>>
<1> DEFINE g == Event("error", <<>>)
           q == [i \in DOMAIN h |-> g]
<1>1. g \in Events /\ g.type # Compaction /\ g.items = <<>>
  <2>1. <<>> \in Seq(Items) /\ "error" \in EventTypes /\ "error" # Compaction
    BY DEF EventTypes, Compaction
  <2> QED BY <2>1, EventFacts
<1> HIDE DEF g
<1>2. q \in Seq(Events) /\ \A i \in DOMAIN q : q[i] = g
  <2>1. DOMAIN h = 1..Len(h) /\ Len(h) \in Nat
    OBVIOUS
  <2> QED BY <1>1, <2>1
<1> HIDE DEF q
<1>3. Plain(q) /\ \A i \in DOMAIN q : q[i].items = <<>>
  BY <1>1, <1>2 DEF Plain
<1>4. Replay(q) = <<>>
  BY <1>2, <1>3, ReplayNothing
<1> QED BY <1>2, <1>3, <1>4 DEF q, g

\* A prompt compiled from the history of the next state is in order.
LEMMA Compiled ==
  ASSUME Consistent(items', calls', style', Elements(Running')),
         prompt' = NormalizeForPrompt(items')
  PROVE  PromptOK' /\ prompt' \in Seq(Items)
<1>1. /\ items' \in Seq(Items) /\ CallsApart(items') /\ OutputsApart(items')
      /\ OutputsFollow(items') /\ OfStyle(items', style')
  BY DEF Consistent, Sound
<1>2. prompt' \in Seq(Items) /\ Pairs(prompt', {})
  BY <1>1, PromptPairs
<1>3. style' = "chat" => OutputsAreShown(items', prompt')
  BY <1>1, PromptShows
<1> QED BY <1>2, <1>3 DEF PromptOK

LEMMA AnswerWithBadCallsStep ==
  ASSUME Inv, AnswerWithBadCalls
  PROVE  Inv'
<1>0. PICK n \in 1..(MaxCalls - calls), cut \in BOOLEAN :
         \E bad \in SUBSET ((calls + 1)..(calls + n)) :
           /\ calls' = calls + n
           /\ items' = items \o Committed \o CallItems((calls + 1)..(calls + n)) \o Outputs(bad, "refused")
           /\ Write(CommitEvents
                \o <<Written(Event("assistant_output", CallItems((calls + 1)..(calls + n))), cut)>>
                \o [i \in DOMAIN Outputs(bad, "refused") |-> Event("error", <<>>)])
  BY DEF AnswerWithBadCalls
<1>1. PICK bad \in SUBSET ((calls + 1)..(calls + n)) :
         /\ calls' = calls + n
         /\ items' = items \o Committed \o CallItems((calls + 1)..(calls + n)) \o Outputs(bad, "refused")
         /\ Write(CommitEvents
              \o <<Written(Event("assistant_output", CallItems((calls + 1)..(calls + n))), cut)>>
              \o [i \in DOMAIN Outputs(bad, "refused") |-> Event("error", <<>>)])
  BY <1>0
<1> DEFINE ids == (calls + 1)..(calls + n)
           output == Answered(n)
           base == AnswerEvents(n, cut)
           add == Kept(n, cut)
           refusals == Outputs(bad, "refused")
           errors == [i \in DOMAIN refusals |-> Event("error", <<>>)]
           evs == base \o errors
           made == (items \o Committed) \o output
           said == (Replay(log) \o Committed) \o add
<1>2. /\ TypeOK /\ Flow /\ Recorded /\ pc = "model" /\ pc' = "ask" /\ batch = <<>> /\ batch' = batch
      /\ rest = <<>> /\ rest' = rest
      /\ style' = style /\ log \in Seq(Events) /\ prompt' = NormalizeForPrompt(items')
      /\ calls \in Nat /\ calls' \in Nat /\ calls <= calls' /\ calls' \in 0..MaxCalls
      /\ ids \subseteq 1..MaxCalls /\ ids \subseteq 1..calls' /\ bad \subseteq ids
      /\ calls' = calls + n /\ calls' <= MaxCalls
  BY <1>1, Bounds DEF Inv, TypeOK, Flow, Recorded, AnswerWithBadCalls
<1>3. items' = made \o refusals /\ Write(evs)
  BY <1>1 DEF Answered, AnswerEvents
<1>4. /\ base \in Seq(Events) /\ Plain(base)
      /\ Replay(log) \o Replay(base) = said
      /\ Consistent(made, calls', style, ids)
      /\ Consistent(said, calls', style, ids)
      /\ Uncut(base) /\ SameAs(Replay(log), items) => SameAs(said, made)
  BY <1>2, CallsRecorded
<1>5. refusals \in Seq(Items)
  <2>1. bad \in SUBSET (1..MaxCalls)
    BY <1>2
  <2> QED BY <2>1, OutputsFacts
<1>6. errors \in Seq(Events) /\ Plain(errors) /\ Replay(errors) = <<>>
  <2> HIDE DEF refusals
  <2> QED BY <1>5, ErrorEvents
<1>7. Consistent(made \o refusals, calls', style, {}) /\ SameAs(made \o refusals, made)
  <2> HIDE DEF made, ids
  <2> QED BY <1>2, <1>4, ConsistentRefusals
<1> HIDE DEF base, add, output, ids, refusals, errors, made, said
<1>8. evs \in Seq(Events) /\ Plain(evs) /\ Replay(evs) = Replay(base)
  <2>1. evs \in Seq(Events) /\ Plain(evs) /\ Replay(evs) = Replay(base) \o Replay(errors)
    BY <1>4, <1>6, ReplayBoth
  <2>2. Replay(base) \in Seq(Items)
    BY <1>4, ReplayType
  <2>3. Replay(base) \o <<>> = Replay(base)
    BY <2>2, ConcatEmptySeq
  <2> QED BY <1>6, <2>1, <2>3
<1>9. Uncut(evs) => Uncut(base)
  BY <1>4, <1>6, UncutParts
<1> HIDE DEF evs
<1>10. Running' = <<>> /\ Elements(Running') = {} /\ Distinct(Running')
  BY <1>2, NoneRunning
<1>11. mark' \in 0..Len(log') /\ log' = log \o evs
  BY <1>2, <1>3, <1>8, MarkType
<1>12. Consistent(items', calls', style, Elements(Running'))
  BY <1>3, <1>7, <1>10
<1>13. Recorded'
  <2>1. Consistent(said, calls', style, {})
    BY <1>4, OpenNone DEF Consistent
  <2>2. Consistent(Replay(log) \o Replay(evs), calls', style, Elements(Running'))
    BY <1>4, <1>8, <1>10, <2>1
  <2>3. Uncut(evs) /\ SameAs(Replay(log), items) => SameAs(Replay(log) \o Replay(evs), items')
    BY <1>3, <1>4, <1>7, <1>8, <1>9 DEF SameAs
  <2> QED BY <1>2, <1>8, <1>11, <1>12, <2>2, <2>3, RecordedStep
<1>14. PromptOK' /\ prompt' \in Seq(Items)
  BY <1>2, <1>12, Compiled
<1>15. TypeOK'
  <2>1. {stopped, cancel, diaries}' \subseteq BOOLEAN
    BY DEF TypeOK, Inv, AnswerWithBadCalls
  <2>2. items' \in Seq(Items)
    BY <1>12 DEF Consistent
  <2> QED BY <1>2, <1>11, <1>14, <2>1, <2>2 DEF TypeOK, AnswerWithBadCalls
<1>16. Flow'
  <2>1. Elements(Running') \subseteq 1..calls'
    BY <1>10
  <2> QED BY <1>2, <1>10, <2>1 DEF Flow, AnswerWithBadCalls
<1> QED BY <1>13, <1>14, <1>15, <1>16 DEF Inv

\* The output of a call of this session.
LEMMA OutputItem ==
  ASSUME style \in Styles, NEW id \in 1..MaxCalls, NEW state \in {"result", "interrupted"},
         NEW x, x = Output(OutputType, id, state)
  PROVE  /\ x \in Items /\ <<x>> \in Seq(Items) /\ x.id = id
         /\ x.kind \in {"output", "custom_output"}
         /\ x.kind = "custom_output" => style = "custom"
  BY DEF Output, OutputType, Items

\* The calls that run, one by one.
LEMMA RunningFacts ==
  ASSUME TypeOK, Flow
  PROVE  /\ Running \in Seq(1..MaxCalls) /\ calls \in Nat /\ calls <= MaxCalls
         /\ Elements(Running) \in SUBSET (1..calls)
         /\ \A n \in 1..Len(rest) : rest[n] \in Elements(Running) /\ rest[n] \in 1..MaxCalls
<1>1. /\ Running \in Seq(1..MaxCalls) /\ DOMAIN Running = 1..(Len(batch) + Len(rest))
      /\ Len(batch) \in Nat /\ Len(rest) \in Nat
      /\ \A i \in 1..Len(rest) : Running[Len(batch) + i] = rest[i]
  <2>1. batch \in Seq(1..MaxCalls) /\ rest \in Seq(1..MaxCalls)
    BY DEF TypeOK
  <2> QED BY ONLY <2>1, Parts DEF Running
<1>2. calls \in Nat /\ calls <= MaxCalls /\ Elements(Running) \in SUBSET (1..calls)
  BY Bounds DEF TypeOK, Flow
<1>3. ASSUME NEW n \in 1..Len(rest)
      PROVE  rest[n] \in Elements(Running) /\ rest[n] \in 1..MaxCalls
  <2>1. Len(batch) + n \in DOMAIN Running /\ Running[Len(batch) + n] = rest[n]
    BY <1>1
  <2>2. rest[n] \in Elements(Running)
    BY <2>1 DEF Elements
  <2> QED BY <1>2, <2>2, Bounds
<1> QED BY <1>1, <1>2, <1>3

\* The first call of the batch is finalized; the others run on.
LEMMA HeadFacts ==
  ASSUME TypeOK, Flow, batch # <<>>
  PROVE  /\ Head(batch) \in Elements(Running) /\ Head(batch) \in 1..MaxCalls
         /\ Tail(batch) \in Seq(1..MaxCalls)
         /\ Tail(batch) \o rest \in Seq(1..MaxCalls)
         /\ Distinct(Tail(batch) \o rest)
         /\ Elements(Tail(batch) \o rest) \subseteq Elements(Running) \ {Head(batch)}
<1> DEFINE t == Tail(batch) \o rest
<1>1. /\ batch \in Seq(1..MaxCalls) /\ rest \in Seq(1..MaxCalls)
      /\ Len(batch) \in Nat /\ Len(batch) >= 1 /\ Len(rest) \in Nat
      /\ Tail(batch) \in Seq(1..MaxCalls) /\ Len(Tail(batch)) = Len(batch) - 1
      /\ Head(batch) = batch[1]
      /\ \A i \in 1..(Len(batch) - 1) : Tail(batch)[i] = batch[i + 1]
  BY DEF TypeOK
<1>2. /\ DOMAIN Running = 1..(Len(batch) + Len(rest))
      /\ \A i \in 1..Len(batch) : Running[i] = batch[i]
      /\ \A i \in 1..Len(rest) : Running[Len(batch) + i] = rest[i]
  BY <1>1, Parts DEF Running
<1>3. /\ t \in Seq(1..MaxCalls) /\ DOMAIN t = 1..(Len(Tail(batch)) + Len(rest))
      /\ \A i \in 1..Len(Tail(batch)) : t[i] = Tail(batch)[i]
      /\ \A i \in 1..Len(rest) : t[Len(Tail(batch)) + i] = rest[i]
  BY <1>1, Parts
<1> HIDE DEF t
<1>4. /\ DOMAIN t = 1..(Len(batch) - 1 + Len(rest))
      /\ \A i \in DOMAIN t : i + 1 \in DOMAIN Running /\ t[i] = Running[i + 1]
  <2>1. DOMAIN t = 1..(Len(batch) - 1 + Len(rest))
    BY <1>1, <1>3
  <2>2. ASSUME NEW i \in 1..(Len(batch) - 1 + Len(rest))
        PROVE  i + 1 \in DOMAIN Running /\ t[i] = Running[i + 1]
    <3>1. i + 1 \in 1..(Len(batch) + Len(rest))
      BY <1>1
    <3>2. CASE i <= Len(batch) - 1
      <4>1. i \in 1..(Len(batch) - 1) /\ i + 1 \in 1..Len(batch)
        BY <1>1, <3>2
      <4> QED BY <1>1, <1>2, <1>3, <3>1, <4>1
    <3>3. CASE i > Len(batch) - 1
      <4> DEFINE k == i - (Len(batch) - 1)
      <4>1. k \in 1..Len(rest) /\ i = Len(Tail(batch)) + k /\ i + 1 = Len(batch) + k
        BY <1>1, <3>3
      <4> HIDE DEF k
      <4>2. t[i] = rest[k] /\ Running[i + 1] = rest[k]
        BY <1>2, <1>3, <4>1
      <4> QED BY <1>2, <3>1, <4>2
    <3> QED BY <1>1, <3>2, <3>3
  <2> QED BY <2>1, <2>2
<1>5. Running[1] = Head(batch) /\ 1 \in DOMAIN Running
  BY <1>1, <1>2
<1>6. Distinct(Running) /\ Elements(Running) \subseteq 1..calls /\ calls \in 0..MaxCalls
  BY DEF Flow, TypeOK
<1>7. Head(batch) \in Elements(Running) /\ Head(batch) \in 1..MaxCalls
  <2>1. Head(batch) \in Elements(Running)
    BY <1>5 DEF Elements
  <2>2. batch[1] \in 1..MaxCalls
    <3>1. 1 \in 1..Len(batch)
      BY <1>1
    <3> QED BY ONLY <1>1, <3>1, ElementOfSeq
  <2> QED BY <1>1, <2>1, <2>2
<1>8. ASSUME NEW i \in DOMAIN t, NEW j \in DOMAIN t, t[i] = t[j] PROVE i = j
  <2>1. i + 1 = j + 1
    BY <1>4, <1>6, <1>8 DEF Distinct
  <2> QED BY <1>4, <2>1
<1>9. ASSUME NEW i \in DOMAIN t PROVE t[i] \in Elements(Running) /\ t[i] # Head(batch)
  <2>1. t[i] \in Elements(Running)
    BY <1>4 DEF Elements
  <2>2. i + 1 # 1
    BY <1>1, <1>4
  <2>3. t[i] # Running[1]
    BY <1>4, <1>5, <1>6, <2>2 DEF Distinct
  <2> QED BY <1>5, <2>1, <2>3
<1>10. Distinct(t) /\ Elements(t) \subseteq Elements(Running) \ {Head(batch)}
  BY <1>8, <1>9 DEF Distinct, Elements
<1> QED BY <1>1, <1>3, <1>7, <1>10 DEF t

LEMMA InterruptToolStep ==
  ASSUME Inv, InterruptTool
  PROVE  Inv'
<1>1. PICK n \in 1..MaxParallel :
         /\ n <= Len(rest)
         /\ items' = items \o <<Output(OutputType, rest[n], "interrupted"), Aborted>>
         /\ Write(<<Event("tool_output", <<Output(OutputType, rest[n], "interrupted")>>),
                    AbortedEvent>>)
  BY DEF InterruptTool
<1> DEFINE x == Output(OutputType, rest[n], "interrupted")
           e == Event("tool_output", <<x>>)
           evs == <<e, AbortedEvent>>
           b == <<x, Aborted>>
<1>2. /\ TypeOK /\ Flow /\ Recorded /\ style \in Styles /\ log \in Seq(Events)
      /\ items \in Seq(Items) /\ Replay(log) \in Seq(Items) /\ Leave
      /\ style' = style /\ calls' = calls
  BY DEF Inv, TypeOK, Recorded, Consistent, InterruptTool
<1>3. n \in 1..Len(rest)
  <2>1. rest \in Seq(1..MaxCalls) /\ n \in Nat
    BY <1>2, Bounds DEF TypeOK
  <2> QED BY <1>1, <2>1
<1>4. /\ rest[n] \in Elements(Running) /\ rest[n] \in 1..MaxCalls
      /\ calls \in Nat /\ Elements(Running) \in SUBSET (1..calls)
  BY <1>2, <1>3, RunningFacts
<1>5. /\ x \in Items /\ <<x>> \in Seq(Items) /\ x.id = rest[n]
      /\ x.kind \in {"output", "custom_output"}
      /\ x.kind = "custom_output" => style = "custom"
  BY <1>2, <1>4, OutputItem
<1>6. e \in Events /\ e.type # Compaction /\ e.items = <<x>>
  <2>1. "tool_output" \in EventTypes /\ "tool_output" # Compaction
    BY DEF EventTypes, Compaction
  <2> HIDE DEF x
  <2> QED BY <1>5, <2>1, EventFacts
<1>7. items' = items \o b /\ Write(evs)
  BY <1>1
<1> HIDE DEF x, e
<1>8. /\ <<x>> \o <<Aborted>> = b /\ b \in Seq(Items)
  BY <1>5, AbortedFacts, PairConcat
<1>9. evs \in Seq(Events) /\ Plain(evs) /\ Replay(evs) = b
  <2>1. <<e>> \in Seq(Events) /\ Plain(<<e>>) /\ Replay(<<e>>) = <<x>>
    BY <1>6, ReplayEvent DEF Plain
  <2>2. AbortedEvent \in Events
    <3>1. "turn_aborted" \in EventTypes
      BY DEF EventTypes
    <3> QED BY <3>1, AbortedFacts, EventFacts DEF AbortedEvent
  <2>3. <<e>> \o <<AbortedEvent>> = evs
    BY <1>6, <2>2, PairConcat
  <2> QED BY <1>8, <2>1, <2>3, AbortedFacts, ReplayBoth
<1>10. ASSUME NEW h, Consistent(h, calls, style, Elements(Running))
       PROVE  Consistent(h \o b, calls, style, {})
  <2>1. Consistent(h \o <<x>>, calls, style, {})
    BY <1>4, <1>5, <1>10, ConsistentOutput
  <2>2. Consistent((h \o <<x>>) \o <<Aborted>>, calls, style, {})
    BY <1>4, <2>1, AbortedFacts, ConsistentQuiet
  <2>3. h \in Seq(Items)
    BY <1>10 DEF Consistent
  <2>4. Associates(h, <<x>>, <<Aborted>>)
    BY <1>5, <2>3, AbortedFacts, JoinAssociates
  <2> QED BY <1>8, <2>2, <2>4 DEF Associates
<1> HIDE DEF b, evs
<1>11. mark' \in 0..Len(log') /\ log' = log \o evs
  BY <1>2, <1>7, <1>9, MarkType
<1>12. /\ Consistent(items', calls, style, {})
       /\ Consistent(Replay(log) \o Replay(evs), calls, style, {})
  BY <1>2, <1>7, <1>9, <1>10 DEF Recorded
<1>13. items' \in Seq(Items)
  BY <1>12 DEF Consistent
<1>14. pending' \in Pendings
  BY DEF InterruptTool, FailPending, Inv, TypeOK, Pendings
<1>15. TypeOK' /\ Flow' /\ PromptOK' /\ Elements(Running') = {}
  BY <1>2, <1>11, <1>13, <1>14, LeaveType DEF Pendings, InterruptTool
<1>16. SameAs(Replay(log), items) => SameAs(Replay(log) \o Replay(evs), items')
  <2>1. SameAs(b, b)
    BY DEF SameAs
  <2> QED BY <1>2, <1>7, <1>8, <1>9, <2>1, SameConcat
<1>17. Recorded'
  <2>1. calls <= calls' /\ calls' \in Nat
    BY <1>2, <1>4
  <2>2. /\ Consistent(items', calls', style, Elements(Running'))
        /\ Consistent(Replay(log) \o Replay(evs), calls', style, Elements(Running'))
    BY <1>2, <1>12, <1>15
  <2> QED BY <1>2, <1>4, <1>9, <1>11, <1>16, <2>1, <2>2, RecordedStep
<1> QED BY <1>15, <1>17 DEF Inv

\* An output, and a mark of the aborted turn or none, behind a history whose calls
\* run; the other calls stay open unless the turn is aborted.
LEMMA ConsistentResult ==
  ASSUME NEW h, NEW n \in Nat, NEW s, NEW S \in SUBSET (1..n), Consistent(h, n, s, S),
         NEW x \in Items, x.kind \in {"output", "custom_output"},
         x.kind = "custom_output" => s = "custom", x.id \in S,
         NEW b \in {<<>>, <<x>>}, NEW R \in SUBSET (S \ {x.id}),
         NEW a \in {<<>>, <<Aborted>>}, a # <<>> => R = {}
  PROVE  Consistent(h \o (b \o a), n, s, R)
<1>1. h \in Seq(Items) /\ Sound(h, n, s) /\ Open(h, S) /\ <<x>> \in Seq(Items)
      /\ <<>> \in Seq(Items) /\ <<Aborted>> \in Seq(Items)
  BY AbortedFacts DEF Consistent
<1>2. Consistent(h \o b, n, s, R)
  <2>1. CASE b = <<>>
    <3>1. h \o b = h
      BY <1>1, <2>1, ConcatEmptySeq
    <3>2. R \in SUBSET S
      OBVIOUS
    <3> QED BY <1>1, <3>1, <3>2, OpenLess DEF Consistent
  <2>2. CASE b = <<x>>
    BY <2>2, ConsistentOutput
  <2> QED BY <2>1, <2>2
<1>3. Consistent((h \o b) \o a, n, s, R)
  <2>1. CASE a = <<>>
    <3>1. h \o b \in Seq(Items)
      BY <1>2 DEF Consistent
    <3>2. (h \o b) \o a = h \o b
      BY <2>1, <3>1, ConcatEmptySeq
    <3> QED BY <1>2, <3>2
  <2>2. CASE a = <<Aborted>>
    <3>1. R = {}
      BY <2>2
    <3>2. Consistent((h \o b) \o <<Aborted>>, n, s, {})
      BY <1>2, AbortedFacts, ConsistentQuiet
    <3> QED BY <2>2, <3>1, <3>2
  <2> QED BY <2>1, <2>2
<1>4. Associates(h, b, a)
  BY <1>1, JoinAssociates
<1> QED BY <1>3, <1>4 DEF Associates

\* What is added to the log and the history when a call is finalized, whatever
\* ends the turn.
Finalized(x, cut, a, closing) ==
    /\ items' = items \o (<<x>> \o a)
    /\ Write(<<Written(Event("tool_output", <<x>>), cut)>> \o closing)
    /\ closing \in Seq(Events) /\ Plain(closing) /\ Replay(closing) = a
    /\ a # <<>> => Leave
    /\ pending' \in Pendings
    /\ \/ Leave
       \/ /\ stopped' \in BOOLEAN /\ repeats' \in Nat
          /\ pc' = IF Unfinished = <<>> THEN "ask" ELSE "tools"
          /\ prompt' = IF Unfinished = <<>> THEN NormalizeForPrompt(items') ELSE prompt
          /\ UNCHANGED <<step, retries, rest, cancel>>

LEMMA BothEmpty ==
  ASSUME NEW T, NEW a \in Seq(T), NEW b \in Seq(T), a \o b = <<>>
  PROVE  a = <<>> /\ b = <<>>
<1>1. Len(a \o b) = Len(a) + Len(b) /\ Len(a) \in Nat /\ Len(b) \in Nat
  BY ConcatProperties, LenProperties
<1>2. Len(a \o b) = 0
  OBVIOUS
<1>3. Len(a) = 0 /\ Len(b) = 0
  BY ONLY <1>1, <1>2
<1> QED BY <1>3, EmptySeq

LEMMA FinalizeFacts ==
  ASSUME Inv, FinalizeToolCall
  PROVE  \E cut \in BOOLEAN, a \in {<<>>, <<Aborted>>}, closing \in Seq(Events) :
            Finalized(Output(OutputType, Head(batch), "result"), cut, a, closing)
<1> DEFINE x == Output(OutputType, Head(batch), "result")
<1>1. PICK stops \in {"no", "hook", "duplicate"}, same \in BOOLEAN, cut \in BOOLEAN :
         LET recorded == Written(Event("tool_output", <<x>>), cut)
             aborts   == stops # "hook" /\ cancel /\ Unfinished = <<>>
             reads    == stops = "no" /\ ~aborts
             count    == IF reads THEN RepeatsAfter(same) ELSE repeats
             loops    == reads /\ IsLoop(count) /\ Unfinished = <<>>
             ends     == stopped \/ stops # "no" \/ aborts \/ loops
             outputs  == IF aborts THEN <<x, Aborted>> ELSE <<x>>
             closing  == IF aborts THEN <<AbortedEvent>>
                         ELSE IF stops # "no" \/ loops THEN <<Event("turn_completed", <<>>)>>
                         ELSE <<>>
         IN /\ same => repeats > 0
            /\ items' = items \o outputs
            /\ Write(<<recorded>> \o closing)
            /\ IF aborts THEN FailPending("failed") ELSE UNCHANGED pending
            /\ IF ends /\ Tail(batch) = <<>> THEN Leave
               ELSE /\ stopped' = ends /\ repeats' = count
                    /\ pc' = IF Unfinished = <<>> THEN "ask" ELSE "tools"
                    /\ prompt' = IF Unfinished = <<>> THEN NormalizeForPrompt(items')
                                 ELSE prompt
                    /\ UNCHANGED <<step, retries, rest, cancel>>
  BY DEF FinalizeToolCall
<1> DEFINE recorded == Written(Event("tool_output", <<x>>), cut)
           aborts   == stops # "hook" /\ cancel /\ Unfinished = <<>>
           reads    == stops = "no" /\ ~aborts
           count    == IF reads THEN RepeatsAfter(same) ELSE repeats
           loops    == reads /\ IsLoop(count) /\ Unfinished = <<>>
           ends     == stopped \/ stops # "no" \/ aborts \/ loops
           outputs  == IF aborts THEN <<x, Aborted>> ELSE <<x>>
           closing  == IF aborts THEN <<AbortedEvent>>
                       ELSE IF stops # "no" \/ loops THEN <<Event("turn_completed", <<>>)>>
                       ELSE <<>>
           a        == IF aborts THEN <<Aborted>> ELSE <<>>
<1>2. /\ items' = items \o outputs
      /\ Write(<<recorded>> \o closing)
      /\ IF aborts THEN FailPending("failed") ELSE UNCHANGED pending
      /\ IF ends /\ Tail(batch) = <<>> THEN Leave
         ELSE /\ stopped' = ends /\ repeats' = count
              /\ pc' = IF Unfinished = <<>> THEN "ask" ELSE "tools"
              /\ prompt' = IF Unfinished = <<>> THEN NormalizeForPrompt(items')
                           ELSE prompt
              /\ UNCHANGED <<step, retries, rest, cancel>>
  BY <1>1
<1>3. /\ style \in Styles /\ Head(batch) \in 1..MaxCalls /\ repeats \in Nat
      /\ stopped \in BOOLEAN /\ pending \in Pendings
      /\ batch \in Seq(1..MaxCalls) /\ batch # <<>> /\ rest \in Seq(1..MaxCalls)
  BY HeadFacts DEF Inv, TypeOK, FinalizeToolCall, Pendings
<1>4. x \in Items /\ <<x>> \in Seq(Items)
  BY <1>3, OutputItem
<1> HIDE DEF x
<1>5. outputs = <<x>> \o a
  <2>1. CASE aborts
    BY <1>4, <2>1, AbortedFacts, PairConcat
  <2>2. CASE ~aborts
    <3>1. <<x>> \o <<>> = <<x>>
      BY <1>4, ConcatEmptySeq
    <3> QED BY <2>2, <3>1
  <2> QED BY <2>1, <2>2
<1>6. closing \in Seq(Events) /\ Plain(closing) /\ Replay(closing) = a
  <2>1. CASE aborts
    BY <2>1, AbortedFacts
  <2>2. CASE ~aborts /\ (stops # "no" \/ loops)
    <3>1. "turn_completed" \in EventTypes \ {Compaction}
      BY DEF EventTypes, Compaction
    <3>2. <<Event("turn_completed", <<>>)>> \in Seq(Events)
          /\ Plain(<<Event("turn_completed", <<>>)>>)
          /\ Replay(<<Event("turn_completed", <<>>)>>) = <<>>
      BY <3>1, EmptyEvents, ReplayNothing
    <3> QED BY <2>2, <3>2
  <2>3. CASE ~aborts /\ ~(stops # "no" \/ loops)
    <3>1. closing = <<>> /\ a = <<>>
      BY <2>3
    <3> QED BY <3>1, NoEvents, ReplayEmpty
  <2> QED BY <2>1, <2>2, <2>3
<1>7. aborts => Leave
  <2>1. ASSUME Unfinished = <<>> PROVE Tail(batch) = <<>>
    <3>1. Tail(batch) \in Seq(1..MaxCalls)
      BY <1>3
    <3> QED BY <1>3, <2>1, <3>1, BothEmpty DEF Unfinished
  <2>2. aborts => ends
    OBVIOUS
  <2> QED BY <1>2, <2>1, <2>2
<1>8. pending' \in Pendings
  BY <1>2, <1>3 DEF FailPending, Pendings
<1>9. count \in Nat
  BY <1>3 DEF RepeatsAfter
<1>10. ends \in BOOLEAN
  OBVIOUS
<1>11. a \in {<<>>, <<Aborted>>} /\ (a # <<>> => aborts)
  OBVIOUS
<1> HIDE DEF aborts, closing, a, outputs, ends, count
<1>12. Finalized(x, cut, a, closing)
  BY <1>2, <1>5, <1>6, <1>7, <1>8, <1>9, <1>10, <1>11 DEF Finalized
<1> QED BY <1>6, <1>11, <1>12 DEF x

LEMMA FinalizeToolCallStep ==
  ASSUME Inv, FinalizeToolCall
  PROVE  Inv'
<1> DEFINE x == Output(OutputType, Head(batch), "result")
<1>1. PICK cut \in BOOLEAN, a \in {<<>>, <<Aborted>>}, closing \in Seq(Events) :
         Finalized(x, cut, a, closing)
  BY FinalizeFacts
<1> DEFINE w == <<Written(Event("tool_output", <<x>>), cut)>>
           evs == w \o closing
           b == IF cut THEN <<>> ELSE <<x>>
           S == Elements(Running)
           R == Elements(Running')
<1>2. /\ TypeOK /\ Flow /\ Recorded /\ style \in Styles /\ log \in Seq(Events)
      /\ items \in Seq(Items) /\ Replay(log) \in Seq(Items)
      /\ batch # <<>> /\ batch' = Tail(batch) /\ pc = "tools"
      /\ style' = style /\ calls' = calls /\ turn' = turn /\ diaries' = diaries
      /\ restarts' = restarts /\ turn >= 1 /\ step >= 1
  BY DEF Inv, TypeOK, Flow, Recorded, Consistent, FinalizeToolCall
<1>3. /\ Head(batch) \in S /\ Head(batch) \in 1..MaxCalls
      /\ Tail(batch) \in Seq(1..MaxCalls)
      /\ Distinct(Tail(batch) \o rest)
      /\ Elements(Tail(batch) \o rest) \subseteq S \ {Head(batch)}
      /\ Tail(batch) \o rest \in Seq(1..MaxCalls)
  BY <1>2, HeadFacts
<1>4. /\ S \in SUBSET (1..calls) /\ calls \in Nat
  BY <1>2, RunningFacts
<1>5. /\ x \in Items /\ <<x>> \in Seq(Items) /\ x.id = Head(batch)
      /\ x.kind \in {"output", "custom_output"}
      /\ x.kind = "custom_output" => style = "custom"
  BY <1>2, <1>3, OutputItem
<1> HIDE DEF x
<1>6. /\ items' = items \o (<<x>> \o a) /\ Write(evs)
      /\ closing \in Seq(Events) /\ Plain(closing) /\ Replay(closing) = a
      /\ a # <<>> => Leave
      /\ pending' \in Pendings
  BY <1>1 DEF Finalized
<1>7. /\ w \in Seq(Events) /\ Plain(w) /\ Replay(w) = b /\ (cut => ~Uncut(w))
  <2>1. "tool_output" \in EventTypes \ {Compaction}
    BY DEF EventTypes, Compaction
  <2> QED BY <1>5, <2>1, WrittenFacts
<1>8. b \in {<<>>, <<x>>} /\ (~cut => b = <<x>>)
  OBVIOUS
<1>9. Leave => Running' = <<>> /\ R = {} /\ Distinct(Running')
  BY NoneRunning DEF Leave
<1>10. ~Leave => /\ rest' = rest /\ Running' = Tail(batch) \o rest
                 /\ stopped' \in BOOLEAN /\ repeats' \in Nat
                 /\ pc' = (IF Unfinished = <<>> THEN "ask" ELSE "tools")
                 /\ prompt' = (IF Unfinished = <<>> THEN NormalizeForPrompt(items') ELSE prompt)
                 /\ step' = step /\ retries' = retries /\ cancel' = cancel
  <2>1. ASSUME ~Leave
        PROVE  /\ rest' = rest
               /\ stopped' \in BOOLEAN /\ repeats' \in Nat
               /\ pc' = (IF Unfinished = <<>> THEN "ask" ELSE "tools")
               /\ prompt' = (IF Unfinished = <<>> THEN NormalizeForPrompt(items') ELSE prompt)
               /\ step' = step /\ retries' = retries /\ cancel' = cancel
    BY <1>1, <2>1 DEF Finalized
  <2>2. ASSUME ~Leave PROVE Running' = Tail(batch) \o rest
    BY <1>2, <2>1, <2>2 DEF Running
  <2> QED BY <2>1, <2>2
<1> HIDE DEF w, b, S
<1>11. evs \in Seq(Events) /\ Plain(evs) /\ Replay(evs) = b \o a
  BY <1>6, <1>7, ReplayBoth
<1>12. Uncut(evs) => Uncut(w)
  BY <1>6, <1>7, UncutParts
<1> HIDE DEF evs
<1>13. R \in SUBSET (S \ {x.id})
  <2>1. CASE Leave
    BY <1>9, <2>1
  <2>2. CASE ~Leave
    <3>1. R = Elements(Tail(batch) \o rest)
      BY <1>10, <2>2
    <3> HIDE DEF R
    <3> QED BY <1>3, <1>5, <3>1
  <2> QED BY <2>1, <2>2
<1>14. a # <<>> => R = {}
  BY <1>6, <1>9
<1> HIDE DEF R
<1>15. ASSUME NEW h, Consistent(h, calls, style, S), NEW c \in {<<>>, <<x>>}
       PROVE  Consistent(h \o (c \o a), calls, style, R)
  BY <1>3, <1>4, <1>5, <1>13, <1>14, <1>15, ConsistentResult
<1>16. /\ Consistent(items', calls, style, R)
       /\ Consistent(Replay(log) \o Replay(evs), calls, style, R)
  <2>1. Consistent(items, calls, style, S) /\ Consistent(Replay(log), calls, style, S)
    BY <1>2 DEF Recorded, S
  <2> QED BY <1>6, <1>8, <1>11, <1>15, <2>1
<1>17. mark' \in 0..Len(log') /\ log' = log \o evs
  BY <1>2, <1>6, <1>11, MarkType
<1>18. Uncut(evs) /\ SameAs(Replay(log), items) => SameAs(Replay(log) \o Replay(evs), items')
  <2> SUFFICES ASSUME Uncut(evs), SameAs(Replay(log), items)
               PROVE  SameAs(Replay(log) \o Replay(evs), items')
    OBVIOUS
  <2>1. b = <<x>>
    BY <1>7, <1>8, <1>12
  <2>2. <<x>> \o a \in Seq(Items)
    <3>1. a \in Seq(Items)
      <4>1. <<>> \in Seq(Items)
        OBVIOUS
      <4> QED BY <4>1, AbortedFacts
    <3> QED BY <1>5, <3>1, ConcatProperties
  <2>3. SameAs(<<x>> \o a, <<x>> \o a)
    BY DEF SameAs
  <2>4. SameAs(Replay(log) \o (<<x>> \o a), items \o (<<x>> \o a))
    BY <1>2, <2>2, <2>3, SameConcat
  <2> QED BY <1>6, <1>11, <2>1, <2>4
<1>19. Recorded'
  <2>1. calls <= calls' /\ calls' \in Nat
    BY <1>2, <1>4
  <2>2. /\ Consistent(items', calls', style, Elements(Running'))
        /\ Consistent(Replay(log) \o Replay(evs), calls', style, Elements(Running'))
    BY <1>2, <1>16 DEF R
  <2> QED BY <1>2, <1>4, <1>11, <1>17, <1>18, <2>1, <2>2, RecordedStep
<1>20. items' \in Seq(Items)
  BY <1>16 DEF Consistent
<1>21. CASE Leave
  <2>1. TypeOK' /\ Flow' /\ PromptOK'
    BY <1>2, <1>6, <1>17, <1>20, <1>21, LeaveType DEF Pendings
  <2> QED BY <1>19, <2>1 DEF Inv
<1>22. CASE ~Leave
  <2>1. PromptOK' /\ prompt' \in Seq(Items)
    <3>1. CASE Unfinished = <<>>
      <4>1. Consistent(items', calls', style', Elements(Running'))
        BY <1>2, <1>16 DEF R
      <4>2. prompt' = NormalizeForPrompt(items')
        BY <1>10, <1>22, <3>1
      <4> QED BY <4>1, <4>2, Compiled
    <3>2. CASE Unfinished # <<>>
      <4>1. pc' = "tools" /\ prompt' = prompt
        BY <1>10, <1>22, <3>2
      <4> QED BY <1>2, <4>1 DEF PromptOK, TypeOK
    <3> QED BY <3>1, <3>2
  <2>2. pc' \in {"ask", "tools"} /\ (pc' # "tools" => Tail(batch) \o rest = <<>>)
    BY <1>10, <1>22 DEF Unfinished
  <2>3. Flow'
    <3>1. Distinct(Running') /\ Elements(Running') \subseteq 1..calls'
      BY <1>2, <1>3, <1>4, <1>10, <1>22
    <3>2. pc' # "tools" => batch' = <<>> /\ rest' = <<>>
      <4> SUFFICES ASSUME pc' # "tools" PROVE batch' = <<>> /\ rest' = <<>>
        OBVIOUS
      <4>1. Tail(batch) \o rest = <<>> /\ rest \in Seq(1..MaxCalls)
        BY <1>2, <2>2 DEF TypeOK
      <4>3. Tail(batch) = <<>> /\ rest = <<>>
        BY <1>3, <4>1, BothEmpty
      <4> QED BY <1>2, <1>10, <1>22, <4>3
    <3> QED BY <1>2, <1>10, <1>22, <2>2, <3>1, <3>2 DEF Flow
  <2>4. TypeOK'
    <3>1. {stopped, cancel, diaries}' \subseteq BOOLEAN
      BY <1>2, <1>10, <1>22 DEF TypeOK
    <3>2. batch' \in Seq(1..MaxCalls) /\ rest' \in Seq(1..MaxCalls)
      BY <1>2, <1>3, <1>10, <1>22 DEF TypeOK
    <3> QED BY <1>2, <1>6, <1>10, <1>17, <1>20, <1>22, <2>1, <2>2, <3>1, <3>2 DEF TypeOK, Pendings
  <2> QED BY <1>19, <2>1, <2>3, <2>4 DEF Inv
<1> QED BY <1>21, <1>22

LEMMA RehydrateFacts ==
  ASSUME NEW l \in Seq(Events)
  PROVE  /\ SameAs(Rehydrate(l), Replay(l))
         /\ \A c \in Nat : \A s : Sound(Replay(l), c, s)
              => Rehydrate(l) \in Seq(Items) /\ Sound(Rehydrate(l), c, s)
<1> DEFINE unfinished == \E n \in DOMAIN l :
             /\ l[n].type = "turn_started"
             /\ \A k \in (n + 1)..Len(l) : l[k].type \notin Terminal
           a == IF unfinished THEN <<Aborted>> ELSE <<>>
           h == Replay(l) \o a
<1>1. Replay(l) \in Seq(Items)
  BY ReplayType
<1>2. Rehydrate(l) = RepairDanglingToolCalls(h)
  <2>1. Append(Replay(l), Aborted) = Replay(l) \o <<Aborted>>
    BY <1>1, AbortedFacts, AppendIsConcat
  <2>2. Replay(l) \o <<>> = Replay(l)
    BY <1>1, ConcatEmptySeq
  <2>3. h = IF unfinished THEN Append(Replay(l), Aborted) ELSE Replay(l)
    BY <2>1, <2>2
  <2>4. Rehydrate(l) = RepairDanglingToolCalls(
                         IF unfinished THEN Append(Replay(l), Aborted) ELSE Replay(l))
    BY DEF Rehydrate
  <2> QED BY <2>3, <2>4
<1>3. a \in Seq(Items) /\ Quiet(a) /\ Silent(a)
  <2>1. <<>> \in Seq(Items) /\ Quiet(<<>>) /\ Silent(<<>>)
    BY DEF Quiet, Silent
  <2> QED BY <2>1, AbortedFacts
<1> HIDE DEF a
<1>4. h \in Seq(Items) /\ SameAs(h, Replay(l))
  BY <1>1, <1>3, SilentItems, ConcatProperties
<1>5. SameAs(RepairDanglingToolCalls(h), h)
  BY <1>4, RepairIsSilent
<1>6. ASSUME NEW c \in Nat, NEW s, Sound(Replay(l), c, s)
      PROVE  Rehydrate(l) \in Seq(Items) /\ Sound(Rehydrate(l), c, s)
  <2>1. Sound(h, c, s)
    BY <1>1, <1>3, <1>6, SoundQuiet
  <2> HIDE DEF h
  <2> QED BY <1>2, <1>4, <2>1, RepairSound
<1> HIDE DEF h
<1>7. SameAs(Rehydrate(l), Replay(l))
  BY <1>2, <1>4, <1>5 DEF SameAs
<1> QED BY <1>6, <1>7

LEMMA RestartStep ==
  ASSUME Inv, Restart
  PROVE  Inv'
<1>1. PICK n \in mark..Len(log) :
         LET kept == SubSeq(log, 1, n)
             found == IF \E i \in 1..n : kept[i].type \in Resumable THEN kept ELSE <<>>
         IN /\ log' = found /\ mark' = Len(found)
            /\ items' = Rehydrate(found)
            /\ diaries' = \E i \in DOMAIN found : found[i].type = "memory_diary"
  BY DEF Restart
<1>2. /\ TypeOK /\ Recorded /\ log \in Seq(Events) /\ LogSound(log, calls, style)
      /\ calls \in Nat /\ mark \in 0..Len(log) /\ Len(log) \in Nat
  BY Bounds DEF Inv, TypeOK, Recorded
<1>3. n \in 0..Len(log)
  BY <1>2
<1>4. /\ items' = Rehydrate(log') /\ mark' = Len(log')
      /\ log' \in {SubSeq(log, 1, n), <<>>} /\ diaries' \in BOOLEAN
  BY <1>1
<1>5. log' \in Seq(Events) /\ LogSound(log', calls, style) /\ Sound(Replay(log'), calls, style)
  <2>1. CASE log' = SubSeq(log, 1, n)
    BY <1>2, <1>3, <2>1, LogCut
  <2>2. CASE log' = <<>>
    BY <2>2, NoEvents, LogEmpty, ReplayEmpty, SoundEmpty
  <2> QED BY <1>4, <2>1, <2>2
<1>6. /\ SameAs(items', Replay(log')) /\ items' \in Seq(Items) /\ Sound(items', calls, style)
  BY <1>2, <1>4, <1>5, RehydrateFacts
<1>7. Replay(log') \in Seq(Items)
  BY <1>5, ReplayType
<1>8. /\ Leave /\ pending' = "none" /\ style' = style /\ turn' = turn /\ calls' = calls
      /\ restarts' = restarts + 1 /\ restarts < MaxRestarts
  BY DEF Restart
<1>9. Running' = <<>> /\ Elements(Running') = {} /\ Distinct(Running')
  BY <1>8, NoneRunning DEF Leave
<1>10. Recorded'
  <2>1. /\ Consistent(items', calls', style', Elements(Running'))
        /\ Consistent(Replay(log'), calls', style', Elements(Running'))
    BY <1>5, <1>6, <1>7, <1>8, <1>9, OpenNone DEF Consistent
  <2>2. SameAs(Replay(log'), items')
    BY <1>6 DEF SameAs
  <2>3. LogSound(log', calls', style')
    BY <1>5, <1>8
  <2> QED BY <1>5, <2>1, <2>2, <2>3 DEF Recorded
<1>11. TypeOK'
  <2>1. <<>> \in Seq(1..MaxCalls) /\ <<>> \in Seq(Items)
    OBVIOUS
  <2>2. {stopped, cancel, diaries}' \subseteq BOOLEAN
    BY <1>4, <1>8 DEF Leave
  <2>3. mark' \in 0..Len(log')
    BY <1>4, <1>5
  <2>4. restarts' \in 0..MaxRestarts
    BY <1>2, <1>8, Bounds DEF TypeOK
  <2> QED BY <1>2, <1>6, <1>8, <2>1, <2>2, <2>3, <2>4, Bounds DEF TypeOK, Leave
<1>12. Flow'
  BY <1>8, <1>9 DEF Flow, Leave
<1>13. PromptOK'
  BY <1>8 DEF PromptOK, Leave
<1> QED BY <1>10, <1>11, <1>12, <1>13 DEF Inv

---------------------------------------------------------------------------
(* The theorems *)

\* Every step keeps the invariant.
LEMMA NextInv ==
  ASSUME Inv, [Next]_vars
  PROVE  Inv'
<1>1. CASE Next
  <2>1. CASE Input
    BY <2>1, InputStep
  <2>2. CASE Compact
    BY <2>2, CompactStep
  <2>3. CASE AcceptDream
    BY <2>3, AcceptDreamStep
  <2>4. CASE RequestCancel
    BY <2>4, RequestCancelStep
  <2>5. CASE LoopStep
    <3>1. CASE BlockTurn
      BY <3>1, BlockTurnStep
    <3>2. CASE PrepareTurn
      BY <3>2, PrepareTurnStep
    <3>3. CASE StopBeforeRequest
      BY <3>3, StopBeforeRequestStep
    <3>4. CASE RunOutOfSteps
      BY <3>4, RunOutOfStepsStep
    <3>5. CASE SendPrompt
      BY <3>5, SendPromptStep
    <3>6. CASE RetryModel
      BY <3>6, RetryModelStep
    <3>7. CASE AskAgain
      BY <3>7, AskAgainStep
    <3>8. CASE FailModel
      BY <3>8, FailModelStep
    <3>9. CASE InterruptModel
      BY <3>9, InterruptModelStep
    <3>10. CASE AnswerWithText
      BY <3>10, AnswerWithTextStep
    <3>11. CASE AnswerWithCalls
      BY <3>11, AnswerWithCallsStep
    <3>12. CASE AnswerWithBadCalls
      BY <3>12, AnswerWithBadCallsStep
    <3>13. CASE RunGroup
      BY <3>13, RunGroupStep
    <3>14. CASE InterruptTool
      BY <3>14, InterruptToolStep
    <3>15. CASE FinalizeToolCall
      BY <3>15, FinalizeToolCallStep
    <3> QED BY <2>5, <3>1, <3>2, <3>3, <3>4, <3>5, <3>6, <3>7, <3>8, <3>9, <3>10, <3>11, <3>12,
               <3>13, <3>14, <3>15 DEF LoopStep
  <2>6. CASE Restart
    BY <2>6, RestartStep
  <2> QED BY <1>1, <2>1, <2>2, <2>3, <2>4, <2>5, <2>6 DEF Next
<1>2. CASE UNCHANGED vars
  <2>1. TypeOK'
    BY <1>2 DEF vars, Inv, TypeOK
  <2>2. Running' = Running /\ style' = style /\ calls' = calls /\ items' = items /\ log' = log
    BY <1>2 DEF vars, Running
  <2>3. Recorded'
    BY <2>2 DEF Inv, Recorded
  <2>4. Flow'
    BY <1>2, <2>2 DEF vars, Inv, Flow
  <2>5. PromptOK'
    BY <1>2 DEF vars, Inv, PromptOK
  <2> QED BY <2>1, <2>3, <2>4, <2>5 DEF Inv
<1> QED BY <1>1, <1>2

\* The invariant of the turn loop.
THEOREM TurnInvariant == Spec => []Inv
<1>1. Init => Inv
  BY InitInv
<1>2. Inv /\ [Next]_vars => Inv'
  BY NextInv
<1> QED BY <1>1, <1>2, PTL DEF Spec

\* The state of run() and of the session is always one the code can hold.
THEOREM TurnTypes == Spec => []TypeOK
<1>1. Inv => TypeOK
  BY DEF Inv
<1> QED BY <1>1, TurnInvariant, PTL

\* Whatever interrupts, stops, refusals, crashes and cut payloads came before, each
\* call in a prompt that is sent has one output, directly behind the item of the call
\* and other outputs (normalize_for_prompt).
THEOREM PromptsArePaired == Spec => []PromptIsPaired
<1>1. Inv => PromptIsPaired
  <2> SUFFICES ASSUME Inv, pc = "model", style # "custom"
               PROVE  /\ \A id \in CallsOf(prompt) :
                           Cardinality({i \in DOMAIN prompt :
                                          IsOutput(prompt[i]) /\ prompt[i].id = id}) = 1
                      /\ \A i \in DOMAIN prompt : IsOutput(prompt[i]) =>
                           \E j \in 1..(i - 1) :
                              /\ prompt[i].id \in CallIds(prompt[j])
                              /\ \A k \in (j + 1)..i : IsOutput(prompt[k])
    BY DEF PromptIsPaired
  <2>1. Pairs(prompt, {})
    BY DEF Inv, PromptOK
  <2>2. ASSUME NEW id \in CallsOf(prompt)
        PROVE  Cardinality({i \in DOMAIN prompt : IsOutput(prompt[i]) /\ prompt[i].id = id}) = 1
    <3> DEFINE S == {i \in DOMAIN prompt : IsOutput(prompt[i]) /\ prompt[i].id = id}
    <3>1. id \in OutputIds(prompt)
      BY <2>1 DEF Pairs
    <3>2. PICK i \in DOMAIN prompt : IsOutput(prompt[i]) /\ prompt[i].id = id
      BY <3>1 DEF OutputIds
    <3>3. S = {i}
      BY <2>1, <3>2 DEF Pairs, OutputsApart
    <3> HIDE DEF S
    <3>4. Cardinality(S) = 1
      BY <3>3, FS_Singleton
    <3> QED BY <3>4 DEF S
  <2>3. Owned(prompt)
    BY <2>1 DEF Pairs
  <2> QED BY <2>2, <2>3 DEF Owned
<1> QED BY <1>1, TurnInvariant, PTL

\* With a provider of chat items the model is shown each output whose call the
\* history still has; only the first prompt after a dream leaves the history out.
THEOREM OutputsShown == Spec => []OutputsReachTheModel
<1>1. Inv => OutputsReachTheModel
  BY DEF Inv, PromptOK, OutputsReachTheModel, ShowsHistory
<1> QED BY <1>1, TurnInvariant, PTL

\* A process that reads the log has the conversation and the results of the process
\* that wrote it, unless a payload was too long to be written whole.
THEOREM ReplaysAgree == Spec => []ReplayAgrees
<1>1. Inv => ReplayAgrees
  <2> SUFFICES ASSUME Inv, NothingCut
               PROVE  SameAs(Rehydrate(log), items)
    BY DEF ReplayAgrees, SameAs
  <2>1. SameAs(Replay(log), items) /\ log \in Seq(Events)
    BY DEF Inv, Recorded, NothingCut, Uncut
  <2>2. SameAs(Rehydrate(log), Replay(log))
    BY <2>1, RehydrateFacts
  <2> QED BY <2>1, <2>2 DEF SameAs
<1> QED BY <1>1, TurnInvariant, PTL

---------------------------------------------------------------------------
(* A worker's share of the conversation *)

\* What has been said is kept, outputs are not compared.
Said(h) == {x \in Elements(h) : x.kind \in {"user", "text"}}

\* No output in it lacks its call, and no call its outputs when another item comes.
Tidy(p) ==
    \A n \in DOMAIN p :
      IF IsOutput(p[n]) THEN p[n].id \in Own(p, n, CallKinds)
      ELSE Missing(p, n - 1, CallKinds) = {}
Settled(p) == p \in Seq(Items) /\ Tidy(p) /\ Missing(p, Len(p), CallKinds) = {}

\* An answer of a chat provider is one item.
ResponseOK(out, s) ==
    out \in Seq(Items) /\ NoOutputs(out) /\ (s = "chat" => Len(out) <= 1)

ForkTypes ==
    /\ Settled(prompt) /\ Settled(lastPrompt) /\ Settled(seen)
    /\ ResponseOK(lastOutput, style)
    /\ reading /\ fresh => seen = lastPrompt

\* The turn's own message is in the prompt, and in the history once it is committed.
OwnMessage ==
    /\ pc \in {"ask", "model", "backoff"} => User(turn) \in Elements(prompt)
    /\ pc = "tools" => User(turn) \in Elements(items)
    /\ pc \in {"model", "backoff"} => pending # "committed" /\ lastPrompt = prompt

\* What was said is in the prompt under way, and in the last one with its answer.
Heard ==
    ~diaries =>
      /\ pc \in {"ask", "model", "backoff"} => Said(items) \subseteq Elements(prompt)
      /\ lastPrompt # <<>> /\ ~compacted =>
           Said(items) \subseteq Elements(lastPrompt)
                                  \union IF sending THEN {} ELSE Elements(lastOutput)

ForkInv == Inv /\ ForkTypes /\ OwnMessage /\ Heard


---------------------------------------------------------------------------
(* Prompts that stay what they are *)

OwnEnd(p) == Own(p, Len(p), CallKinds)
Left(p) == Missing(p, Len(p), CallKinds)

\* What a position is the block of does not depend on the items behind it.
LEMMA OwnBefore ==
  ASSUME NEW a \in Seq(Items), NEW b \in Seq(Items), NEW n \in 0..Len(a), NEW K
  PROVE  Own(a \o b, n, K) = Own(a, n, K) /\ Missing(a \o b, n, K) = Missing(a, n, K)
<1> DEFINE c == a \o b
<1>1. \A i \in 1..n : c[i] = a[i]
  <2>1. \A i \in 1..Len(a) : c[i] = a[i]
    BY Parts
  <2>2. 1..n \subseteq 1..Len(a)
    BY LenProperties
  <2> QED BY <2>1, <2>2
<1> HIDE DEF c
<1>2. ASSUME NEW i \in 1..n
      PROVE  (\A k \in (i + 1)..n : IsOutput(c[k])) <=> (\A k \in (i + 1)..n : IsOutput(a[k]))
  <2>1. (i + 1)..n \subseteq 1..n
    BY LenProperties
  <2> QED BY <1>1, <2>1
<1>3. Block(c, n) = Block(a, n) /\ Block(a, n) \subseteq 1..n
  BY <1>2 DEF Block
<1>4. \A i \in Block(a, n) : c[i] = a[i]
  BY <1>1, <1>3
<1>5. Own(c, n, K) = Own(a, n, K)
  BY <1>3, <1>4 DEF Own
<1>6. {c[i].id : i \in {i \in Block(c, n) : IsOutput(c[i])}}
        = {a[i].id : i \in {i \in Block(a, n) : IsOutput(a[i])}}
  BY <1>3, <1>4
<1> QED BY <1>5, <1>6 DEF Missing, c

\* Outputs of the last item's calls may follow.
LEMMA TidyOutputs ==
  ASSUME NEW a \in Seq(Items), NEW b \in Seq(Items), Tidy(a), OnlyOutputs(b),
         OutputIds(b) \subseteq OwnEnd(a)
  PROVE  /\ Tidy(a \o b) /\ OwnEnd(a \o b) = OwnEnd(a)
         /\ Left(a \o b) = Left(a) \ OutputIds(b)
<1> DEFINE c == a \o b
<1>1. /\ c \in Seq(Items) /\ Len(a) \in Nat /\ Len(b) \in Nat
      /\ Len(c) = Len(a) + Len(b) /\ DOMAIN c = 1..(Len(a) + Len(b))
      /\ DOMAIN a = 1..Len(a) /\ DOMAIN b = 1..Len(b)
      /\ \A i \in 1..Len(a) : c[i] = a[i]
      /\ \A i \in 1..Len(b) : c[Len(a) + i] = b[i]
      /\ \A i \in 1..(Len(a) + Len(b)) : i \in 1..Len(a) \/ \E k \in 1..Len(b) : i = Len(a) + k
  BY Parts
<1>2. \A n \in 0..Len(a) : /\ Own(c, n, CallKinds) = Own(a, n, CallKinds)
                           /\ Missing(c, n, CallKinds) = Missing(a, n, CallKinds)
  BY OwnBefore
<1> HIDE DEF c
<1> DEFINE Ids(n) == {b[i].id : i \in 1..n}
           S == {n \in Nat : n <= Len(b) =>
                   /\ Own(c, Len(a) + n, CallKinds) = OwnEnd(a)
                   /\ Missing(c, Len(a) + n, CallKinds) = Left(a) \ Ids(n)}
<1>3. 0 \in S
  <2>1. Ids(0) = {} /\ Len(a) + 0 = Len(a) /\ Len(a) \in 0..Len(a)
    BY <1>1
  <2> HIDE DEF Ids
  <2> QED BY <1>2, <2>1 DEF OwnEnd, Left
<1>4. ASSUME NEW n \in 0..(Len(b) - 1), n \in S PROVE n + 1 \in S
  <2>1. /\ Len(a) + n \in Nat /\ (Len(a) + n) + 1 \in DOMAIN c /\ n <= Len(b)
        /\ (Len(a) + n) + 1 = Len(a) + (n + 1) /\ n + 1 \in 1..Len(b) /\ n + 1 \in Nat
    BY <1>1
  <2>2. c[(Len(a) + n) + 1] = b[n + 1] /\ IsOutput(b[n + 1])
    <3>1. c[Len(a) + (n + 1)] = b[n + 1]
      BY <1>1, <2>1
    <3>2. IsOutput(b[n + 1])
      BY <1>1, <2>1 DEF OnlyOutputs
    <3> QED BY <2>1, <3>1, <3>2
  <2>3. /\ Own(c, (Len(a) + n) + 1, CallKinds) = Own(c, Len(a) + n, CallKinds)
        /\ Missing(c, (Len(a) + n) + 1, CallKinds)
             = Missing(c, Len(a) + n, CallKinds) \ {b[n + 1].id}
    <3>1. /\ Own(c, (Len(a) + n) + 1, CallKinds) = Own(c, Len(a) + n, CallKinds)
          /\ Missing(c, (Len(a) + n) + 1, CallKinds)
               = Missing(c, Len(a) + n, CallKinds) \ {c[(Len(a) + n) + 1].id}
      <4> DEFINE m == Len(a) + n
      <4>1. c \in Seq(Items) /\ m \in Nat /\ m + 1 \in DOMAIN c /\ IsOutput(c[m + 1])
        BY <1>1, <2>1, <2>2
      <4> HIDE DEF m
      <4>2. CallKinds \in SUBSET CallKinds
        OBVIOUS
      <4>3. /\ Own(c, m + 1, CallKinds) = Own(c, m, CallKinds)
            /\ Missing(c, m + 1, CallKinds) = Missing(c, m, CallKinds) \ {c[m + 1].id}
        BY <4>1, <4>2, MissingStep
      <4> QED BY <4>3 DEF m
    <3> QED BY <2>2, <3>1
  <2>4. Ids(n + 1) = Ids(n) \union {b[n + 1].id}
    <3>1. 1..(n + 1) = (1..n) \union {n + 1}
      BY <2>1
    <3> QED BY <3>1
  <2> HIDE DEF Ids
  <2> QED BY <1>4, <2>1, <2>3, <2>4
<1> HIDE DEF S
<1>5. 0..Len(b) \subseteq S
  BY <1>1, <1>3, <1>4, Induction
<1>6. Ids(Len(b)) = OutputIds(b)
  BY <1>1 DEF OutputIds, OnlyOutputs
<1>7. OwnEnd(c) = OwnEnd(a) /\ Left(c) = Left(a) \ OutputIds(b)
  <2>1. Len(b) \in S
    BY <1>1, <1>5
  <2> HIDE DEF Ids
  <2> QED BY <1>1, <1>6, <2>1 DEF S, OwnEnd, Left
<1>8. Tidy(c)
  <2> SUFFICES ASSUME NEW i \in DOMAIN c
               PROVE  IF IsOutput(c[i]) THEN c[i].id \in Own(c, i, CallKinds)
                      ELSE Missing(c, i - 1, CallKinds) = {}
    BY DEF Tidy
  <2>1. CASE i \in 1..Len(a)
    <3>1. c[i] = a[i] /\ i \in DOMAIN a /\ i \in 0..Len(a) /\ i - 1 \in 0..Len(a)
      BY <1>1, <2>1
    <3> QED BY <1>2, <3>1 DEF Tidy
  <2>2. CASE i \notin 1..Len(a)
    <3>1. PICK k \in 1..Len(b) : i = Len(a) + k
      BY <1>1, <2>2
    <3>2. c[i] = b[k] /\ IsOutput(b[k]) /\ b[k].id \in OutputIds(b)
      BY <1>1, <3>1 DEF OnlyOutputs, OutputIds
    <3>3. Own(c, i, CallKinds) = OwnEnd(a)
      <4>1. k \in 0..Len(b) /\ k <= Len(b)
        BY <1>1
      <4>2. k \in S
        BY <1>5, <4>1
      <4> QED BY <3>1, <4>1, <4>2 DEF S
    <3> QED BY <3>2, <3>3
  <2> QED BY <2>1, <2>2
<1> QED BY <1>7, <1>8 DEF c

\* An item that is no output may follow what is complete.
LEMMA TidyItem ==
  ASSUME NEW a \in Seq(Items), NEW x \in Items, ~IsOutput(x), Tidy(a), Left(a) = {}
  PROVE  /\ a \o <<x>> \in Seq(Items) /\ Tidy(a \o <<x>>)
         /\ OwnEnd(a \o <<x>>) = CallIds(x) /\ Left(a \o <<x>>) = CallIds(x)
<1> DEFINE b == <<x>>
           c == a \o b
<1>1. b \in Seq(Items) /\ Len(b) = 1 /\ b[1] = x /\ 1 \in 1..Len(b)
  OBVIOUS
<1> HIDE DEF b
<1>2. /\ c \in Seq(Items) /\ Len(a) \in Nat /\ Len(c) = Len(a) + 1
      /\ DOMAIN c = 1..(Len(a) + 1) /\ DOMAIN a = 1..Len(a) /\ c[Len(a) + 1] = x
      /\ \A i \in 1..Len(a) : c[i] = a[i]
  <2>1. /\ c \in Seq(Items) /\ Len(a) \in Nat /\ Len(c) = Len(a) + Len(b)
        /\ DOMAIN c = 1..(Len(a) + Len(b)) /\ DOMAIN a = 1..Len(a)
        /\ \A i \in 1..Len(a) : c[i] = a[i]
        /\ \A i \in 1..Len(b) : c[Len(a) + i] = b[i]
    <3>1. a \in Seq(Items) /\ b \in Seq(Items)
      BY <1>1
    <3> QED BY ONLY <3>1, Parts
  <2> HIDE DEF c
  <2>2. c[Len(a) + 1] = x
    BY <1>1, <2>1
  <2> QED BY <1>1, <2>1, <2>2
<1>3. \A n \in 0..Len(a) : /\ Own(c, n, CallKinds) = Own(a, n, CallKinds)
                           /\ Missing(c, n, CallKinds) = Missing(a, n, CallKinds)
  BY <1>1, OwnBefore
<1> HIDE DEF c
<1>4. OwnEnd(c) = CallIds(x) /\ Left(c) = CallIds(x)
  <2>1. Len(a) + 1 \in DOMAIN c /\ ~IsOutput(c[Len(a) + 1])
    BY <1>2
  <2>2. /\ Own(c, Len(a) + 1, CallKinds)
             = IF c[Len(a) + 1].kind \in CallKinds THEN c[Len(a) + 1].ids ELSE {}
        /\ Missing(c, Len(a) + 1, CallKinds) = Own(c, Len(a) + 1, CallKinds)
    BY <1>2, <2>1, MissingStep
  <2> QED BY <1>2, <2>2 DEF OwnEnd, Left, CallIds
<1>5. Tidy(c)
  <2> SUFFICES ASSUME NEW i \in DOMAIN c
               PROVE  IF IsOutput(c[i]) THEN c[i].id \in Own(c, i, CallKinds)
                      ELSE Missing(c, i - 1, CallKinds) = {}
    BY DEF Tidy
  <2>1. CASE i \in 1..Len(a)
    <3>1. c[i] = a[i] /\ i \in DOMAIN a /\ i \in 0..Len(a) /\ i - 1 \in 0..Len(a)
      BY <1>2, <2>1
    <3> QED BY <1>3, <3>1 DEF Tidy
  <2>2. CASE i = Len(a) + 1
    <3>1. i - 1 = Len(a) /\ Len(a) \in 0..Len(a)
      BY <1>2, <2>2
    <3>2. Missing(c, i - 1, CallKinds) = {}
      BY <1>3, <3>1 DEF Left
    <3> QED BY <1>2, <2>2, <3>2
  <2> QED BY <1>2, <2>1, <2>2
<1> QED BY <1>2, <1>4, <1>5 DEF c, b

LEMMA NoneInterrupted == Interrupted({}) = <<>>
<1>1. /\ Interrupted({}) \in Seq(Items) /\ OnlyOutputs(Interrupted({}))
      /\ OutputIds(Interrupted({})) = {}
  BY InterruptedFacts
<1> DEFINE r == Interrupted({})
<1> HIDE DEF r
<1>2. Len(r) = 0
  <2> SUFFICES ASSUME Len(r) # 0 PROVE FALSE
    OBVIOUS
  <2>1. 1 \in DOMAIN r
    BY <1>1 DEF r
  <2> QED BY <1>1, <2>1 DEF OnlyOutputs, OutputIds, r
<1> QED BY <1>1, <1>2, EmptySeq DEF r

\* What for_prompt shows of a history that begins with what needs no repair.
LEMMA TidyShown ==
  ASSUME NEW a \in Seq(Items), NEW b \in Seq(Items), Tidy(a), NEW n \in 1..Len(a)
  PROVE  Shown(a \o b, n) = <<(a \o b)[n]>>
<1> DEFINE c == a \o b
<1>1. c[n] = a[n] /\ n \in DOMAIN a /\ n \in 0..Len(a) /\ n - 1 \in 0..Len(a)
  <2>1. \A i \in 1..Len(a) : c[i] = a[i]
    BY Parts
  <2>2. n \in DOMAIN a /\ n \in 0..Len(a) /\ n - 1 \in 0..Len(a)
    BY LenProperties
  <2> QED BY <2>1, <2>2
<1>2. /\ Own(c, n, CallKinds) = Own(a, n, CallKinds)
      /\ Missing(c, n - 1, CallKinds) = Missing(a, n - 1, CallKinds)
  BY <1>1, OwnBefore
<1>3. <<c[n]>> \in Seq(Items)
  BY <1>1
<1> HIDE DEF c
<1>4. CASE IsOutput(c[n])
  <2>1. c[n].id \in Own(c, n, CallKinds)
    BY <1>1, <1>2, <1>4 DEF Tidy
  <2> QED BY <1>4, <2>1 DEF Shown, c
<1>5. CASE ~IsOutput(c[n])
  <2>1. Missing(c, n - 1, CallKinds) = {}
    BY <1>1, <1>2, <1>5 DEF Tidy
  <2>2. Shown(c, n) = <<>> \o <<c[n]>>
    BY <1>5, <2>1, NoneInterrupted DEF Shown
  <2>3. <<>> \o <<c[n]>> = <<c[n]>>
    BY <1>3, ConcatEmptySeq
  <2> QED BY <2>2, <2>3 DEF c
<1> QED BY <1>4, <1>5

\* g begins with the first k items of h.
Begins(g, h, k) == Len(g) >= k /\ \A i \in 1..k : g[i] = h[i]

\* The items that are shown as they are come first.
LEMMA ShownBeginning ==
  ASSUME NEW h \in Seq(Items), NEW m \in 0..Len(h),
         \A n \in 1..m : Shown(h, n) = <<h[n]>>,
         NEW f, JoinedSteps(Items, ShownParts(h), Len(h), AllShown(h), f)
  PROVE  /\ Begins(AllShown(h), h, m)
         /\ m = Len(h) => Len(AllShown(h)) = m
<1>1. Len(h) \in Nat /\ m \in Nat /\ m <= Len(h)
  OBVIOUS
<1> DEFINE S == {n \in Nat : /\ n <= m => Len(f[n]) = n /\ Begins(f[n], h, n)
                             /\ n > m => Begins(f[n], h, m)}
<1>2. 0 \in S
  <2>1. f[0] = <<>> /\ Len(<<>>) = 0
    BY DEF JoinedSteps
  <2> QED BY <1>1, <2>1 DEF Begins
<1>3. ASSUME NEW n \in 0..(Len(h) - 1), n \in S PROVE n + 1 \in S
  <2>1. n + 1 \in Nat /\ n \in Nat /\ n + 1 \in 1..Len(h)
    BY <1>1
  <2> DEFINE b == Shown(h, n + 1)
             g == f[n]
  <2>2. g \in Seq(Items) /\ f[n + 1] = g \o b
    BY ShownStep
  <2>3. b \in Seq(Items)
    BY <2>1, ShownType
  <2>4. n <= m => Len(g) = n /\ Begins(g, h, n)
    BY <1>3
  <2>5. n > m => Begins(g, h, m)
    BY <1>3
  <2>6. n + 1 <= m => b = <<h[n + 1]>>
    <3>1. n + 1 <= m => n + 1 \in 1..m
      BY <2>1
    <3> QED BY <3>1
  <2> HIDE DEF b, g
  <2> DEFINE c == g \o b
  <2>7. /\ Len(g) \in Nat /\ Len(b) \in Nat /\ Len(c) = Len(g) + Len(b)
        /\ \A i \in 1..Len(g) : c[i] = g[i]
        /\ \A i \in 1..Len(b) : c[Len(g) + i] = b[i]
    <3>1. g \in Seq(Items) /\ b \in Seq(Items)
      BY <2>2, <2>3
    <3> QED BY ONLY <3>1, Parts
  <2>8. f[n + 1] = c
    BY <2>2 DEF c
  <2> HIDE DEF c
  <2>9. CASE n + 1 <= m
    <3>1. Len(b) = 1 /\ b[1] = h[n + 1]
      BY <2>6, <2>9
    <3>2. Len(g) = n /\ \A i \in 1..n : g[i] = h[i]
      BY <1>1, <2>1, <2>4, <2>9 DEF Begins
    <3>3. Len(c) = n + 1 /\ c[n + 1] = h[n + 1]
      BY <2>1, <2>7, <3>1, <3>2
    <3>4. \A i \in 1..n : c[i] = h[i]
      BY <2>7, <3>2
    <3>5. \A i \in 1..(n + 1) : c[i] = h[i]
      <4>1. \A i \in 1..(n + 1) : i \in 1..n \/ i = n + 1
        BY <2>1
      <4> QED BY <3>3, <3>4, <4>1
    <3>6. Begins(c, h, n + 1)
      BY <2>1, <3>3, <3>5 DEF Begins
    <3> QED BY <1>1, <2>1, <2>8, <2>9, <3>3, <3>6
  <2>10. CASE n + 1 > m
    <3>1. Begins(g, h, m)
      <4>1. n = m \/ n > m
        BY <1>1, <2>1, <2>10
      <4> QED BY <1>1, <2>4, <2>5, <4>1
    <3>2. 1..m \subseteq 1..Len(g)
      BY <1>1, <2>7, <3>1 DEF Begins
    <3>3. Begins(c, h, m)
      BY <1>1, <2>7, <3>1, <3>2 DEF Begins
    <3> QED BY <1>1, <2>1, <2>8, <2>10, <3>3
  <2> QED BY <1>1, <2>1, <2>9, <2>10
<1> HIDE DEF S
<1>4. 0..Len(h) \subseteq S
  BY <1>1, <1>2, <1>3, Induction
<1>5. Len(h) \in S
  BY <1>1, <1>4
<1>6. f[Len(h)] = AllShown(h)
  BY DEF JoinedSteps
<1> QED BY <1>1, <1>5, <1>6 DEF S

\* What needs no repair is what the model is shown.
LEMMA SettledStays ==
  ASSUME NEW p, Settled(p)
  PROVE  NormalizeForPrompt(p) = p
<1>1. p \in Seq(Items) /\ Tidy(p) /\ Missing(p, Len(p), CallKinds) = {}
  BY DEF Settled
<1>2. p \o <<>> = p /\ <<>> \in Seq(Items)
  BY <1>1, ConcatEmptySeq
<1>3. \A n \in 1..Len(p) : Shown(p, n) = <<p[n]>>
  <2> TAKE n \in 1..Len(p)
  <2>1. Shown(p \o <<>>, n) = <<(p \o <<>>)[n]>>
    BY <1>1, <1>2, TidyShown
  <2> QED BY <1>2, <2>1
<1>4. PICK f : JoinedSteps(Items, ShownParts(p), Len(p), AllShown(p), f)
  BY <1>1, ShownSteps
<1> DEFINE g == AllShown(p)
<1>5. Begins(g, p, Len(p)) /\ Len(g) = Len(p) /\ g \in Seq(Items)
  <2>1. Len(p) \in 0..Len(p)
    BY <1>1
  <2>2. g \in Seq(Items)
    BY <1>4, <2>1 DEF JoinedSteps
  <2> QED BY <1>1, <1>3, <1>4, <2>1, <2>2, ShownBeginning
<1>6. NormalizeForPrompt(p) = g \o <<>>
  BY <1>1, NoneInterrupted DEF NormalizeForPrompt
<1> HIDE DEF g
<1>7. g = p
  BY <1>1, <1>5, SeqEqual DEF Begins
<1> QED BY <1>2, <1>6, <1>7

\* What is behind what needs no repair does not change how that is shown.
LEMMA SettledBegins ==
  ASSUME NEW a, NEW b \in Seq(Items), Settled(a)
  PROVE  IsPrefix(a, NormalizeForPrompt(a \o b))
<1>1. a \in Seq(Items) /\ Tidy(a) /\ Len(a) \in Nat
  BY DEF Settled
<1> DEFINE c == a \o b
<1>2. /\ c \in Seq(Items) /\ Len(a) \in 0..Len(c) /\ \A i \in 1..Len(a) : c[i] = a[i]
  <2>1. /\ c \in Seq(Items) /\ Len(b) \in Nat /\ Len(c) = Len(a) + Len(b)
        /\ \A i \in 1..Len(a) : c[i] = a[i]
    BY <1>1, Parts
  <2> HIDE DEF c
  <2> QED BY <1>1, <2>1
<1>3. \A n \in 1..Len(a) : Shown(c, n) = <<c[n]>>
  BY <1>1, TidyShown
<1> HIDE DEF c
<1>4. PICK f : JoinedSteps(Items, ShownParts(c), Len(c), AllShown(c), f)
  BY <1>2, ShownSteps
<1> DEFINE g == AllShown(c)
           r == Interrupted(Missing(c, Len(c), CallKinds))
           t == g \o r
<1>5. g \in Seq(Items) /\ Begins(g, c, Len(a))
  <2>1. Len(c) \in 0..Len(c)
    BY <1>2
  <2>2. g \in Seq(Items)
    BY <1>4, <2>1 DEF JoinedSteps
  <2> QED BY <1>2, <1>3, <1>4, <2>2, ShownBeginning
<1>6. r \in Seq(Items)
  <2>1. Missing(c, Len(c), CallKinds) \subseteq 1..MaxCalls
    <3>1. Len(c) \in 0..Len(c)
      BY <1>2
    <3> QED BY <1>2, <3>1, OwnType
  <2> QED BY <2>1, InterruptedFacts
<1>7. NormalizeForPrompt(c) = t
  BY DEF NormalizeForPrompt
<1> HIDE DEF g, r
<1>8. /\ t \in Seq(Items) /\ Len(g) \in Nat /\ Len(r) \in Nat /\ Len(t) = Len(g) + Len(r)
      /\ \A i \in 1..Len(g) : t[i] = g[i]
  BY <1>5, <1>6, Parts
<1> HIDE DEF t
<1>9. Len(a) <= Len(t) /\ \A i \in 1..Len(a) : t[i] = a[i]
  BY <1>1, <1>2, <1>5, <1>8 DEF Begins
<1>10. SubSeq(a, 1, Len(a)) = SubSeq(t, 1, Len(a))
  BY <1>1, <1>8, <1>9
<1>11. IsPrefix(a, t)
  BY <1>9, <1>10 DEF IsPrefix
<1> QED BY <1>7, <1>11 DEF c

\* What is compiled needs no repair, and lacks nothing but outputs.
LEMMA NormalSettled ==
  ASSUME NEW h \in Seq(Items)
  PROVE  Settled(NormalizeForPrompt(h))
<1>1. Len(h) \in Nat /\ DOMAIN h = 1..Len(h)
  OBVIOUS
<1>2. PICK f : JoinedSteps(Items, ShownParts(h), Len(h), AllShown(h), f)
  BY ShownSteps
<1> DEFINE S == {n \in Nat : /\ Tidy(f[n]) /\ OwnEnd(f[n]) = Own(h, n, CallKinds)
                             /\ Left(f[n]) = Missing(h, n, CallKinds)}
<1>3. 0 \in S
  <2>1. f[0] = <<>> /\ DOMAIN f[0] = {} /\ Len(f[0]) = 0
    BY <1>2 DEF JoinedSteps
  <2>2. Own(h, 0, CallKinds) = {} /\ Missing(h, 0, CallKinds) = {}
    BY MissingEmpty
  <2>3. Own(f[0], 0, CallKinds) = {} /\ Missing(f[0], 0, CallKinds) = {}
    BY MissingEmpty
  <2>4. Tidy(f[0])
    BY <2>1 DEF Tidy
  <2> QED BY <2>1, <2>2, <2>3, <2>4 DEF OwnEnd, Left
<1>4. ASSUME NEW n \in 0..(Len(h) - 1), n \in S PROVE n + 1 \in S
  <2> DEFINE x == h[n + 1]
             M == Missing(h, n, CallKinds)
             O == Own(h, n, CallKinds)
             g == f[n]
  <2>1. /\ n + 1 \in DOMAIN h /\ n \in Nat /\ n \in 0..Len(h) /\ x \in Items
        /\ n + 1 - 1 = n /\ n + 1 \in Nat
    BY <1>1
  <2>2. g \in Seq(Items) /\ f[n + 1] = g \o Shown(h, n + 1)
    BY <1>2, ShownStep
  <2>3. Tidy(g) /\ OwnEnd(g) = O /\ Left(g) = M
    BY <1>4
  <2>4. M \subseteq O /\ O \subseteq 1..MaxCalls
    BY <2>1, OwnType
  <2> DEFINE Goal(p) == /\ Tidy(p) /\ OwnEnd(p) = Own(h, n + 1, CallKinds)
                        /\ Left(p) = Missing(h, n + 1, CallKinds)
  <2>5. SUFFICES Goal(f[n + 1])
    BY <2>1
  <2> HIDE DEF S, g
  <2>6. CASE IsOutput(x)
    <3>1. /\ Own(h, n + 1, CallKinds) = O
          /\ Missing(h, n + 1, CallKinds) = M \ {x.id}
      BY <2>1, <2>6, MissingStep
    <3>2. CASE x.id \in O
      <4> DEFINE b == <<x>>
      <4>1. f[n + 1] = g \o b
        BY <2>2, <2>6, <3>1, <3>2 DEF Shown
      <4>2. b \in Seq(Items) /\ DOMAIN b = {1} /\ b[1] = x
        BY <2>1
      <4> HIDE DEF b
      <4>3. OnlyOutputs(b) /\ OutputIds(b) = {x.id}
        BY <2>6, <4>2 DEF OnlyOutputs, OutputIds
      <4>4. /\ Tidy(g \o b) /\ OwnEnd(g \o b) = OwnEnd(g)
            /\ Left(g \o b) = Left(g) \ OutputIds(b)
        BY <2>2, <2>3, <3>2, <4>2, <4>3, TidyOutputs
      <4> HIDE DEF x, M, O
      <4> QED BY <2>3, <3>1, <4>1, <4>3, <4>4
    <3>3. CASE x.id \notin O
      <4>1. f[n + 1] = g
        <5>1. Shown(h, n + 1) = <<>>
          BY <2>6, <3>1, <3>3 DEF Shown
        <5> QED BY <2>2, <5>1, ConcatEmptySeq
      <4>2. M \ {x.id} = M
        BY <2>4, <3>3
      <4> QED BY <2>3, <3>1, <4>1, <4>2
    <3> QED BY <3>2, <3>3
  <2>7. CASE ~IsOutput(x)
    <3>1. Own(h, n + 1, CallKinds) = CallIds(x) /\ Missing(h, n + 1, CallKinds) = CallIds(x)
      <4>1. /\ Own(h, n + 1, CallKinds) = IF x.kind \in CallKinds THEN x.ids ELSE {}
            /\ Missing(h, n + 1, CallKinds) = Own(h, n + 1, CallKinds)
        BY <2>1, <2>7, MissingStep
      <4> QED BY <4>1 DEF CallIds
    <3> DEFINE r == Interrupted(M)
               a == g \o r
    <3>2. r \in Seq(Items) /\ OnlyOutputs(r) /\ OutputIds(r) = M
      BY <2>4, InterruptedFacts
    <3>3. f[n + 1] = a \o <<x>>
      <4>1. Shown(h, n + 1) = r \o <<x>>
        BY <2>1, <2>7 DEF Shown
      <4>2. <<x>> \in Seq(Items)
        BY <2>1
      <4>3. Associates(g, r, <<x>>)
        BY <2>2, <3>2, <4>2, JoinAssociates
      <4> QED BY <2>2, <4>1, <4>3 DEF Associates
    <3> HIDE DEF r
    <3>4. a \in Seq(Items)
      BY <2>2, <3>2, ConcatProperties
    <3>5. Tidy(a) /\ Left(a) = {}
      <4>1. Tidy(a) /\ Left(a) = Left(g) \ OutputIds(r)
        BY <2>2, <2>3, <2>4, <3>2, TidyOutputs
      <4> QED BY <2>3, <3>2, <4>1
    <3> HIDE DEF a
    <3>6. /\ Tidy(a \o <<x>>) /\ OwnEnd(a \o <<x>>) = CallIds(x)
          /\ Left(a \o <<x>>) = CallIds(x)
      BY <2>1, <2>7, <3>4, <3>5, TidyItem
    <3> QED BY <3>1, <3>3, <3>6
  <2> QED BY <2>6, <2>7
<1> HIDE DEF S
<1>5. 0..Len(h) \subseteq S
  BY <1>1, <1>3, <1>4, Induction
<1> DEFINE M == Missing(h, Len(h), CallKinds)
           g == AllShown(h)
           r == Interrupted(M)
<1>6. g \in Seq(Items) /\ Tidy(g) /\ OwnEnd(g) = Own(h, Len(h), CallKinds) /\ Left(g) = M
  <2>1. Len(h) \in S /\ Len(h) \in 0..Len(h)
    BY <1>1, <1>5
  <2>2. f[Len(h)] = g /\ f[Len(h)] \in Seq(Items)
    BY <1>2, <2>1 DEF JoinedSteps
  <2> QED BY <2>1, <2>2 DEF S
<1>7. M \subseteq Own(h, Len(h), CallKinds) /\ M \subseteq 1..MaxCalls
  BY <1>1, OwnType
<1>8. r \in Seq(Items) /\ OnlyOutputs(r) /\ OutputIds(r) = M
  BY <1>7, InterruptedFacts
<1>9. NormalizeForPrompt(h) = g \o r
  BY DEF NormalizeForPrompt
<1> HIDE DEF M, g, r
<1>10. Tidy(g \o r) /\ Left(g \o r) = {}
  <2>1. OutputIds(r) \subseteq OwnEnd(g)
    BY <1>6, <1>7, <1>8
  <2>2. Tidy(g \o r) /\ Left(g \o r) = Left(g) \ OutputIds(r)
    BY <1>6, <1>8, <2>1, TidyOutputs
  <2> QED BY <1>6, <1>8, <2>2
<1>11. g \o r \in Seq(Items)
  BY <1>6, <1>8, ConcatProperties
<1> QED BY <1>9, <1>10, <1>11 DEF Settled, Left

\* The elements of two sequences joined.
LEMMA ElementsOfBoth ==
  ASSUME NEW T, NEW a \in Seq(T), NEW b \in Seq(T)
  PROVE  Elements(a \o b) = Elements(a) \union Elements(b)
<1> DEFINE c == a \o b
<1>1. /\ Len(a) \in Nat /\ Len(b) \in Nat /\ DOMAIN c = 1..(Len(a) + Len(b))
      /\ DOMAIN a = 1..Len(a) /\ DOMAIN b = 1..Len(b)
      /\ \A k \in 1..Len(a) : c[k] = a[k]
      /\ \A k \in 1..Len(b) : c[Len(a) + k] = b[k]
      /\ \A i \in 1..(Len(a) + Len(b)) : i \in 1..Len(a) \/ \E k \in 1..Len(b) : i = Len(a) + k
  BY Parts
<1> HIDE DEF c
<1>2. ASSUME NEW k \in 1..Len(a) PROVE a[k] \in Elements(c)
  <2>1. k \in DOMAIN c /\ c[k] = a[k]
    BY <1>1
  <2> QED BY <2>1 DEF Elements
<1>3. ASSUME NEW k \in 1..Len(b) PROVE b[k] \in Elements(c)
  <2>1. Len(a) + k \in DOMAIN c /\ c[Len(a) + k] = b[k]
    BY <1>1
  <2> QED BY <2>1 DEF Elements
<1>4. ASSUME NEW i \in DOMAIN c PROVE c[i] \in Elements(a) \union Elements(b)
  <2>1. CASE i \in 1..Len(a)
    BY <1>1, <2>1 DEF Elements
  <2>2. CASE \E k \in 1..Len(b) : i = Len(a) + k
    <3>1. PICK k \in 1..Len(b) : i = Len(a) + k
      BY <2>2
    <3> QED BY <1>1, <3>1 DEF Elements
  <2> QED BY <1>1, <2>1, <2>2
<1> QED BY <1>1, <1>2, <1>3, <1>4 DEF Elements, c

\* A part's elements are those of the whole.
LEMMA JoinedHas ==
  ASSUME NEW T, NEW N \in Nat, NEW q, \A n \in 1..N : q[n] \in Seq(T),
         NEW whole, NEW f, JoinedSteps(T, q, N, whole, f),
         NEW i \in 1..N, NEW x \in Elements(q[i])
  PROVE  x \in Elements(whole)
<1> DEFINE S == {n \in Nat : n >= i => x \in Elements(f[n])}
<1>1. 0 \in S
  OBVIOUS
<1>2. ASSUME NEW n \in 0..(N - 1), n \in S PROVE n + 1 \in S
  <2> DEFINE a == f[n]
             b == q[n + 1]
             c == a \o b
  <2>1. /\ n + 1 \in 1..N /\ n \in 0..N /\ n + 1 - 1 = n /\ n + 1 \in Nat /\ n \in Nat
    OBVIOUS
  <2>2. a \in Seq(T) /\ b \in Seq(T) /\ f[n + 1] = c
    <3>1. IsJoin(f[n + 1], f[n + 1 - 1], q[n + 1]) /\ f[n] \in Seq(T)
      BY <2>1 DEF JoinedSteps
    <3> QED BY <2>1, <3>1 DEF IsJoin
  <2>3. n + 1 >= i => x \in Elements(a) \/ x \in Elements(b)
    <3>1. n + 1 >= i => n >= i \/ n + 1 = i
      BY <2>1
    <3> QED BY <1>2, <3>1
  <2> HIDE DEF a, b, c
  <2>4. Elements(a) \subseteq Elements(c) /\ Elements(b) \subseteq Elements(c)
    BY <2>2, ElementsOfBoth DEF c
  <2> QED BY <2>1, <2>2, <2>3, <2>4
<1> HIDE DEF S
<1>3. 0..N \subseteq S
  BY <1>1, <1>2, Induction
<1>4. N \in S /\ N >= i
  BY <1>3
<1>5. f[N] = whole
  BY DEF JoinedSteps
<1> QED BY <1>4, <1>5 DEF S

\* What is no output is shown.
LEMMA KeepsItems ==
  ASSUME NEW h \in Seq(Items), NEW i \in 1..Len(h), ~IsOutput(h[i])
  PROVE  h[i] \in Elements(NormalizeForPrompt(h))
<1>1. PICK f : JoinedSteps(Items, ShownParts(h), Len(h), AllShown(h), f)
  BY ShownSteps
<1>2. /\ \A n \in 1..Len(h) : ShownParts(h)[n] \in Seq(Items)
      /\ Len(h) \in Nat /\ i - 1 \in 0..Len(h) /\ Len(h) \in 0..Len(h)
      /\ h[i] \in Items
  BY ShownType DEF ShownParts
<1> DEFINE r == Interrupted(Missing(h, i - 1, CallKinds))
           t == Interrupted(Missing(h, Len(h), CallKinds))
           g == AllShown(h)
           x == h[i]
<1>3. r \in Seq(Items) /\ t \in Seq(Items)
  <2>1. Missing(h, i - 1, CallKinds) \in SUBSET (1..MaxCalls)
    BY <1>2, OwnType
  <2>2. Missing(h, Len(h), CallKinds) \in SUBSET (1..MaxCalls)
    BY <1>2, OwnType
  <2> QED BY <2>1, <2>2, InterruptedFacts
<1>4. Shown(h, i) = r \o <<x>> /\ ShownParts(h)[i] = Shown(h, i)
  BY DEF Shown, ShownParts
<1>5. NormalizeForPrompt(h) = g \o t
  BY DEF NormalizeForPrompt
<1>6. g \in Seq(Items)
  BY <1>1, <1>2 DEF JoinedSteps
<1>7. <<x>> \in Seq(Items) /\ x \in Elements(<<x>>)
  BY <1>2 DEF Elements
<1> HIDE DEF r, t, g, x
<1>8. x \in Elements(r \o <<x>>)
  <2> DEFINE b == <<x>>
  <2> HIDE DEF b
  <2>1. b \in Seq(Items) /\ x \in Elements(b)
    BY <1>7 DEF b
  <2>2. Elements(r \o b) = Elements(r) \union Elements(b)
    BY ONLY <1>3, <2>1, ElementsOfBoth
  <2> QED BY <2>1, <2>2 DEF b
<1>9. x \in Elements(g)
  <2>1. x \in Elements(ShownParts(h)[i])
    BY <1>4, <1>8
  <2>2. JoinedSteps(Items, ShownParts(h), Len(h), g, f)
    BY <1>1 DEF g
  <2> QED BY <1>2, <2>1, <2>2, JoinedHas
<1>10. x \in Elements(g \o t)
  BY <1>3, <1>6, <1>9, ElementsOfBoth
<1> QED BY <1>5, <1>10 DEF x

---------------------------------------------------------------------------
(* What the fork is made of *)

CompletedParts(h) == [n \in 1..Len(h) |-> Completed(h, n)]

\* The history with what is complete in it.
LEMMA CompletedType ==
  ASSUME NEW h \in Seq(Items), NEW n \in 1..Len(h)
  PROVE  Completed(h, n) \in Seq(Items)
<1>1. OutputsAfter(h, n) \in Seq(Items)
  BY SubType DEF OutputsAfter
<1>2. <<h[n]>> \in Seq(Items) /\ <<>> \in Seq(Items)
  OBVIOUS
<1>3. <<h[n]>> \o OutputsAfter(h, n) \in Seq(Items)
  BY <1>1, <1>2, ConcatProperties
<1> DEFINE full == <<h[n]>> \o OutputsAfter(h, n)
<1>4. Completed(h, n) \in {<<>>, <<h[n]>>, full}
  BY DEF Completed
<1> HIDE DEF full
<1>5. full \in Seq(Items)
  BY <1>3 DEF full
<1> QED BY <1>2, <1>4, <1>5

LEMMA CompletedSteps ==
  ASSUME NEW h \in Seq(Items)
  PROVE  \E f : JoinedSteps(Items, CompletedParts(h), Len(h), CompletePromptHistory(h), f)
<1>1. Len(h) \in Nat
  OBVIOUS
<1> DEFINE q == CompletedParts(h)
           Solves(g) == g = [k \in 0..Len(h) |-> IF k = 0 THEN <<>>
                                                 ELSE g[k - 1] \o Completed(h, k)]
           f == CHOOSE g : Solves(g)
<1>2. \A n \in 1..Len(h) : q[n] \in Seq(Items)
  BY CompletedType DEF CompletedParts
<1>3. \A g : Joins(q, Len(h), g) <=> Solves(g)
  <2> TAKE g
  <2>1. ASSUME NEW k \in 0..Len(h)
        PROVE  (IF k = 0 THEN <<>> ELSE g[k - 1] \o q[k])
                 = (IF k = 0 THEN <<>> ELSE g[k - 1] \o Completed(h, k))
    <3>1. CASE k = 0
      BY <3>1
    <3>2. CASE k # 0
      <4>1. k \in 1..Len(h)
        BY <1>1, <3>2
      <4>2. q[k] = Completed(h, k)
        BY <4>1 DEF CompletedParts
      <4> HIDE DEF q
      <4> QED BY <3>2, <4>2
    <3> QED BY <3>1, <3>2
  <2> HIDE DEF q
  <2>2. [k \in 0..Len(h) |-> IF k = 0 THEN <<>> ELSE g[k - 1] \o q[k]]
          = [k \in 0..Len(h) |-> IF k = 0 THEN <<>> ELSE g[k - 1] \o Completed(h, k)]
    BY <2>1
  <2> QED BY <2>2 DEF Joins
<1>4. CompletePromptHistory(h) = f[Len(h)]
  BY DEF CompletePromptHistory, Joined
<1> HIDE DEF q, Solves
<1>5. \E g : Solves(g)
  BY <1>1, <1>3, JoinsExist
<1>6. Solves(f)
  BY <1>5
<1> HIDE DEF f
<1>7. JoinedSteps(Items, q, Len(h), f[Len(h)], f)
  BY <1>1, <1>2, <1>3, <1>6, JoinsSteps
<1> QED BY <1>4, <1>7 DEF q

LEMMA CompletedHistory ==
  ASSUME NEW h \in Seq(Items)
  PROVE  /\ CompletePromptHistory(h) \in Seq(Items)
         /\ Said(h) \subseteq Elements(CompletePromptHistory(h))
<1> DEFINE g == CompletePromptHistory(h)
<1>1. PICK f : JoinedSteps(Items, CompletedParts(h), Len(h), g, f)
  BY CompletedSteps
<1> HIDE DEF g
<1>2. /\ \A n \in 1..Len(h) : CompletedParts(h)[n] \in Seq(Items)
      /\ Len(h) \in Nat /\ DOMAIN h = 1..Len(h) /\ Len(h) \in 0..Len(h)
  BY CompletedType DEF CompletedParts
<1>3. g \in Seq(Items)
  BY <1>1, <1>2 DEF JoinedSteps
<1>4. ASSUME NEW x \in Said(h) PROVE x \in Elements(g)
  <2>1. PICK i \in 1..Len(h) : x = h[i] /\ h[i].kind \in {"user", "text"}
    BY <1>2 DEF Said, Elements
  <2>2. Completed(h, i) = <<h[i]>>
    BY <2>1 DEF Completed, OutputKinds, CallIds, CallKinds
  <2>3. x \in Elements(CompletedParts(h)[i])
    BY <2>1, <2>2 DEF CompletedParts, Elements
  <2> QED BY <1>1, <1>2, <2>3, JoinedHas
<1> QED BY <1>3, <1>4 DEF g

PlaceholderParts(out) == [n \in 1..Len(out) |-> Outputs(CallIds(out[n]), "placeholder")]

LEMMA PlaceholderType ==
  ASSUME NEW out \in Seq(Items), NEW n \in 1..Len(out)
  PROVE  Outputs(CallIds(out[n]), "placeholder") \in Seq(Items)
<1>1. CallIds(out[n]) \in SUBSET (1..MaxCalls)
  BY ItemFields
<1> QED BY <1>1, OutputsFacts

LEMMA PlaceholderSteps ==
  ASSUME NEW h \in Seq(Items)
  PROVE  \E f : JoinedSteps(Items, PlaceholderParts(h), Len(h), PlaceholderToolOutputs(h), f)
<1>1. Len(h) \in Nat
  OBVIOUS
<1> DEFINE P(k) == Outputs(CallIds(h[k]), "placeholder")
           q == PlaceholderParts(h)
           Solves(g) == g = [k \in 0..Len(h) |-> IF k = 0 THEN <<>>
                               ELSE g[k - 1] \o Outputs(CallIds(h[k]), "placeholder")]
           f == CHOOSE g : Solves(g)
<1>2. \A n \in 1..Len(h) : q[n] \in Seq(Items)
  BY PlaceholderType DEF PlaceholderParts
<1>3. \A g : Joins(q, Len(h), g) <=> Solves(g)
  <2> TAKE g
  <2>1. ASSUME NEW k \in 0..Len(h)
        PROVE  (IF k = 0 THEN <<>> ELSE g[k - 1] \o q[k])
                 = (IF k = 0 THEN <<>> ELSE g[k - 1] \o P(k))
    <3>1. CASE k = 0
      BY <3>1
    <3>2. CASE k # 0
      <4>1. k \in 1..Len(h)
        BY <1>1, <3>2
      <4>2. q[k] = P(k)
        BY <4>1 DEF PlaceholderParts
      <4> HIDE DEF q, P
      <4> QED BY <3>2, <4>2
    <3> QED BY <3>1, <3>2
  <2> HIDE DEF q, P
  <2>2. [k \in 0..Len(h) |-> IF k = 0 THEN <<>> ELSE g[k - 1] \o q[k]]
          = [k \in 0..Len(h) |-> IF k = 0 THEN <<>> ELSE g[k - 1] \o P(k)]
    BY <2>1
  <2> QED BY <2>2 DEF Joins, P
<1>4. PlaceholderToolOutputs(h) = f[Len(h)]
  BY DEF PlaceholderToolOutputs, Joined
<1> HIDE DEF q, Solves
<1>5. \E g : Solves(g)
  BY <1>1, <1>3, JoinsExist
<1>6. Solves(f)
  BY <1>5
<1> HIDE DEF f
<1>7. JoinedSteps(Items, q, Len(h), f[Len(h)], f)
  BY <1>1, <1>2, <1>3, <1>6, JoinsSteps
<1> QED BY <1>4, <1>7 DEF q

LEMMA PlaceholderFacts ==
  ASSUME NEW out \in Seq(Items)
  PROVE  /\ PlaceholderToolOutputs(out) \in Seq(Items)
         /\ Len(out) = 0 => PlaceholderToolOutputs(out) = <<>>
         /\ Len(out) = 1 => PlaceholderToolOutputs(out) = Outputs(CallIds(out[1]), "placeholder")
<1> DEFINE g == PlaceholderToolOutputs(out)
           b == Outputs(CallIds(out[1]), "placeholder")
<1>1. PICK f : JoinedSteps(Items, PlaceholderParts(out), Len(out), g, f)
  BY PlaceholderSteps
<1> HIDE DEF g
<1>2. Len(out) \in Nat /\ Len(out) \in 0..Len(out)
  OBVIOUS
<1>3. g \in Seq(Items) /\ g = f[Len(out)] /\ f[0] = <<>>
  BY <1>1, <1>2 DEF JoinedSteps
<1>4. ASSUME Len(out) = 1 PROVE g = b
  <2>1. 1 \in 1..Len(out) /\ 1 - 1 = 0
    BY <1>4
  <2>2. b \in Seq(Items) /\ PlaceholderParts(out)[1] = b
    BY <2>1, PlaceholderType DEF PlaceholderParts
  <2> HIDE DEF b
  <2>3. IsJoin(f[1], f[1 - 1], PlaceholderParts(out)[1])
    BY <1>1, <2>1 DEF JoinedSteps
  <2>4. f[1] = <<>> \o b
    BY <1>3, <2>1, <2>2, <2>3 DEF IsJoin
  <2> QED BY <1>3, <1>4, <2>2, <2>4, ConcatEmptySeq
<1> QED BY <1>3, <1>4 DEF g, b

\* A chat answer and what stands for the outputs of its calls need no repair.
LEMMA ForkSettled ==
  ASSUME NEW p, Settled(p), NEW out \in Seq(Items), NoOutputs(out), Len(out) <= 1
  PROVE  Settled((p \o out) \o PlaceholderToolOutputs(out))
<1> DEFINE b == PlaceholderToolOutputs(out)
           Goal == Settled((p \o out) \o b)
<1>1. p \in Seq(Items) /\ Tidy(p) /\ Left(p) = {} /\ Len(out) \in Nat
  BY DEF Settled, Left
<1> SUFFICES Goal
  OBVIOUS
<1> HIDE DEF Goal
<1>2. CASE Len(out) = 0
  <2>1. out = <<>> /\ b = <<>>
    <3>1. b = <<>>
      BY <1>2, PlaceholderFacts
    <3>2. out = <<>>
      BY <1>2, EmptySeq
    <3> QED BY <3>1, <3>2
  <2>2. p \o <<>> = p
    BY <1>1, ConcatEmptySeq
  <2> HIDE DEF b
  <2> QED BY <2>1, <2>2 DEF Goal
<1>3. CASE Len(out) = 1
  <2> DEFINE x == out[1]
             a == p \o <<x>>
  <2>1. x \in Items /\ out = <<x>> /\ 1 \in DOMAIN out
    BY <1>3
  <2>2. ~IsOutput(x)
    BY <2>1 DEF NoOutputs
  <2>3. CallIds(x) \in SUBSET (1..MaxCalls)
    BY <2>1, ItemFields
  <2>4. b \in Seq(Items) /\ OnlyOutputs(b) /\ OutputIds(b) = CallIds(x)
    <3>1. b = Outputs(CallIds(x), "placeholder")
      BY <1>3, PlaceholderFacts
    <3> HIDE DEF b
    <3> QED BY <2>3, <3>1, OutputsFacts
  <2> HIDE DEF b, x
  <2>5. a \in Seq(Items) /\ Tidy(a) /\ OwnEnd(a) = CallIds(x) /\ Left(a) = CallIds(x)
    BY <1>1, <2>1, <2>2, TidyItem
  <2>6. a = p \o out
    BY <2>1
  <2> HIDE DEF a
  <2>7. Tidy(a \o b) /\ Left(a \o b) = Left(a) \ OutputIds(b)
    BY <2>4, <2>5, TidyOutputs
  <2>8. a \o b \in Seq(Items)
    BY <2>4, <2>5, ConcatProperties
  <2> QED BY <2>4, <2>5, <2>6, <2>7, <2>8 DEF Settled, Left, Goal, b
<1>4. Len(out) = 0 \/ Len(out) = 1
  <2> HIDE DEF b
  <2>1. \A n \in Nat : n <= 1 => n = 0 \/ n = 1
    OBVIOUS
  <2> QED BY <1>1, <2>1
<1> QED BY <1>2, <1>3, <1>4

LEMMA KeepsElements ==
  ASSUME NEW h \in Seq(Items), NEW x \in Elements(h), ~IsOutput(x)
  PROVE  x \in Elements(NormalizeForPrompt(h))
<1>1. PICK i \in 1..Len(h) : x = h[i]
  BY DEF Elements
<1> QED BY <1>1, KeepsItems

LEMMA SaidFacts ==
  ASSUME NEW a \in Seq(Items), NEW b \in Seq(Items)
  PROVE  /\ Said(a \o b) = Said(a) \union Said(b)
         /\ Said(a) \subseteq Elements(a) /\ \A x \in Said(a) : ~IsOutput(x)
<1>1. Elements(a \o b) = Elements(a) \union Elements(b)
  BY ElementsOfBoth
<1>2. Said(a \o b) = Said(a) \union Said(b)
  BY <1>1, Zenon DEF Said
<1> QED BY <1>2 DEF Said, IsOutput

\* What is said is in what is compiled.
LEMMA CompiledSays ==
  ASSUME NEW h \in Seq(Items)
  PROVE  Said(h) \subseteq Elements(NormalizeForPrompt(h))
<1>1. ASSUME NEW x \in Said(h) PROVE x \in Elements(NormalizeForPrompt(h))
  <2>1. x \in Elements(h) /\ ~IsOutput(x)
    BY DEF Said, IsOutput
  <2> QED BY <2>1, KeepsElements
<1> QED BY <1>1

\* Outputs and marks say nothing.
LEMMA SaysNothing ==
  ASSUME NEW b, \A i \in DOMAIN b : b[i].kind \notin {"user", "text"}
  PROVE  Said(b) = {}
  BY DEF Said, Elements

LEMMA OutputsSayNothing ==
  ASSUME NEW b, OnlyOutputs(b)
  PROVE  Said(b) = {}
<1>1. \A i \in DOMAIN b : b[i].kind \notin {"user", "text"}
  BY DEF OnlyOutputs, IsOutput
<1> QED BY <1>1, SaysNothing

---------------------------------------------------------------------------
(* What needs no repair *)

LEMMA SettledEmpty == Settled(<<>>)
<1>1. Missing(<<>>, 0, CallKinds) = {}
  BY MissingEmpty
<1> QED BY <1>1 DEF Settled, Tidy

\* An item without calls, that is no output, may follow.
LEMMA SettledItem ==
  ASSUME NEW p, Settled(p), NEW x \in Items, ~IsOutput(x), CallIds(x) = {}
  PROVE  Settled(p \o <<x>>)
<1>1. p \in Seq(Items) /\ Tidy(p) /\ Left(p) = {}
  BY DEF Settled, Left
<1> DEFINE a == p \o <<x>>
<1>2. a \in Seq(Items) /\ Tidy(a) /\ Left(a) = {}
  BY <1>1, TidyItem
<1> QED BY <1>2 DEF Settled, Left

LEMMA SettledStaged ==
  ASSUME NEW p, Settled(p), NEW t \in 0..MaxTurns
  PROVE  /\ Settled(p \o StagedFor(t)) /\ User(t) \in Elements(p \o StagedFor(t))
         /\ Elements(p) \subseteq Elements(p \o StagedFor(t))
<1> DEFINE x == Context(t)
           y == User(t)
           s == StagedFor(t)
<1>1. /\ x \in Items /\ ~IsOutput(x) /\ CallIds(x) = {}
      /\ y \in Items /\ ~IsOutput(y) /\ CallIds(y) = {}
  BY DEF Items, Context, User, IsOutput, CallIds, CallKinds
<1>2. s = <<x, y>>
  BY DEF StagedFor
<1> HIDE DEF x, y, s
<1>3. /\ <<x>> \in Seq(Items) /\ <<y>> \in Seq(Items)
      /\ <<x>> \o <<y>> = s /\ s \in Seq(Items) /\ p \in Seq(Items)
  BY <1>1, <1>2, PairConcat DEF Settled
<1>4. y \in Elements(s)
  <2>1. 2 \in DOMAIN s /\ s[2] = y
    BY <1>2
  <2> QED BY <2>1 DEF Elements
<1>5. Elements(p \o s) = Elements(p) \union Elements(s)
  BY <1>3, ElementsOfBoth
<1>6. Settled((p \o <<x>>) \o <<y>>)
  <2> DEFINE a == p \o <<x>>
  <2>1. Settled(a)
    BY <1>1, SettledItem
  <2> HIDE DEF a
  <2>2. Settled(a \o <<y>>)
    BY <1>1, <2>1, SettledItem
  <2> QED BY <2>2 DEF a
<1>7. Associates(p, <<x>>, <<y>>)
  BY <1>3, JoinAssociates
<1>8. p \o s = (p \o <<x>>) \o <<y>>
  BY <1>3, <1>7 DEF Associates
<1>9. Settled(p \o s)
  BY <1>6, <1>8
<1> QED BY <1>4, <1>5, <1>9 DEF s, y

---------------------------------------------------------------------------
(* The response *)

Response(h, n) == Filter(SubSeq(h, n + 1, Len(h)), LAMBDA item : ~IsOutput(item))

LEMMA BehindFirst ==
  ASSUME NEW T, NEW a \in Seq(T), NEW b \in Seq(T)
  PROVE  SubSeq(a \o b, Len(a) + 1, Len(a \o b)) = b
<1> DEFINE c == a \o b
<1>1. /\ c \in Seq(T) /\ Len(a) \in Nat /\ Len(b) \in Nat /\ Len(c) = Len(a) + Len(b)
      /\ \A i \in 1..Len(b) : c[Len(a) + i] = b[i]
  BY Parts
<1> HIDE DEF c
<1> DEFINE s == SubSeq(c, Len(a) + 1, Len(c))
<1>2. s = [i \in 1..(Len(c) - (Len(a) + 1) + 1) |-> c[i + (Len(a) + 1) - 1]]
  BY <1>1
<1>3. Len(c) - (Len(a) + 1) + 1 = Len(b) /\ \A i \in 1..Len(b) : i + (Len(a) + 1) - 1 = Len(a) + i
  BY <1>1
<1>4. s = [i \in 1..Len(b) |-> c[Len(a) + i]]
  BY <1>2, <1>3
<1>5. \A i \in 1..Len(b) : c[Len(a) + i] = b[i]
  BY <1>1
<1>6. b = [i \in 1..Len(b) |-> b[i]]
  OBVIOUS
<1>7. [i \in 1..Len(b) |-> c[Len(a) + i]] = [i \in 1..Len(b) |-> b[i]]
  BY <1>5
<1> QED BY <1>4, <1>6, <1>7 DEF c

\* The response is what was added, without the outputs behind it.
LEMMA ResponseFacts ==
  ASSUME NEW a \in Seq(Items), NEW out \in Seq(Items), NEW ref \in Seq(Items),
         NoOutputs(out), OnlyOutputs(ref), NEW r, r = Response(a \o (out \o ref), Len(a))
  PROVE  /\ r \in Seq(Items) /\ NoOutputs(r) /\ Elements(out) \subseteq Elements(r)
         /\ Len(out) <= 1 => Len(r) <= 1
<1> DEFINE b == out \o ref
           at == {i \in DOMAIN b : ~IsOutput(b[i])}
<1>1. /\ b \in Seq(Items) /\ Len(out) \in Nat /\ Len(ref) \in Nat
      /\ Len(b) = Len(out) + Len(ref) /\ DOMAIN b = 1..Len(b)
      /\ DOMAIN out = 1..Len(out) /\ DOMAIN ref = 1..Len(ref)
      /\ \A i \in 1..Len(out) : b[i] = out[i]
      /\ \A i \in 1..Len(ref) : b[Len(out) + i] = ref[i]
      /\ \A i \in 1..Len(b) : i \in 1..Len(out) \/ \E k \in 1..Len(ref) : i = Len(out) + k
  BY Parts
<1>2. r = Sub(b, at)
  <2>1. SubSeq(a \o b, Len(a) + 1, Len(a \o b)) = b
    BY <1>1, BehindFirst
  <2> HIDE DEF b
  <2> QED BY <2>1 DEF Response, Filter, b
<1> HIDE DEF b, at
<1>3. r \in Seq(Items) /\ Len(r) \in Nat /\ DOMAIN r = 1..Len(r)
  BY <1>1, <1>2, SubType
<1>4. PICK p : Positions(b, at, Len(b), r, p)
  BY <1>1, <1>2, SubPositions
<1>5. \A k \in 1..Len(r) : p[k] \in at /\ p[k] \in 1..Len(b) /\ r[k] = b[p[k]]
  BY <1>4 DEF Positions
<1>6. NoOutputs(r)
  BY <1>3, <1>5 DEF NoOutputs, at
<1>7. at = 1..Len(out)
  <2>1. ASSUME NEW i \in 1..Len(out) PROVE i \in at
    <3>1. i \in DOMAIN b /\ b[i] = out[i] /\ i \in DOMAIN out
      BY <1>1
    <3> QED BY <3>1 DEF at, NoOutputs
  <2>2. ASSUME NEW i \in at PROVE i \in 1..Len(out)
    <3>1. i \in 1..Len(b) /\ ~IsOutput(b[i])
      BY <1>1 DEF at
    <3>2. ASSUME NEW k \in 1..Len(ref), i = Len(out) + k PROVE FALSE
      BY <1>1, <3>1, <3>2 DEF OnlyOutputs
    <3> QED BY <1>1, <3>1, <3>2
  <2> QED BY <2>1, <2>2
<1>8. ASSUME NEW i \in 1..Len(out) PROVE out[i] \in Elements(r)
  <2>1. i \in (1..Len(b)) \intersect at
    BY <1>1, <1>7
  <2>2. PICK k \in 1..Len(r) : p[k] = i
    BY <1>4, <2>1 DEF Positions
  <2>3. r[k] = out[i] /\ k \in DOMAIN r
    BY <1>1, <1>3, <1>5, <2>2
  <2> QED BY <2>3 DEF Elements
<1>9. Elements(out) \subseteq Elements(r)
  BY <1>1, <1>8 DEF Elements
<1>10. ASSUME Len(out) <= 1, Len(r) > 1 PROVE FALSE
  <2>1. 1 \in 1..Len(r) /\ 2 \in 1..Len(r)
    BY <1>3, <1>10
  <2>2. p[1] \in 1..Len(out) /\ p[2] \in 1..Len(out)
    BY <1>5, <1>7, <2>1
  <2>3. p[1] < p[2]
    BY <1>4, <2>1 DEF Positions
  <2> QED BY <1>1, <1>10, <2>2, <2>3
<1>11. Len(out) <= 1 => Len(r) <= 1
  BY <1>1, <1>3, <1>10
<1> QED BY <1>3, <1>6, <1>9, <1>11

\* The user's message is in the history when the turn has its first answer.
LEMMA CommittedSays ==
  ASSUME turn \in 0..MaxTurns, pending # "committed", items \in Seq(Items)
  PROVE  /\ User(turn) \in Elements(items \o Committed)
         /\ Said(Committed) \subseteq {User(turn)}
<1> DEFINE x == Context(turn)
           y == User(turn)
<1>1. x \in Items /\ y \in Items /\ x.kind = "context"
  BY DEF Items, Context, User
<1>2. Staged = <<x, y>>
  BY DEF Staged, StagedFor
<1>3. Committed = IF 1 \in Uncommitted THEN (IF 2 \in Uncommitted THEN <<x, y>> ELSE <<x>>)
                                       ELSE (IF 2 \in Uncommitted THEN <<y>> ELSE <<>>)
  BY <1>1, <1>2, SubTwo DEF Committed
<1>4. Committed \in Seq(Items)
  BY CommitFacts
<1>5. 2 \notin Uncommitted => y \in Elements(items)
  <2>1. 2 \in DOMAIN Staged /\ Staged[2] = y
    BY <1>2
  <2>2. 2 \notin Uncommitted => \E j \in DOMAIN items : items[j] = y
    BY <2>1 DEF Uncommitted
  <2> QED BY <2>2 DEF Elements
<1> HIDE DEF x, y
<1>6. 2 \in Uncommitted => y \in Elements(Committed)
  <2>1. y \in Elements(<<x, y>>) /\ y \in Elements(<<y>>)
    <3>1. 2 \in DOMAIN <<x, y>> /\ <<x, y>>[2] = y /\ 1 \in DOMAIN <<y>> /\ <<y>>[1] = y
      OBVIOUS
    <3> QED BY <3>1 DEF Elements
  <2> QED BY <1>3, <2>1
<1>7. Elements(Committed) \subseteq {x, y}
  <2>1. /\ Elements(<<x, y>>) \subseteq {x, y} /\ Elements(<<y>>) \subseteq {x, y}
        /\ Elements(<<x>>) \subseteq {x, y} /\ Elements(<<>>) \subseteq {x, y}
    BY DEF Elements
  <2> QED BY <1>3, <2>1
<1>8. Said(Committed) \subseteq {y}
  BY <1>1, <1>7 DEF Said
<1>9. Elements(items \o Committed) = Elements(items) \union Elements(Committed)
  BY <1>4, ElementsOfBoth
<1> QED BY <1>5, <1>6, <1>8, <1>9 DEF y

---------------------------------------------------------------------------
(* The turn goes on *)

Asking == {"ask", "model", "backoff"}

\* What a step has to give when it only adds outputs and marks to the history.
LEMMA GoOnKeeps ==
  ASSUME ForkInv, Inv', UNCHANGED forkVars, style' = style, diaries => diaries',
         NEW b \in Seq(Items), items' = items \o b, Said(b) = {},
         Settled(prompt'), OwnMessage',
         ~diaries' /\ pc' \in Asking => Said(items') \subseteq Elements(prompt')
  PROVE  ForkInv'
<1>1. ForkTypes'
  BY DEF ForkInv, ForkTypes, forkVars, ResponseOK, Settled
<1>2. Said(items') = Said(items)
  <2>1. items \in Seq(Items)
    BY DEF ForkInv, Inv, TypeOK
  <2>2. Said(items \o b) = Said(items) \union Said(b)
    BY <2>1, SaidFacts
  <2> QED BY <2>2
<1>3. Heard'
  <2>1. Heard
    BY DEF ForkInv
  <2>2. /\ lastPrompt' = lastPrompt /\ lastOutput' = lastOutput /\ compacted' = compacted
        /\ sending' = sending
    BY DEF forkVars
  <2> QED BY <1>2, <2>1, <2>2 DEF Heard, Asking
<1> QED BY <1>1, <1>3 DEF ForkInv

\* The turn is left.
LEMMA LeaveKeeps ==
  ASSUME ForkInv, Inv', UNCHANGED forkVars, style' = style, diaries' = diaries, Leave,
         NEW b \in Seq(Items), items' = items \o b, Said(b) = {}
  PROVE  ForkInv'
<1>1. pc' = "idle" /\ prompt' = <<>>
  BY DEF Leave
<1>2. Settled(prompt')
  BY <1>1, SettledEmpty
<1>3. OwnMessage'
  BY <1>1 DEF OwnMessage
<1>4. pc' \notin Asking
  BY <1>1 DEF Asking
<1> QED BY <1>2, <1>3, <1>4, GoOnKeeps

\* The prompt and the history stay.
LEMMA StayKeeps ==
  ASSUME ForkInv, Inv', UNCHANGED forkVars, style' = style, diaries => diaries',
         items' = items, prompt' = prompt, turn' = turn,
         pc' \in Asking => pc \in Asking,
         pc' \in {"model", "backoff"} => pc \in {"model", "backoff"} /\ pending' = pending,
         pc' = "tools" => pc = "tools"
  PROVE  ForkInv'
<1>1. items \in Seq(Items) /\ <<>> \in Seq(Items)
  BY DEF ForkInv, Inv, TypeOK
<1>2. items' = items \o <<>>
  BY <1>1, ConcatEmptySeq
<1>3. Said(<<>>) = {}
  BY SaysNothing
<1>4. Settled(prompt')
  BY DEF ForkInv, ForkTypes, Settled
<1>5. OwnMessage'
  BY DEF ForkInv, OwnMessage, Asking, forkVars
<1>6. ~diaries' /\ pc' \in Asking => Said(items') \subseteq Elements(prompt')
  BY DEF ForkInv, Heard, Asking
<1> QED BY <1>1, <1>2, <1>3, <1>4, <1>5, <1>6, GoOnKeeps

\* The prompt is compiled from the history when the tools are done.
LEMMA CompiledKeeps ==
  ASSUME ForkInv, Inv', UNCHANGED forkVars, style' = style, diaries' = diaries,
         turn' = turn, pc = "tools", pc' \in {"ask", "tools"},
         NEW b \in Seq(Items), items' = items \o b, Said(b) = {},
         pc' = "ask" => prompt' = NormalizeForPrompt(items'),
         pc' = "tools" => prompt' = prompt
  PROVE  ForkInv'
<1>1. items \in Seq(Items) /\ items' \in Seq(Items)
  BY DEF ForkInv, Inv, TypeOK
<1>2. Settled(prompt')
  <2>1. Settled(NormalizeForPrompt(items'))
    BY <1>1, NormalSettled
  <2>2. Settled(prompt)
    BY DEF ForkInv, ForkTypes
  <2> QED BY <2>1, <2>2
<1>3. User(turn) \in Elements(items')
  <2>1. User(turn) \in Elements(items)
    BY DEF ForkInv, OwnMessage
  <2>2. Elements(items') = Elements(items) \union Elements(b)
    BY <1>1, ElementsOfBoth
  <2> QED BY <2>1, <2>2
<1>4. User(turn) \in Elements(NormalizeForPrompt(items'))
  <2>1. ~IsOutput(User(turn))
    BY DEF User, IsOutput
  <2> QED BY <1>1, <1>3, <2>1, KeepsElements
<1>5. OwnMessage'
  <2>1. turn' = turn /\ User(turn') = User(turn)
    BY DEF User
  <2>2. pc' = "ask" => User(turn') \in Elements(prompt')
    BY <1>4, <2>1
  <2>3. pc' = "tools" => User(turn') \in Elements(items')
    BY <1>3, <2>1
  <2> QED BY <2>2, <2>3 DEF OwnMessage
<1>6. pc' \in Asking => Said(items') \subseteq Elements(prompt')
  <2>1. pc' \in Asking => pc' = "ask"
    BY DEF Asking
  <2> QED BY <1>1, <2>1, CompiledSays
<1> QED BY <1>2, <1>5, <1>6, GoOnKeeps

LEMMA PrepareTurnKeeps ==
  ASSUME ForkInv, Inv', UNCHANGED forkVars, PrepareTurn
  PROVE  ForkInv'
<1> DEFINE p == IF diaries THEN <<Diary>> ELSE NormalizeForPrompt(items)
           t == turn + 1
<1>1. /\ items \in Seq(Items) /\ <<>> \in Seq(Items) /\ turn' \in 0..MaxTurns
  BY DEF ForkInv, Inv, TypeOK
<1>2. /\ prompt' = p \o StagedFor(t) /\ turn' = t /\ items' = items /\ style' = style
      /\ diaries' = diaries /\ pc' = "ask"
  BY DEF PrepareTurn
<1>3. Settled(p)
  <2>1. Settled(NormalizeForPrompt(items))
    BY <1>1, NormalSettled
  <2>2. Settled(<<Diary>>)
    <3>1. Diary \in Items /\ ~IsOutput(Diary) /\ CallIds(Diary) = {}
      BY DEF Items, Diary, IsOutput, CallIds, CallKinds
    <3>2. Settled(<<>> \o <<Diary>>)
      BY <3>1, SettledEmpty, SettledItem
    <3>3. <<>> \o <<Diary>> = <<Diary>>
      BY <3>1, ConcatEmptySeq
    <3> QED BY <3>2, <3>3
  <2> QED BY <2>1, <2>2
<1>4. ~diaries => Said(items) \subseteq Elements(p)
  BY <1>1, CompiledSays
<1> HIDE DEF p
<1>5. t \in 0..MaxTurns
  BY <1>1, <1>2
<1> HIDE DEF t
<1>6. /\ Settled(p \o StagedFor(t)) /\ User(t) \in Elements(p \o StagedFor(t))
      /\ Elements(p) \subseteq Elements(p \o StagedFor(t))
  BY <1>3, <1>5, SettledStaged
<1>7. items' = items \o <<>> /\ Said(<<>>) = {}
  BY <1>1, <1>2, ConcatEmptySeq, SaysNothing
<1>8. OwnMessage'
  BY <1>2, <1>6 DEF OwnMessage
<1>9. ~diaries' => Said(items') \subseteq Elements(prompt')
  BY <1>2, <1>4, <1>6
<1>10. Settled(prompt')
  BY <1>2, <1>6
<1> QED BY <1>1, <1>2, <1>7, <1>8, <1>9, <1>10, GoOnKeeps

LEMMA FinalizeKeeps ==
  ASSUME ForkInv, Inv', UNCHANGED forkVars, FinalizeToolCall
  PROVE  ForkInv'
<1>1. Inv /\ pc = "tools"
  BY DEF ForkInv, FinalizeToolCall
<1> DEFINE x == Output(OutputType, Head(batch), "result")
<1>2. PICK cut \in BOOLEAN, a \in {<<>>, <<Aborted>>}, closing \in Seq(Events) :
         Finalized(x, cut, a, closing)
  BY <1>1, FinalizeFacts
<1>3. x \in Items /\ x.kind \in {"output", "custom_output"}
  <2>1. style \in Styles /\ Head(batch) \in 1..MaxCalls
    <3>1. TypeOK /\ Flow /\ batch # <<>>
      BY <1>1 DEF Inv, FinalizeToolCall
    <3> QED BY <3>1, HeadFacts DEF TypeOK
  <2> QED BY <2>1, OutputItem
<1> HIDE DEF x
<1> DEFINE b == <<x>> \o a
<1>4. b \in Seq(Items) /\ Said(b) = {}
  <2>1. <<x>> \in Seq(Items) /\ a \in Seq(Items)
    <3>1. <<x>> \in Seq(Items)
      BY <1>3
    <3>2. <<>> \in Seq(Items) /\ <<Aborted>> \in Seq(Items)
      BY AbortedFacts
    <3> QED BY <3>1, <3>2
  <2>2. Said(b) = Said(<<x>>) \union Said(a)
    BY <2>1, SaidFacts
  <2>3. Said(<<x>>) = {}
    BY <1>3, SaysNothing
  <2>4. Said(a) = {}
    BY SaysNothing DEF Aborted
  <2>5. b \in Seq(Items)
    BY <2>1, ConcatProperties
  <2> QED BY <2>2, <2>3, <2>4, <2>5
<1>5. items' = items \o b /\ style' = style /\ turn' = turn /\ diaries' = diaries
  BY <1>2 DEF Finalized, FinalizeToolCall
<1> HIDE DEF b
<1>6. CASE Leave
  BY <1>4, <1>5, <1>6, LeaveKeeps
<1>7. CASE ~Leave
  <2>1. /\ pc' = (IF Unfinished = <<>> THEN "ask" ELSE "tools")
        /\ prompt' = (IF Unfinished = <<>> THEN NormalizeForPrompt(items') ELSE prompt)
    BY <1>2, <1>7 DEF Finalized
  <2>2. pc' \in {"ask", "tools"} /\ (pc' = "ask" => prompt' = NormalizeForPrompt(items'))
        /\ (pc' = "tools" => prompt' = prompt)
    BY <2>1
  <2> QED BY <1>1, <1>4, <1>5, <2>2, CompiledKeeps
<1> QED BY <1>6, <1>7

LEMMA GoOnStep ==
  ASSUME ForkInv, Inv', GoOn
  PROVE  ForkInv'
<1>1. UNCHANGED forkVars /\ items \in Seq(Items) /\ <<>> \in Seq(Items)
  BY DEF GoOn, ForkInv, Inv, TypeOK
<1>2. items \o <<>> = items /\ Said(<<>>) = {}
  BY <1>1, ConcatEmptySeq, SaysNothing
<1>3. <<Aborted>> \in Seq(Items) /\ Said(<<Aborted>>) = {}
  BY AbortedFacts, SaysNothing DEF Aborted
<1>4. CASE Input \/ AcceptDream \/ RequestCancel \/ RetryModel \/ AskAgain \/ RunGroup
  <2>1. /\ style' = style /\ (diaries => diaries') /\ items' = items /\ prompt' = prompt
        /\ turn' = turn
    BY <1>4 DEF Input, AcceptDream, RequestCancel, RetryModel, AskAgain, RunGroup, TurnVars
  <2>2. /\ pc' \in Asking => pc \in Asking
        /\ pc' \in {"model", "backoff"} => pc \in {"model", "backoff"} /\ pending' = pending
        /\ pc' = "tools" => pc = "tools"
    BY <1>4 DEF Input, AcceptDream, RequestCancel, RetryModel, AskAgain, RunGroup, TurnVars, Asking
  <2> QED BY <1>1, <2>1, <2>2, StayKeeps
<1>5. CASE BlockTurn \/ RunOutOfSteps \/ FailModel \/ InterruptModel
  <2>1. style' = style /\ diaries' = diaries /\ items' = items /\ Leave
    BY <1>5 DEF BlockTurn, RunOutOfSteps, FailModel, InterruptModel
  <2> QED BY <1>1, <1>2, <2>1, LeaveKeeps
<1>6. CASE StopBeforeRequest
  <2>1. /\ style' = style /\ diaries' = diaries /\ Leave
        /\ items' = Append(items, Aborted)
    BY <1>6 DEF StopBeforeRequest
  <2>2. items' = items \o <<Aborted>>
    BY <1>1, <2>1, AbortedFacts, AppendIsConcat
  <2> QED BY <1>1, <1>3, <2>1, <2>2, LeaveKeeps
<1>7. CASE InterruptTool
  <2>1. PICK n \in 1..MaxParallel :
           /\ n <= Len(rest)
           /\ items' = items \o <<Output(OutputType, rest[n], "interrupted"), Aborted>>
    BY <1>7 DEF InterruptTool
  <2> DEFINE x == Output(OutputType, rest[n], "interrupted")
             b == <<x, Aborted>>
  <2>2. x \in Items /\ x.kind \in {"output", "custom_output"}
    <3>1. style \in Styles /\ rest \in Seq(1..MaxCalls)
      BY DEF ForkInv, Inv, TypeOK
    <3>2. n \in 1..Len(rest)
      <4>1. MaxParallel \in Nat /\ Len(rest) \in Nat
        BY <3>1, Bounds
      <4> QED BY <2>1, <4>1
    <3>3. rest[n] \in 1..MaxCalls
      <4>1. TypeOK /\ Flow
        BY DEF ForkInv, Inv
      <4> QED BY <3>2, <4>1, RunningFacts
    <3> QED BY <3>1, <3>3, OutputItem
  <2> HIDE DEF x
  <2>3. b \in Seq(Items)
    BY <2>2, AbortedFacts
  <2>4. Said(b) = {}
    <3>1. \A i \in DOMAIN b : b[i].kind \notin {"user", "text"}
      BY <2>2 DEF Aborted
    <3> QED BY <3>1, SaysNothing
  <2>5. style' = style /\ diaries' = diaries /\ Leave
    BY <1>7 DEF InterruptTool
  <2>6. items' = items \o b
    BY <2>1 DEF x
  <2> HIDE DEF b
  <2> QED BY <1>1, <2>3, <2>4, <2>5, <2>6, LeaveKeeps
<1>8. CASE PrepareTurn
  BY <1>1, <1>8, PrepareTurnKeeps
<1>9. CASE FinalizeToolCall
  BY <1>1, <1>9, FinalizeKeeps
<1> QED BY <1>4, <1>5, <1>6, <1>7, <1>8, <1>9 DEF GoOn

---------------------------------------------------------------------------
(* The answer *)

LEMMA AnswerKeeps ==
  ASSUME ForkInv, Inv', pc = "model", ~sending,
         NEW out \in Seq(Items), NoOutputs(out), style = "chat" => Len(out) <= 1,
         NEW ref \in Seq(Items), OnlyOutputs(ref),
         items' = (items \o Committed) \o (out \o ref),
         lastOutput' = Response(items', Len(items) + Len(Committed)),
         UNCHANGED <<lastPrompt, sending, reading, seen, fresh, compacted>>,
         style' = style, diaries' = diaries, turn' = turn,
         pc' \in {"idle", "ask", "tools"},
         pc' = "ask" => prompt' = NormalizeForPrompt(items'),
         pc' # "ask" => prompt' \in {prompt, <<>>}
  PROVE  ForkInv'
<1> DEFINE a == items \o Committed
           b == out \o ref
<1>1. /\ Committed \in Seq(Items) /\ items \in Seq(Items) /\ items' \in Seq(Items)
      /\ turn \in 0..MaxTurns
  BY CommitFacts DEF ForkInv, Inv, TypeOK
<1>2. /\ a \in Seq(Items) /\ Len(a) = Len(items) + Len(Committed)
  BY <1>1, Parts
<1>3. /\ pending # "committed" /\ lastPrompt = prompt /\ User(turn) \in Elements(prompt)
  BY DEF ForkInv, OwnMessage
<1>4. /\ User(turn) \in Elements(a) /\ Said(Committed) \subseteq {User(turn)}
  BY <1>1, <1>3, CommittedSays
<1>5. b \in Seq(Items) /\ Said(b) = Said(out)
  <2>1. b \in Seq(Items)
    BY ConcatProperties
  <2>2. Said(b) = Said(out) \union Said(ref)
    BY SaidFacts
  <2>3. Said(ref) = {}
    BY OutputsSayNothing
  <2> QED BY <2>1, <2>2, <2>3
<1>6. Said(a) = Said(items) \union Said(Committed)
  BY <1>1, SaidFacts
<1>7. items' = a \o b
  OBVIOUS
<1> HIDE DEF a, b
<1>8. /\ Said(items') = Said(a) \union Said(b)
      /\ Elements(items') = Elements(a) \union Elements(b)
  BY <1>2, <1>5, <1>7, SaidFacts, ElementsOfBoth
<1>9. /\ lastOutput' \in Seq(Items) /\ NoOutputs(lastOutput')
      /\ Elements(out) \subseteq Elements(lastOutput')
      /\ Len(out) <= 1 => Len(lastOutput') <= 1
  <2>1. lastOutput' = Response(a \o (out \o ref), Len(a))
    BY <1>2, <1>7 DEF b
  <2>2. PICK r : r = lastOutput'
    OBVIOUS
  <2>3. /\ r \in Seq(Items) /\ NoOutputs(r) /\ Elements(out) \subseteq Elements(r)
        /\ Len(out) <= 1 => Len(r) <= 1
    BY <1>2, <2>1, <2>2, ResponseFacts
  <2> QED BY <2>2, <2>3
<1>10. Said(out) \subseteq Elements(out)
  BY SaidFacts
<1>11. ResponseOK(lastOutput', style')
  BY <1>9 DEF ResponseOK
<1>12. Settled(prompt')
  <2>1. Settled(NormalizeForPrompt(items'))
    BY <1>1, NormalSettled
  <2>2. Settled(prompt)
    BY DEF ForkInv, ForkTypes
  <2> QED BY <2>1, <2>2, SettledEmpty
<1>13. ForkTypes'
  <2>1. ForkTypes
    BY DEF ForkInv
  <2>2. lastPrompt' = lastPrompt /\ seen' = seen /\ reading' = reading /\ fresh' = fresh
    OBVIOUS
  <2>3. Settled(lastPrompt') /\ Settled(seen')
    BY <2>1, <2>2 DEF ForkTypes
  <2> QED BY <1>11, <1>12, <2>1, <2>2, <2>3 DEF ForkTypes
<1>14. User(turn') = User(turn) /\ User(turn) \in Elements(items')
  BY <1>4, <1>8 DEF User
<1>15. OwnMessage'
  <2>1. pc' = "ask" => User(turn') \in Elements(prompt')
    <3>1. ~IsOutput(User(turn))
      BY DEF User, IsOutput
    <3> QED BY <1>1, <1>14, <3>1, KeepsElements
  <2> QED BY <1>14, <2>1 DEF OwnMessage
<1>16. Heard'
  <2>1. Heard
    BY DEF ForkInv
  <2>2. pc' \in Asking => Said(items') \subseteq Elements(prompt')
    <3>1. pc' \in Asking => pc' = "ask"
      BY DEF Asking
    <3> QED BY <1>1, <3>1, CompiledSays
  <2>3. ~diaries => Said(items') \subseteq Elements(lastPrompt) \union Elements(lastOutput')
    <3>1. ~diaries => Said(items) \subseteq Elements(lastPrompt)
      BY <1>3, <2>1 DEF Heard
    <3> QED BY <1>3, <1>4, <1>5, <1>6, <1>8, <1>9, <1>10, <3>1
  <2> QED BY <2>2, <2>3 DEF Heard, Asking
<1> QED BY <1>13, <1>15, <1>16 DEF ForkInv

LEMMA AnswerStep ==
  ASSUME ForkInv, Inv', Answer
  PROVE  ForkInv'
<1>1. /\ ~sending /\ UNCHANGED <<lastPrompt, sending, reading, seen, fresh, compacted>>
      /\ lastOutput' = Response(items', Len(items) + Len(Committed))
  BY DEF Answer, ResponseOf, Response, Filter
<1>2. /\ Committed \in Seq(Items) /\ items \in Seq(Items) /\ Inv /\ style \in Styles
      /\ calls \in Nat /\ MaxCalls \in Nat /\ <<>> \in Seq(Items)
  BY CommitFacts, Bounds DEF ForkInv, Inv, TypeOK
<1> DEFINE a == items \o Committed
<1>3. a \in Seq(Items)
  BY <1>2, ConcatProperties
<1>4. OnlyOutputs(<<>>)
  BY DEF OnlyOutputs
<1>5. ASSUME NEW S \in SUBSET (1..MaxCalls)
      PROVE  /\ CallItems(S) \in Seq(Items) /\ NoOutputs(CallItems(S))
             /\ style = "chat" => Len(CallItems(S)) <= 1
  <2>1. CallItems(S) \in Seq(Items) /\ NoOutputs(CallItems(S))
    BY <1>2, CallItemsFacts
  <2>2. style = "chat" => CallItems(S) = <<[kind |-> "chat", ids |-> S]>>
    BY DEF CallItems
  <2>3. \A z : Len(<<z>>) = 1
    OBVIOUS
  <2>4. style = "chat" => Len(CallItems(S)) = 1
    BY <2>2, <2>3
  <2> QED BY <2>1, <2>4
<1>6. CASE AnswerWithText
  <2> DEFINE x == Text(turn, step)
             out == <<x>>
  <2>1. x \in Items /\ ~IsOutput(x)
    <3>1. turn \in 1..MaxTurns /\ step \in 1..MaxSteps
      <4>1. pc = "model" /\ TypeOK /\ Flow
        BY <1>2, <1>6 DEF AnswerWithText, Inv
      <4> QED BY <4>1, Bounds DEF TypeOK, Flow
    <3> QED BY <3>1 DEF Text, Items, IsOutput
  <2>2. /\ items' = a \o out /\ pc' = "idle" /\ prompt' = <<>> /\ pc = "model"
        /\ style' = style /\ diaries' = diaries /\ turn' = turn
    BY <1>6 DEF AnswerWithText, Leave
  <2> HIDE DEF x
  <2>3. out \in Seq(Items) /\ NoOutputs(out) /\ Len(out) <= 1 /\ out \o <<>> = out
    BY <2>1, OneItem, ConcatEmptySeq DEF NoOutputs
  <2> HIDE DEF out
  <2>4. items' = a \o (out \o <<>>)
    BY <2>2, <2>3
  <2> QED BY <1>1, <1>2, <1>4, <2>2, <2>3, <2>4, AnswerKeeps DEF a
<1>7. CASE AnswerWithCalls
  <2>1. PICK n \in 1..(MaxCalls - calls), cut \in BOOLEAN :
           Commit(CallItems((calls + 1)..(calls + n)), cut)
    BY <1>7 DEF AnswerWithCalls
  <2> DEFINE out == CallItems((calls + 1)..(calls + n))
  <2>2. items' = a \o out
    BY <2>1 DEF Commit
  <2>3. (calls + 1)..(calls + n) \in SUBSET (1..MaxCalls)
    BY <1>2
  <2>4. out \in Seq(Items) /\ NoOutputs(out) /\ (style = "chat" => Len(out) <= 1)
    BY <1>5, <2>3
  <2>5. /\ pc' = "tools" /\ prompt' = prompt /\ pc = "model"
        /\ style' = style /\ diaries' = diaries /\ turn' = turn
    BY <1>7 DEF AnswerWithCalls
  <2> HIDE DEF out
  <2>6. items' = a \o (out \o <<>>)
    BY <2>2, <2>4, ConcatEmptySeq
  <2> QED BY <1>1, <1>2, <1>4, <2>4, <2>5, <2>6, AnswerKeeps DEF a
<1>8. CASE AnswerWithBadCalls
  <2>0. PICK n \in 1..(MaxCalls - calls) :
           \E bad \in SUBSET ((calls + 1)..(calls + n)) :
             items' = ((items \o Committed) \o CallItems((calls + 1)..(calls + n)))
                        \o Outputs(bad, "refused")
    BY <1>8 DEF AnswerWithBadCalls
  <2>1. PICK bad \in SUBSET ((calls + 1)..(calls + n)) :
           items' = ((items \o Committed) \o CallItems((calls + 1)..(calls + n)))
                      \o Outputs(bad, "refused")
    BY <2>0
  <2> DEFINE out == CallItems((calls + 1)..(calls + n))
             ref == Outputs(bad, "refused")
  <2>2. items' = (a \o out) \o ref
    BY <2>1
  <2>3. (calls + 1)..(calls + n) \in SUBSET (1..MaxCalls)
    BY <1>2
  <2>4. out \in Seq(Items) /\ NoOutputs(out) /\ (style = "chat" => Len(out) <= 1)
    BY <1>5, <2>3
  <2>5. ref \in Seq(Items) /\ OnlyOutputs(ref)
    <3>1. bad \in SUBSET (1..MaxCalls)
      BY <2>3
    <3> QED BY <3>1, OutputsFacts
  <2>6. /\ pc' = "ask" /\ prompt' = NormalizeForPrompt(items') /\ pc = "model"
        /\ style' = style /\ diaries' = diaries /\ turn' = turn
    BY <1>8 DEF AnswerWithBadCalls
  <2> HIDE DEF out, ref, a
  <2>7. Associates(a, out, ref)
    BY <1>3, <2>4, <2>5, JoinAssociates
  <2>8. items' = a \o (out \o ref)
    BY <2>2, <2>7 DEF Associates
  <2> QED BY <1>1, <1>2, <2>4, <2>5, <2>6, <2>8, AnswerKeeps DEF a
<1> QED BY <1>6, <1>7, <1>8 DEF Answer

---------------------------------------------------------------------------
(* The other steps *)

LEMMA ForkInitInv ==
  ASSUME ForkInit
  PROVE  ForkInv
<1>1. Inv /\ prompt = <<>> /\ lastPrompt = <<>> /\ seen = <<>> /\ lastOutput = <<>>
  BY InitInv DEF ForkInit, Init
<1>2. ForkTypes
  <2>1. ResponseOK(<<>>, style)
    BY DEF ResponseOK, NoOutputs
  <2> QED BY <1>1, <2>1, SettledEmpty DEF ForkTypes
<1>3. OwnMessage /\ Heard
  BY <1>1 DEF ForkInit, Init, OwnMessage, Heard
<1> QED BY <1>1, <1>2, <1>3 DEF ForkInv

LEMMA SendStep ==
  ASSUME ForkInv, Inv', Send
  PROVE  ForkInv'
<1>1. /\ pc = "ask" /\ pc' = "model" /\ pending' = "sent" /\ prompt' = prompt
      /\ items' = items /\ turn' = turn /\ style' = style /\ diaries' = diaries
      /\ lastPrompt' = prompt /\ sending' = TRUE /\ fresh' = FALSE
      /\ lastOutput' = lastOutput /\ reading' = reading /\ seen' = seen
  BY DEF Send, SendPrompt
<1>2. ForkTypes'
  BY <1>1 DEF ForkInv, ForkTypes, Settled, ResponseOK
<1>3. OwnMessage'
  BY <1>1 DEF ForkInv, OwnMessage
<1>4. Heard'
  BY <1>1 DEF ForkInv, Heard
<1> QED BY <1>2, <1>3, <1>4 DEF ForkInv

\* A step that leaves the turn alone.
LEMMA ReaderStep ==
  ASSUME ForkInv, Inv', ForgetOutput \/ StartFork \/ UNCHANGED <<vars, forkVars>>
  PROVE  ForkInv'
<1>1. /\ pc' = pc /\ pending' = pending /\ prompt' = prompt /\ items' = items
      /\ turn' = turn /\ style' = style /\ diaries' = diaries /\ lastPrompt' = lastPrompt
      /\ compacted' = compacted
  BY DEF ForgetOutput, StartFork, vars, forkVars
<1>2. seen' \in {seen, lastPrompt} /\ lastOutput' \in {lastOutput, <<>>}
  BY DEF ForgetOutput, StartFork, forkVars
<1>3. reading' /\ fresh' => seen' = lastPrompt
  BY DEF ForgetOutput, StartFork, forkVars, ForkInv, ForkTypes
<1>4. ForkTypes'
  <2>1. ResponseOK(<<>>, style)
    BY DEF ResponseOK, NoOutputs
  <2>2. ForkTypes
    BY DEF ForkInv
  <2> QED BY <1>1, <1>2, <1>3, <2>1, <2>2 DEF ForkTypes, Settled
<1>5. OwnMessage'
  BY <1>1 DEF ForkInv, OwnMessage
<1>6. (IF sending THEN {} ELSE Elements(lastOutput))
        \subseteq (IF sending' THEN {} ELSE Elements(lastOutput'))
  BY DEF ForgetOutput, StartFork, forkVars
<1>7. Heard'
  BY <1>1, <1>6 DEF ForkInv, Heard
<1> QED BY <1>4, <1>5, <1>7 DEF ForkInv

LEMMA CompactHistoryStep ==
  ASSUME ForkInv, Inv', CompactHistory
  PROVE  ForkInv'
<1>1. /\ pc' = "input" /\ prompt' = prompt /\ style' = style /\ compacted'
      /\ lastPrompt' = lastPrompt /\ lastOutput' = lastOutput /\ sending' = sending
      /\ reading' = reading /\ seen' = seen /\ fresh' = fresh
  BY DEF CompactHistory, Compact, TurnVars
<1>2. ForkTypes'
  BY <1>1 DEF ForkInv, ForkTypes, Settled, ResponseOK
<1>3. OwnMessage' /\ Heard'
  BY <1>1 DEF OwnMessage, Heard
<1> QED BY <1>2, <1>3 DEF ForkInv

LEMMA ResumeStep ==
  ASSUME Inv', Resume
  PROVE  ForkInv'
<1>1. /\ pc' = "idle" /\ prompt' = <<>> /\ lastPrompt' = <<>> /\ lastOutput' = <<>>
      /\ reading' = FALSE /\ seen' = <<>>
  BY DEF Resume, Restart, Leave
<1>2. ForkTypes'
  <2>1. ResponseOK(<<>>, style')
    BY DEF ResponseOK, NoOutputs
  <2> QED BY <1>1, <2>1, SettledEmpty DEF ForkTypes
<1>3. OwnMessage' /\ Heard'
  BY <1>1 DEF OwnMessage, Heard
<1> QED BY <1>2, <1>3 DEF ForkInv

LEMMA ForkNextInv ==
  ASSUME ForkInv, [ForkNext]_<<vars, forkVars>>
  PROVE  ForkInv'
<1>1. Inv'
  <2>1. Inv
    BY DEF ForkInv
  <2>2. [Next]_vars
    <3>1. CASE Send
      BY <3>1 DEF Send, Next, LoopStep
    <3>2. CASE ForgetOutput \/ StartFork \/ UNCHANGED <<vars, forkVars>>
      BY <3>2 DEF ForgetOutput, StartFork
    <3>3. CASE Answer
      BY <3>3 DEF Answer, Next, LoopStep
    <3>4. CASE GoOn
      BY <3>4 DEF GoOn, Next, LoopStep
    <3>5. CASE CompactHistory
      BY <3>5 DEF CompactHistory, Next
    <3>6. CASE Resume
      BY <3>6 DEF Resume, Next
    <3> QED BY <3>1, <3>2, <3>3, <3>4, <3>5, <3>6 DEF ForkNext
  <2> QED BY <2>1, <2>2, NextInv
<1>2. CASE Send
  BY <1>1, <1>2, SendStep
<1>3. CASE ForgetOutput \/ StartFork \/ UNCHANGED <<vars, forkVars>>
  BY <1>1, <1>3, ReaderStep
<1>4. CASE Answer
  BY <1>1, <1>4, AnswerStep
<1>5. CASE GoOn
  BY <1>1, <1>5, GoOnStep
<1>6. CASE CompactHistory
  BY <1>1, <1>6, CompactHistoryStep
<1>7. CASE Resume
  BY <1>1, <1>7, ResumeStep
<1> QED BY <1>2, <1>3, <1>4, <1>5, <1>6, <1>7 DEF ForkNext

---------------------------------------------------------------------------
(* The theorem *)

LEMMA ForkIsShown ==
  ASSUME ForkInv
  PROVE  ForkIsShownAsTaken
<1> SUFFICES ASSUME reading, seen # <<>>
             PROVE  /\ IsPrefix(seen, FirstRequest)
                    /\ style = "chat" => FirstRequest = Fork
  BY DEF ForkIsShownAsTaken
<1> DEFINE h == PlaceholderToolOutputs(lastOutput)
<1>1. Settled(seen) /\ ResponseOK(lastOutput, style)
  BY DEF ForkInv, ForkTypes
<1>2. Fork = (seen \o lastOutput) \o h
  BY DEF Fork, ForkedInputItems
<1>3. h \in Seq(Items) /\ lastOutput \in Seq(Items) /\ seen \in Seq(Items)
  BY <1>1, PlaceholderFacts DEF Settled, ResponseOK
<1>4. style = "chat" => Settled((seen \o lastOutput) \o h)
  BY <1>1, <1>3, ForkSettled DEF ResponseOK
<1> HIDE DEF h
<1>5. style = "chat" => FirstRequest = Fork
  BY <1>2, <1>4, SettledStays DEF FirstRequest
<1>6. Associates(seen, lastOutput, h)
  BY <1>3, JoinAssociates
<1>7. lastOutput \o h \in Seq(Items)
  BY <1>3, ConcatProperties
<1>8. IsPrefix(seen, NormalizeForPrompt(seen \o (lastOutput \o h)))
  BY <1>1, <1>7, SettledBegins
<1>9. Fork = seen \o (lastOutput \o h)
  BY <1>2, <1>6 DEF Associates
<1> QED BY <1>5, <1>8, <1>9 DEF FirstRequest

LEMMA ForkHasAll ==
  ASSUME ForkInv
  PROVE  ForkHasTheConversation
<1> SUFFICES ASSUME reading, fresh, ~compacted, ~diaries,
                    NEW i \in DOMAIN items, items[i].kind \in {"user", "text"}
             PROVE  \E j \in DOMAIN FirstRequest : FirstRequest[j] = items[i]
  BY DEF ForkHasTheConversation
<1> DEFINE x == items[i]
           h == PlaceholderToolOutputs(lastOutput)
<1>1. /\ seen = lastPrompt /\ Settled(seen) /\ ResponseOK(lastOutput, style) /\ Heard
      /\ items \in Seq(Items)
  BY DEF ForkInv, ForkTypes, Inv, TypeOK
<1>2. x \in Said(items) /\ ~IsOutput(x)
  BY DEF Said, Elements, IsOutput
<1> HIDE DEF x, h
<1>3. Fork \in Seq(Items) /\ x \in Elements(Fork)
  <2>1. CASE seen = <<>>
    <3>1. Fork = CompletePromptHistory(items)
      BY <2>1 DEF Fork, ForkedInputItems
    <3> QED BY <1>1, <1>2, <3>1, CompletedHistory
  <2>2. CASE seen # <<>>
    <3>1. Fork = (seen \o lastOutput) \o h
      BY <2>2 DEF Fork, ForkedInputItems, h
    <3>2. x \in Elements(seen) \union Elements(lastOutput)
      BY <1>1, <1>2, <2>2 DEF Heard
    <3>3. h \in Seq(Items) /\ lastOutput \in Seq(Items) /\ seen \in Seq(Items)
      BY <1>1, PlaceholderFacts DEF Settled, ResponseOK, h
    <3> DEFINE a == seen \o lastOutput
    <3>4. a \in Seq(Items) /\ Elements(a) = Elements(seen) \union Elements(lastOutput)
      BY <3>3, ConcatProperties, ElementsOfBoth
    <3> HIDE DEF a
    <3>5. a \o h \in Seq(Items) /\ Elements(a \o h) = Elements(a) \union Elements(h)
      BY <3>3, <3>4, ConcatProperties, ElementsOfBoth
    <3> QED BY <3>1, <3>2, <3>4, <3>5 DEF a
  <2> QED BY <2>1, <2>2
<1>4. x \in Elements(FirstRequest)
  BY <1>2, <1>3, KeepsElements DEF FirstRequest
<1> QED BY <1>4 DEF Elements, x

\* A worker starts from the conversation its user has had so far: the prompt the parent's
\* model was shown, whole and unrepaired, the answer to it, and placeholders for what its
\* tools have not given yet (_forked_input_items).
THEOREM ForksAreFaithful == ForkSpec => []ForkIsFaithful
<1>1. ForkInit => ForkInv
  BY ForkInitInv
<1>2. ForkInv /\ [ForkNext]_<<vars, forkVars>> => ForkInv'
  BY ForkNextInv
<1>3. ForkInv => ForkIsFaithful
  BY ForkIsShown, ForkHasAll DEF ForkIsFaithful
<1> QED BY <1>1, <1>2, <1>3, PTL DEF ForkSpec
=============================================================================
