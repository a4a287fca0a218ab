--------------------------- MODULE LockstepProofs ---------------------------
(***************************************************************************)
(* Lockstep implements TickLog, for any clients and any bounds, and the    *)
(* replicas that are simulated on top of it agree.                         *)
(*                                                                         *)
(* The heart of the first part is InOrder: what a client has handled, what *)
(* waits in its _ticks and what is on its way to it are, one after the     *)
(* other, the log from the point where it subscribed.  The second part     *)
(* adds Simulated: a replica is what a new one, made from the seed of the  *)
(* match, becomes by the ticks its client has handled, and what a tick     *)
(* makes of a replica (TickMakes) knows nothing of whose replica it is.    *)
(***************************************************************************)
EXTENDS Replicas, ListLemmas, FiniteSetTheorems, SequenceTheorems, TLAPS

\* hs, ts and the batches of ib behind its first k entries are, one after the
\* other, the log lg from its entry s + 1.
Chain(hs, ts, ib, k, s, lg) ==
  /\ s + Len(hs) + Len(ts) + Len(ib) - k = Len(lg)
  /\ \A i \in 1..Len(ib) : i > k => ib[i].type = "messages"
  /\ \A i \in 1..Len(hs) : hs[i] = lg[s + i]
  /\ \A i \in 1..Len(ts) : ts[i] = lg[s + Len(hs) + i]
  /\ \A i \in 1..Len(ib) : i > k => ib[i].batch = lg[s + Len(hs) + Len(ts) + i - k]

\* Before a client plays, one entry precedes the batches: that it is subscribed.
Offset(c) == IF c \in playing THEN 0 ELSE 1

InOrder(c) ==
  /\ c \in subscribers
  /\ c \notin playing => Len(inbox[c]) > 0 /\ inbox[c][1].type = "subscribed"
  /\ Chain(handled[c], ticks[c], inbox[c], Offset(c), start[c], log)

NotYet(c) ==
  /\ c \notin subscribers /\ c \notin playing
  /\ handled[c] = <<>> /\ ticks[c] = <<>> /\ inbox[c] = <<>>

\* A subscription is asked for once.
AskedOnce ==
  \A i \in 1..Len(events) : events[i].type = "subscribe" =>
    /\ events[i].c \notin subscribers
    /\ \A j \in 1..Len(events) : events[j] = events[i] => j = i

Inv ==
  /\ TypeOK
  /\ AskedOnce
  /\ \A c \in Client : IF start[c] = -1 THEN NotYet(c) ELSE InOrder(c)

\* A batch that is published reaches the end of the chain ...
LEMMA ChainPublish ==
  ASSUME NEW hs \in Seq(Tick), NEW ts \in Seq(Tick), NEW ib \in Seq(Delivery),
         NEW k \in {0, 1}, NEW s \in Nat, NEW lg \in Seq(Tick), NEW e,
         e.type = "messages", k <= Len(ib), Chain(hs, ts, ib, k, s, lg)
  PROVE  Chain(hs, ts, Append(ib, e), k, s, Append(lg, e.batch))
<1> DEFINE jb == Append(ib, e)
           mg == Append(lg, e.batch)
<1>1. /\ Len(jb) = Len(ib) + 1 /\ jb[Len(ib) + 1] = e
      /\ \A i \in 1..Len(ib) : jb[i] = ib[i]
  OBVIOUS
<1>2. /\ Len(mg) = Len(lg) + 1 /\ mg[Len(lg) + 1] = e.batch
      /\ \A i \in 1..Len(lg) : mg[i] = lg[i]
  OBVIOUS
<1>3. Len(hs) \in Nat /\ Len(ts) \in Nat /\ Len(ib) \in Nat /\ Len(lg) \in Nat
  OBVIOUS
<1> HIDE DEF jb, mg
<1>4. s + Len(hs) + Len(ts) + Len(jb) - k = Len(mg)
  BY <1>1, <1>2, <1>3 DEF Chain
<1>5. ASSUME NEW i \in 1..Len(jb), i > k PROVE jb[i].type = "messages"
  <2>1. i = Len(ib) + 1 \/ i \in 1..Len(ib)
    BY <1>1, <1>3
  <2> QED BY <1>1, <1>5, <2>1 DEF Chain
<1>6. ASSUME NEW i \in 1..Len(hs) PROVE hs[i] = mg[s + i]
  <2>1. s + i \in 1..Len(lg)
    BY <1>3 DEF Chain
  <2> QED BY <1>2, <2>1 DEF Chain
<1>7. ASSUME NEW i \in 1..Len(ts) PROVE ts[i] = mg[s + Len(hs) + i]
  <2>1. s + Len(hs) + i \in 1..Len(lg)
    BY <1>3 DEF Chain
  <2> QED BY <1>2, <2>1 DEF Chain
<1>8. ASSUME NEW i \in 1..Len(jb), i > k
      PROVE  jb[i].batch = mg[s + Len(hs) + Len(ts) + i - k]
  <2>1. CASE i = Len(ib) + 1
    BY <1>1, <1>2, <1>3, <2>1 DEF Chain
  <2>2. CASE i \in 1..Len(ib)
    <3>1. s + Len(hs) + Len(ts) + i - k \in 1..Len(lg)
      BY <1>3, <1>8, <2>2 DEF Chain
    <3> QED BY <1>1, <1>2, <1>8, <2>2, <3>1 DEF Chain
  <2> QED BY <1>1, <1>3, <2>1, <2>2
<1>9. Chain(hs, ts, jb, k, s, mg)
  BY <1>4, <1>5, <1>6, <1>7, <1>8 DEF Chain
<1> QED BY <1>9 DEF jb, mg

\* ... the word that the client is subscribed leaves the front of its inbox ...
LEMMA ChainSubscribed ==
  ASSUME NEW hs \in Seq(Tick), NEW ts \in Seq(Tick), NEW ib \in Seq(Delivery),
         NEW s \in Nat, NEW lg \in Seq(Tick),
         ib # <<>>, Chain(hs, ts, ib, 1, s, lg)
  PROVE  Chain(hs, ts, Tail(ib), 0, s, lg)
<1> DEFINE jb == Tail(ib)
<1>1. /\ Len(jb) = Len(ib) - 1
      /\ \A i \in 1..Len(jb) : jb[i] = ib[i + 1] /\ i + 1 \in 1..Len(ib) /\ i + 1 > 1
  OBVIOUS
<1>2. Len(hs) \in Nat /\ Len(ts) \in Nat /\ Len(ib) \in Nat /\ Len(lg) \in Nat
  OBVIOUS
<1> HIDE DEF jb
<1>3. s + Len(hs) + Len(ts) + Len(jb) - 0 = Len(lg)
  BY <1>1, <1>2 DEF Chain
<1>4. ASSUME NEW i \in 1..Len(jb)
      PROVE  jb[i].type = "messages" /\ jb[i].batch = lg[s + Len(hs) + Len(ts) + i - 0]
  <2>1. s + Len(hs) + Len(ts) + (i + 1) - 1 = s + Len(hs) + Len(ts) + i - 0
    BY <1>1, <1>2
  <2>2. jb[i] = ib[i + 1] /\ i + 1 \in 1..Len(ib) /\ i + 1 > 1
    BY <1>1
  <2>3. /\ ib[i + 1].type = "messages"
        /\ ib[i + 1].batch = lg[s + Len(hs) + Len(ts) + (i + 1) - 1]
    BY <2>2 DEF Chain
  <2> QED BY <2>1, <2>2, <2>3
<1>5. Chain(hs, ts, jb, 0, s, lg)
  BY <1>3, <1>4 DEF Chain
<1> QED BY <1>5 DEF jb

\* ... a batch moves from the inbox to the ticks ...
LEMMA ChainMessages ==
  ASSUME NEW hs \in Seq(Tick), NEW ts \in Seq(Tick), NEW ib \in Seq(Delivery),
         NEW s \in Nat, NEW lg \in Seq(Tick),
         ib # <<>>, Chain(hs, ts, ib, 0, s, lg)
  PROVE  Chain(hs, Append(ts, ib[1].batch), Tail(ib), 0, s, lg)
<1> DEFINE jb == Tail(ib)
           us == Append(ts, ib[1].batch)
<1>1. /\ Len(jb) = Len(ib) - 1
      /\ \A i \in 1..Len(jb) : jb[i] = ib[i + 1] /\ i + 1 \in 1..Len(ib) /\ i + 1 > 0
  OBVIOUS
<1>2. /\ Len(us) = Len(ts) + 1 /\ us[Len(ts) + 1] = ib[1].batch
      /\ \A i \in 1..Len(ts) : us[i] = ts[i]
  OBVIOUS
<1>3. Len(hs) \in Nat /\ Len(ts) \in Nat /\ Len(ib) \in Nat /\ Len(lg) \in Nat
  OBVIOUS
<1>4. 1 \in 1..Len(ib) /\ 1 > 0
  OBVIOUS
<1> HIDE DEF jb, us
<1>5. s + Len(hs) + Len(us) + Len(jb) - 0 = Len(lg)
  <2> DEFINE h == Len(hs)
             t == Len(ts)
             i == Len(ib)
             u == Len(us)
             j == Len(jb)
             l == Len(lg)
  <2>1. s + h + t + i - 0 = l
    BY DEF Chain
  <2>2. u = t + 1 /\ j = i - 1
    BY <1>1, <1>2
  <2>3. h \in Nat /\ t \in Nat /\ i \in Nat /\ l \in Nat
    BY <1>3
  <2> HIDE DEF h, t, i, u, j, l
  <2>4. s + h + u + j - 0 = l
    BY <2>1, <2>2, <2>3
  <2> QED BY <2>4 DEF h, u, j, l
<1>6. ASSUME NEW i \in 1..Len(us) PROVE us[i] = lg[s + Len(hs) + i]
  <2>1. CASE i = Len(ts) + 1
    <3>1. s + Len(hs) + Len(ts) + 1 - 0 = s + Len(hs) + i
      BY <1>3, <2>1
    <3> QED BY <1>2, <1>4, <2>1, <3>1 DEF Chain
  <2>2. CASE i \in 1..Len(ts)
    BY <1>2, <2>2 DEF Chain
  <2> QED BY <1>2, <1>3, <2>1, <2>2
<1>7. ASSUME NEW i \in 1..Len(jb)
      PROVE  /\ jb[i].type = "messages"
             /\ jb[i].batch = lg[s + Len(hs) + Len(us) + i - 0]
  <2>1. s + Len(hs) + Len(ts) + (i + 1) - 0 = s + Len(hs) + Len(us) + i - 0
    BY <1>1, <1>2, <1>3
  <2>2. jb[i] = ib[i + 1] /\ i + 1 \in 1..Len(ib) /\ i + 1 > 0
    BY <1>1
  <2>3. /\ ib[i + 1].type = "messages"
        /\ ib[i + 1].batch = lg[s + Len(hs) + Len(ts) + (i + 1) - 0]
    BY <2>2 DEF Chain
  <2> QED BY <2>1, <2>2, <2>3
<1>8. Chain(hs, us, jb, 0, s, lg)
  BY <1>5, <1>6, <1>7 DEF Chain
<1> QED BY <1>8 DEF jb, us

\* ... and a frame handles all ticks there are.
LEMMA ChainProcess ==
  ASSUME NEW hs \in Seq(Tick), NEW ts \in Seq(Tick), NEW ib \in Seq(Delivery),
         NEW k \in {0, 1}, NEW s \in Nat, NEW lg \in Seq(Tick),
         Chain(hs, ts, ib, k, s, lg)
  PROVE  Chain(hs \o ts, <<>>, ib, k, s, lg)
<1> DEFINE gs == hs \o ts
           em == <<>>
<1>1. /\ Len(gs) = Len(hs) + Len(ts)
      /\ \A i \in 1..Len(gs) : gs[i] = IF i <= Len(hs) THEN hs[i] ELSE ts[i - Len(hs)]
  OBVIOUS
<1>2. Len(hs) \in Nat /\ Len(ts) \in Nat /\ Len(ib) \in Nat /\ Len(lg) \in Nat
  OBVIOUS
<1>3. Len(em) = 0
  OBVIOUS
<1> HIDE DEF gs, em
<1>4. s + Len(gs) + Len(em) + Len(ib) - k = Len(lg)
  BY <1>1, <1>2, <1>3 DEF Chain
<1>5. ASSUME NEW i \in 1..Len(gs) PROVE gs[i] = lg[s + i]
  <2>1. CASE i <= Len(hs)
    <3>1. i \in 1..Len(hs) /\ gs[i] = hs[i]
      BY <1>1, <1>2, <2>1
    <3> QED BY <3>1 DEF Chain
  <2>2. CASE i > Len(hs)
    <3>1. i - Len(hs) \in 1..Len(ts) /\ s + Len(hs) + (i - Len(hs)) = s + i
      BY <1>1, <1>2, <2>2
    <3> QED BY <1>1, <1>2, <2>2, <3>1 DEF Chain
  <2> QED BY <1>1, <1>2, <2>1, <2>2
<1>6. s + Len(gs) + Len(em) = s + Len(hs) + Len(ts)
  BY <1>1, <1>2, <1>3
<1>7. \A i \in 1..Len(em) : em[i] = lg[s + Len(gs) + i]
  BY <1>3
<1>8. Chain(gs, em, ib, k, s, lg)
  BY <1>4, <1>5, <1>6, <1>7 DEF Chain
<1> QED BY <1>8 DEF gs, em

\* The initial states have the invariant.
LEMMA InvInit == Init => Inv
  BY BoundsAssumption DEF Init, Inv, TypeOK, AskedOnce, NotYet, Message, Tick

\* The type invariant is inductive by itself.
LEMMA TypeStep == TypeOK /\ [Next]_vars => TypeOK'
<1> SUFFICES ASSUME TypeOK, [Next]_vars PROVE TypeOK'
  OBVIOUS
<1> USE BoundsAssumption DEF TypeOK
<1>1. CASE SendMessages
  <2>1. [type |-> "messages", batch |-> queued] \in Event
    BY DEF Event
  <2> QED BY <1>1, <2>1 DEF SendMessages, Tick
<1>2. CASE HandleSend
  <2>1. Head(events) \in Event /\ Tail(events) \in Seq(Event)
    BY <1>2 DEF HandleSend
  <2>2. Head(events).msg \in Message
    BY <1>2, <2>1 DEF HandleSend, Event
  <2> QED BY <1>2, <2>1, <2>2 DEF HandleSend, Tick
<1>3. CASE HandleSubscribe
  <2>1. Head(events) \in Event /\ Tail(events) \in Seq(Event)
    BY <1>3 DEF HandleSubscribe
  <2>2. Head(events).c \in Client
    BY <1>3, <2>1 DEF HandleSubscribe, Event
  <2>3. [type |-> "subscribed"] \in Delivery
    BY DEF Delivery
  <2> QED BY <1>3, <2>1, <2>2, <2>3 DEF HandleSubscribe
<1>4. CASE HandleMessages
  <2>1. Head(events) \in Event /\ Tail(events) \in Seq(Event)
    BY <1>4 DEF HandleMessages
  <2>2. Head(events).batch \in Tick /\ Head(events) \in Delivery
    BY <1>4, <2>1 DEF HandleMessages, Event, Delivery
  <2> QED BY <1>4, <2>1, <2>2 DEF HandleMessages
<1>5. ASSUME NEW c \in Client, OnMatchOid(c) PROVE TypeOK'
  <2>1. [type |-> "subscribe", c |-> c] \in Event
    BY DEF Event
  <2> QED BY <1>5, <2>1 DEF OnMatchOid
<1>6. ASSUME NEW c \in Client, OnMatchSubscribe(c) PROVE TypeOK'
  BY <1>6 DEF OnMatchSubscribe
<1>7. ASSUME NEW c \in Client, OnMessages(c) PROVE TypeOK'
  <2>1. Head(inbox[c]) \in Delivery /\ Tail(inbox[c]) \in Seq(Delivery)
    BY <1>7 DEF OnMessages
  <2>2. Head(inbox[c]).batch \in Tick
    BY <1>7, <2>1 DEF OnMessages, Delivery
  <2> QED BY <1>7, <2>1, <2>2 DEF OnMessages, Push
<1>8. ASSUME NEW c \in Client, SendMessage(c) PROVE TypeOK'
  <2>1. sent' \in Seq(Client) /\ Len(sent') \in Message
    BY <1>8 DEF SendMessage, Message
  <2>2. [type |-> "sendMessage", msg |-> Len(sent')] \in Event
    BY <2>1 DEF Event
  <2> QED BY <1>8, <2>1, <2>2 DEF SendMessage
<1>9. ASSUME NEW c \in Client, ProcessTicks(c) PROVE TypeOK'
  <2>1. handled[c] \o ticks[c] \in Seq(Tick) /\ <<>> \in Seq(Tick)
    OBVIOUS
  <2> QED BY <1>9, <2>1 DEF ProcessTicks
<1>10. CASE UNCHANGED vars
  BY <1>10 DEF vars
<1> QED BY <1>1, <1>2, <1>3, <1>4, <1>5, <1>6, <1>7, <1>8, <1>9, <1>10 DEF Next, Server

\* Nobody asks twice: a client asks when it is neither subscribed nor queued.
LEMMA AskedOnceStep == Inv /\ [Next]_vars => AskedOnce'
<1> SUFFICES ASSUME Inv, [Next]_vars PROVE AskedOnce'
  OBVIOUS
<1> USE DEF AskedOnce, Inv, TypeOK
\* Steps that only take an event off the queue, or put another kind behind it
<1>1. ASSUME events # <<>>, events' = Tail(events), subscribers' = subscribers
      PROVE  AskedOnce'
  <2>1. /\ Len(events') = Len(events) - 1
        /\ \A j \in 1..Len(events') : events'[j] = events[j + 1] /\ j + 1 \in 1..Len(events)
    BY <1>1
  <2> QED BY <1>1, <2>1
<1>2. ASSUME NEW e \in Event, events' = Append(events, e), subscribers' = subscribers,
             e.type # "subscribe"
      PROVE  AskedOnce'
  BY <1>2
<1>3. CASE SendMessages
  <2>1. [type |-> "messages", batch |-> queued] \in Event
    BY DEF Event
  <2> QED BY <1>2, <1>3, <2>1 DEF SendMessages
<1>4. CASE HandleSend
  BY <1>1, <1>4 DEF HandleSend
<1>5. CASE HandleSubscribe
  <2> SUFFICES ASSUME NEW i \in 1..Len(events'), events'[i].type = "subscribe"
               PROVE  /\ events'[i].c \notin subscribers'
                      /\ \A j \in 1..Len(events') : events'[j] = events'[i] => j = i
    OBVIOUS
  <2>1. events' = Tail(events) /\ events # <<>>
    BY <1>5 DEF HandleSubscribe
  <2>2. /\ Len(events') = Len(events) - 1
        /\ \A j \in 1..Len(events') : events'[j] = events[j + 1] /\ j + 1 \in 1..Len(events)
    BY <2>1
  <2>3. events[i + 1] # events[1]
    BY <2>2, <2>1
  <2>4. events[1] \in Event /\ events[1].type = "subscribe" /\ events[i + 1] \in Event
    BY <1>5, <2>1, <2>2 DEF HandleSubscribe
  <2>5. events[i + 1].type = "subscribe"
    BY <2>2
  <2>6. \A e \in Event : e.type = "subscribe" => e = [type |-> "subscribe", c |-> e.c]
    BY DEF Event
  <2>7. events[i + 1].c # events[1].c
    BY <2>3, <2>4, <2>5, <2>6
  <2>8. events[i + 1].c \notin subscribers
    BY <2>2, <2>5
  <2>9. subscribers' = subscribers \cup {events[1].c}
    BY <1>5, <2>1 DEF HandleSubscribe
  <2>10. events'[i].c \notin subscribers'
    BY <2>2, <2>7, <2>8, <2>9
  <2>11. \A j \in 1..Len(events') : events'[j] = events'[i] => j = i
    <3>1. ASSUME NEW j \in 1..Len(events'), events'[j] = events'[i] PROVE j = i
      <4>1. j + 1 = i + 1
        BY <2>2, <2>5, <3>1
      <4> QED BY <2>2, <4>1
    <3> QED BY <3>1
  <2> QED BY <2>10, <2>11
<1>6. CASE HandleMessages
  BY <1>1, <1>6 DEF HandleMessages
<1>7. ASSUME NEW c \in Client, OnMatchOid(c) PROVE AskedOnce'
  <2> DEFINE e == [type |-> "subscribe", c |-> c]
  <2>1. \A i \in 1..Len(events) : events[i] # e
    BY <1>7 DEF OnMatchOid, ToSet
  <2>2. /\ Len(events') = Len(events) + 1
        /\ events'[Len(events) + 1] = e
        /\ \A i \in 1..Len(events) : events'[i] = events[i]
    BY <1>7 DEF OnMatchOid
  <2> QED BY <1>7, <2>1, <2>2 DEF OnMatchOid
<1>8. ASSUME NEW c \in Client, SendMessage(c) PROVE AskedOnce'
  <2>1. Len(sent') \in Message
    BY <1>8, BoundsAssumption DEF SendMessage, Message
  <2>2. [type |-> "sendMessage", msg |-> Len(sent')] \in Event
    BY <2>1 DEF Event
  <2> QED BY <1>2, <1>8, <2>2 DEF SendMessage
<1>9. ASSUME NEW c \in Client, OnMatchSubscribe(c) \/ OnMessages(c) \/ ProcessTicks(c)
      PROVE  AskedOnce'
  BY <1>9 DEF OnMatchSubscribe, OnMessages, ProcessTicks
<1>10. CASE UNCHANGED vars
  BY <1>10 DEF vars
<1> QED BY <1>3, <1>4, <1>5, <1>6, <1>7, <1>8, <1>9, <1>10 DEF Next, Server

Ordered(c) == IF start[c] = -1 THEN NotYet(c) ELSE InOrder(c)

\* What a step does not touch stays in order.
LEMMA OrderedUnchanged ==
  ASSUME NEW c \in Client, Ordered(c),
         start'[c] = start[c], log' = log,
         c \in subscribers' <=> c \in subscribers, c \in playing' <=> c \in playing,
         inbox'[c] = inbox[c], ticks'[c] = ticks[c], handled'[c] = handled[c]
  PROVE  Ordered(c)'
  BY DEF Ordered, NotYet, InOrder, Offset, Chain

\* The log and what the clients make of it stay in order, whatever happens.
LEMMA OrderedStep ==
  ASSUME Inv, [Next]_vars, NEW d \in Client
  PROVE  Ordered(d)'
<1> USE DEF Inv, TypeOK
<1>0. Ordered(d)
  BY DEF Ordered
<1>1. CASE SendMessages \/ HandleSend
  BY <1>0, <1>1, OrderedUnchanged DEF SendMessages, HandleSend
<1>2. CASE HandleSubscribe
  <2>1. PICK c \in Client : /\ Head(events).c = c /\ c \notin subscribers
                            /\ subscribers' = subscribers \cup {c}
                            /\ inbox' = [inbox EXCEPT ![c] = Append(@, [type |-> "subscribed"])]
                            /\ start' = [start EXCEPT ![c] = Len(log)]
                            /\ UNCHANGED <<playing, ticks, handled, log>>
    <3>1. events[1] \in Event /\ events[1].type = "subscribe" /\ Head(events) = events[1]
      BY <1>2 DEF HandleSubscribe
    <3>2. events[1].c \in Client /\ events[1].c \notin subscribers
      BY <3>1, <1>2 DEF Event, AskedOnce, HandleSubscribe
    <3> QED BY <1>2, <3>1, <3>2 DEF HandleSubscribe
  <2>2. CASE d # c
    BY <1>0, <2>1, <2>2, OrderedUnchanged
  <2>3. CASE d = c
    <3>1. NotYet(c)
      BY <1>0, <2>1, <2>3 DEF Ordered, InOrder
    <3>2. inbox'[c] = <<[type |-> "subscribed"]>>
      BY <2>1, <3>1 DEF NotYet
    <3> QED BY <2>1, <2>3, <3>1, <3>2 DEF Ordered, NotYet, InOrder, Offset, Chain
  <2> QED BY <2>2, <2>3
<1>3. CASE HandleMessages
  <2> DEFINE e == Head(events)
  <2>1. /\ e.type = "messages" /\ log' = Append(log, e.batch)
        /\ inbox'[d] = IF d \in subscribers THEN Append(inbox[d], e) ELSE inbox[d]
        /\ UNCHANGED <<start, subscribers, playing, ticks, handled>>
    BY <1>3 DEF HandleMessages
  <2>2. CASE start[d] = -1
    BY <1>0, <2>1, <2>2 DEF Ordered, NotYet
  <2>3. CASE start[d] # -1
    <3>1. InOrder(d) /\ d \in subscribers /\ start[d] \in Nat
      BY <1>0, <2>3 DEF Ordered, InOrder
    <3>2. Offset(d) \in {0, 1} /\ Offset(d) <= Len(inbox[d])
      BY <3>1 DEF Offset, InOrder
    <3>3. inbox'[d] = Append(inbox[d], e)
      BY <2>1, <3>1
    <3> HIDE DEF e
    <3>4. Chain(handled[d], ticks[d], Append(inbox[d], e), Offset(d), start[d],
                Append(log, e.batch))
      BY <2>1, <3>1, <3>2, ChainPublish DEF InOrder
    <3>5. d \notin playing => Len(inbox'[d]) > 0 /\ inbox'[d][1].type = "subscribed"
      <4> SUFFICES ASSUME d \notin playing
                   PROVE  Len(inbox'[d]) > 0 /\ inbox'[d][1].type = "subscribed"
        OBVIOUS
      <4>1. Len(inbox[d]) > 0 /\ inbox[d][1].type = "subscribed" /\ inbox[d] \in Seq(Delivery)
        BY <3>1 DEF InOrder
      <4> DEFINE jb == Append(inbox[d], e)
      <4>2. Len(jb) = Len(inbox[d]) + 1 /\ jb[1] = inbox[d][1]
        BY <4>1
      <4>3. Len(jb) > 0
        BY <4>1, <4>2
      <4> QED BY <3>3, <4>1, <4>2, <4>3
    <3>6. InOrder(d)'
      BY <2>1, <3>1, <3>3, <3>4, <3>5 DEF InOrder, Offset
    <3> QED BY <2>1, <2>3, <3>6 DEF Ordered
  <2> QED BY <2>2, <2>3
<1>4. ASSUME NEW c \in Client, OnMatchOid(c) \/ SendMessage(c) PROVE Ordered(d)'
  BY <1>0, <1>4, OrderedUnchanged DEF OnMatchOid, SendMessage
<1>5. ASSUME NEW c \in Client, OnMatchSubscribe(c) PROVE Ordered(d)'
  <2>1. CASE d # c
    BY <1>0, <1>5, <2>1, OrderedUnchanged DEF OnMatchSubscribe
  <2>2. CASE d = c
    <3>1. InOrder(c) /\ start[c] # -1
      BY <1>0, <1>5, <2>2 DEF Ordered, NotYet, OnMatchSubscribe
    <3>2. inbox[c] # <<>> /\ inbox[c][1].type = "subscribed"
      BY <1>5 DEF OnMatchSubscribe
    <3>3. c \notin playing
      <4> SUFFICES ASSUME c \in playing PROVE FALSE
        OBVIOUS
      <4>1. Offset(c) = 0 /\ 1 \in 1..Len(inbox[c]) /\ 1 > 0
        BY <3>2 DEF Offset
      <4> QED BY <3>1, <3>2, <4>1 DEF InOrder, Chain
    <3>4. Chain(handled[c], ticks[c], inbox[c], 1, start[c], log) /\ start[c] \in Nat
      BY <3>1, <3>3 DEF InOrder, Offset
    <3>5. Chain(handled[c], ticks[c], Tail(inbox[c]), 0, start[c], log)
      BY <3>2, <3>4, ChainSubscribed
    <3>6. /\ c \in playing' /\ inbox'[c] = Tail(inbox[c])
          /\ UNCHANGED <<start, log, subscribers, ticks, handled>>
      BY <1>5 DEF OnMatchSubscribe
    <3>7. InOrder(c)'
      BY <3>1, <3>5, <3>6 DEF InOrder, Offset
    <3> QED BY <2>2, <3>1, <3>6, <3>7 DEF Ordered
  <2> QED BY <2>1, <2>2
<1>6. ASSUME NEW c \in Client, OnMessages(c) PROVE Ordered(d)'
  <2>1. CASE d # c
    BY <1>0, <1>6, <2>1, OrderedUnchanged DEF OnMessages
  <2>2. CASE d = c
    <3>1. InOrder(c) /\ start[c] # -1
      BY <1>0, <1>6, <2>2 DEF Ordered, NotYet, OnMessages
    <3>2. inbox[c] # <<>> /\ inbox[c][1].type = "messages"
      BY <1>6 DEF OnMessages
    <3>3. c \in playing /\ Offset(c) = 0
      BY <3>1, <3>2 DEF InOrder, Offset
    <3>4. Chain(handled[c], Append(ticks[c], inbox[c][1].batch), Tail(inbox[c]), 0, start[c], log)
      BY <3>1, <3>2, <3>3, ChainMessages DEF InOrder
    <3>5. /\ inbox'[c] = Tail(inbox[c])
          /\ ticks'[c] = Append(ticks[c], inbox[c][1].batch)
          /\ UNCHANGED <<start, log, subscribers, playing, handled>>
      BY <1>6 DEF OnMessages, Push
    <3>6. InOrder(c)'
      BY <3>1, <3>3, <3>4, <3>5 DEF InOrder, Offset
    <3> QED BY <2>2, <3>1, <3>5, <3>6 DEF Ordered
  <2> QED BY <2>1, <2>2
<1>7. ASSUME NEW c \in Client, ProcessTicks(c) PROVE Ordered(d)'
  <2>1. CASE d # c
    BY <1>0, <1>7, <2>1, OrderedUnchanged DEF ProcessTicks
  <2>2. CASE d = c
    <3>1. InOrder(c) /\ start[c] # -1 /\ c \in playing
      BY <1>0, <1>7, <2>2 DEF Ordered, NotYet, ProcessTicks
    <3>2. Chain(handled[c] \o ticks[c], <<>>, inbox[c], 0, start[c], log)
      BY <3>1, ChainProcess DEF InOrder, Offset
    <3>3. /\ handled'[c] = handled[c] \o ticks[c] /\ ticks'[c] = <<>>
          /\ UNCHANGED <<start, log, subscribers, playing, inbox>>
      BY <1>7 DEF ProcessTicks
    <3>4. InOrder(c)'
      BY <3>1, <3>2, <3>3 DEF InOrder, Offset
    <3> QED BY <2>2, <3>1, <3>3, <3>4 DEF Ordered
  <2> QED BY <2>1, <2>2
<1>8. CASE UNCHANGED vars
  BY <1>0, <1>8, OrderedUnchanged DEF vars
<1> QED BY <1>1, <1>2, <1>3, <1>4, <1>5, <1>6, <1>7, <1>8 DEF Next, Server

\* The types and the order are kept by every step.
LEMMA InvStep == Inv /\ [Next]_vars => Inv'
<1> SUFFICES ASSUME Inv, [Next]_vars PROVE Inv'
  OBVIOUS
<1>1. TypeOK' /\ AskedOnce'
  BY TypeStep, AskedOnceStep DEF Inv
<1>2. \A c \in Client : Ordered(c)'
  BY OrderedStep
<1> QED BY <1>1, <1>2 DEF Inv, Ordered

\* The types of the state, and the order of what each client has handled, holds
\* and is being sent.
THEOREM LockstepInvariant == Spec => []Inv
<1>1. Inv /\ [Next]_vars => Inv'
  BY InvStep
<1> QED BY InvInit, <1>1, PTL DEF Spec

\* The state of the match has its types (TypeOK).
THEOREM TypeCorrect == Spec => []TypeOK
<1>1. Inv => TypeOK
  BY DEF Inv
<1> QED BY LockstepInvariant, <1>1, PTL

-----------------------------------------------------------------------------
(* Lockstep implements TickLog. *)

\* What a frame handles is the next part of the log.
LEMMA FrameHandlesLog ==
  ASSUME Inv, NEW c \in Client, ProcessTicks(c)
  PROVE  L!Handle(c)
<1> DEFINE s == start[c]
           gs == handled[c] \o ticks[c]
           n == s + Len(gs)
<1> USE DEF Inv, TypeOK
<1>1. ticks[c] # <<>> /\ handled' = [handled EXCEPT ![c] = gs] /\ UNCHANGED <<log, start>>
  BY DEF ProcessTicks
<1>2. InOrder(c) /\ s \in Nat /\ s # -1
  BY DEF ProcessTicks, NotYet
<1>3. Chain(gs, <<>>, inbox[c], 0, s, log)
  BY <1>2, ChainProcess DEF ProcessTicks, InOrder, Offset
<1>4. /\ gs \in Seq(Tick) /\ Len(gs) = Len(handled[c]) + Len(ticks[c])
      /\ Len(ticks[c]) > 0 /\ Len(handled[c]) \in Nat
  BY <1>1
<1>5. Len(gs) \in Nat /\ Len(inbox[c]) \in Nat /\ Len(log) \in Nat
  BY <1>4
<1> HIDE DEF gs, s
<1>6. n <= Len(log) /\ \A i \in 1..Len(gs) : gs[i] = log[s + i]
  <2>1. s + Len(gs) + 0 + Len(inbox[c]) - 0 = Len(log)
    BY <1>3 DEF Chain
  <2> QED BY <1>2, <1>3, <1>5, <2>1 DEF Chain
<1>7. n \in 1..Len(log) /\ n > s + Len(handled[c])
  BY <1>2, <1>4, <1>5, <1>6
<1>8. /\ Len(SubSeq(log, s + 1, n)) = Len(gs)
      /\ \A i \in 1..Len(gs) : SubSeq(log, s + 1, n)[i] = log[s + i]
  BY <1>2, <1>5, <1>6, <1>7
<1>9. SubSeq(log, s + 1, n) \in Seq(Tick)
  BY <1>2, <1>5, <1>7
<1>10. SubSeq(log, s + 1, n) = gs
  <2> DEFINE sub == SubSeq(log, s + 1, n)
  <2>1. \A i \in 1..Len(sub) : sub[i] = gs[i]
    BY <1>6, <1>8
  <2>2. sub \in Seq(Tick) /\ Len(sub) = Len(gs)
    BY <1>8, <1>9
  <2> HIDE DEF sub, n
  <2>3. sub = gs
    BY <1>4, <2>1, <2>2, SeqEqual
  <2> QED BY <2>3 DEF sub
<1> QED BY <1>1, <1>2, <1>7, <1>10 DEF L!Handle, s

\* Each step is a step of the log of ticks or leaves it alone.
LEMMA StepImplements == Inv /\ [Next]_vars => [L!Next]_L!vars
<1> SUFFICES ASSUME Inv, [Next]_vars PROVE [L!Next]_L!vars
  OBVIOUS
<1> USE DEF Inv, TypeOK
<1>1. CASE HandleSubscribe
  <2>1. events[1] \in Event /\ events[1].type = "subscribe" /\ Head(events) = events[1]
    BY <1>1 DEF HandleSubscribe
  <2>2. events[1].c \in Client /\ events[1].c \notin subscribers
    BY <2>1, <1>1 DEF Event, AskedOnce, HandleSubscribe
  <2>3. start[events[1].c] = -1
    BY <2>2 DEF InOrder
  <2>4. L!Join(events[1].c)
    BY <1>1, <2>1, <2>2, <2>3 DEF HandleSubscribe, L!Join
  <2> QED BY <2>2, <2>4 DEF L!Next
<1>2. CASE HandleMessages
  <2>1. Head(events).batch \in Tick
    <3>1. Head(events) \in Event
      BY <1>2 DEF HandleMessages
    <3> QED BY <1>2, <3>1 DEF HandleMessages, Event
  <2>2. log' = Append(log, Head(events).batch) /\ UNCHANGED <<start, handled>>
    BY <1>2 DEF HandleMessages
  <2>3. SubSeq(log', 1, Len(log)) = log
    <3>1. SubSeq(log', 1, Len(log)) \in Seq(Tick) /\ Len(SubSeq(log', 1, Len(log))) = Len(log)
      BY <2>1, <2>2
    <3>2. \A i \in 1..Len(log) : SubSeq(log', 1, Len(log))[i] = log[i]
      BY <2>1, <2>2
    <3> QED BY <3>1, <3>2, SeqEqual
  <2>4. L!Publish
    BY <2>1, <2>2, <2>3 DEF L!Publish
  <2> QED BY <2>4 DEF L!Next
<1>3. ASSUME NEW c \in Client, ProcessTicks(c) PROVE L!Next
  BY <1>3, FrameHandlesLog DEF L!Next
<1>4. CASE UNCHANGED <<log, start, handled>>
  BY <1>4 DEF L!vars
<1>5. CASE SendMessages \/ HandleSend
  BY <1>4, <1>5 DEF SendMessages, HandleSend
<1>6. ASSUME NEW c \in Client,
             OnMatchOid(c) \/ OnMatchSubscribe(c) \/ OnMessages(c) \/ SendMessage(c)
      PROVE  UNCHANGED <<log, start, handled>>
  BY <1>6 DEF OnMatchOid, OnMatchSubscribe, OnMessages, SendMessage
<1>7. CASE UNCHANGED vars
  BY <1>4, <1>7 DEF vars
<1> QED BY <1>1, <1>2, <1>3, <1>4, <1>5, <1>6, <1>7 DEF Next, Server

\* Each client handles the log of the server's batches in order and each batch
\* once, from where it subscribed (NetworkedMessageMgr, BattleMessages.processTicks).
THEOREM LockstepImplementsTickLog == Spec => ImplementsTickLog
<1>1. Init => L!Init
  BY DEF Init, L!Init
<1> QED BY LockstepInvariant, StepImplements, <1>1, PTL DEF Spec, ImplementsTickLog, L!Spec

-----------------------------------------------------------------------------
(* Random numbers and names *)

\* A pick is an entry of the list.
LEMMA PickType ==
  ASSUME NEW S, NEW list \in Seq(S), list # <<>>, NEW seed \in Seed, NEW n \in Nat
  PROVE  Pick(list, seed, n) \in S
<1> DEFINE k == Len(seed)
           d == seed[1 + (n % k)]
           l == Len(list)
<1>1. seed \in Seq(Nat) /\ k \in Nat \ {0} /\ l \in Nat \ {0}
  BY SeedAssumption, EmptySeq, LenProperties
<1>2. n % k \in 0..(k - 1)
  <2> HIDE DEF k
  <2> QED
    BY <1>1
<1>3. 1 + (n % k) \in 1..k
  <2> HIDE DEF k
  <2> QED
    BY <1>1, <1>2
<1>4. d \in Nat
  BY <1>1, <1>3, ElementOfSeq
<1>5. 1 + (d % l) \in 1..l
  <2> HIDE DEF d, l
  <2> QED
    BY <1>1, <1>4
<1> HIDE DEF d
<1>6. list[1 + (d % l)] \in S
  BY <1>5, ElementOfSeq
<1> QED
  BY <1>6 DEF Pick, d

WellReplica == {r \in Replica : Len(r.villagers) <= NumVillagers}

\* The letters of the names are all claimed only when there are villagers for all of
\* them.
LEMMA FreeLetter ==
  ASSUME NEW vs \in Seq(Name), Len(vs) < NumVillagers
  PROVE  \E i \in 1..Len(Names) : ToSet(Names[i]) \cap ToSet(vs) = {}
<1> SUFFICES ASSUME \A i \in 1..Len(Names) : ToSet(Names[i]) \cap ToSet(vs) # {}
             PROVE  FALSE
  OBVIOUS
<1> DEFINE m == Len(Names)
           n == Len(vs)
           of == [i \in 1..m |-> CHOOSE j \in 1..n : vs[j] \in ToSet(Names[i])]
<1>1. m \in Nat /\ n \in Nat /\ n < m
  BY NamesAssumption, LenProperties
<1>2. ToSet(vs) = {vs[j] : j \in 1..n}
  BY LenProperties DEF ToSet
<1>3. \A i \in 1..m : \E j \in 1..n : vs[j] \in ToSet(Names[i])
  BY <1>2
<1>4. of \in [1..m -> 1..n] /\ \A i \in 1..m : vs[of[i]] \in ToSet(Names[i])
  BY <1>3
<1>5. /\ IsFiniteSet(1..m) /\ Cardinality(1..m) = m
      /\ IsFiniteSet(1..n) /\ Cardinality(1..n) = n
  <2> HIDE DEF m, n
  <2> QED
    BY <1>1, FS_Interval
<1>6. PICK i \in 1..m, j \in 1..m : i # j /\ of[i] = of[j]
  <2> HIDE DEF m, n, of
  <2> QED
    BY <1>1, <1>4, <1>5, FS_PigeonHole
<1>7. vs[of[i]] \in ToSet(Names[i]) \cap ToSet(Names[j])
  BY <1>4, <1>6
<1> QED
  BY <1>6, <1>7, NamesAssumption

\* generate adds one villager, with a name.
LEMMA GenerateType ==
  ASSUME NEW r \in Replica, Len(r.villagers) < NumVillagers
  PROVE  Generate(r) \in Replica /\ Len(Generate(r).villagers) = Len(r.villagers) + 1
<1> DEFINE vs == r.villagers
           free == {l \in ToSet(Names) : ToSet(l) \cap ToSet(vs) = {}}
           lists == Kept(Names, free)
           list == Pick(lists, r.netRandoms, r.drawn)
           name == Pick(list, r.netRandoms, r.drawn + 1)
           Some == Seq(Name) \ {<<>>}
<1>1. /\ vs \in Seq(Name) /\ r.selected \in [Client -> Name \cup {None}]
      /\ r.affinity \in [Client -> 0..Full] /\ r.netRandoms \in Seed /\ r.drawn \in Nat
  BY DEF Replica
<1>2. PICK i \in 1..Len(Names) : ToSet(Names[i]) \cap ToSet(vs) = {}
  BY <1>1, FreeLetter
<1>3. Names \in Seq(Some) /\ Names[i] \in free
  <2>1. Names \in Seq(Some) /\ Names[i] \in ToSet(Names)
    BY NamesAssumption, LenProperties DEF ToSet
  <2> QED
    BY <1>2, <2>1
<1>4. lists \in Seq(Some) /\ (Occurs(lists, free) <=> Occurs(Names, free \cap free))
  <2> HIDE DEF free, Some
  <2> QED
    BY <1>3, KeptProperties
<1>5. lists # <<>>
  <2>1. Occurs(Names, free \cap free)
    BY <1>3 DEF Occurs
  <2>2. Occurs(lists, free)
    BY <1>4, <2>1
  <2> HIDE DEF lists, free
  <2> QED
    BY <2>2 DEF Occurs
<1>6. list \in Some
  <2> HIDE DEF lists, Some
  <2> QED
    BY <1>1, <1>4, <1>5, PickType
<1>7. name \in Name
  <2> HIDE DEF list
  <2>1. r.drawn + 1 \in Nat
    BY <1>1
  <2> QED
    BY <1>1, <1>6, <2>1, PickType
<1>8. Generate(r) = [r EXCEPT !.villagers = Append(@, name), !.drawn = @ + 2 * 1]
  <2> HIDE DEF name
  <2>1. SeedDraws("VillagerGenerator") = 1
    BY DEF SeedDraws
  <2>2. Generate(r) = IF lists = <<>> THEN [r EXCEPT !.villagers = Append(@, Error)]
                      ELSE [r EXCEPT !.villagers = Append(@, name),
                                     !.drawn = @ + 2 * SeedDraws("VillagerGenerator")]
    BY DEF Generate, name
  <2> HIDE DEF lists
  <2> QED
    BY <1>5, <2>1, <2>2
<1> HIDE DEF name
<1>9. Append(vs, name) \in Seq(Name) /\ Len(Append(vs, name)) = Len(vs) + 1
  BY <1>1, <1>7, AppendProperties
<1>10. r.drawn + 2 * 1 \in Nat
  BY <1>1
<1> QED
  BY <1>1, <1>8, <1>9, <1>10 DEF Replica

\* The loop of update adds the villagers that are missing.
LEMMA UpdateType ==
  ASSUME NEW r \in WellReplica
  PROVE  Update(r) \in WellReplica
<1> DEFINE len == Len(r.villagers)
           n == NumVillagers - len
<1>1. CASE ~(n > 0)
  BY <1>1 DEF Update
<1>2. CASE n > 0
  <2> DEFINE Missing == {x \in Replica : Len(x.villagers) < NumVillagers}
             step == [p \in (1..n) \X Replica |-> IF p[2] \in Missing THEN Generate(p[2]) ELSE p[2]]
             Computed(f) == f = [i \in 0..n |-> IF i = 0 THEN r ELSE Generate(f[i - 1])]
             after == CHOOSE f : Computed(f)
  <2>1. n \in Nat /\ len \in Nat /\ r \in Replica /\ NumVillagers \in Nat
    BY <1>2, NamesAssumption, LenProperties DEF WellReplica, Replica
  <2>2. step \in [(1..n) \X Replica -> Replica]
    <3> HIDE DEF n
    <3>1. \A x \in Missing : Generate(x) \in Replica
      BY GenerateType
    <3> HIDE DEF Missing
    <3> QED
      BY <3>1
  <2>3. PICK f \in [0..n -> Replica] : Computes(f, n, r, step)
    <3> HIDE DEF n, step
    <3> QED
      BY <2>1, <2>2, LoopComputes
  <2> DEFINE T == {i \in 0..n : Len(f[i].villagers) = len + i}
  <2>4. \A i \in 1..n : i \in 0..n /\ i - 1 \in 0..n /\ f[i - 1] \in Replica
    BY <2>1
  <2>5. ASSUME NEW i \in 1..n, i - 1 \in T
        PROVE  f[i] = Generate(f[i - 1]) /\ i \in T
    <3>1. len + (i - 1) < NumVillagers
      BY <2>1
    <3>2. f[i - 1] \in Missing
      BY <2>4, <2>5, <3>1
    <3>3. step[<<i, f[i - 1]>>] = Generate(f[i - 1])
      <4> HIDE DEF n, Missing
      <4> QED
        BY <2>4, <3>2
    <3>4. f[i] = Generate(f[i - 1])
      <4> HIDE DEF step, n
      <4> QED
        BY <2>3, <3>3 DEF Computes
    <3>5. Len(f[i].villagers) = Len(f[i - 1].villagers) + 1
      BY <3>2, <3>4, GenerateType
    <3>6. Len(f[i - 1].villagers) + 1 = len + i
      <4> HIDE DEF len, n
      <4> QED
        BY <2>1, <2>4, <2>5
    <3> HIDE DEF len, n
    <3> QED
      BY <2>4, <3>4, <3>5, <3>6
  <2>6. 0 \in T
    BY <2>1, <2>3 DEF Computes
  <2>7. 0..n \subseteq T
    <3> HIDE DEF T, n
    <3> QED
      BY <2>1, <2>5, <2>6, LoopInduction
  <2>8. \A i \in 1..n : f[i] = Generate(f[i - 1])
    <3> HIDE DEF n, T
    <3> QED
      BY <2>4, <2>5, <2>7
  <2>9. f[0] = r
    BY <2>3 DEF Computes
  <2> HIDE DEF n, T, step, Missing
  <2>10. Computed(f)
    <3>1. \A i \in 0..n : i = 0 \/ i \in 1..n
      BY <2>1
    <3>2. \A i \in 0..n : f[i] = IF i = 0 THEN r ELSE Generate(f[i - 1])
      BY <2>8, <2>9, <3>1
    <3> QED
      BY <3>2
  <2>11. Computed(after)
    <3> HIDE DEF Computed
    <3> QED
      BY <2>10
  <2>12. after[0] = r /\ \A i \in 1..n : after[i] = Generate(after[i - 1])
    <3>1. 0 \in 0..n /\ \A i \in 1..n : i # 0
      BY <2>1
    <3> HIDE DEF after
    <3> QED
      BY <2>4, <2>11, <3>1
  <2>13. after[n] = f[n]
    <3> DEFINE U == {i \in 0..n : after[i] = f[i]}
    <3>1. 0 \in U /\ n \in 0..n
      BY <2>1, <2>9, <2>12
    <3>2. \A i \in 1..n : i - 1 \in U => i \in U
      BY <2>4, <2>8, <2>12
    <3>3. 0..n \subseteq U
      <4> HIDE DEF U
      <4> QED
        BY <2>1, <3>1, <3>2, LoopInduction
    <3> QED
      BY <3>1, <3>3
  <2>14. f[n] \in WellReplica
    <3>1. n \in 0..n /\ f[n] \in Replica /\ Len(f[n].villagers) = len + n
      BY <2>1, <2>7 DEF T
    <3>2. len + n = NumVillagers
      BY <2>1 DEF n
    <3> QED
      BY <2>1, <3>1, <3>2 DEF WellReplica
  <2>15. Update(r) = after[n]
    BY <1>2 DEF Update, n
  <2> QED
    BY <2>13, <2>14, <2>15
<1> QED
  BY <1>1, <1>2

-----------------------------------------------------------------------------
(* Messages and ticks *)

\* A replica, and the affinity of the menu that was opened
Shown == [replica : WellReplica, opened : (0..Full) \cup {None}]

\* The kind of a message decides what it has.
LEMMA ContentKinds ==
  ASSUME NEW msg \in Content
  PROVE  /\ msg.senderId \in Client /\ msg.name \in Name
         /\ msg.type \in {"select", "deselect", "action"}
BY DEF Content, SelectVillagerMessage, DeselectVillagerMessage, VillagerActionMessage

\* What handling a message makes of a replica does not depend on whose it is: the
\* numbers of a menu are not of the seed.
SelectedIn(r, sender, name) ==
  IF ~Living(r, name) \/ IsSelected(r, name) THEN r
  ELSE [r EXCEPT !.selected[sender] = name]

DeselectedIn(r, sender, name) ==
  IF r.selected[sender] # name THEN r ELSE [r EXCEPT !.selected[sender] = None]

ActedIn(r, sender, name, action) ==
  IF r.selected[sender] # name THEN r
  ELSE IF action # Sacrifice THEN [r EXCEPT !.selected[sender] = None]
  ELSE [r EXCEPT !.selected[sender] = None,
                 !.affinity[sender] = ClampBelow(@ - sacrificeLoss),
                 !.villagers = Kept(@, (Name \cup {Error}) \ {name})]

MessageIn(r, msg) ==
  CASE msg.type = "select" -> SelectedIn(r, msg.senderId, msg.name)
    [] msg.type = "deselect" -> DeselectedIn(r, msg.senderId, msg.name)
    [] msg.type = "action" -> ActedIn(r, msg.senderId, msg.name, msg.action)

LEMMA SelectShown ==
  ASSUME NEW c, NEW b \in Shown, NEW sender \in Client, NEW name \in Name
  PROVE  /\ HandleSelectVillager(c, b, sender, name) \in Shown
         /\ HandleSelectVillager(c, b, sender, name).replica = SelectedIn(b.replica, sender, name)
<1> DEFINE r == b.replica
           h == HandleSelectVillager(c, b, sender, name)
<1>1. /\ r \in WellReplica /\ b.opened \in (0..Full) \cup {None}
      /\ b = [replica |-> r, opened |-> b.opened]
  BY DEF Shown
<1>2. /\ r.villagers \in Seq(Name) /\ r.selected \in [Client -> Name \cup {None}]
      /\ r.affinity \in [Client -> 0..Full] /\ r.netRandoms \in Seed /\ r.drawn \in Nat
      /\ r \in Replica /\ Len(r.villagers) <= NumVillagers
  BY <1>1 DEF WellReplica, Replica
<1>3. CASE ~Living(r, name) \/ IsSelected(r, name)
  BY <1>3 DEF HandleSelectVillager, SelectedIn
<1>4. CASE ~(~Living(r, name) \/ IsSelected(r, name))
  <2> DEFINE q == [r EXCEPT !.selected[sender] = name]
             o == IF c = sender THEN r.affinity[sender] ELSE b.opened
  <2>1. Len(Actions) \in Nat /\ SeedDraws("VillagerCommandGenerator") = 0
    BY CommandsAssumption, LenProperties DEF SeedDraws
  <2>2. MenuDraws(c, sender) = 0
    BY <2>1 DEF MenuDraws
  <2>3. q \in Replica /\ q.villagers = r.villagers /\ q.drawn = r.drawn
    BY <1>2 DEF Replica
  <2>4. q \in WellReplica
    BY <1>2, <2>3 DEF WellReplica
  <2>5. [q EXCEPT !.drawn = @ + 0] = q
    <3> HIDE DEF q
    <3>1. q.drawn + 0 = q.drawn
      BY <1>2, <2>3
    <3>2. [q EXCEPT !.drawn = q.drawn] = q
      BY <2>3 DEF Replica
    <3> QED
      BY <3>1, <3>2
  <2>6. h = [replica |-> [q EXCEPT !.drawn = @ + 0], opened |-> o]
    <3>1. h = [b EXCEPT !.replica.selected[sender] = name,
                        !.replica.drawn = @ + MenuDraws(c, sender), !.opened = o]
      BY <1>1, <1>4 DEF HandleSelectVillager
    <3> QED
      BY <1>1, <2>2, <3>1
  <2>7. o \in (0..Full) \cup {None}
    BY <1>1, <1>2
  <2> HIDE DEF q, o
  <2>8. h \in Shown /\ h.replica = q
    BY <2>4, <2>5, <2>6, <2>7 DEF Shown
  <2> QED
    BY <1>4, <2>8 DEF SelectedIn, q
<1> QED
  BY <1>3, <1>4

LEMMA DeselectShown ==
  ASSUME NEW b \in Shown, NEW sender \in Client, NEW name \in Name
  PROVE  /\ HandleDeselectVillager(b, sender, name) \in Shown
         /\ HandleDeselectVillager(b, sender, name).replica
              = DeselectedIn(b.replica, sender, name)
<1> DEFINE r == b.replica
           q == [r EXCEPT !.selected[sender] = None]
<1>1. /\ r \in WellReplica /\ b.opened \in (0..Full) \cup {None}
      /\ b = [replica |-> r, opened |-> b.opened]
  BY DEF Shown
<1>2. q \in Replica /\ q.villagers = r.villagers /\ Len(r.villagers) <= NumVillagers
  BY <1>1 DEF WellReplica, Replica
<1>3. q \in WellReplica
  BY <1>2 DEF WellReplica
<1>4. [b EXCEPT !.replica.selected[sender] = None] = [replica |-> q, opened |-> b.opened]
  BY <1>1
<1> HIDE DEF q
<1>5. [replica |-> q, opened |-> b.opened] \in Shown
  BY <1>1, <1>3 DEF Shown
<1>6. CASE r.selected[sender] = name
  BY <1>4, <1>5, <1>6 DEF HandleDeselectVillager, DeselectedIn, q
<1>7. CASE r.selected[sender] # name
  BY <1>7 DEF HandleDeselectVillager, DeselectedIn
<1> QED
  BY <1>6, <1>7


LEMMA ActionShown ==
  ASSUME NEW b \in Shown, NEW sender \in Client, NEW name \in Name, NEW action
  PROVE  /\ HandleVillagerAction(b, sender, name, action) \in Shown
         /\ HandleVillagerAction(b, sender, name, action).replica
              = ActedIn(b.replica, sender, name, action)
<1> DEFINE r == b.replica
           left == Kept(r.villagers, (Name \cup {Error}) \ {name})
           less == ClampBelow(r.affinity[sender] - sacrificeLoss)
           q == [r EXCEPT !.selected[sender] = None]
           s == [r EXCEPT !.selected[sender] = None, !.affinity[sender] = less,
                          !.villagers = left]
<1>1. /\ r \in WellReplica /\ b.opened \in (0..Full) \cup {None}
      /\ b = [replica |-> r, opened |-> b.opened]
  BY DEF Shown
<1>2. /\ r.villagers \in Seq(Name) /\ r.selected \in [Client -> Name \cup {None}]
      /\ r.affinity \in [Client -> 0..Full] /\ r.netRandoms \in Seed /\ r.drawn \in Nat
      /\ r \in Replica /\ Len(r.villagers) <= NumVillagers
  BY <1>1 DEF WellReplica, Replica
<1>3. q \in WellReplica
  BY <1>2 DEF WellReplica, Replica
<1>4. left \in Seq(Name) /\ Len(left) <= NumVillagers
  <2>1. left \in Seq(Name) /\ Len(left) <= Len(r.villagers)
    BY <1>2, KeptProperties, KeptShorter
  <2>2. Len(left) \in Nat /\ Len(r.villagers) \in Nat /\ NumVillagers \in Nat
    BY <1>2, <2>1, LenProperties, NamesAssumption
  <2> HIDE DEF left
  <2> QED
    BY <1>2, <2>1, <2>2
<1>5. less \in 0..Full
  BY <1>2, CommandsAssumption DEF ClampBelow
<1>6. s \in WellReplica
  <2> HIDE DEF left, less
  <2> QED
    BY <1>2, <1>4, <1>5 DEF WellReplica, Replica
<1> DEFINE h == HandleVillagerAction(b, sender, name, action)
           a == ActedIn(r, sender, name, action)
<1>7. CASE r.selected[sender] # name
  BY <1>7 DEF HandleVillagerAction, ActedIn
<1>8. CASE r.selected[sender] = name /\ action # Sacrifice
  <2>1. h = [replica |-> q, opened |-> b.opened] /\ a = q
    BY <1>1, <1>8 DEF HandleVillagerAction, ActedIn
  <2> HIDE DEF q, h, a
  <2>2. h \in Shown /\ h.replica = a
    BY <1>1, <1>3, <2>1 DEF Shown
  <2> QED
    BY <2>2 DEF h, a
<1>9. CASE r.selected[sender] = name /\ action = Sacrifice
  <2>1. h = [replica |-> s, opened |-> b.opened]
    <3>1. h = [b EXCEPT !.replica.selected[sender] = None, !.replica.affinity[sender] = less,
                        !.replica.villagers = left]
      BY <1>9 DEF HandleVillagerAction
    <3> HIDE DEF less, left
    <3> QED
      BY <1>1, <3>1
  <2>2. a = s
    BY <1>9 DEF ActedIn
  <2> HIDE DEF s, h, a
  <2>3. h \in Shown /\ h.replica = a
    BY <1>1, <1>6, <2>1, <2>2 DEF Shown
  <2> QED
    BY <2>3 DEF h, a
<1> QED
  BY <1>7, <1>8, <1>9

LEMMA MessageShown ==
  ASSUME NEW c, NEW b \in Shown, NEW msg \in Content
  PROVE  /\ HandleMessage(c, b, msg) \in Shown
         /\ HandleMessage(c, b, msg).replica = MessageIn(b.replica, msg)
<1>1. /\ msg.senderId \in Client /\ msg.name \in Name
      /\ msg.type \in {"select", "deselect", "action"}
  BY ContentKinds
<1>2. CASE msg.type = "select"
  BY <1>1, <1>2, SelectShown DEF HandleMessage, MessageIn
<1>3. CASE msg.type = "deselect"
  BY <1>1, <1>3, DeselectShown DEF HandleMessage, MessageIn
<1>4. CASE msg.type = "action"
  BY <1>1, <1>4, ActionShown DEF HandleMessage, MessageIn
<1> QED
  BY <1>1, <1>2, <1>3, <1>4

\* The replicas of a loop over the messages of a tick
TickLoop(f, r, msgs) ==
  f[0] = r /\ \A i \in 1..Len(msgs) : f[i] = MessageIn(f[i - 1], msgs[i])

\* q is what a tick of these messages makes of r.
TickMakes(r, msgs, q) ==
  \E f \in [0..Len(msgs) -> WellReplica] : TickLoop(f, r, msgs) /\ q = Update(f[Len(msgs)])

\* What a tick makes of a replica does not depend on whose it is, either.
LEMMA TickShown ==
  ASSUME NEW c, NEW b \in Shown, NEW msgs \in Seq(Content)
  PROVE  /\ HandleTick(c, b, msgs) \in Shown
         /\ TickMakes(b.replica, msgs, HandleTick(c, b, msgs).replica)
<1> DEFINE n == Len(msgs)
           Turn(i, x) == HandleMessage(c, x, msgs[i])
           step == [p \in (1..n) \X Shown |-> Turn(p[1], p[2])]
           Computed(f) == f = [i \in 0..n |-> IF i = 0 THEN b ELSE Turn(i, f[i - 1])]
           after == CHOOSE f : Computed(f)
<1>1. n \in Nat /\ \A i \in 1..n : msgs[i] \in Content
  BY LenProperties, ElementOfSeq
<1>2. \A i \in 1..n, x \in Shown : /\ Turn(i, x) \in Shown
                                 /\ Turn(i, x).replica = MessageIn(x.replica, msgs[i])
  BY <1>1, MessageShown
<1>3. step \in [(1..n) \X Shown -> Shown]
  <2> HIDE DEF n, Turn
  <2> QED
    BY <1>2
<1>4. PICK f \in [0..n -> Shown] : Computes(f, n, b, step)
  <2> HIDE DEF n, step
  <2> QED
    BY <1>1, <1>3, LoopComputes
<1>5. \A i \in 1..n : i - 1 \in 0..n /\ i # 0 /\ i \in 0..n /\ f[i - 1] \in Shown
  BY <1>1
<1>6. f[0] = b /\ \A i \in 1..n : f[i] = Turn(i, f[i - 1])
  <2> HIDE DEF n, Turn
  <2> QED
    BY <1>4, <1>5 DEF Computes
<1>7. \A i \in 0..n : i = 0 \/ i \in 1..n
  BY <1>1
<1>8. Computed(f)
  <2> HIDE DEF n, Turn
  <2>1. \A i \in 0..n : f[i] = IF i = 0 THEN b ELSE Turn(i, f[i - 1])
    BY <1>6, <1>7
  <2> QED
    BY <2>1
<1>9. Computed(after)
  <2> HIDE DEF Computed
  <2> QED
    BY <1>8
<1>10. after[0] = b /\ \A i \in 1..n : after[i] = Turn(i, after[i - 1])
  <2>1. 0 \in 0..n
    BY <1>1
  <2> HIDE DEF after, n, Turn
  <2> QED
    BY <1>5, <1>9, <2>1
<1>11. after[n] = f[n]
  <2>1. \A i \in 1..n : after[i - 1] \in Shown => after[i] = step[<<i, after[i - 1]>>]
    <3> HIDE DEF n, after, Turn
    <3> QED
      BY <1>10
  <2>2. Computing(after, n, Shown, b, step)
    <3> HIDE DEF n, after, step, Turn
    <3> QED
      BY <1>10, <2>1 DEF Computing
  <2>3. \A i \in 0..n : after[i] = f[i]
    <3> HIDE DEF n, after, step
    <3> QED
      BY <1>1, <1>4, <2>2, LoopAgrees
  <2>4. n \in 0..n
    BY <1>1
  <2> HIDE DEF after, n
  <2> QED
    BY <2>3, <2>4
<1>12. HandleTick(c, b, msgs) = [f[n] EXCEPT !.replica = Update(@)]
  <2>1. HandleTick(c, b, msgs) = [after[n] EXCEPT !.replica = Update(@)]
    BY DEF HandleTick
  <2> HIDE DEF after
  <2> QED
    BY <1>11, <2>1
<1> DEFINE g == [i \in 0..n |-> f[i].replica]
<1>13. n \in 0..n /\ f[n] \in Shown
  BY <1>1
<1>14. /\ f[n].replica \in WellReplica /\ f[n].opened \in (0..Full) \cup {None}
       /\ f[n] = [replica |-> f[n].replica, opened |-> f[n].opened]
  BY <1>13 DEF Shown
<1>15. Update(f[n].replica) \in WellReplica
  BY <1>14, UpdateType
<1>16. HandleTick(c, b, msgs) = [replica |-> Update(f[n].replica), opened |-> f[n].opened]
  <2> HIDE DEF n
  <2> QED
    BY <1>12, <1>14
<1>17. g \in [0..n -> WellReplica] /\ g[n] = f[n].replica
  BY <1>13 DEF Shown
<1>18. TickLoop(g, b.replica, msgs)
  <2> HIDE DEF Turn
  <2>1. 0 \in 0..n
    BY <1>1
  <2>2. g[0] = b.replica
    BY <1>6, <2>1
  <2>3. \A i \in 1..n : g[i] = MessageIn(g[i - 1], msgs[i])
    <3> HIDE DEF n
    <3> QED
      BY <1>2, <1>5, <1>6
  <2> HIDE DEF g
  <2> QED
    BY <2>2, <2>3 DEF TickLoop
<1>19. HandleTick(c, b, msgs) \in Shown
  <2> HIDE DEF n
  <2> QED
    BY <1>14, <1>15, <1>16 DEF Shown
<1>20. HandleTick(c, b, msgs).replica = Update(g[n])
  <2> HIDE DEF n, g
  <2> QED
    BY <1>16, <1>17
<1> HIDE DEF g
<1>21. TickMakes(b.replica, msgs, HandleTick(c, b, msgs).replica)
  BY <1>17, <1>18, <1>20 DEF TickMakes
<1> QED
  BY <1>19, <1>21

\* A tick makes one thing of a replica.
LEMMA TickMakesOne ==
  ASSUME NEW r, NEW msgs \in Seq(Content), NEW q, NEW s,
         TickMakes(r, msgs, q), TickMakes(r, msgs, s)
  PROVE  q = s
<1> DEFINE n == Len(msgs)
<1>1. PICK f \in [0..n -> WellReplica] : TickLoop(f, r, msgs) /\ q = Update(f[n])
  BY DEF TickMakes
<1>2. PICK g \in [0..n -> WellReplica] : TickLoop(g, r, msgs) /\ s = Update(g[n])
  BY DEF TickMakes
<1>3. n \in Nat
  BY LenProperties
<1> DEFINE T == {i \in 0..n : f[i] = g[i]}
<1>4. 0 \in T /\ n \in 0..n
  BY <1>1, <1>2, <1>3 DEF TickLoop
<1>5. \A i \in 1..n : i - 1 \in T => i \in T
  BY <1>1, <1>2, <1>3 DEF TickLoop
<1>6. 0..n \subseteq T
  <2> HIDE DEF T, n
  <2> QED
    BY <1>3, <1>4, <1>5, LoopInduction
<1> QED
  BY <1>1, <1>2, <1>4, <1>6

-----------------------------------------------------------------------------
(* A battle, tick by tick *)

\* q is what the ticks of h make of r.
TicksMake(r, h, q) ==
  \E f \in [0..Len(h) -> WellReplica] :
    /\ f[0] = r
    /\ \A i \in 1..Len(h) : TickMakes(f[i - 1], h[i], f[i])
    /\ q = f[Len(h)]

\* What the messages of the ticks of h say
Said(says, h) == [i \in 1..Len(h) |-> [j \in 1..Len(h[i]) |-> says[h[i][j]]]]

LEMMA NewReplicaType ==
  ASSUME NEW seed \in Seed
  PROVE  NewReplica(seed) \in WellReplica
<1>1. <<>> \in Seq(Name) /\ Len(<<>>) = 0 /\ NumVillagers \in Nat /\ Full \in 0..Full
  BY EmptySeq, NamesAssumption, CommandsAssumption
<1> QED
  BY <1>1 DEF NewReplica, WellReplica, Replica

LEMMA NoTicks ==
  ASSUME NEW r \in WellReplica
  PROVE  TicksMake(r, <<>>, r)
<1> DEFINE f == [i \in 0..0 |-> r]
<1>1. f \in [0..0 -> WellReplica] /\ f[0] = r
  OBVIOUS
<1>2. Len(<<>>) = 0 /\ \A i \in 1..0 : FALSE
  OBVIOUS
<1> HIDE DEF f
<1> QED
  BY <1>1, <1>2 DEF TicksMake

\* The same ticks make the same replica.
LEMMA TicksMakeOne ==
  ASSUME NEW h \in Seq(Seq(Content)), NEW r, NEW q, NEW s,
         TicksMake(r, h, q), TicksMake(r, h, s)
  PROVE  q = s
<1> DEFINE n == Len(h)
<1>1. PICK f \in [0..n -> WellReplica] : /\ f[0] = r /\ q = f[n]
                                         /\ \A i \in 1..n : TickMakes(f[i - 1], h[i], f[i])
  BY DEF TicksMake
<1>2. PICK g \in [0..n -> WellReplica] : /\ g[0] = r /\ s = g[n]
                                         /\ \A i \in 1..n : TickMakes(g[i - 1], h[i], g[i])
  BY DEF TicksMake
<1>3. n \in Nat /\ \A i \in 1..n : h[i] \in Seq(Content)
  BY LenProperties, ElementOfSeq
<1> DEFINE T == {i \in 0..n : f[i] = g[i]}
<1>4. 0 \in T /\ n \in 0..n
  BY <1>1, <1>2, <1>3
<1>5. ASSUME NEW i \in 1..n, i - 1 \in T PROVE i \in T
  <2>1. TickMakes(f[i - 1], h[i], f[i]) /\ TickMakes(f[i - 1], h[i], g[i])
    BY <1>1, <1>2, <1>5
  <2>2. f[i] = g[i]
    BY <1>3, <2>1, TickMakesOne
  <2> QED
    BY <1>3, <2>2
<1>6. 0..n \subseteq T
  <2> HIDE DEF T, n
  <2> QED
    BY <1>3, <1>4, <1>5, LoopInduction
<1> QED
  BY <1>1, <1>2, <1>4, <1>6

\* More ticks go on from there.
LEMMA MoreTicks ==
  ASSUME NEW S, NEW g \in Seq(S), NEW h \in Seq(S), NEW r, NEW q, NEW s,
         TicksMake(r, g, q), TicksMake(q, h, s)
  PROVE  TicksMake(r, g \o h, s)
<1> DEFINE m == Len(g)
           n == Len(h)
           t == g \o h
<1>1. PICK a \in [0..m -> WellReplica] : /\ a[0] = r /\ q = a[m]
                                         /\ \A i \in 1..m : TickMakes(a[i - 1], g[i], a[i])
  BY DEF TicksMake
<1>2. PICK b \in [0..n -> WellReplica] : /\ b[0] = q /\ s = b[n]
                                         /\ \A i \in 1..n : TickMakes(b[i - 1], h[i], b[i])
  BY DEF TicksMake
<1>3. /\ m \in Nat /\ n \in Nat /\ Len(t) = m + n
      /\ \A i \in 1..(m + n) : t[i] = IF i <= m THEN g[i] ELSE h[i - m]
  BY LenProperties, ConcatProperties
<1> DEFINE f == [i \in 0..(m + n) |-> IF i <= m THEN a[i] ELSE b[i - m]]
<1> HIDE DEF m, n, t
<1>4. f \in [0..(m + n) -> WellReplica]
  <2>1. \A i \in 0..(m + n) : IF i <= m THEN i \in 0..m ELSE i - m \in 0..n
    BY <1>3
  <2> QED
    BY <2>1
<1>5. f[0] = r
  <2>1. 0 \in 0..(m + n) /\ 0 <= m
    BY <1>3
  <2> QED
    BY <1>1, <2>1
<1>6. f[m + n] = s
  <2>1. CASE n = 0
    <3>1. m + n = m /\ m \in 0..(m + n) /\ m <= m
      BY <1>3, <2>1
    <3> QED
      BY <1>1, <1>2, <2>1, <3>1
  <2>2. CASE n # 0
    <3>1. m + n \in 0..(m + n) /\ ~(m + n <= m) /\ (m + n) - m = n
      BY <1>3, <2>2
    <3> QED
      BY <1>2, <3>1
  <2> QED
    BY <2>1, <2>2
<1>7. ASSUME NEW i \in 1..(m + n) PROVE TickMakes(f[i - 1], t[i], f[i])
  <2>1. i \in 0..(m + n) /\ i - 1 \in 0..(m + n)
    BY <1>3
  <2>2. CASE i <= m
    <3>1. i - 1 <= m /\ i \in 1..m
      BY <1>3, <2>2
    <3>2. f[i] = a[i] /\ f[i - 1] = a[i - 1] /\ t[i] = g[i]
      BY <1>3, <2>1, <2>2, <3>1
    <3> HIDE DEF f
    <3> QED
      BY <1>1, <3>1, <3>2
  <2>3. CASE ~(i <= m)
    <3> DEFINE j == i - m
    <3>1. j \in 1..n /\ i - 1 - m = j - 1
      BY <1>3, <2>3
    <3>2. f[i] = b[j] /\ t[i] = h[j]
      BY <1>3, <2>1, <2>3
    <3>3. f[i - 1] = b[j - 1]
      <4>1. CASE i - 1 <= m
        <5>1. i - 1 = m /\ j - 1 = 0
          BY <1>3, <2>3, <4>1
        <5> QED
          BY <1>1, <1>2, <2>1, <4>1, <5>1
      <4>2. CASE ~(i - 1 <= m)
        BY <2>1, <3>1, <4>2
      <4> QED
        BY <4>1, <4>2
    <3> HIDE DEF f, j
    <3> QED
      BY <1>2, <3>1, <3>2, <3>3
  <2> QED
    BY <2>2, <2>3
<1> HIDE DEF f
<1>8. TicksMake(r, t, s)
  BY <1>3, <1>4, <1>5, <1>6, <1>7 DEF TicksMake
<1> QED
  BY <1>8 DEF t

\* A frame makes of a replica what its ticks make of it.
LEMMA FrameShown ==
  ASSUME NEW c, replica[c] \in WellReplica, Said(content, ticks[c]) \in Seq(Seq(Content)),
         Len(ticks[c]) \in Nat
  PROVE  /\ AfterTicks(c) \in Shown
         /\ TicksMake(replica[c], Said(content, ticks[c]), AfterTicks(c).replica)
<1> DEFINE n == Len(ticks[c])
           h == Said(content, ticks[c])
           b == [replica |-> replica[c], opened |-> None]
           Turn(i, x) == HandleTick(c, x, Messages(ticks[c][i]))
           step == [p \in (1..n) \X Shown |-> Turn(p[1], p[2])]
           Computed(f) == f = [i \in 0..n |-> IF i = 0 THEN b ELSE Turn(i, f[i - 1])]
           battle == CHOOSE f : Computed(f)
<1>1. n \in Nat /\ Len(h) = n /\ \A i \in 1..n : /\ h[i] = Messages(ticks[c][i])
                                              /\ h[i] \in Seq(Content)
  <2>1. n \in Nat
    OBVIOUS
  <2>2. Len(h) = n /\ \A i \in 1..n : h[i] = Messages(ticks[c][i])
    BY <2>1 DEF Said, Messages
  <2> HIDE DEF n, h
  <2>3. \A i \in 1..n : h[i] \in Seq(Content)
    BY <2>2, ElementOfSeq DEF h
  <2> QED
    BY <2>1, <2>2, <2>3 DEF n
<1> HIDE DEF h
<1>2. \A i \in 1..n, x \in Shown : Turn(i, x) \in Shown /\ TickMakes(x.replica, h[i], Turn(i, x).replica)
  BY <1>1, TickShown
<1>3. b \in Shown
  BY DEF Shown
<1>4. step \in [(1..n) \X Shown -> Shown]
  <2> HIDE DEF n, Turn
  <2> QED
    BY <1>2
<1>5. PICK f \in [0..n -> Shown] : Computes(f, n, b, step)
  <2> HIDE DEF n, step, b
  <2> QED
    BY <1>1, <1>3, <1>4, LoopComputes
<1>6. \A i \in 1..n : i - 1 \in 0..n /\ i # 0 /\ i \in 0..n /\ f[i - 1] \in Shown
  <2>1. n \in Nat
    BY <1>1
  <2> HIDE DEF n
  <2> QED
    BY <2>1
<1>7. f[0] = b /\ \A i \in 1..n : f[i] = Turn(i, f[i - 1])
  <2> HIDE DEF n, Turn, b
  <2> QED
    BY <1>5, <1>6 DEF Computes
<1>8. \A i \in 0..n : i = 0 \/ i \in 1..n
  BY <1>1
<1>9. Computed(f)
  <2> HIDE DEF n, Turn, b
  <2>1. \A i \in 0..n : f[i] = IF i = 0 THEN b ELSE Turn(i, f[i - 1])
    BY <1>7, <1>8
  <2> QED
    BY <2>1
<1>10. Computed(battle)
  <2> HIDE DEF Computed
  <2> QED
    BY <1>9
<1>11. battle[0] = b /\ \A i \in 1..n : battle[i] = Turn(i, battle[i - 1])
  <2>1. 0 \in 0..n
    BY <1>1
  <2> HIDE DEF battle, n, Turn, b
  <2> QED
    BY <1>6, <1>10, <2>1
<1>12. battle[n] = f[n]
  <2>1. \A i \in 1..n : battle[i - 1] \in Shown => battle[i] = step[<<i, battle[i - 1]>>]
    <3> HIDE DEF n, battle, Turn
    <3> QED
      BY <1>11
  <2>2. Computing(battle, n, Shown, b, step)
    <3> HIDE DEF n, battle, step, Turn, b
    <3> QED
      BY <1>11, <2>1 DEF Computing
  <2>3. \A i \in 0..n : battle[i] = f[i]
    <3> HIDE DEF n, battle, step, b
    <3> QED
      BY <1>1, <1>5, <2>2, LoopAgrees
  <2>4. n \in 0..n
    BY <1>1
  <2> HIDE DEF battle, n
  <2> QED
    BY <2>3, <2>4
<1>13. AfterTicks(c) = f[n]
  <2>1. AfterTicks(c) = battle[n]
    BY DEF AfterTicks
  <2> HIDE DEF battle
  <2> QED
    BY <1>12, <2>1
<1> DEFINE g == [i \in 0..n |-> f[i].replica]
<1>14. n \in 0..n /\ f[n] \in Shown /\ 0 \in 0..n
  BY <1>1
<1>15. g \in [0..n -> WellReplica] /\ g[n] = f[n].replica /\ g[0] = replica[c]
  BY <1>7, <1>14 DEF Shown
<1>16. \A i \in 1..n : TickMakes(g[i - 1], h[i], g[i])
  <2> HIDE DEF n, Turn
  <2>1. \A i \in 1..n : g[i] = f[i].replica /\ g[i - 1] = f[i - 1].replica
    BY <1>6
  <2> QED
    BY <1>2, <1>6, <1>7, <2>1
<1> HIDE DEF g
<1>17. TicksMake(replica[c], h, g[n])
  BY <1>1, <1>15, <1>16 DEF TicksMake
<1> QED
  BY <1>13, <1>14, <1>15, <1>17 DEF h

-----------------------------------------------------------------------------
(* Menus *)

\* Texts for some of the actions
Texts == UNION {[A -> CommandText] : A \in SUBSET ToSet(Actions)}

Distinct(texts) ==
  \A a, b \in DOMAIN texts : texts[a].letter = texts[b].letter => a = b

\* There are texts for every affinity; their letters are not taken.
LEMMA CommandTextsType ==
  ASSUME NEW action \in ToSet(Actions), NEW affinity \in 0..Full, NEW used,
         NEW t \in CommandTexts(action, affinity, used)
  PROVE  t \in CommandText /\ t.letter \notin used
<1> DEFINE R == {m \in minAffinity[action] : m <= affinity}
<1>1. /\ Full \in Nat /\ minAffinity[action] \subseteq 0..Full /\ 0 \in minAffinity[action]
  BY CommandsAssumption
<1>2. R \subseteq Nat /\ R # {} /\ \A m \in R : m <= Full
  BY <1>1
<1>3. \E m \in R : \A x \in R : m >= x
  <2> HIDE DEF R
  <2> QED
    BY <1>1, <1>2, Greatest
<1>4. Max(R) \in R
  <2> HIDE DEF R
  <2> QED
    BY <1>3 DEF Max
<1>5. Max(R) \in 0..Full
  BY <1>1, <1>4
<1>6. t \in [minAffinity : {Max(R)}, letter : Greeting \ used]
  BY DEF CommandTexts
<1> HIDE DEF R
<1> QED
  BY <1>5, <1>6 DEF CommandText

LEMMA WithType ==
  ASSUME NEW texts \in Texts, NEW action \in ToSet(Actions), NEW t \in CommandText
  PROVE  With(texts, action, t) \in Texts /\ DOMAIN With(texts, action, t) = DOMAIN texts \cup {action}
<1>1. PICK A \in SUBSET ToSet(Actions) : texts \in [A -> CommandText]
  BY DEF Texts
<1>2. With(texts, action, t) \in [A \cup {action} -> CommandText]
  BY <1>1 DEF With
<1>3. A \cup {action} \in SUBSET ToSet(Actions)
  BY <1>1
<1> HIDE DEF With
<1> QED
  BY <1>1, <1>2, <1>3 DEF Texts

\* A text whose first letter is new keeps the first letters distinct.
LEMMA WithDistinct ==
  ASSUME NEW texts, Distinct(texts), NEW action, NEW t, t.letter \notin Letters(texts)
  PROVE  Distinct(With(texts, action, t))
<1> DEFINE w == With(texts, action, t)
<1>1. /\ DOMAIN w = DOMAIN texts \cup {action}
      /\ w[action] = t /\ \A a \in DOMAIN texts : a # action => w[a] = texts[a]
  BY DEF With
<1>2. \A a \in DOMAIN texts : texts[a].letter # t.letter
  BY DEF Letters
<1> HIDE DEF w
<1>3. SUFFICES ASSUME NEW a \in DOMAIN w, NEW b \in DOMAIN w, w[a].letter = w[b].letter, a # b
               PROVE  FALSE
  BY DEF Distinct, w
<1>4. CASE a = action
  BY <1>1, <1>2, <1>3, <1>4
<1>5. CASE b = action
  BY <1>1, <1>2, <1>3, <1>5
<1>6. CASE a # action /\ b # action
  BY <1>1, <1>3, <1>6 DEF Distinct
<1> QED
  BY <1>4, <1>5, <1>6

\* A menu has a text for each action.
LEMMA MenusType ==
  ASSUME NEW affinity \in 0..Full, NEW texts \in Menus(affinity)
  PROVE  texts \in [ToSet(Actions) -> CommandText] /\ Distinct(texts)
<1> DEFINE n == Len(Actions)
           S == SUBSET Texts
           Next1(i, x) == {With(x, Actions[i], t) :
                             t \in CommandTexts(Actions[i], affinity, Letters(x))}
           Turn(i, ms) == UNION {Next1(i, x) : x \in ms}
           step == [p \in (1..n) \X S |-> Turn(p[1], p[2])]
           Computed(f) == f = [i \in 0..n |-> IF i = 0 THEN {<<>>} ELSE Turn(i, f[i - 1])]
           menus == CHOOSE f : Computed(f)
<1>1. n \in Nat /\ \A i \in 1..n : Actions[i] \in ToSet(Actions)
  BY CommandsAssumption, LenProperties, ElementOfSeq
<1>2. ASSUME NEW i \in 1..n, NEW x \in Texts, NEW y \in Next1(i, x)
      PROVE  /\ y \in Texts /\ DOMAIN y = DOMAIN x \cup {Actions[i]}
             /\ Distinct(x) => Distinct(y)
  <2>1. PICK t \in CommandTexts(Actions[i], affinity, Letters(x)) : y = With(x, Actions[i], t)
    OBVIOUS
  <2>2. t \in CommandText /\ t.letter \notin Letters(x)
    BY <1>1, CommandTextsType
  <2> QED
    BY <1>1, <2>1, <2>2, WithType, WithDistinct
<1> HIDE DEF Next1
<1>3. \A i \in 1..n, ms \in S : Turn(i, ms) \in S
  BY <1>2
<1>4. step \in [(1..n) \X S -> S]
  <2> HIDE DEF n, Turn, S
  <2> QED
    BY <1>3
<1>5. {<<>>} \in S
  <2>1. <<>> \in [{} -> CommandText]
    OBVIOUS
  <2> QED
    BY <2>1 DEF Texts
<1>6. PICK f \in [0..n -> S] : Computes(f, n, {<<>>}, step)
  <2> HIDE DEF n, step, S
  <2> QED
    BY <1>1, <1>4, <1>5, LoopComputes
<1>7. \A i \in 1..n : i - 1 \in 0..n /\ i # 0 /\ i \in 0..n /\ f[i - 1] \in S
  <2>1. n \in Nat
    BY <1>1
  <2> HIDE DEF n, S
  <2> QED
    BY <2>1
<1>8. f[0] = {<<>>} /\ \A i \in 1..n : f[i] = Turn(i, f[i - 1])
  <2> HIDE DEF n, Turn, S
  <2> QED
    BY <1>6, <1>7 DEF Computes
<1>9. \A i \in 0..n : i = 0 \/ i \in 1..n
  BY <1>1
<1>10. Computed(f)
  <2> HIDE DEF n, Turn, S
  <2>1. \A i \in 0..n : f[i] = IF i = 0 THEN {<<>>} ELSE Turn(i, f[i - 1])
    BY <1>8, <1>9
  <2> QED
    BY <2>1
<1>11. Computed(menus)
  <2> HIDE DEF Computed
  <2> QED
    BY <1>10
<1>12. menus[0] = {<<>>} /\ \A i \in 1..n : menus[i] = Turn(i, menus[i - 1])
  <2>1. 0 \in 0..n
    BY <1>1
  <2> HIDE DEF menus, n, Turn
  <2> QED
    BY <1>7, <1>11, <2>1
<1> DEFINE T == {i \in 0..n : \A x \in menus[i] : /\ x \in Texts /\ Distinct(x)
                                                /\ DOMAIN x = {Actions[j] : j \in 1..i}}
<1> HIDE DEF menus
<1>13. 0 \in T
  <2>1. 0 \in 0..n /\ {Actions[j] : j \in 1..0} = {}
    BY <1>1
  <2>2. <<>> \in Texts /\ DOMAIN <<>> = {}
    BY <1>5
  <2>3. Distinct(<<>>)
    BY <2>2 DEF Distinct
  <2> QED
    BY <1>12, <2>1, <2>2, <2>3
<1>14. ASSUME NEW i \in 1..n, i - 1 \in T PROVE i \in T
  <2>1. i \in 0..n /\ 1..i = (1..(i - 1)) \cup {i}
    BY <1>1
  <2> SUFFICES ASSUME NEW y \in menus[i]
               PROVE  /\ y \in Texts /\ Distinct(y)
                      /\ DOMAIN y = {Actions[j] : j \in 1..i}
    BY <2>1
  <2>2. PICK x \in menus[i - 1] : y \in Next1(i, x)
    BY <1>12
  <2>3. x \in Texts /\ Distinct(x) /\ DOMAIN x = {Actions[j] : j \in 1..(i - 1)}
    BY <1>14, <2>2
  <2>4. y \in Texts /\ DOMAIN y = DOMAIN x \cup {Actions[i]} /\ Distinct(y)
    BY <1>2, <2>2, <2>3
  <2>5. {Actions[j] : j \in 1..i} = {Actions[j] : j \in 1..(i - 1)} \cup {Actions[i]}
    BY <2>1
  <2> QED
    BY <2>3, <2>4, <2>5
<1>15. n \in T
  <2> HIDE DEF T
  <2>1. n \in 0..n
    BY <1>1
  <2> QED
    BY <1>1, <1>13, <1>14, <2>1, LoopInduction
<1>16. Menus(affinity) = menus[n]
  BY DEF Menus, menus, Next1
<1>17. texts \in Texts /\ Distinct(texts) /\ DOMAIN texts = {Actions[j] : j \in 1..n}
  BY <1>15, <1>16
<1>18. {Actions[j] : j \in 1..n} = ToSet(Actions)
  BY CommandsAssumption, LenProperties DEF ToSet
<1>19. texts \in [DOMAIN texts -> CommandText]
  BY <1>17 DEF Texts
<1> QED
  BY <1>17, <1>18, <1>19

-----------------------------------------------------------------------------
(* The messages there are *)

EventUpto(n) ==
  [type : {"subscribe"}, c : Client] \cup [type : {"sendMessage"}, msg : 1..n]
    \cup [type : {"messages"}, batch : Seq(1..n)]

\* What is queued and what has been published has been sent.
MessagesExist ==
  /\ queued \in Seq(1..Len(sent))
  /\ events \in Seq(EventUpto(Len(sent)))
  /\ log \in Seq(Seq(1..Len(sent)))

\* More are sent.
LEMMA EventUptoMore ==
  ASSUME NEW n \in Nat
  PROVE  /\ 1..n \subseteq 1..(n + 1)
         /\ Seq(1..n) \subseteq Seq(1..(n + 1))
         /\ EventUpto(n) \subseteq EventUpto(n + 1)
<1>1. 1..n \subseteq 1..(n + 1)
  OBVIOUS
<1>2. \A S, T : S \subseteq T => Seq(S) \subseteq Seq(T)
  OBVIOUS
<1>3. Seq(1..n) \subseteq Seq(1..(n + 1))
  BY <1>1, <1>2
<1> DEFINE A == 1..n
           B == 1..(n + 1)
           C == Seq(A)
           D == Seq(B)
<1> HIDE DEF A, B, C, D
<1>4. A \subseteq B /\ C \subseteq D
  BY <1>1, <1>3 DEF A, B, C, D
<1>5. [type : {"sendMessage"}, msg : A] \subseteq [type : {"sendMessage"}, msg : B]
  BY <1>4
<1>6. [type : {"messages"}, batch : C] \subseteq [type : {"messages"}, batch : D]
  BY <1>4
<1>7. EventUpto(n) \subseteq EventUpto(n + 1)
  BY <1>5, <1>6 DEF EventUpto, A, B, C, D
<1> QED
  BY <1>1, <1>3, <1>7

LEMMA MessagesExistStep == TypeOK /\ MessagesExist /\ [Next]_vars => MessagesExist'
<1> SUFFICES ASSUME TypeOK, MessagesExist, [Next]_vars PROVE MessagesExist'
  OBVIOUS
<1> DEFINE n == Len(sent)
           N == 1..n
           E == EventUpto(n)
<1>0. /\ n \in Nat /\ queued \in Seq(N) /\ events \in Seq(E) /\ log \in Seq(Seq(N))
  BY LenProperties DEF MessagesExist, TypeOK
<1>1. ASSUME sent' = sent, queued' \in Seq(N), events' \in Seq(E), log' \in Seq(Seq(N))
      PROVE  MessagesExist'
  BY <1>1 DEF MessagesExist
<1>2. ASSUME events # <<>>
      PROVE  /\ Head(events) \in E /\ Tail(events) \in Seq(E)
             /\ Head(events).type = "sendMessage" => Head(events).msg \in N
             /\ Head(events).type = "messages" => Head(events).batch \in Seq(N)
  <2>1. Head(events) \in E /\ Tail(events) \in Seq(E)
    <3> HIDE DEF E
    <3> QED
      BY <1>0, <1>2, HeadTailProperties
  <2> HIDE DEF N, n
  <2> QED
    BY <2>1 DEF EventUpto, N, n
<1> HIDE DEF N
<1>3. CASE SendMessages
  <2>1. [type |-> "messages", batch |-> queued] \in E
    BY <1>0 DEF EventUpto, N
  <2> HIDE DEF E
  <2> QED
    BY <1>0, <1>1, <1>3, <2>1, AppendProperties, EmptySeq DEF SendMessages
<1>4. CASE HandleSend
  <2> HIDE DEF E
  <2> QED
    BY <1>0, <1>1, <1>2, <1>4, AppendProperties DEF HandleSend
<1>5. CASE HandleSubscribe
  <2> HIDE DEF E
  <2> QED
    BY <1>0, <1>1, <1>2, <1>5 DEF HandleSubscribe
<1>6. CASE HandleMessages
  <2> HIDE DEF E
  <2>1. Append(log, Head(events).batch) \in Seq(Seq(N))
    BY <1>0, <1>2, <1>6, AppendProperties DEF HandleMessages
  <2> QED
    BY <1>0, <1>1, <1>2, <1>6, <2>1 DEF HandleMessages
<1>7. ASSUME NEW c \in Client, OnMatchOid(c) PROVE MessagesExist'
  <2>1. [type |-> "subscribe", c |-> c] \in E
    BY DEF EventUpto
  <2> HIDE DEF E
  <2> QED
    BY <1>0, <1>1, <1>7, <2>1, AppendProperties DEF OnMatchOid
<1>8. ASSUME NEW c \in Client, OnMatchSubscribe(c) \/ OnMessages(c) \/ ProcessTicks(c)
      PROVE  MessagesExist'
  <2> HIDE DEF E
  <2> QED
    BY <1>0, <1>1, <1>8 DEF OnMatchSubscribe, OnMessages, ProcessTicks
<1>9. ASSUME NEW c \in Client, SendMessage(c) PROVE MessagesExist'
  <2> DEFINE M == 1..(n + 1)
             F == EventUpto(n + 1)
  <2>1. Len(sent') = n + 1
    BY <1>9, AppendProperties DEF SendMessage, TypeOK
  <2>2. N \subseteq M /\ Seq(N) \subseteq Seq(M) /\ E \subseteq F
    BY <1>0, EventUptoMore DEF N
  <2>3. \A S, T : S \subseteq T => Seq(S) \subseteq Seq(T)
    OBVIOUS
  <2>4. Seq(E) \subseteq Seq(F) /\ Seq(Seq(N)) \subseteq Seq(Seq(M))
    <3> HIDE DEF E, F, M
    <3> QED
      BY <2>2, <2>3
  <2>5. [type |-> "sendMessage", msg |-> n + 1] \in F
    BY <1>0 DEF EventUpto
  <2>6. events' = Append(events, [type |-> "sendMessage", msg |-> n + 1])
    BY <1>9, <2>1 DEF SendMessage
  <2>7. events' \in Seq(F)
    <3> HIDE DEF E, F
    <3> QED
      BY <1>0, <2>4, <2>5, <2>6, AppendProperties
  <2>8. queued' \in Seq(M) /\ log' \in Seq(Seq(M))
    <3> HIDE DEF M
    <3> QED
      BY <1>0, <1>9, <2>2, <2>4 DEF SendMessage
  <2> QED
    BY <2>1, <2>7, <2>8 DEF MessagesExist
<1>10. CASE UNCHANGED vars
  <2> HIDE DEF E
  <2> QED
    BY <1>0, <1>1, <1>10 DEF vars
<1> QED
  BY <1>3, <1>4, <1>5, <1>6, <1>7, <1>8, <1>9, <1>10, Zenon DEF Next, Server

LEMMA SaidType ==
  ASSUME NEW S, NEW says \in Seq(S), NEW h \in Seq(Seq(1..Len(says)))
  PROVE  Said(says, h) \in Seq(Seq(S)) /\ Len(Said(says, h)) = Len(h)
<1> DEFINE n == Len(says)
           m == Len(h)
           saying(i) == [j \in 1..Len(h[i]) |-> says[h[i][j]]]
<1>1. n \in Nat /\ m \in Nat /\ \A i \in 1..m : h[i] \in Seq(1..n)
  BY LenProperties, ElementOfSeq
<1>2. \A k \in 1..n : says[k] \in S
  BY ElementOfSeq
<1> HIDE DEF n, m
<1>3. ASSUME NEW i \in 1..m PROVE saying(i) \in Seq(S)
  <2>1. h[i] \in Seq(1..n) /\ Len(h[i]) \in Nat /\ \A j \in 1..Len(h[i]) : h[i][j] \in 1..n
    BY <1>1, LenProperties, ElementOfSeq
  <2> QED
    BY <1>2, <2>1
<1>4. Said(says, h) = [i \in 1..m |-> saying(i)]
  BY DEF Said, m
<1> HIDE DEF saying
<1>5. [i \in 1..m |-> saying(i)] \in Seq(Seq(S)) /\ Len([i \in 1..m |-> saying(i)]) = m
  <2> DEFINE Q == Seq(S)
  <2>1. \A i \in 1..m : saying(i) \in Q
    BY <1>3
  <2> HIDE DEF Q
  <2>2. [i \in 1..m |-> saying(i)] \in Seq(Q) /\ Len([i \in 1..m |-> saying(i)]) = m
    BY <1>1, <2>1
  <2> QED
    BY <2>2 DEF Q
<1> QED
  BY <1>4, <1>5 DEF m

\* What has been said does not change with more that is said.
LEMMA SaidStays ==
  ASSUME NEW S, NEW says \in Seq(S), NEW x \in S, NEW h \in Seq(Seq(1..Len(says)))
  PROVE  Said(Append(says, x), h) = Said(says, h)
<1> DEFINE more == Append(says, x)
           n == Len(says)
           m == Len(h)
<1>1. n \in Nat /\ m \in Nat /\ \A i \in 1..m : h[i] \in Seq(1..n)
  BY LenProperties, ElementOfSeq
<1>2. \A k \in 1..n : more[k] = says[k]
  BY AppendProperties
<1> HIDE DEF n, m, more
<1>3. \A i \in 1..m : [j \in 1..Len(h[i]) |-> more[h[i][j]]] = [j \in 1..Len(h[i]) |-> says[h[i][j]]]
  <2> TAKE i \in 1..m
  <2>1. \A j \in 1..Len(h[i]) : h[i][j] \in 1..n
    BY <1>1, LenProperties, ElementOfSeq
  <2> QED
    BY <1>2, <2>1
<1>4. Said(more, h) = Said(says, h)
  BY <1>3 DEF Said, m
<1> QED
  BY <1>4 DEF more

LEMMA SaidConcat ==
  ASSUME NEW S, NEW says, NEW g \in Seq(S), NEW h \in Seq(S)
  PROVE  Said(says, g \o h) = Said(says, g) \o Said(says, h)
<1> DEFINE t == g \o h
           m == Len(g)
           n == Len(h)
           a == Said(says, g)
           b == Said(says, h)
           saying(tick) == [j \in 1..Len(tick) |-> says[tick[j]]]
<1>1. /\ m \in Nat /\ n \in Nat /\ Len(t) = m + n
      /\ \A i \in 1..(m + n) : t[i] = IF i <= m THEN g[i] ELSE h[i - m]
  BY LenProperties, ConcatProperties
<1>2. a = [i \in 1..m |-> saying(g[i])] /\ b = [i \in 1..n |-> saying(h[i])]
  BY DEF Said
<1>3. Said(says, t) = [i \in 1..Len(t) |-> saying(t[i])]
  BY DEF Said
<1> DEFINE Q == {saying(g[i]) : i \in 1..m} \cup {saying(h[i]) : i \in 1..n}
<1> HIDE DEF t, m, n, saying, a, b
<1>4. a \in Seq(Q) /\ b \in Seq(Q) /\ Len(a) = m /\ Len(b) = n
  <2>1. \A i \in 1..m : saying(g[i]) \in Q
    OBVIOUS
  <2>2. \A i \in 1..n : saying(h[i]) \in Q
    OBVIOUS
  <2> HIDE DEF Q
  <2>3. a \in Seq(Q) /\ Len(a) = m
    BY <1>1, <1>2, <2>1
  <2>4. b \in Seq(Q) /\ Len(b) = n
    BY <1>1, <1>2, <2>2
  <2> QED
    BY <2>3, <2>4
<1>5. /\ a \o b \in Seq(Q) /\ Len(a \o b) = m + n
      /\ \A i \in 1..(m + n) : (a \o b)[i] = IF i <= m THEN a[i] ELSE b[i - m]
  <2> HIDE DEF Q
  <2> QED
    BY <1>4, ConcatProperties
<1>6. \A i \in 1..(m + n) : IF i <= m THEN i \in 1..m ELSE i - m \in 1..n
  BY <1>1
<1>7. \A i \in 1..(m + n) : (a \o b)[i] = saying(t[i])
  BY <1>1, <1>2, <1>5, <1>6
<1>8. a \o b = [i \in 1..(m + n) |-> (a \o b)[i]]
  <2> DEFINE w == a \o b
  <2> HIDE DEF Q, w
  <2>1. w \in [1..Len(w) -> Q] /\ Len(w) = m + n
    BY <1>5, LenProperties DEF w
  <2>2. w = [i \in 1..(m + n) |-> w[i]]
    BY <2>1
  <2> QED
    BY <2>2 DEF w
<1>9. a \o b = Said(says, t)
  BY <1>1, <1>3, <1>7, <1>8
<1> QED
  BY <1>9 DEF t, a, b

-----------------------------------------------------------------------------
(* Replicas *)

Menu == {texts \in [ToSet(Actions) -> CommandText] : Distinct(texts)}

\* There is one seed, and every replica is what it and the ticks handled so far make.
Simulated ==
  \E seed \in Seed : \A c \in Client :
    TicksMake(NewReplica(seed), Said(content, handled[c]), replica[c])

ReplicasInv ==
  /\ Inv
  /\ MessagesExist
  /\ content \in Seq(Content) /\ Len(content) = Len(sent)
  /\ replica \in [Client -> WellReplica]
  /\ menu \in [Client -> Menu \cup {None}]
  /\ Simulated

\* What clients handle has been published.
LEMMA TicksExist ==
  ASSUME Inv, MessagesExist, NEW c \in Client
  PROVE  /\ handled[c] \in Seq(Seq(1..Len(sent)))
         /\ ticks[c] \in Seq(Seq(1..Len(sent)))
<1> DEFINE h == handled[c]
           t == ticks[c]
           Q == Seq(1..Len(sent))
<1>1. /\ h \in Seq(Tick) /\ t \in Seq(Tick) /\ Len(inbox[c]) \in Nat /\ log \in Seq(Q)
      /\ start[c] \in Nat \cup {-1}
  BY LenProperties DEF Inv, TypeOK, MessagesExist
<1> HIDE DEF Q
<1>2. Len(h) \in Nat /\ Len(t) \in Nat /\ Len(log) \in Nat
  BY <1>1, LenProperties
<1>3. \A i \in 1..Len(log) : log[i] \in Q
  BY <1>1, ElementOfSeq
<1>4. CASE start[c] = -1
  BY <1>4, EmptySeq DEF Inv, NotYet
<1>5. CASE start[c] # -1
  <2> DEFINE k == Offset(c)
             s == start[c]
             ib == inbox[c]
  <2>1. InOrder(c)
    BY <1>5, Zenon DEF Inv
  <2>2. Chain(h, t, ib, k, s, log) /\ (c \notin playing => Len(ib) > 0)
    BY <2>1, Zenon DEF InOrder
  <2>3. s \in Nat /\ k \in Nat /\ k <= Len(ib) /\ Len(ib) \in Nat
    BY <1>1, <1>5, <2>2 DEF Offset
  <2> HIDE DEF h, t, ib, k, s
  <2>4. s + Len(h) + Len(t) <= Len(log)
    BY <1>2, <2>2, <2>3 DEF Chain
  <2>5. ASSUME NEW i \in 1..Len(h) PROVE h[i] \in Q
    <3>1. s + i \in 1..Len(log) /\ h[i] = log[s + i]
      BY <1>2, <2>2, <2>3, <2>4 DEF Chain
    <3> QED
      BY <1>3, <3>1
  <2>6. ASSUME NEW i \in 1..Len(t) PROVE t[i] \in Q
    <3>1. s + Len(h) + i \in 1..Len(log) /\ t[i] = log[s + Len(h) + i]
      BY <1>2, <2>2, <2>3, <2>4 DEF Chain
    <3> QED
      BY <1>3, <3>1
  <2>7. \A S, T : \A q \in Seq(S) : (\A i \in 1..Len(q) : q[i] \in T) => q \in Seq(T)
    OBVIOUS
  <2>8. h \in Seq(Tick) /\ t \in Seq(Tick)
    BY <1>1 DEF h, t
  <2>9. h \in Seq(Q) /\ t \in Seq(Q)
    BY <2>5, <2>6, <2>7, <2>8
  <2> QED
    BY <2>9 DEF h, t, Q
<1> QED
  BY <1>4, <1>5

LEMMA ReplicasInvInit == ReplicasInit => ReplicasInv
<1> SUFFICES ASSUME ReplicasInit PROVE ReplicasInv
  OBVIOUS
<1>1. Init /\ Inv
  BY InvInit DEF ReplicasInit
<1>2. MessagesExist
  BY <1>1, EmptySeq DEF Init, MessagesExist
<1>3. content \in Seq(Content) /\ Len(content) = Len(sent)
  BY <1>1, EmptySeq DEF ReplicasInit, Init
<1>4. PICK seed \in Seed : replica = [c \in Client |-> NewReplica(seed)]
  BY DEF ReplicasInit
<1>5. NewReplica(seed) \in WellReplica
  BY NewReplicaType
<1>6. replica \in [Client -> WellReplica]
  BY <1>4, <1>5
<1>7. menu \in [Client -> Menu \cup {None}]
  BY DEF ReplicasInit
<1>8. ASSUME NEW c \in Client
      PROVE  TicksMake(NewReplica(seed), Said(content, handled[c]), replica[c])
  <2>1. handled[c] = <<>>
    BY <1>1 DEF Init
  <2>2. Said(content, <<>>) = <<>>
    BY DEF Said
  <2>3. replica[c] = NewReplica(seed)
    BY <1>4
  <2> QED
    BY <1>5, <2>1, <2>2, <2>3, NoTicks
<1> QED
  BY <1>1, <1>2, <1>3, <1>6, <1>7, <1>8 DEF ReplicasInv, Simulated

\* Every step is one of Lockstep.
LEMMA ReplicasStepNext == [ReplicasNext]_allVars => [Next]_vars
<1> SUFFICES ASSUME [ReplicasNext]_allVars PROVE [Next]_vars
  OBVIOUS
<1>1. CASE Network
  BY <1>1, Zenon DEF Network, Next
<1>2. ASSUME NEW c \in Client, Frame(c) PROVE Next
  <2>1. ProcessTicks(c)
    BY <1>2, Zenon DEF Frame
  <2> QED
    BY <2>1, Zenon DEF Next
<1>3. ASSUME NEW c \in Client, NEW said \in Content, Send(c, said) PROVE Next
  <2>1. SendMessage(c)
    BY <1>3, Zenon DEF Send
  <2> QED
    BY <2>1, Zenon DEF Next
<1>4. CASE UNCHANGED allVars
  BY <1>4 DEF allVars
<1> QED
  BY <1>1, <1>2, <1>3, <1>4, Zenon DEF ReplicasNext

LEMMA ReplicasInvStep == ReplicasInv /\ [ReplicasNext]_allVars => ReplicasInv'
<1> SUFFICES ASSUME ReplicasInv, [ReplicasNext]_allVars PROVE ReplicasInv'
  OBVIOUS
<1>1. [Next]_vars
  BY ReplicasStepNext
<1>2. Inv' /\ MessagesExist'
  BY <1>1, InvStep, MessagesExistStep DEF ReplicasInv, Inv
<1>3. /\ content \in Seq(Content) /\ Len(content) = Len(sent)
      /\ replica \in [Client -> WellReplica] /\ menu \in [Client -> Menu \cup {None}]
  BY DEF ReplicasInv
<1>4. PICK seed \in Seed : \A c \in Client :
        TicksMake(NewReplica(seed), Said(content, handled[c]), replica[c])
  BY DEF ReplicasInv, Simulated
<1>5. \A c \in Client : /\ handled[c] \in Seq(Seq(1..Len(content)))
                        /\ ticks[c] \in Seq(Seq(1..Len(content)))
  BY <1>3, TicksExist DEF ReplicasInv
\* Nothing is said or handled.
<1>6. ASSUME UNCHANGED <<content, replica, menu, sent, handled>> PROVE ReplicasInv'
  BY <1>2, <1>3, <1>4, <1>6 DEF ReplicasInv, Simulated
<1>7. CASE Network
  <2>1. UNCHANGED <<content, replica, menu>>
    BY <1>7, Zenon DEF Network, replicaVars
  <2>2. UNCHANGED <<sent, handled>>
    <3>1. CASE Server
      BY <3>1, Zenon DEF Server, SendMessages, HandleSend, HandleSubscribe, HandleMessages
    <3>2. ASSUME NEW c \in Client, OnMatchOid(c) \/ OnMatchSubscribe(c) \/ OnMessages(c)
          PROVE  UNCHANGED <<sent, handled>>
      BY <3>2, Zenon DEF OnMatchOid, OnMatchSubscribe, OnMessages
    <3> QED
      BY <1>7, <3>1, <3>2, Zenon DEF Network
  <2> QED
    BY <1>6, <2>1, <2>2
<1>8. ASSUME NEW c \in Client, NEW said \in Content, Send(c, said) PROVE ReplicasInv'
  <2>1. /\ content' = Append(content, said) /\ sent' = Append(sent, c) /\ handled' = handled
        /\ replica' = replica /\ menu' = menu
    BY <1>8, Zenon DEF Send, SendMessage
  <2>2. content' \in Seq(Content) /\ Len(content') = Len(content) + 1
    BY <1>3, <2>1, AppendProperties
  <2>3. Len(sent') = Len(sent) + 1
    BY <2>1, AppendProperties DEF ReplicasInv, Inv, TypeOK
  <2>4. \A d \in Client : Said(content', handled'[d]) = Said(content, handled[d])
    BY <1>3, <1>5, <2>1, SaidStays
  <2>5. Simulated'
    BY <1>4, <2>1, <2>4 DEF Simulated
  <2> QED
    BY <1>2, <1>3, <2>1, <2>2, <2>3, <2>5 DEF ReplicasInv
<1>9. ASSUME NEW c \in Client, Frame(c) PROVE ReplicasInv'
  <2> DEFINE after == AfterTicks(c)
  <2>1. ProcessTicks(c) /\ content' = content /\ replica' = [replica EXCEPT ![c] = after.replica]
    BY <1>9, Zenon DEF Frame
  <2>2. after.opened = None => menu' = menu
    BY <1>9, Zenon DEF Frame
  <2>3. after.opened # None => \E texts \in Menus(after.opened) : menu' = [menu EXCEPT ![c] = texts]
    BY <1>9, Zenon DEF Frame
  <2>4. Said(content, ticks[c]) \in Seq(Seq(Content)) /\ Len(ticks[c]) \in Nat
    BY <1>3, <1>5, SaidType, LenProperties
  <2>5. /\ after \in Shown
        /\ TicksMake(replica[c], Said(content, ticks[c]), after.replica)
    BY <1>3, <2>4, FrameShown
  <2> HIDE DEF after
  <2>6. after.replica \in WellReplica /\ after.opened \in (0..Full) \cup {None}
    BY <2>5 DEF Shown
  <2>7. sent' = sent /\ handled' = [handled EXCEPT ![c] = @ \o ticks[c]]
    BY <2>1, Zenon DEF ProcessTicks
  <2>8. replica' \in [Client -> WellReplica]
    BY <1>3, <2>1, <2>6
  <2>9. menu' \in [Client -> Menu \cup {None}]
    <3>1. CASE after.opened = None
      BY <1>3, <2>2, <3>1
    <3>2. CASE after.opened # None
      <4>1. PICK texts \in Menus(after.opened) : menu' = [menu EXCEPT ![c] = texts]
        BY <2>3, <3>2
      <4>2. after.opened \in 0..Full
        BY <2>6, <3>2
      <4>3. texts \in Menu
        BY <4>2, MenusType DEF Menu
      <4> QED
        BY <1>3, <4>1, <4>3
    <3> QED
      BY <3>1, <3>2
  <2>10. handled \in [Client -> Seq(Tick)]
    BY DEF ReplicasInv, Inv, TypeOK
  <2>11. ASSUME NEW d \in Client
         PROVE  TicksMake(NewReplica(seed), Said(content', handled'[d]), replica'[d])
    <3>1. CASE d = c
      <4> DEFINE g == handled[c]
                 h == ticks[c]
      <4>1. handled'[d] = g \o h /\ replica'[d] = after.replica
        BY <1>3, <2>1, <2>7, <2>10, <3>1
      <4>2. Said(content, g \o h) = Said(content, g) \o Said(content, h)
        BY <1>5, SaidConcat
      <4>3. Said(content, g) \in Seq(Seq(Content)) /\ Said(content, h) \in Seq(Seq(Content))
        BY <1>3, <1>5, <2>4, SaidType
      <4>4. TicksMake(NewReplica(seed), Said(content, g), replica[c])
        BY <1>4
      <4>5. TicksMake(replica[c], Said(content, h), after.replica)
        BY <2>5
      <4> HIDE DEF g, h
      <4>6. TicksMake(NewReplica(seed), Said(content, g) \o Said(content, h), after.replica)
        BY <4>3, <4>4, <4>5, MoreTicks
      <4> QED
        BY <2>1, <4>1, <4>2, <4>6
    <3>2. CASE d # c
      BY <1>3, <1>4, <2>1, <2>7, <2>10, <3>2
    <3> QED
      BY <3>1, <3>2
  <2>12. Simulated'
    BY <2>11 DEF Simulated
  <2> QED
    BY <1>2, <1>3, <2>1, <2>7, <2>8, <2>9, <2>12 DEF ReplicasInv
<1>10. CASE UNCHANGED allVars
  BY <1>6, <1>10, Zenon DEF allVars, vars, replicaVars
<1> QED
  BY <1>7, <1>8, <1>9, <1>10, Zenon DEF ReplicasNext

LEMMA ReplicasInvariant == ReplicasSpec => []ReplicasInv
  BY ReplicasInvInit, ReplicasInvStep, PTL DEF ReplicasSpec

\* The same number of ticks handled from the same point on are the same ticks.
LEMMA HandledAlike ==
  ASSUME Inv, NEW c \in Client, NEW d \in Client,
         start[c] = start[d], Len(handled[c]) = Len(handled[d])
  PROVE  handled[c] = handled[d]
<1> DEFINE g == handled[c]
           h == handled[d]
           s == start[c]
<1>1. g \in Seq(Tick) /\ h \in Seq(Tick)
  BY DEF Inv, TypeOK
<1>2. CASE start[c] = -1
  BY <1>2 DEF Inv, NotYet
<1>3. CASE start[c] # -1
  <2>1. InOrder(c) /\ InOrder(d)
    BY <1>3, Zenon DEF Inv
  <2>2. \A i \in 1..Len(g) : g[i] = log[s + i]
    BY <2>1 DEF InOrder, Chain
  <2>3. \A i \in 1..Len(h) : h[i] = log[s + i]
    BY <2>1 DEF InOrder, Chain
  <2>4. Len(g) = Len(h)
    OBVIOUS
  <2> HIDE DEF g, h, s
  <2>5. g = h
    BY <1>1, <2>2, <2>3, <2>4, SeqEqual
  <2> QED
    BY <2>5 DEF g, h
<1> QED
  BY <1>2, <1>3

\* The types of the replicas.  That no villager is called Error, or that the last
\* letter is never claimed, is part of it: VillagerGenerator always finds a name.
THEOREM ReplicasTypeCorrect == ReplicasSpec => []ReplicasTypeOK
<1>1. ReplicasInv => ReplicasTypeOK
  <2> SUFFICES ASSUME ReplicasInv PROVE ReplicasTypeOK
    OBVIOUS
  <2>1. WellReplica \subseteq Replica /\ Menu \subseteq [ToSet(Actions) -> CommandText]
    BY DEF WellReplica, Menu
  <2>2. replica \in [Client -> Replica]
    BY <2>1 DEF ReplicasInv
  <2>3. menu \in [Client -> [ToSet(Actions) -> CommandText] \cup {None}]
    BY <2>1 DEF ReplicasInv
  <2> QED
    BY <2>2, <2>3 DEF ReplicasInv, ReplicasTypeOK, Inv
<1> QED
  BY <1>1, ReplicasInvariant, PTL

\* Two clients that have handled as many ticks from the same point on have the same
\* battle, whatever their menus have been: nothing but the ticks goes into a battle
\* (BattleMessages.processTicks, BattleCtx.randomsFor).
THEOREM ReplicasInAgreement == ReplicasSpec => []ReplicasAgree
<1>1. ReplicasInv => ReplicasAgree
  <2> SUFFICES ASSUME ReplicasInv, NEW c \in Client, NEW d \in Client,
                      start[c] = start[d], Len(handled[c]) = Len(handled[d])
               PROVE  replica[c] = replica[d]
    BY DEF ReplicasAgree
  <2>1. PICK seed \in Seed : \A e \in Client :
          TicksMake(NewReplica(seed), Said(content, handled[e]), replica[e])
    BY DEF ReplicasInv, Simulated
  <2>2. handled[c] = handled[d]
    BY HandledAlike DEF ReplicasInv
  <2>3. Said(content, handled[c]) \in Seq(Seq(Content))
    BY TicksExist, SaidType DEF ReplicasInv
  <2>4. /\ TicksMake(NewReplica(seed), Said(content, handled[c]), replica[c])
        /\ TicksMake(NewReplica(seed), Said(content, handled[c]), replica[d])
    BY <2>1, <2>2
  <2> QED
    BY <2>3, <2>4, TicksMakeOne
<1> QED
  BY <1>1, ReplicasInvariant, PTL

\* Every menu can be typed: it has all actions, told apart by their first letters
\* (Player.selectVillager, VillagerCommandGenerator.getCommandText).
THEOREM MenusTypable == ReplicasSpec => []MenuTypable
<1>1. ReplicasInv => MenuTypable
  <2> SUFFICES ASSUME ReplicasInv, NEW c \in Client, menu[c] # None
               PROVE  /\ DOMAIN menu[c] = ToSet(Actions)
                      /\ \A a, b \in DOMAIN menu[c] :
                           menu[c][a].letter = menu[c][b].letter => a = b
    BY DEF MenuTypable
  <2>1. menu[c] \in Menu
    BY DEF ReplicasInv
  <2> QED
    BY <2>1 DEF Menu, Distinct
<1> QED
  BY <1>1, ReplicasInvariant, PTL

\* With menus and all, the match is the log of ticks.
THEOREM ReplicasImplementTickLog == ReplicasSpec => ImplementsTickLog
<1>1. ReplicasInit => Init
  BY DEF ReplicasInit
<1> QED
  BY <1>1, ReplicasStepNext, LockstepImplementsTickLog, PTL DEF ReplicasSpec, Spec
=============================================================================
