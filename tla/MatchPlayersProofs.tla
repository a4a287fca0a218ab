-------------------------- MODULE MatchPlayersProofs --------------------------
(***************************************************************************)
(* Who plays in a match of MatchServer, for any number of sessions and     *)
(* matches and any bounds: two players with different names, whose client  *)
(* objects name that match and no other; and how such a match is closed.   *)
(***************************************************************************)
EXTENDS MatchServerProofs

-----------------------------------------------------------------------------
(* What lies ahead of what in the queue                                    *)

Ahead(q, e, f) == \E i, j \in 1..Len(q) : i < j /\ q[i] = e /\ q[j] = f

\* The queue r is q with events of F posted behind it.
Extends(q, r, F) ==
  /\ ToSet(q) \subseteq ToSet(r)
  /\ ToSet(r) \subseteq ToSet(q) \cup F
  /\ \A e, f : Ahead(r, e, f) => Ahead(q, e, f) \/ (e \in ToSet(r) /\ f \in F)

\* What is posted is behind all that was queued, and ahead of nothing.
LEMMA ExtendsAppend ==
  ASSUME NEW q \in Seq(Event), NEW x \in Event
  PROVE  /\ Extends(q, Append(q, x), {x})
         /\ \A e, f : Ahead(Append(q, x), e, f) => Ahead(q, e, f) \/ (e \in ToSet(q) /\ f = x)
<1> DEFINE r == Append(q, x)
<1>1. /\ Len(r) = Len(q) + 1 /\ r[Len(q) + 1] = x
      /\ \A i \in 1..Len(q) : r[i] = q[i]
  BY AppendProperties
<1>2. Len(q) \in Nat /\ DOMAIN q = 1..Len(q) /\ ToSet(r) = ToSet(q) \cup {x}
  BY LenProperties, ToSetAppend
<1> HIDE DEF r
<1>3. ASSUME NEW e, NEW f, Ahead(r, e, f) PROVE Ahead(q, e, f) \/ (e \in ToSet(q) /\ f = x)
  <2> PICK i \in 1..Len(r), j \in 1..Len(r) : i < j /\ r[i] = e /\ r[j] = f
    BY <1>3 DEF Ahead
  <2>1. i \in 1..Len(q) /\ (j \in 1..Len(q) \/ j = Len(q) + 1)
    BY <1>1, <1>2
  <2>2. q[i] = e /\ q[i] \in ToSet(q)
    BY <2>1, <1>1, <1>2 DEF ToSet
  <2> QED
    BY <2>1, <2>2, <1>1 DEF Ahead
<1> QED
  BY <1>2, <1>3 DEF Extends, r

\* Nothing is posted, or more is posted than said before.
LEMMA ExtendsSelf == ASSUME NEW q, NEW F PROVE Extends(q, q, F)
BY DEF Extends

\* One event after another.
LEMMA ExtendsTransitive ==
  ASSUME NEW q, NEW r, NEW t, NEW F, Extends(q, r, F), Extends(r, t, F)
  PROVE  Extends(q, t, F)
BY DEF Extends

\* More may be allowed to be posted than is.
LEMMA ExtendsMore ==
  ASSUME NEW q, NEW r, NEW F, NEW G, Extends(q, r, F), F \subseteq G
  PROVE  Extends(q, r, G)
BY DEF Extends

\* An event that may be posted is.
LEMMA ExtendsPost ==
  ASSUME NEW q \in Seq(Event), NEW F, NEW x \in Event, x \in F
  PROVE  Append(q, x) \in Seq(Event) /\ Extends(q, Append(q, x), F)
<1>1. {x} \subseteq F /\ Extends(q, Append(q, x), {x})
  BY ExtendsAppend
<1> QED
  BY <1>1, ExtendsMore, AppendProperties

\* The head of a queue is ahead of all the rest, and nothing is overtaken when it
\* goes.
LEMMA AheadTail ==
  ASSUME NEW S, NEW q \in Seq(S), q # <<>>
  PROVE  /\ \A e, f : Ahead(Tail(q), e, f) => Ahead(q, e, f)
         /\ \A f \in ToSet(Tail(q)) : Ahead(q, Head(q), f)
         /\ \A e, f : Ahead(q, e, f) => f \in ToSet(Tail(q)) /\ e \in ToSet(q)
         /\ \A e, f : Ahead(q, e, f) /\ e # Head(q) => Ahead(Tail(q), e, f)
<1> DEFINE r == Tail(q)
<1>1. /\ r \in Seq(S) /\ Len(q) \in Nat /\ Len(q) >= 1 /\ Len(r) = Len(q) - 1 /\ q[1] = Head(q)
      /\ \A i \in 1..Len(r) : r[i] = q[i + 1]
  BY HeadTailProperties, LenProperties, EmptySeq
<1> HIDE DEF r
<1>2. ASSUME NEW e, NEW f, Ahead(r, e, f) PROVE Ahead(q, e, f)
  <2>1. PICK i, j \in 1..Len(r) : i < j /\ r[i] = e /\ r[j] = f
    BY <1>2 DEF Ahead
  <2>2. /\ i + 1 \in 1..Len(q) /\ j + 1 \in 1..Len(q) /\ i + 1 < j + 1
        /\ q[i + 1] = e /\ q[j + 1] = f
    BY <1>1, <2>1
  <2> QED
    BY <2>2 DEF Ahead
<1>3. ASSUME NEW f \in ToSet(r) PROVE Ahead(q, Head(q), f)
  <2>1. PICK j \in 1..Len(r) : r[j] = f
    BY DEF ToSet
  <2>2. /\ 1 \in 1..Len(q) /\ j + 1 \in 1..Len(q) /\ 1 < j + 1 /\ q[j + 1] = f
    BY <1>1, <2>1
  <2> QED
    BY <1>1, <2>2 DEF Ahead
<1>4. ASSUME NEW e, NEW f, Ahead(q, e, f)
      PROVE  /\ f \in ToSet(r) /\ e \in ToSet(q)
             /\ e # Head(q) => Ahead(r, e, f)
  <2>1. PICK i, j \in 1..Len(q) : i < j /\ q[i] = e /\ q[j] = f
    BY <1>4 DEF Ahead
  <2>2. j - 1 \in 1..Len(r) /\ r[j - 1] = f
    BY <1>1, <2>1
  <2>3. ASSUME e # Head(q) PROVE Ahead(r, e, f)
    <3>1. i - 1 \in 1..Len(r) /\ r[i - 1] = e /\ i - 1 < j - 1
      BY <1>1, <2>1, <2>3
    <3> QED
      BY <2>2, <3>1 DEF Ahead
  <2>4. f \in ToSet(r)
    BY <1>1, <2>2 DEF ToSet
  <2>5. e \in ToSet(q)
    BY <2>1 DEF ToSet
  <2> QED
    BY <2>3, <2>4, <2>5
<1> QED
  BY <1>2, <1>3, <1>4 DEF r

\* What is behind something is queued.
LEMMA AheadQueued ==
  ASSUME NEW q \in Seq(Event), NEW e, NEW f, Ahead(q, e, f)
  PROVE  e \in ToSet(q) /\ f \in ToSet(q)
BY LenProperties DEF Ahead, ToSet

-----------------------------------------------------------------------------
(* What the server posts by itself: notices, and the destruction of matches  *)

Posts(D) == {e \in Event : e.type \in {"matchOid", "messages"}} \cup {Destroyed(m) : m \in D}

\* What may be posted.
LEMMA PostsHold ==
  ASSUME NEW D
  PROVE  /\ \A e \in Event : e.type \in {"matchOid", "messages"} => e \in Posts(D)
         /\ \A m \in D : Destroyed(m) \in Posts(D)
         /\ \A e \in Posts(D) : \/ e.type \in {"matchOid", "messages"}
                             \/ \E m \in D : e = Destroyed(m)
BY Zenon DEF Posts

\* shutdown posts at most the destruction of its own match.
LEMMA ShutdownExtends ==
  ASSUME TypeOK, NEW m \in Match, NEW active, NEW posted \in Seq(Event),
         Shutdown(m, active, posted)
  PROVE  Extends(posted, events', Posts({m}))
<1> DEFINE told == OidEvent(Players(m) \cap active, NoMatch)
           more == Append(posted, told)
<1>0. Players(m) \cap active \in SUBSET Session
  BY PlayersType
<1>1. told \in Event /\ told \in Posts({m})
  <2>1. told \in Event /\ told.type = "matchOid"
    BY <1>0, EventTypes DEF OidEvent
  <2> QED
    BY <2>1, PostsHold
<1>2. Destroyed(m) \in Event /\ Destroyed(m) \in Posts({m})
  BY EventTypes, PostsHold
<1>3. events' = IF mobj[m] = "live" THEN Append(more, Destroyed(m)) ELSE more
  BY DEF Shutdown
<1> HIDE DEF told
<1>4. more \in Seq(Event) /\ Extends(posted, more, Posts({m}))
  BY <1>1, ExtendsPost
<1> HIDE DEF more
<1>5. Extends(more, Append(more, Destroyed(m)), Posts({m}))
  BY <1>2, <1>4, ExtendsPost
<1> QED
  BY <1>3, <1>4, <1>5, ExtendsTransitive

\* A handler closes only matches that have not started and have lost a player.
LEMMA HandleExtends ==
  ASSUME TypeOK, Handle
  PROVE  /\ events # <<>> /\ Tail(events) \in Seq(Event)
         /\ Extends(Tail(events), events', Posts({m \in Match : ~matchStarted[m]}))
<1> DEFINE D == {m \in Match : ~matchStarted[m]}
<1>1. events # <<>> /\ Tail(events) \in Seq(Event)
  BY HandleGrown, HeadTailProperties DEF TypeOK
<1>2. CASE events' = Tail(events)
  BY <1>1, <1>2, ExtendsSelf
<1>3. ASSUME NEW s \in Session, FindSecond(s) PROVE Extends(Tail(events), events', Posts(D))
  <2> DEFINE e == OidEvent(Players(awaiting) \cup {s}, awaiting)
  <2>1. awaiting \in Match
    BY <1>3 DEF FindSecond, TypeOK
  <2>2. e \in Event /\ e.type = "matchOid"
    BY <2>1, PlayersType, EventTypes DEF OidEvent
  <2> HIDE DEF e
  <2>3. e \in Posts(D)
    BY <2>2, PostsHold
  <2>4. Extends(Tail(events), Append(Tail(events), e), Posts(D))
    BY <1>1, <2>2, <2>3, ExtendsPost
  <2> QED
    BY <1>3, <2>4 DEF FindSecond, AddSecond, e
<1>4. ASSUME NEW s \in Session, HandleClientDestroyed(s)
      PROVE  Extends(Tail(events), events', Posts(D))
  <2>1. CASE events' = Tail(events)
    BY <1>2, <2>1
  <2>2. ASSUME NEW m \in D, Shutdown(m, {t \in Session \ {s} : Active(t)}, Tail(events))
        PROVE  Extends(Tail(events), events', Posts(D))
    <3>1. Extends(Tail(events), events', Posts({m}))
      BY <1>1, <2>2, ShutdownExtends
    <3>2. Posts({m}) \subseteq Posts(D)
      BY <2>2 DEF Posts
    <3> QED
      BY <3>1, <3>2, ExtendsMore
  <2> QED
    BY <1>4, <2>1, <2>2 DEF HandleClientDestroyed
<1> QED
  BY <1>1, <1>2, <1>3, <1>4 DEF Handle, HandleResolve, FindFirst, AddFirst,
     HandleSubscribe, HandleSend, HandleMatchDestroyed, HandleNotice

\* The interval of a match closes that match, and no other.
LEMMA SendMessagesExtends ==
  ASSUME TypeOK, NEW m \in Match, SendMessages(m)
  PROVE  Extends(events, events', Posts({m}))
<1> DEFINE b == [type |-> "messages", m |-> m, batch |-> queued[m]]
           posted == IF mobj[m] = "live" THEN Append(events, b) ELSE events
<1>1. b \in Event /\ b \in Posts({m})
  <2>1. b \in Event /\ b.type = "messages"
    BY EventTypes DEF TypeOK
  <2> QED
    BY <2>1, PostsHold
<1> HIDE DEF b
<1>2. Extends(events, posted, Posts({m})) /\ posted \in Seq(Event)
  BY <1>1, ExtendsPost, ExtendsSelf DEF TypeOK
<1> HIDE DEF posted
<1>3. \/ Shutdown(m, {t \in Session : Active(t)}, posted)
      \/ events' = posted
  BY DEF SendMessages, posted, b
<1> QED
  BY <1>2, <1>3, ShutdownExtends, ExtendsTransitive

-----------------------------------------------------------------------------
(* Names.  A name is given again while the end of the session that had it    *)
(* still waits in the queue; but that end is ahead of whatever the new       *)
(* session does.                                                             *)

Resolve(s) == [type |-> "resolve", s |-> s]
ClientDestroyed(s) == [type |-> "clientDestroyed", s |-> s]

Namesakes(a, b) == a # b /\ NameOf[a] = NameOf[b]

\* At most one session of a name is registered, and at most one has an object.
NameHeldOnce ==
  \A a, b \in Session : Namesakes(a, b) =>
    /\ ~(session[a] \in {"resolving", "on"} /\ session[b] \in {"resolving", "on"})
    /\ ~(session[a] \in {"on", "ended"} /\ session[b] \in {"on", "ended"})

EndIsQueued == \A a \in Session : session[a] = "ended" => Queued(ClientDestroyed(a))

EndsComeFirst ==
  \A a, b \in Session : Namesakes(a, b) => ~Ahead(events, Resolve(b), ClientDestroyed(a))

NamesInv == NameHeldOnce /\ EndIsQueued /\ EndsComeFirst

\* Steps that change no session and post nothing about one.
LEMMA NamesKept ==
  ASSUME TypeOK, NamesInv, session' = session, NEW q, NEW F, Extends(q, events', F),
         \/ q = events
         \/ events # <<>> /\ q = Tail(events) /\ Head(events).type # "clientDestroyed",
         \A e \in F : e.type # "clientDestroyed"
  PROVE  NamesInv'
<1>1. NameHeldOnce'
  BY DEF NamesInv, NameHeldOnce, Namesakes
<1>2. \A a \in Session : Queued(ClientDestroyed(a)) => Queued(ClientDestroyed(a))'
  <2> SUFFICES ASSUME NEW a \in Session, ClientDestroyed(a) \in ToSet(events)
               PROVE  ClientDestroyed(a) \in ToSet(q)
    BY DEF Queued, Extends, ClientDestroyed
  <2>1. CASE q = events
    BY <2>1
  <2>2. CASE q # events
    <3>1. events # <<>> /\ q = Tail(events) /\ Head(events) # ClientDestroyed(a)
      BY <2>2 DEF ClientDestroyed
    <3> QED
      BY <3>1, ToSetTail DEF TypeOK
  <2> QED
    BY <2>1, <2>2
<1>3. ASSUME NEW a \in Session, NEW b \in Session, Namesakes(a, b),
             Ahead(events', Resolve(b), ClientDestroyed(a))
      PROVE  FALSE
  <2>1. ClientDestroyed(a) \notin F
    BY DEF ClientDestroyed
  <2>2. Ahead(q, Resolve(b), ClientDestroyed(a))
    BY <1>3, <2>1 DEF Extends
  <2>3. Ahead(events, Resolve(b), ClientDestroyed(a))
    BY <2>2, AheadTail DEF TypeOK
  <2> QED
    BY <1>3, <2>3 DEF NamesInv, EndsComeFirst
<1> QED
  BY <1>1, <1>2, <1>3 DEF NamesInv, EndIsQueued, EndsComeFirst, Namesakes,
     ClientDestroyed, Resolve, Ahead

\* A session that logs on (AztecAuthenticator.processAuthentication).
LEMMA NamesAuthenticate ==
  ASSUME TypeOK, NamesInv, NEW s \in Session, Authenticate(s)
  PROVE  NamesInv'
<1>1. /\ events' = Append(events, Resolve(s)) /\ Resolve(s) \in Event
      /\ session' = [session EXCEPT ![s] = "resolving"]
      /\ \A b \in Session : NameOf[b] = NameOf[s] => session[b] \notin {"resolving", "on"}
  BY EventTypes DEF Authenticate, Resolve, InUse
<1>2. NameHeldOnce'
  BY <1>1 DEF NamesInv, NameHeldOnce, Namesakes, TypeOK
<1>3. EndIsQueued'
  <2>1. ToSet(events) \subseteq ToSet(events')
    BY <1>1, ToSetAppend DEF TypeOK
  <2> QED
    BY <1>1, <2>1 DEF NamesInv, EndIsQueued, Queued, ClientDestroyed, TypeOK
<1>4. \A a, b \in Session :
        Ahead(events', Resolve(b), ClientDestroyed(a))
          => Ahead(events, Resolve(b), ClientDestroyed(a))
  <2>1. \A e, f : Ahead(events', e, f) => Ahead(events, e, f) \/ f = Resolve(s)
    BY <1>1, ExtendsAppend DEF TypeOK
  <2> QED
    BY <2>1 DEF Resolve, ClientDestroyed
<1> QED
  BY <1>2, <1>3, <1>4 DEF NamesInv, EndsComeFirst, Namesakes, Resolve, ClientDestroyed, Ahead

\* The name of a session that gets its object is not that of one that has one:
\* the end of the session before is ahead of the resolution.
LEMMA NamesResolve ==
  ASSUME TypeOK, RequestsInv, NamesInv, NEW s \in Session, HandleResolve(s)
  PROVE  NamesInv'
<1>1. /\ events # <<>> /\ Head(events) = Resolve(s) /\ events' = Tail(events)
      /\ session' = [session EXCEPT ![s] = "on"]
  BY DEF HandleResolve, Resolve
<1>2. session[s] = "resolving"
  BY <1>1, HeadTimely DEF Timely, Resolve
<1>3. \A a \in Session : Queued(ClientDestroyed(a)) => ClientDestroyed(a) \in ToSet(Tail(events))
  BY <1>1, ToSetTail DEF TypeOK, Queued, Resolve, ClientDestroyed
<1>4. ASSUME NEW b \in Session, Namesakes(s, b) PROVE session[b] \notin {"resolving", "on", "ended"}
  <2>1. session[b] \notin {"resolving", "on"}
    BY <1>2, <1>4 DEF NamesInv, NameHeldOnce
  <2>2. ASSUME session[b] = "ended" PROVE FALSE
    <3>1. Ahead(events, Resolve(s), ClientDestroyed(b))
      BY <1>1, <1>3, <2>2, AheadTail DEF NamesInv, EndIsQueued, TypeOK
    <3> QED
      BY <1>4, <3>1 DEF NamesInv, EndsComeFirst, Namesakes
  <2> QED
    BY <2>1, <2>2
<1>5. NameHeldOnce'
  BY <1>1, <1>4 DEF NamesInv, NameHeldOnce, Namesakes, TypeOK
<1>6. EndIsQueued'
  BY <1>1, <1>3 DEF NamesInv, EndIsQueued, Queued, ClientDestroyed, TypeOK
<1>7. \A a, b \in Session :
        Ahead(events', Resolve(b), ClientDestroyed(a))
          => Ahead(events, Resolve(b), ClientDestroyed(a))
  BY <1>1, AheadTail DEF TypeOK
<1> QED
  BY <1>5, <1>6, <1>7 DEF NamesInv, EndsComeFirst, Namesakes, Resolve, ClientDestroyed, Ahead

\* The name of a session that ends is not being resolved for another one.
LEMMA NamesClosed ==
  ASSUME TypeOK, RequestsInv, NamesInv, NEW s \in Session, ConnectionClosed(s)
  PROVE  NamesInv'
<1>1. /\ events' = Append(events, ClientDestroyed(s)) /\ ClientDestroyed(s) \in Event
      /\ session[s] = "on" /\ session' = [session EXCEPT ![s] = "ended"]
  BY EventTypes DEF ConnectionClosed, ClientDestroyed
<1>2. NameHeldOnce'
  BY <1>1 DEF NamesInv, NameHeldOnce, Namesakes, TypeOK
<1>3. EndIsQueued'
  <2>1. ToSet(events') = ToSet(events) \cup {ClientDestroyed(s)}
    BY <1>1, ToSetAppend DEF TypeOK
  <2> QED
    BY <1>1, <2>1 DEF NamesInv, EndIsQueued, Queued, ClientDestroyed, TypeOK
<1>4. ASSUME NEW a \in Session, NEW b \in Session, Namesakes(a, b),
             Ahead(events', Resolve(b), ClientDestroyed(a))
      PROVE  FALSE
  <2>1. \/ Ahead(events, Resolve(b), ClientDestroyed(a))
        \/ Resolve(b) \in ToSet(events) /\ a = s
    <3>1. \A e, f : Ahead(events', e, f) =>
            Ahead(events, e, f) \/ (e \in ToSet(events) /\ f = ClientDestroyed(s))
      BY <1>1, ExtendsAppend DEF TypeOK
    <3> QED
      BY <1>4, <3>1 DEF ClientDestroyed
  <2>2. ASSUME Resolve(b) \in ToSet(events), a = s PROVE FALSE
    <3>1. session[b] = "resolving"
      BY <2>2 DEF RequestsInv, Timely, Resolve
    <3> QED
      BY <1>1, <1>4, <2>2, <3>1 DEF NamesInv, NameHeldOnce
  <2> QED
    BY <1>4, <2>1, <2>2 DEF NamesInv, EndsComeFirst
<1> QED
  BY <1>2, <1>3, <1>4 DEF NamesInv, EndsComeFirst, Namesakes, Resolve, ClientDestroyed, Ahead

\* The end of a session is handled once.
LEMMA NamesDestroyed ==
  ASSUME TypeOK, RequestsInv, NamesInv, NEW s \in Session, HandleClientDestroyed(s)
  PROVE  NamesInv'
<1> DEFINE F == Posts({m \in Match : ~matchStarted[m]})
<1>1. /\ events # <<>> /\ Head(events) = ClientDestroyed(s)
      /\ session' = [session EXCEPT ![s] = "gone"]
  BY DEF HandleClientDestroyed, ClientDestroyed
<1>2. Extends(Tail(events), events', F)
  BY HandleExtends DEF Handle
<1>3. NameHeldOnce'
  BY <1>1 DEF NamesInv, NameHeldOnce, Namesakes, TypeOK
<1>4. EndIsQueued'
  <2>1. \A a \in Session : a # s /\ Queued(ClientDestroyed(a)) => Queued(ClientDestroyed(a))'
    BY <1>1, <1>2, ToSetTail DEF TypeOK, Queued, ClientDestroyed, Extends
  <2> QED
    BY <1>1, <2>1 DEF NamesInv, EndIsQueued, TypeOK
<1>5. \A a, b \in Session :
        Ahead(events', Resolve(b), ClientDestroyed(a))
          => Ahead(events, Resolve(b), ClientDestroyed(a))
  <2>1. \A a \in Session : ClientDestroyed(a) \notin F
    BY PostsHold DEF ClientDestroyed, Destroyed
  <2> QED
    BY <1>1, <1>2, <2>1, AheadTail DEF TypeOK, Extends
<1> QED
  BY <1>3, <1>4, <1>5 DEF NamesInv, EndsComeFirst, Namesakes, Resolve, ClientDestroyed, Ahead

\* Every step keeps the ends of sessions ahead of those who take over their names.
LEMMA NamesStep == TypeOK /\ RequestsInv /\ NamesInv /\ [Next]_vars => NamesInv'
<1> SUFFICES ASSUME TypeOK, RequestsInv, NamesInv, [Next]_vars PROVE NamesInv'
  OBVIOUS
<1>1. ASSUME NEW s \in Session, NEW e \in Event, e.type # "clientDestroyed", Post(s, e)
      PROVE  NamesInv'
  <2>1. Extends(events, events', {e}) /\ session' = session
    BY <1>1, ExtendsPost DEF Post, TypeOK
  <2> QED
    BY <1>1, <2>1, NamesKept
<1>2. ASSUME NEW s \in Session, RequestFindMatch(s) PROVE NamesInv'
  BY <1>1, <1>2, EventTypes DEF RequestFindMatch
<1>3. ASSUME NEW s \in Session, NEW m \in Match,
             RequestSubscribe(s, m) \/ \E msg \in Message : RequestSend(s, m, msg)
      PROVE  NamesInv'
  BY <1>1, <1>3, EventTypes DEF RequestSubscribe, RequestSend
<1>4. ASSUME NEW m \in Match, SendMessages(m) PROVE NamesInv'
  <2>1. \A e \in Posts({m}) : e.type # "clientDestroyed"
    BY PostsHold DEF Destroyed
  <2>2. Extends(events, events', Posts({m})) /\ session' = session
    BY <1>4, SendMessagesExtends DEF SendMessages
  <2> QED
    BY <2>1, <2>2, NamesKept
<1>5. CASE UNCHANGED vars
  <2>1. session' = session /\ Extends(events, events', {})
    BY <1>5, ExtendsSelf DEF vars
  <2> QED
    BY <2>1, NamesKept
<1>6. CASE Handle /\ session' = session /\ Head(events).type # "clientDestroyed"
  <2> DEFINE F == Posts({m \in Match : ~matchStarted[m]})
  <2>1. \A e \in F : e.type # "clientDestroyed"
    BY PostsHold DEF Destroyed
  <2>2. events # <<>> /\ Extends(Tail(events), events', F)
    BY <1>6, HandleExtends
  <2> HIDE DEF F
  <2> QED
    BY <1>6, <2>1, <2>2, NamesKept
<1>7. CASE Handle
  <2>1. \/ session' = session /\ Head(events).type # "clientDestroyed"
        \/ \E s \in Session : HandleResolve(s) \/ HandleClientDestroyed(s)
    BY <1>7 DEF Handle, FindFirst, FindSecond, HandleSubscribe, HandleSend,
       HandleMatchDestroyed, HandleNotice, Destroyed
  <2> QED
    BY <1>6, <1>7, <2>1, NamesResolve, NamesDestroyed
<1> QED
  BY <1>2, <1>3, <1>4, <1>5, <1>7, NamesAuthenticate, NamesClosed
  DEF Next, Server, Environment

\* Names are used in turn, in every state.
LEMMA NamesInvariant == Spec => []NamesInv
<1>1. Init => NamesInv
  BY SMT DEF Init, NamesInv, NameHeldOnce, EndIsQueued, EndsComeFirst, Ahead
<1>2. TypeOK /\ RequestsInv /\ NamesInv /\ [Next]_vars => NamesInv'
  BY NamesStep
<1> QED
  BY <1>1, <1>2, TypeCorrect, RequestsInvariant, PTL DEF Spec

-----------------------------------------------------------------------------
(* Where players point.  A match is engaged while it waits or sends.  A      *)
(* session plays in one engaged match at most, because it is in none when it *)
(* searches; so what one match does to its players' matchOid is never done   *)
(* to a player of another one.                                               *)

Engaged(m) == sending[m] \/ awaiting = m

PlayersWereOn ==
  \A m \in Match : \A s \in Players(m) : session[s] \notin {"off", "resolving"}

SearchersAreFree ==
  \A s \in Session, m \in Match : Queued(FindMatch(s)) /\ s \in Players(m) => ~Engaged(m)

OneMatchEach ==
  \A m, n \in Match : \A s \in Players(m) \cap Players(n) : Engaged(m) /\ Engaged(n) => m = n

PlayersPoint ==
  \A m \in Match : sending[m] => \A s \in Players(m) : Active(s) => matchOid[s] = m

EngagedInv == PlayersWereOn /\ SearchersAreFree /\ OneMatchEach /\ PlayersPoint

\* Steps that add no player, engage no match, post no search and bring no session
\* back to before it was on.
LEMMA EngagedKept ==
  ASSUME TypeOK, EngagedInv, clients' = clients,
         \A m \in Match : Engaged(m)' => Engaged(m),
         \A s \in Session : session'[s] \in {"off", "resolving"} =>
                              session[s] \in {"off", "resolving"},
         \A s \in Session : Queued(FindMatch(s))' => Queued(FindMatch(s)),
         \A m \in Match : sending'[m] =>
           sending[m] /\ \A s \in Players(m) : Active(s)' => Active(s) /\ matchOid'[s] = matchOid[s]
  PROVE  EngagedInv'
<1>1. \A m \in Match : Players(m)' = Players(m) /\ Players(m) \subseteq Session
  BY PlayersType DEF Players
<1>2. PlayersWereOn'
  BY <1>1 DEF EngagedInv, PlayersWereOn
<1>3. SearchersAreFree'
  BY <1>1, Zenon DEF EngagedInv, SearchersAreFree
<1>4. OneMatchEach'
  BY <1>1, Zenon DEF EngagedInv, OneMatchEach
<1>5. PlayersPoint'
  BY <1>1 DEF EngagedInv, PlayersPoint
<1> QED
  BY <1>2, <1>3, <1>4, <1>5 DEF EngagedInv

\* A step that takes the head of the queue or nothing posts a search only when a
\* client asks.
LEMMA SearchesKept ==
  ASSUME TypeOK, NEW q, ToSet(q) \subseteq ToSet(events), Grown(q, events')
  PROVE  \A s \in Session : Queued(FindMatch(s))' => Queued(FindMatch(s))
BY SMT DEF Queued, FindMatch, Grown, SessionEvent

\* Who searches is a session that is or was on, and the search being handled is
\* its only one.
LEMMA SearchHandled ==
  ASSUME TypeOK, RequestsInv, NEW s \in Session, events # <<>>, Head(events) = FindMatch(s)
  PROVE  /\ session[s] \in {"on", "ended"}
         /\ Queued(FindMatch(s))
         /\ FindMatch(s) \notin ToSet(Tail(events))
<1>1. session[s] \in {"on", "ended"}
  BY HeadTimely DEF Timely, FindMatch
<1>2. Queued(FindMatch(s))
  BY HeadQueued DEF Queued
<1>3. FindMatch(s) \notin ToSet(Tail(events))
  <2>1. \A f \in ToSet(Tail(events)) : ~Clash(FindMatch(s), f)
    BY OrderedTail DEF RequestsInv, TypeOK
  <2>2. Clash(FindMatch(s), FindMatch(s))
    BY DEF Clash, FindMatch, SessionEvent
  <2> QED
    BY <2>1, <2>2
<1> QED
  BY <1>1, <1>2, <1>3

\* The first player of a new match is in no other that waits or sends.
LEMMA EngagedFindFirst ==
  ASSUME TypeOK, OfferedInv, RequestsInv, LossInv, EngagedInv, NEW s \in Session, FindFirst(s)
  PROVE  EngagedInv'
<1> PICK m \in Match : mobj[m] = "none" /\ awaiting' = m /\ AddFirst(m, s)
  BY DEF FindFirst
<1>1. /\ events # <<>> /\ Head(events) = FindMatch(s) /\ events' = Tail(events)
      /\ awaiting = NoMatch /\ UNCHANGED <<session, matchOid, sending>>
  BY DEF FindFirst, AddFirst, FindMatch
<1>2. /\ session[s] \in {"on", "ended"} /\ Queued(FindMatch(s))
      /\ FindMatch(s) \notin ToSet(events')
  BY <1>1, SearchHandled
<1>3. clients[m] = <<>> /\ ~sending[m]
  BY DEF OfferedInv, LossInv, SendersStarted
<1>4. clients' = [clients EXCEPT ![m] = <<s>>]
  BY <1>3 DEF AddFirst, TypeOK
<1>5. Players(m)' = {s} /\ \A n \in Match : n # m => Players(n)' = Players(n)
  BY <1>4 DEF Players, ToSet, TypeOK
<1>6. \A n \in Match : Engaged(n)' <=> (n = m \/ sending[n])
  BY <1>1, <1>3, NoMatchAssumption DEF Engaged
<1>7. \A n \in Match : sending[n] => s \notin Players(n)
  BY <1>2 DEF EngagedInv, SearchersAreFree, Engaged
<1>8. \A t \in Session : Queued(FindMatch(t))' => Queued(FindMatch(t)) /\ t # s
  BY <1>1, <1>2, ToSetTail DEF TypeOK, Queued, FindMatch
<1>9. \A n \in Match : Players(n) \subseteq Session
  BY PlayersType
<1>10. PlayersWereOn'
  BY <1>1, <1>2, <1>5 DEF EngagedInv, PlayersWereOn
<1>11. SearchersAreFree'
  BY <1>5, <1>6, <1>8 DEF EngagedInv, SearchersAreFree, Engaged
<1>12. OneMatchEach'
  BY <1>5, <1>6, <1>7 DEF EngagedInv, OneMatchEach, Engaged
<1>13. PlayersPoint'
  BY <1>1, <1>3, <1>5 DEF EngagedInv, PlayersPoint, Active
<1> QED
  BY <1>10, <1>11, <1>12, <1>13 DEF EngagedInv

\* The second player is in no other either, and both are pointed at their match.
LEMMA EngagedFindSecond ==
  ASSUME TypeOK, OfferedInv, RequestsInv, LossInv, EngagedInv, NEW s \in Session, FindSecond(s)
  PROVE  EngagedInv'
<1> PICK m \in Match : m = awaiting
  BY DEF FindSecond, TypeOK
<1> DEFINE both == Players(m) \cup {s}
<1>1. /\ events # <<>> /\ Head(events) = FindMatch(s) /\ session' = session
      /\ awaiting' = NoMatch /\ sending' = [sending EXCEPT ![m] = TRUE]
      /\ matchOid' = [t \in Session |-> IF t \in both THEN m ELSE matchOid[t]]
  BY DEF FindSecond, AddSecond, FindMatch, SetOid
<1>2. /\ session[s] \in {"on", "ended"} /\ Queued(FindMatch(s))
      /\ FindMatch(s) \notin ToSet(Tail(events))
  BY <1>1, SearchHandled
<1>4. clients' = [clients EXCEPT ![m] = Append(clients[m], s)]
  BY DEF FindSecond, AddSecond
<1>5. Players(m)' = both /\ \A n \in Match : n # m => Players(n)' = Players(n)
  BY <1>4, ToSetAppend DEF Players, TypeOK
<1>6. \A n \in Match : Engaged(n)' <=> (n = m \/ sending[n])
  BY <1>1, NoMatchAssumption DEF Engaged, TypeOK
<1>7. \A n \in Match : sending[n] => s \notin Players(n)
  BY <1>2 DEF EngagedInv, SearchersAreFree, Engaged
<1>8. \A t \in Session : Queued(FindMatch(t))' => Queued(FindMatch(t)) /\ t # s
  <2>1. Grown(Tail(events), events')
    BY HandleGrown DEF Handle
  <2> QED
    BY <1>1, <1>2, <2>1, ToSetTail, SMT DEF TypeOK, Queued, FindMatch, Grown, SessionEvent
<1>9. \A n \in Match : Players(n) \subseteq Session
  BY PlayersType
<1>10. \A n \in Match : sending[n] /\ n # m => Players(n) \cap both = {}
  BY <1>7 DEF EngagedInv, OneMatchEach, Engaged
<1>11. PlayersWereOn'
  BY <1>1, <1>2, <1>5 DEF EngagedInv, PlayersWereOn
<1>12. SearchersAreFree'
  BY <1>5, <1>6, <1>8 DEF EngagedInv, SearchersAreFree, Engaged
<1>13. OneMatchEach'
  <2> SUFFICES ASSUME NEW n \in Match, NEW k \in Match, NEW t \in Players(n)' \cap Players(k)',
                      n = m \/ sending[n], k = m \/ sending[k]
               PROVE  n = k
    BY <1>6 DEF OneMatchEach
  <2> QED
    BY <1>5, <1>10 DEF EngagedInv, OneMatchEach, Engaged
<1>14. PlayersPoint'
  <2> SUFFICES ASSUME NEW n \in Match, sending'[n], NEW t \in Players(n)', Active(t)
               PROVE  matchOid'[t] = n
    BY <1>1 DEF PlayersPoint, Active
  <2>1. CASE n = m
    BY <1>1, <1>5, <1>9, <2>1
  <2>2. CASE n # m
    <3>1. sending[n] /\ t \in Players(n) /\ t \notin both /\ t \in Session
      BY <1>1, <1>5, <1>9, <1>10, <2>2 DEF TypeOK
    <3> QED
      BY <1>1, <3>1 DEF EngagedInv, PlayersPoint
  <2> QED
    BY <2>1, <2>2
<1> QED
  BY <1>11, <1>12, <1>13, <1>14 DEF EngagedInv

\* A shutdown points nobody away from a match that goes on sending.
LEMMA EngagedShutdown ==
  ASSUME TypeOK, EngagedInv, NEW m \in Match, Engaged(m), NEW active, NEW posted,
         Shutdown(m, active, posted), NEW n \in Match, sending'[n]
  PROVE  sending[n] /\ \A s \in Players(n) : matchOid'[s] = matchOid[s]
<1>1. /\ sending' = [sending EXCEPT ![m] = FALSE]
      /\ matchOid' = [t \in Session |-> IF t \in Players(m) \cap active THEN NoMatch
                                                                         ELSE matchOid[t]]
  BY DEF Shutdown, SetOid
<1>2. n # m /\ sending[n]
  BY <1>1 DEF TypeOK
<1>3. Players(n) \cap Players(m) = {} /\ Players(n) \subseteq Session
  BY <1>2, PlayersType DEF EngagedInv, OneMatchEach, Engaged
<1> QED
  BY <1>1, <1>2, <1>3

\* A match that has not started and has a player left is the one the matchmaker
\* holds, and has no other player.
LEMMA WaitingIsHeld ==
  ASSUME TypeOK, OfferedInv, LossInv, NEW m \in Match, NEW s \in Players(m),
         ~matchStarted[m], session[s] # "gone"
  PROVE  awaiting = m /\ Players(m) = {s}
<1>1. mobj[m] # "destroyed"
  BY DEF LossInv, EndedUnstarted
<1>2. mobj[m] # "none"
  BY DEF OfferedInv, Players, ToSet
<1>3. awaiting = m
  BY <1>1, <1>2 DEF OfferedInv, WaitingMatchOffered, TypeOK
<1>4. Len(clients[m]) = 1 /\ clients[m] \in Seq(Session)
  BY <1>3, NoMatchAssumption DEF OfferedInv, WaitingMatchOffered, TypeOK
<1>5. clients[m] = <<clients[m][1]>>
  BY <1>4
<1>6. Players(m) = {clients[m][1]}
  BY <1>5 DEF Players, ToSet
<1> QED
  BY <1>3, <1>6

\* The end of a session that waits shuts its match down, which is the one the
\* matchmaker holds.
LEMMA EngagedClientDestroyed ==
  ASSUME TypeOK, OfferedInv, RequestsInv, LossInv, EngagedInv,
         NEW s \in Session, HandleClientDestroyed(s)
  PROVE  EngagedInv'
<1>1. /\ clients' = clients /\ awaiting' = awaiting
      /\ session' = [session EXCEPT ![s] = "gone"]
      /\ session[s] = "ended"
  BY HeadTimely DEF HandleClientDestroyed, Timely
<1>2. \A t \in Session : Queued(FindMatch(t))' => Queued(FindMatch(t))
  BY HandleGrown, SearchesKept, ToSetTail DEF Handle, TypeOK
<1>3. \A t \in Session : /\ session'[t] \in {"off", "resolving"} =>
                              session[t] \in {"off", "resolving"}
                         /\ Active(t)' => Active(t)
  BY <1>1 DEF TypeOK, Active
<1>4. ASSUME NEW n \in Match, sending'[n]
      PROVE  sending[n] /\ \A t \in Players(n) : matchOid'[t] = matchOid[t]
  <2>1. CASE UNCHANGED <<matchOid, sending>>
    BY <1>4, <2>1
  <2>2. ASSUME NEW m \in Match, s \in Players(m), ~matchStarted[m],
               Shutdown(m, {t \in Session \ {s} : Active(t)}, Tail(events))
        PROVE  sending[n] /\ \A t \in Players(n) : matchOid'[t] = matchOid[t]
    <3>1. awaiting = m
      BY <1>1, <2>2, WaitingIsHeld
    <3> QED
      BY <1>4, <2>2, <3>1, EngagedShutdown DEF Engaged
  <2> QED
    BY <2>1, <2>2 DEF HandleClientDestroyed
<1>5. \A n \in Match : Engaged(n)' => Engaged(n)
  BY <1>1, <1>4 DEF Engaged
<1>6. \A n \in Match : sending'[n] =>
        sending[n] /\ \A t \in Players(n) : Active(t)' => Active(t) /\ matchOid'[t] = matchOid[t]
  BY <1>3, <1>4, PlayersType
<1> QED
  BY <1>1, <1>2, <1>3, <1>5, <1>6, EngagedKept

\* A match that has sent its last batch points its own players away.
LEMMA EngagedSendMessages ==
  ASSUME TypeOK, EngagedInv, NEW m \in Match, SendMessages(m)
  PROVE  EngagedInv'
<1>1. UNCHANGED <<clients, session, awaiting>> /\ Engaged(m)
  BY DEF SendMessages, Engaged
<1>2. \A t \in Session : Queued(FindMatch(t))' => Queued(FindMatch(t))
  BY SendMessagesGrown, SearchesKept
<1>3. ASSUME NEW n \in Match, sending'[n]
      PROVE  sending[n] /\ \A t \in Players(n) : matchOid'[t] = matchOid[t]
  <2>1. \/ UNCHANGED <<matchOid, sending>>
        \/ \E posted : Shutdown(m, {t \in Session : Active(t)}, posted)
    BY DEF SendMessages
  <2> QED
    BY <1>1, <1>3, <2>1, EngagedShutdown
<1>4. \A n \in Match : Engaged(n)' => Engaged(n)
  BY <1>1, <1>3 DEF Engaged
<1>5. \A t \in Session : Active(t)' <=> Active(t)
  BY <1>1 DEF Active
<1>6. \A n \in Match : sending'[n] =>
        sending[n] /\ \A t \in Players(n) : Active(t)' => Active(t) /\ matchOid'[t] = matchOid[t]
  BY <1>3, <1>5, PlayersType
<1> QED
  BY <1>1, <1>2, <1>4, <1>6, EngagedKept

\* A client searches only when no match of its own waits or sends.
LEMMA EngagedRequestFindMatch ==
  ASSUME TypeOK, LossInv, EngagedInv, NEW s \in Session, RequestFindMatch(s)
  PROVE  EngagedInv'
<1>1. /\ events' = Append(events, FindMatch(s)) /\ FindMatch(s) \in Event
      /\ UNCHANGED <<session, matchOid, awaiting, sending, clients>>
      /\ \A m \in Match : s \in Players(m) => ~Engaged(m)
  BY EventTypes DEF RequestFindMatch, Post, FindMatch, matchVars, Engaged
<1>2. \A t \in Session : Queued(FindMatch(t))' => Queued(FindMatch(t)) \/ t = s
  BY <1>1, ToSetAppend, SMT DEF TypeOK, Queued, FindMatch
<1>3. \A m \in Match : Players(m)' = Players(m) /\ Engaged(m)' = Engaged(m)
  BY <1>1 DEF Players, Engaged
<1>4. SearchersAreFree'
  BY <1>1, <1>2, <1>3 DEF EngagedInv, SearchersAreFree
<1> QED
  BY <1>1, <1>3, <1>4 DEF EngagedInv, PlayersWereOn, OneMatchEach, PlayersPoint, Active

\* Every step keeps each session in one match that is engaged, at most.
LEMMA EngagedStep ==
  TypeOK /\ OfferedInv /\ RequestsInv /\ LossInv /\ EngagedInv /\ [Next]_vars
    => EngagedInv'
<1> SUFFICES ASSUME TypeOK, OfferedInv, RequestsInv, LossInv, EngagedInv, [Next]_vars
             PROVE  EngagedInv'
  OBVIOUS
<1>k. ASSUME UNCHANGED <<clients, sending, awaiting, matchOid>>,
             \A s \in Session : session'[s] \in {"off", "resolving"} =>
                                  session[s] \in {"off", "resolving"},
             \A s \in Session : session'[s] # session[s] =>
                                  session[s] \in {"off", "resolving", "on"},
             \A s \in Session : Queued(FindMatch(s))' => Queued(FindMatch(s))
      PROVE  EngagedInv'
  <2>1. \A m \in Match : Engaged(m)' = Engaged(m)
    BY <1>k DEF Engaged
  <2>2. \A m \in Match : \A s \in Players(m) : Active(s)' => Active(s)
    BY <1>k, PlayersType DEF EngagedInv, PlayersWereOn, Active
  <2> QED
    BY <1>k, <2>1, <2>2, PlayersType, EngagedKept
<1>p. ASSUME NEW e \in Event, e.type # "findMatch", events' = Append(events, e)
      PROVE  \A s \in Session : Queued(FindMatch(s))' => Queued(FindMatch(s))
  BY <1>p, ToSetAppend, SMT DEF TypeOK, Queued, FindMatch
<1>h. ASSUME Handle
      PROVE  \A s \in Session : Queued(FindMatch(s))' => Queued(FindMatch(s))
  BY <1>h, HandleGrown, SearchesKept, ToSetTail DEF TypeOK
<1>1. ASSUME NEW s \in Session, Authenticate(s) PROVE EngagedInv'
  <2>1. \A t \in Session : Queued(FindMatch(t))' => Queued(FindMatch(t))
    BY <1>1, <1>p, EventTypes DEF Authenticate
  <2>2. session[s] = "off" /\ session' = [session EXCEPT ![s] = "resolving"]
    BY <1>1 DEF Authenticate
  <2> QED
    BY <1>1, <1>k, <2>1, <2>2 DEF Authenticate, matchVars, TypeOK
<1>2. ASSUME NEW s \in Session, ConnectionClosed(s) PROVE EngagedInv'
  <2>1. \A t \in Session : Queued(FindMatch(t))' => Queued(FindMatch(t))
    BY <1>2, <1>p, EventTypes DEF ConnectionClosed
  <2>2. session[s] = "on" /\ session' = [session EXCEPT ![s] = "ended"]
    BY <1>2 DEF ConnectionClosed
  <2> QED
    BY <1>2, <1>k, <2>1, <2>2 DEF ConnectionClosed, matchVars, TypeOK
<1>3. ASSUME NEW s \in Session, NEW e \in Event, e.type # "findMatch", Post(s, e)
      PROVE  EngagedInv'
  <2>1. \A t \in Session : Queued(FindMatch(t))' => Queued(FindMatch(t))
    BY <1>3, <1>p DEF Post
  <2> QED
    BY <1>3, <1>k, <2>1 DEF Post, matchVars
<1>4. ASSUME NEW s \in Session, NEW m \in Match,
             RequestSubscribe(s, m) \/ \E msg \in Message : RequestSend(s, m, msg)
      PROVE  EngagedInv'
  BY <1>3, <1>4, EventTypes DEF RequestSubscribe, RequestSend
<1>5. ASSUME NEW s \in Session, HandleResolve(s) PROVE EngagedInv'
  <2>1. session[s] = "resolving" /\ session' = [session EXCEPT ![s] = "on"]
    BY <1>5, HeadTimely DEF HandleResolve, Timely
  <2>2. \A t \in Session : Queued(FindMatch(t))' => Queued(FindMatch(t))
    BY <1>5, <1>h DEF Handle
  <2> QED
    BY <1>5, <1>k, <2>1, <2>2 DEF HandleResolve, matchVars, TypeOK
<1>6. CASE Handle /\ UNCHANGED <<session, clients, sending, awaiting, matchOid>>
  BY <1>6, <1>h, <1>k
<1>7. ASSUME NEW m \in Match, HandleMatchDestroyed(m) PROVE EngagedInv'
  <2>1. \A t \in Session : Queued(FindMatch(t))' => Queued(FindMatch(t))
    BY <1>7, <1>h DEF Handle
  <2>2. \A n \in Match : Engaged(n)' => Engaged(n)
    BY <1>7, NoMatchAssumption DEF HandleMatchDestroyed, Engaged, matchVars
  <2> QED
    BY <1>7, <2>1, <2>2, EngagedKept DEF HandleMatchDestroyed, matchVars, Active
<1>8. CASE UNCHANGED vars
  BY <1>8, <1>k DEF vars, matchVars, Queued, FindMatch
<1>9. CASE Handle
  <2>1. \/ \E s \in Session : \/ HandleResolve(s) \/ FindFirst(s) \/ FindSecond(s)
                              \/ HandleClientDestroyed(s)
        \/ \E m \in Match : HandleMatchDestroyed(m)
        \/ UNCHANGED <<session, clients, sending, awaiting, matchOid>>
    BY <1>9 DEF Handle, HandleSubscribe, HandleSend, HandleNotice, matchVars
  <2> QED
    BY <1>5, <1>6, <1>7, <1>9, <2>1, EngagedFindFirst, EngagedFindSecond,
       EngagedClientDestroyed
<1> QED
  BY <1>1, <1>2, <1>4, <1>8, <1>9, EngagedRequestFindMatch, EngagedSendMessages
  DEF Next, Server, Environment

\* A session plays in one match at a time and is pointed at it, in every state.
LEMMA EngagedInvariant == Spec => []EngagedInv
<1>1. Init => EngagedInv
  BY SMT DEF Init, EngagedInv, PlayersWereOn, SearchersAreFree, OneMatchEach, PlayersPoint,
     Players, ToSet
<1>2. TypeOK /\ OfferedInv /\ RequestsInv /\ LossInv /\ EngagedInv /\ [Next]_vars => EngagedInv'
  BY EngagedStep
<1> QED
  BY <1>1, <1>2, TypeCorrect, OfferedInvariant, RequestsInvariant, LossInvariant, PTL DEF Spec

\* Whatever older match of a player ends in the meantime, and however late, a
\* player of a match in play is pointed at that match (AztecMatchManager.addPlayer
\* against shutdown).
THEOREM PlayersPointAtTheirMatch == Spec => []PlayersPointAtMatch
<1>1. LossInv /\ EngagedInv => PlayersPointAtMatch
  BY DEF LossInv, PlayKeepsTimer, EngagedInv, PlayersPoint, PlayersPointAtMatch
<1> QED
  BY <1>1, LossInvariant, EngagedInvariant, PTL

-----------------------------------------------------------------------------
(* Who is put together.  The one who waits may have left and its name be in  *)
(* use again; but then its match is closing, and the new session's search is *)
(* behind the end of that match.                                             *)

NamesakeBehind ==
  \A m \in Match, s \in Session :
    ~matchStarted[m] /\ (\E q \in Players(m) : Namesakes(q, s)) =>
      ~Ahead(events, FindMatch(s), Destroyed(m))

PairsInv == PlayersDistinguishable /\ NamesakeBehind

\* Steps that leave the matches as they are, and post no destruction of one that
\* waits.
LEMMA PairsKept ==
  ASSUME TypeOK, PairsInv, clients' = clients, matchStarted' = matchStarted,
         \A m \in Match, s \in Session : ~matchStarted[m] =>
           (Ahead(events', FindMatch(s), Destroyed(m)) => Ahead(events, FindMatch(s), Destroyed(m)))
  PROVE  PairsInv'
<1>1. \A m \in Match : Players(m)' = Players(m)
  BY DEF Players
<1>2. PlayersDistinguishable'
  BY DEF PairsInv, PlayersDistinguishable
<1>3. NamesakeBehind'
  <2>1. \A m \in Match, s \in Session :
          ~matchStarted[m] /\ (\E q \in Players(m) : Namesakes(q, s)) =>
            ~Ahead(events', FindMatch(s), Destroyed(m))
    BY DEF PairsInv, NamesakeBehind
  <2> QED
    BY <1>1, <2>1 DEF NamesakeBehind, Namesakes, FindMatch, Destroyed, Ahead
<1> QED
  BY <1>2, <1>3 DEF PairsInv

\* A match that has just been made is not closing.
LEMMA PairsFindFirst ==
  ASSUME TypeOK, OfferedInv, LossInv, PairsInv, NEW s \in Session, FindFirst(s)
  PROVE  PairsInv'
<1> PICK m \in Match : mobj[m] = "none" /\ awaiting' = m /\ AddFirst(m, s)
  BY DEF FindFirst
<1>1. events # <<>> /\ events' = Tail(events) /\ matchStarted' = matchStarted
  BY DEF FindFirst, AddFirst
<1>2. ~Closing(m) /\ ~matchStarted[m]
  BY DEF LossInv, MadeBeforeClosing, OfferedInv
<1>3. \A n \in Match : n # m => clients'[n] = clients[n] /\ Players(n)' = Players(n)
  BY DEF AddFirst, TypeOK, Players
<1>4. \A n \in Match, t \in Session :
        Ahead(events', FindMatch(t), Destroyed(n)) =>
          n # m /\ Ahead(events, FindMatch(t), Destroyed(n))
  <2>1. \A e, f : Ahead(events', e, f) => Ahead(events, e, f) /\ f \in ToSet(events)
    BY <1>1, AheadTail, AheadQueued DEF TypeOK
  <2> QED
    BY <1>2, <2>1 DEF Closing, Queued
<1>5. PlayersDistinguishable'
  BY <1>1, <1>2, <1>3 DEF PairsInv, PlayersDistinguishable
<1>6. NamesakeBehind'
  <2>1. \A n \in Match, t \in Session :
          ~matchStarted[n] /\ (\E q \in Players(n)' : Namesakes(q, t)) =>
            ~Ahead(events', FindMatch(t), Destroyed(n))
    BY <1>3, <1>4 DEF PairsInv, NamesakeBehind
  <2> QED
    BY <1>1, <2>1 DEF NamesakeBehind, Namesakes, FindMatch, Destroyed, Ahead
<1> QED
  BY <1>5, <1>6 DEF PairsInv

\* Appending to a sequence of one.
LEMMA SecondPlayer ==
  ASSUME NEW S, NEW c \in Seq(S), Len(c) = 1, NEW e \in S
  PROVE  LET r == Append(c, e) IN Len(r) = 2 /\ r[1] = c[1] /\ r[2] = e
<1> DEFINE r == Append(c, e)
<1>1. Len(r) = Len(c) + 1 /\ r[Len(c) + 1] = e /\ \A i \in 1..Len(c) : r[i] = c[i]
  BY AppendProperties
<1> HIDE DEF r
<1>2. Len(r) = 2 /\ r[1] = c[1] /\ r[2] = e
  BY <1>1
<1> QED
  BY <1>2 DEF r

\* The two that are put together have different names: they are two sessions, and
\* one that waited under the same name has neither an object, nor is it gone.
LEMMA PairsFindSecond ==
  ASSUME TypeOK, OfferedInv, RequestsInv, LossInv, NamesInv, EngagedInv, PairsInv,
         NEW s \in Session, FindSecond(s)
  PROVE  PairsInv'
<1> PICK m \in Match : m = awaiting
  BY DEF FindSecond, TypeOK
<1>1. /\ events # <<>> /\ Head(events) = FindMatch(s)
      /\ matchStarted' = [matchStarted EXCEPT ![m] = TRUE]
      /\ clients' = [clients EXCEPT ![m] = Append(clients[m], s)]
  BY DEF FindSecond, AddSecond, FindMatch
<1>2. session[s] \in {"on", "ended"} /\ Queued(FindMatch(s))
  BY <1>1, SearchHandled
<1>3. /\ Len(clients[m]) = 1 /\ clients[m] \in Seq(Session)
      /\ mobj[m] = "live" /\ ~matchStarted[m]
  BY NoMatchAssumption DEF OfferedInv, WaitingMatchOffered, TypeOK
<1> DEFINE q == clients[m][1]
<1>4. q \in Session /\ q \in Players(m)
  BY <1>3 DEF Players, ToSet
<1>5. q # s
  BY <1>2, <1>4 DEF EngagedInv, SearchersAreFree, Engaged
<1>6. NameOf[q] # NameOf[s]
  <2> SUFFICES ASSUME Namesakes(q, s) PROVE FALSE
    BY <1>5 DEF Namesakes
  <2>1. session[q] \notin {"on", "ended"}
    BY <1>2, <1>4 DEF NamesInv, NameHeldOnce
  <2>2. session[q] = "gone"
    BY <1>4, <2>1 DEF EngagedInv, PlayersWereOn, TypeOK, SessionState
  <2>3. Closing(m)
    BY <1>3, <1>4, <2>2 DEF LossInv, WaitingPlayerPresent
  <2>4. Destroyed(m) # FindMatch(s)
    BY DEF Destroyed, FindMatch
  <2>5. Ahead(events, FindMatch(s), Destroyed(m))
    BY <1>1, <2>3, <2>4, ToSetTail, AheadTail DEF TypeOK, Closing, Queued
  <2> QED
    BY <1>3, <1>4, <2>5 DEF PairsInv, NamesakeBehind
<1>7. Len(clients'[m]) = 2 /\ clients'[m][1] = q /\ clients'[m][2] = s
  <2>1. clients'[m] = Append(clients[m], s)
    BY <1>1 DEF TypeOK
  <2>2. LET r == Append(clients[m], s) IN Len(r) = 2 /\ r[1] = clients[m][1] /\ r[2] = s
    BY <1>3, SecondPlayer
  <2> QED
    BY <2>1, <2>2
<1> HIDE DEF q
<1>8. PlayersDistinguishable'
  BY <1>1, <1>6, <1>7 DEF PairsInv, PlayersDistinguishable, TypeOK
<1>9. NamesakeBehind'
  <2>1. ASSUME NEW n \in Match, NEW t \in Session, ~matchStarted'[n],
               Ahead(events', FindMatch(t), Destroyed(n))
        PROVE  n # m /\ Players(n)' = Players(n) /\ ~matchStarted[n]
               /\ Ahead(events, FindMatch(t), Destroyed(n))
    <3>1. n # m
      BY <1>1, <2>1 DEF TypeOK
    <3>2. \A e, f : Ahead(events', e, f) => Ahead(Tail(events), e, f) \/ f.type = "matchOid"
      <4> DEFINE x == OidEvent(Players(m) \cup {s}, m)
      <4>1. x \in Event /\ x.type = "matchOid"
        BY PlayersType, EventTypes DEF OidEvent
      <4>2. Tail(events) \in Seq(Event) /\ events' = Append(Tail(events), x)
        BY HeadTailProperties DEF TypeOK, FindSecond, AddSecond
      <4> HIDE DEF x
      <4> QED
        BY <4>1, <4>2, ExtendsAppend
    <3>3. Ahead(events, FindMatch(t), Destroyed(n))
      BY <1>1, <2>1, <3>2, AheadTail DEF Destroyed, TypeOK
    <3> QED
      BY <1>1, <2>1, <3>1, <3>3 DEF Players, TypeOK
  <2>2. \A n \in Match, t \in Session :
          ~matchStarted'[n] /\ (\E p \in Players(n)' : Namesakes(p, t)) =>
            ~Ahead(events', FindMatch(t), Destroyed(n))
    BY <2>1 DEF PairsInv, NamesakeBehind
  <2> QED
    BY <2>2 DEF NamesakeBehind, Namesakes, FindMatch, Destroyed, Ahead
<1> QED
  BY <1>8, <1>9 DEF PairsInv

\* When a match closes that waits, the name of the player who has left is searching
\* nowhere in the queue.
LEMMA PairsClientDestroyed ==
  ASSUME TypeOK, OfferedInv, RequestsInv, LossInv, NamesInv, PairsInv,
         NEW s \in Session, HandleClientDestroyed(s)
  PROVE  PairsInv'
<1>1. /\ events # <<>> /\ Tail(events) \in Seq(Event) /\ session[s] = "ended"
      /\ clients' = clients /\ matchStarted' = matchStarted
  BY HeadTimely, HeadTailProperties DEF HandleClientDestroyed, Timely, TypeOK
<1>2. PlayersDistinguishable'
  BY <1>1 DEF PairsInv, PlayersDistinguishable
<1>3. ASSUME NEW m \in Match, NEW t \in Session, ~matchStarted[m],
             NEW p \in Players(m), Namesakes(p, t),
             Ahead(events', FindMatch(t), Destroyed(m))
      PROVE  FALSE
  <2>1. ~Ahead(Tail(events), FindMatch(t), Destroyed(m))
    BY <1>1, <1>3, AheadTail DEF PairsInv, NamesakeBehind, TypeOK
  <2>2. PICK n \in Match : s \in Players(n) /\ ~matchStarted[n]
                           /\ Shutdown(n, {u \in Session \ {s} : Active(u)}, Tail(events))
    BY <1>3, <2>1 DEF HandleClientDestroyed
  <2>3. Extends(Tail(events), events', Posts({n}))
    BY <1>1, <2>2, ShutdownExtends
  <2>4. FindMatch(t) \in ToSet(events') /\ Destroyed(m) \in Posts({n})
    BY <1>3, <2>1, <2>3 DEF Extends
  <2>5. m = n
    BY <2>4, PostsHold DEF Destroyed
  <2>6. FindMatch(t) \in ToSet(Tail(events))
    <3>1. FindMatch(t) \notin Posts({n})
      BY PostsHold DEF Destroyed, FindMatch
    <3> QED
      BY <2>3, <2>4, <3>1 DEF Extends
  <2>7. session[t] \in {"on", "ended"}
    <3>1. FindMatch(t) \in ToSet(events)
      BY <1>1, <2>6, ToSetTail DEF TypeOK
    <3>2. Timely(FindMatch(t))
      BY <3>1 DEF RequestsInv
    <3> QED
      BY <3>2 DEF Timely, FindMatch
  <2>8. p = s
    BY <1>1, <2>2, <2>5, WaitingIsHeld
  <2> QED
    BY <1>1, <1>3, <2>7, <2>8 DEF NamesInv, NameHeldOnce
<1>4. \A m \in Match : Players(m)' = Players(m)
  BY <1>1 DEF Players
<1>5. NamesakeBehind'
  <2>1. \A m \in Match, t \in Session :
          ~matchStarted[m] /\ (\E p \in Players(m) : Namesakes(p, t)) =>
            ~Ahead(events', FindMatch(t), Destroyed(m))
    BY <1>3
  <2> QED
    BY <1>1, <1>4, <2>1 DEF NamesakeBehind, Namesakes, FindMatch, Destroyed, Ahead
<1> QED
  BY <1>2, <1>5 DEF PairsInv

\* Every step keeps the players of a match apart by name.
LEMMA PairsStep ==
  TypeOK /\ OfferedInv /\ RequestsInv /\ LossInv /\ NamesInv /\ EngagedInv /\ PairsInv /\ [Next]_vars
    => PairsInv'
<1> SUFFICES ASSUME TypeOK, OfferedInv, RequestsInv, LossInv, NamesInv, EngagedInv, PairsInv,
                    [Next]_vars
             PROVE  PairsInv'
  OBVIOUS
<1>1. ASSUME NEW e \in Event, e.type # "matchDestroyed", events' = Append(events, e),
             UNCHANGED <<clients, matchStarted>>
      PROVE  PairsInv'
  <2>1. \A d, f : Ahead(events', d, f) => Ahead(events, d, f) \/ f = e
    BY <1>1, ExtendsAppend DEF TypeOK
  <2>2. \A m \in Match : Destroyed(m) # e
    BY <1>1 DEF Destroyed
  <2> QED
    BY <1>1, <2>1, <2>2, PairsKept
<1>2. CASE Environment
  BY <1>1, <1>2, EventTypes DEF Environment, Authenticate, ConnectionClosed,
     RequestFindMatch, RequestSubscribe, RequestSend, Post, matchVars
<1>3. ASSUME NEW m \in Match, SendMessages(m) PROVE PairsInv'
  <2>1. Extends(events, events', Posts({m})) /\ matchStarted[m]
        /\ UNCHANGED <<clients, matchStarted>>
    BY <1>3, SendMessagesExtends DEF SendMessages, LossInv, SendersStarted
  <2>2. \A n \in Match : ~matchStarted[n] => Destroyed(n) \notin Posts({m})
    BY <2>1, PostsHold DEF Destroyed
  <2> QED
    BY <2>1, <2>2, PairsKept DEF Extends
<1>4. CASE Handle /\ UNCHANGED <<clients, matchStarted>> /\ events' = Tail(events)
  <2>1. \A d, f : Ahead(events', d, f) => Ahead(events, d, f)
    BY <1>4, HandleExtends, AheadTail DEF TypeOK
  <2> QED
    BY <1>4, <2>1, PairsKept
<1>5. CASE UNCHANGED vars
  BY <1>5, PairsKept DEF vars, matchVars
<1>6. CASE Handle
  <2>1. \/ \E s \in Session : FindFirst(s) \/ FindSecond(s) \/ HandleClientDestroyed(s)
        \/ UNCHANGED <<clients, matchStarted>> /\ events' = Tail(events)
    BY <1>6 DEF Handle, HandleResolve, HandleSubscribe, HandleSend, HandleMatchDestroyed,
       HandleNotice, matchVars
  <2> QED
    BY <1>4, <1>6, <2>1, PairsFindFirst, PairsFindSecond, PairsClientDestroyed
<1> QED
  BY <1>2, <1>3, <1>5, <1>6 DEF Next, Server

\* The players put together can be told apart, in every state.
LEMMA PairsInvariant == Spec => []PairsInv
<1>1. Init => PairsInv
  BY SMT DEF Init, PairsInv, PlayersDistinguishable, NamesakeBehind, Players, ToSet
<1>2. TypeOK /\ OfferedInv /\ RequestsInv /\ LossInv /\ NamesInv /\ EngagedInv /\ PairsInv /\ [Next]_vars
        => PairsInv'
  BY PairsStep
<1> QED
  BY <1>1, <1>2, TypeCorrect, OfferedInvariant, RequestsInvariant, LossInvariant,
     NamesInvariant, EngagedInvariant, PTL DEF Spec

\* A match that has started has two players whose names differ, although a name may
\* be taken again before the matchmaker has heard that its first session is gone
\* (AztecAuthenticator, AztecMatchmaker.findMatch, ConnectMode).
THEOREM PlayersAreDistinguishable == Spec => []PlayersDistinguishable
<1>1. PairsInv => PlayersDistinguishable
  BY DEF PairsInv
<1> QED
  BY <1>1, PairsInvariant, PTL

-----------------------------------------------------------------------------
(* How a match in play is closed.  Nothing is sent to a match that has not   *)
(* started, because no client knows of it; so the flags that end a match are *)
(* up only with a message that says so in the next batch.                    *)

UnstartedUnknown ==
  \A m \in Match : ~matchStarted[m] =>
    /\ \A s \in Session : matchOid[s] # m
    /\ subscribers[m] = {}
    /\ \A e \in ToSet(events) : e.type \in {"subscribe", "sendMessage"} => e.m # m
    /\ ~gotWinMessage[m] /\ ~playerDisconnected[m]

Ending(m) == gotWinMessage[m] \/ playerDisconnected[m]

FinalQueued ==
  \A m \in Match : sending[m] /\ Ending(m) => \E msg \in ToSet(queued[m]) : Final(msg)

FinalInv == UnstartedUnknown /\ FinalQueued

\* Steps that tell nobody of a match that has not started.
LEMMA UnknownKept ==
  ASSUME UnstartedUnknown,
         \A m \in Match : ~matchStarted'[m] =>
           /\ ~matchStarted[m]
           /\ \A s \in Session : matchOid'[s] = m => matchOid[s] = m
           /\ subscribers'[m] \subseteq subscribers[m]
           /\ gotWinMessage'[m] => gotWinMessage[m]
           /\ playerDisconnected'[m] => playerDisconnected[m],
         \A e \in ToSet(events') : e.type \in {"subscribe", "sendMessage"} =>
           e \in ToSet(events) \/ matchStarted'[e.m]
  PROVE  UnstartedUnknown'
BY DEF UnstartedUnknown

\* Steps that change neither the timers, nor the flags, nor what is queued for a
\* batch.
LEMMA FinalKept ==
  ASSUME FinalQueued, UNCHANGED <<sending, gotWinMessage, playerDisconnected, queued>>
  PROVE  FinalQueued'
BY DEF FinalQueued, Ending

\* What the server posts by itself is no request.
LEMMA RequestsPostedBefore ==
  ASSUME TypeOK, NEW q, ToSet(q) \subseteq ToSet(events), NEW D, Extends(q, events', Posts(D))
  PROVE  \A e \in ToSet(events') : e.type \in {"subscribe", "sendMessage"} => e \in ToSet(events)
<1>1. \A e \in Posts(D) : e.type \notin {"subscribe", "sendMessage"}
  BY PostsHold DEF Destroyed
<1> QED
  BY <1>1 DEF Extends

\* The loss of a player raises the flag together with the message.
LEMMA FinalClientDestroyed ==
  ASSUME TypeOK, FinalInv, NEW s \in Session, HandleClientDestroyed(s)
  PROVE  FinalInv'
<1> DEFINE playing == {m \in Match : s \in Players(m) /\ matchStarted[m]}
<1>1. /\ matchStarted' = matchStarted /\ subscribers' = subscribers
      /\ gotWinMessage' = gotWinMessage
      /\ playerDisconnected' = [m \in Match |-> playerDisconnected[m] \/ m \in playing]
      /\ queued' = [m \in Match |-> IF m \in playing
                                    THEN Append(queued[m], PlayerDisconnected)
                                    ELSE queued[m]]
  BY DEF HandleClientDestroyed
<1>2. \/ UNCHANGED <<matchOid, sending>>
      \/ \E m \in Match : /\ SetOid(Players(m) \cap {t \in Session \ {s} : Active(t)}, NoMatch)
                          /\ sending' = [sending EXCEPT ![m] = FALSE]
  BY DEF HandleClientDestroyed, Shutdown
<1>3. \A t \in Session, m \in Match : matchOid'[t] = m => matchOid[t] = m
  BY <1>2, NoMatchAssumption DEF SetOid
<1>4. \A m \in Match : sending'[m] => sending[m]
  BY <1>2 DEF TypeOK
<1>5. \A e \in ToSet(events') : e.type \in {"subscribe", "sendMessage"} => e \in ToSet(events)
  BY HandleExtends, RequestsPostedBefore, ToSetTail DEF Handle, TypeOK
<1>6. UnstartedUnknown'
  <2>1. \A m \in Match : ~matchStarted[m] => (playerDisconnected'[m] => playerDisconnected[m])
    BY <1>1
  <2> QED
    BY <1>1, <1>3, <1>5, <2>1, UnknownKept DEF FinalInv
<1>7. FinalQueued'
  <2> SUFFICES ASSUME NEW m \in Match, sending'[m], Ending(m)'
               PROVE  \E msg \in ToSet(queued'[m]) : Final(msg)
    BY DEF FinalQueued, Final
  <2>1. CASE m \in playing
    <3>1. queued'[m] = Append(queued[m], PlayerDisconnected) /\ PlayerDisconnected \in Message
      BY <1>1, <2>1 DEF PlayerDisconnected, Message
    <3>2. PlayerDisconnected \in ToSet(queued'[m])
      BY <3>1, ToSetAppend DEF TypeOK
    <3> QED
      BY <3>2 DEF Final, PlayerDisconnected
  <2>2. CASE m \notin playing
    <3>1. queued'[m] = queued[m] /\ (playerDisconnected'[m] => playerDisconnected[m])
      BY <1>1, <2>2
    <3>2. sending[m] /\ Ending(m)
      BY <1>1, <1>4, <3>1 DEF Ending
    <3> QED
      BY <3>1, <3>2 DEF FinalInv, FinalQueued
  <2> QED
    BY <2>1, <2>2
<1> QED
  BY <1>6, <1>7 DEF FinalInv

\* A batch takes the messages of its match; when they end it, the timer stops.
LEMMA FinalSendMessages ==
  ASSUME TypeOK, FinalInv, NEW m \in Match, SendMessages(m)
  PROVE  FinalInv'
<1>1. /\ UNCHANGED <<matchStarted, subscribers, gotWinMessage, playerDisconnected>>
      /\ queued' = [queued EXCEPT ![m] = <<>>]
  BY DEF SendMessages
<1>2. \/ ~Ending(m) /\ UNCHANGED <<matchOid, sending>>
      \/ /\ SetOid(Players(m) \cap {t \in Session : Active(t)}, NoMatch)
         /\ sending' = [sending EXCEPT ![m] = FALSE]
  BY DEF SendMessages, Shutdown, Ending
<1>3. \A t \in Session, n \in Match : matchOid'[t] = n => matchOid[t] = n
  BY <1>2, NoMatchAssumption DEF SetOid
<1>4. \A e \in ToSet(events') : e.type \in {"subscribe", "sendMessage"} => e \in ToSet(events)
  BY SendMessagesExtends, RequestsPostedBefore DEF TypeOK
<1>5. UnstartedUnknown'
  BY <1>1, <1>3, <1>4, UnknownKept DEF FinalInv
<1>6. FinalQueued'
  <2> SUFFICES ASSUME NEW n \in Match, sending'[n], Ending(n)
               PROVE  \E msg \in ToSet(queued'[n]) : Final(msg)
    BY <1>1 DEF FinalQueued, Ending, Final
  <2>1. n # m /\ sending[n]
    BY <1>2 DEF TypeOK
  <2> QED
    BY <1>1, <2>1 DEF FinalInv, FinalQueued, TypeOK
<1> QED
  BY <1>5, <1>6 DEF FinalInv

\* A message that wins is queued with the flag it raises.
LEMMA FinalSend ==
  ASSUME TypeOK, FinalInv, NEW s \in Session, NEW m \in Match, NEW msg \in Message,
         HandleSend(s, m, msg)
  PROVE  FinalInv'
<1> DEFINE e == [type |-> "sendMessage", s |-> s, m |-> m, msg |-> msg]
<1>1. /\ UNCHANGED <<matchStarted, subscribers, matchOid, playerDisconnected, sending>>
      /\ gotWinMessage' = [gotWinMessage EXCEPT ![m] = @ \/ msg.kind = "iWon"]
      /\ queued' = [queued EXCEPT ![m] = Append(@, msg)]
      /\ events # <<>> /\ Head(events) = e /\ events' = Tail(events)
  BY DEF HandleSend
<1>2. e.type = "sendMessage" /\ e.m = m
  OBVIOUS
<1> HIDE DEF e
<1>3. matchStarted[m]
  BY <1>1, <1>2, HeadQueued DEF FinalInv, UnstartedUnknown
<1>4. UnstartedUnknown'
  <2>1. \A n \in Match : ~matchStarted[n] => gotWinMessage'[n] = gotWinMessage[n]
    BY <1>1, <1>3 DEF TypeOK
  <2>2. ToSet(events') \subseteq ToSet(events)
    BY <1>1, ToSetTail DEF TypeOK
  <2> QED
    BY <1>1, <2>1, <2>2, UnknownKept DEF FinalInv
<1>5. FinalQueued'
  <2> SUFFICES ASSUME NEW n \in Match, sending[n], Ending(n)'
               PROVE  \E o \in ToSet(queued'[n]) : Final(o)
    BY <1>1 DEF FinalQueued, Final
  <2>1. CASE n # m
    BY <1>1, <2>1 DEF FinalInv, FinalQueued, Ending, TypeOK
  <2>2. CASE n = m
    <3>1. queued'[n] = Append(queued[n], msg)
      BY <1>1, <2>2 DEF TypeOK
    <3>2. ToSet(queued'[n]) = ToSet(queued[n]) \cup {msg}
      BY <3>1, ToSetAppend DEF TypeOK
    <3>3. msg.kind = "iWon" \/ Ending(n)
      BY <1>1, <2>2, Zenon DEF Ending, TypeOK
    <3> QED
      BY <3>2, <3>3 DEF FinalInv, FinalQueued, Final
  <2> QED
    BY <2>1, <2>2
<1> QED
  BY <1>4, <1>5 DEF FinalInv

\* A match that starts is made known to its players, and has nothing to say yet.
LEMMA FinalFindSecond ==
  ASSUME TypeOK, OfferedInv, FinalInv, NEW s \in Session, FindSecond(s)
  PROVE  FinalInv'
<1> PICK m \in Match : m = awaiting
  BY DEF FindSecond, TypeOK
<1>1. /\ UNCHANGED <<subscribers, gotWinMessage, playerDisconnected, queued>>
      /\ matchStarted' = [matchStarted EXCEPT ![m] = TRUE]
      /\ sending' = [sending EXCEPT ![m] = TRUE]
      /\ SetOid(Players(m) \cup {s}, m)
  BY DEF FindSecond, AddSecond
<1>2. ~matchStarted[m]
  BY NoMatchAssumption DEF OfferedInv, WaitingMatchOffered
<1>3. \A n \in Match : n # m => /\ matchStarted'[n] = matchStarted[n]
                                /\ sending'[n] = sending[n]
                                /\ \A t \in Session : matchOid'[t] = n => matchOid[t] = n
  BY <1>1 DEF SetOid, TypeOK
<1>4. matchStarted'[m] /\ ~Ending(m)
  BY <1>1, <1>2 DEF FinalInv, UnstartedUnknown, Ending, TypeOK
<1>5. \A e \in ToSet(events') : e.type \in {"subscribe", "sendMessage"} => e \in ToSet(events)
  BY HandleExtends, RequestsPostedBefore, ToSetTail DEF Handle, TypeOK
<1>6. UnstartedUnknown'
  BY <1>1, <1>3, <1>4, <1>5, UnknownKept DEF FinalInv
<1>7. FinalQueued'
  BY <1>1, <1>3, <1>4 DEF FinalInv, FinalQueued, Ending
<1> QED
  BY <1>6, <1>7 DEF FinalInv

\* Every step keeps the message that ends a match in its queue until it is published.
LEMMA FinalStep == TypeOK /\ OfferedInv /\ FinalInv /\ [Next]_vars => FinalInv'
<1> SUFFICES ASSUME TypeOK, OfferedInv, FinalInv, [Next]_vars PROVE FinalInv'
  OBVIOUS
<1>1. ASSUME UNCHANGED <<matchStarted, matchOid, subscribers, sending, gotWinMessage,
                         playerDisconnected, queued>>,
             \A e \in ToSet(events') : e.type \in {"subscribe", "sendMessage"} =>
               e \in ToSet(events) \/ matchStarted[e.m]
      PROVE  FinalInv'
  <2>1. UnstartedUnknown'
    BY <1>1, UnknownKept DEF FinalInv
  <2> QED
    BY <1>1, <2>1, FinalKept DEF FinalInv
<1>2. ASSUME NEW e \in Event, events' = Append(events, e),
             e.type \in {"subscribe", "sendMessage"} => matchStarted[e.m],
             UNCHANGED <<matchOid, matchVars, subscribers>>
      PROVE  FinalInv'
  <2>1. ToSet(events') = ToSet(events) \cup {e}
    BY <1>2, ToSetAppend DEF TypeOK
  <2> QED
    BY <1>1, <1>2, <2>1 DEF matchVars
<1>3. ASSUME NEW s \in Session, Authenticate(s) \/ ConnectionClosed(s) \/ RequestFindMatch(s)
      PROVE  FinalInv'
  BY <1>2, <1>3, EventTypes DEF Authenticate, ConnectionClosed, RequestFindMatch, Post
<1>4. ASSUME NEW s \in Session, NEW m \in Match, RequestSubscribe(s, m) PROVE FinalInv'
  <2>1. matchStarted[m]
    BY <1>4 DEF RequestSubscribe, FinalInv, UnstartedUnknown
  <2> QED
    BY <1>2, <1>4, <2>1, EventTypes DEF RequestSubscribe, Post
<1>5. ASSUME NEW s \in Session, NEW m \in Match, NEW msg \in Message, RequestSend(s, m, msg)
      PROVE  FinalInv'
  <2>1. matchStarted[m]
    BY <1>5 DEF RequestSend, FinalInv, UnstartedUnknown
  <2> QED
    BY <1>2, <1>5, <2>1, EventTypes DEF RequestSend, Post
<1>6. CASE Handle /\ UNCHANGED <<matchStarted, matchOid, subscribers, sending, gotWinMessage,
                                 playerDisconnected, queued>>
  BY <1>1, <1>6, HandleExtends, RequestsPostedBefore, ToSetTail DEF TypeOK
<1>7. ASSUME NEW s \in Session, NEW m \in Match, HandleSubscribe(s, m) PROVE FinalInv'
  <2>1. Handle /\ UNCHANGED matchVars /\ UNCHANGED matchOid
        /\ \A n \in Match : n # m => subscribers'[n] = subscribers[n]
    BY <1>7 DEF Handle, HandleSubscribe, TypeOK
  <2>2. matchStarted[m]
    BY <1>7, HeadQueued DEF HandleSubscribe, FinalInv, UnstartedUnknown
  <2>3. \A e \in ToSet(events') : e.type \in {"subscribe", "sendMessage"} => e \in ToSet(events)
    BY <2>1, HandleExtends, RequestsPostedBefore, ToSetTail DEF TypeOK
  <2>4. UnstartedUnknown'
    BY <2>1, <2>2, <2>3, UnknownKept DEF FinalInv, matchVars
  <2> QED
    BY <2>1, <2>4, FinalKept DEF FinalInv, matchVars
<1>8. CASE UNCHANGED vars
  BY <1>1, <1>8 DEF vars, matchVars
<1>9. CASE Handle
  <2>1. \/ \E s \in Session : FindSecond(s) \/ HandleClientDestroyed(s)
        \/ \E s \in Session, m \in Match : \/ HandleSubscribe(s, m)
                                           \/ \E msg \in Message : HandleSend(s, m, msg)
        \/ UNCHANGED <<matchStarted, matchOid, subscribers, sending, gotWinMessage,
                       playerDisconnected, queued>>
    BY <1>9 DEF Handle, HandleResolve, FindFirst, AddFirst, HandleMatchDestroyed,
       HandleNotice, matchVars
  <2> QED
    BY <1>6, <1>7, <1>9, <2>1, FinalFindSecond, FinalClientDestroyed, FinalSend
<1> QED
  BY <1>3, <1>4, <1>5, <1>8, <1>9, FinalSendMessages DEF Next, Server, Environment

\* The flags that end a match are up with the message that says so, in every state.
LEMMA FinalInvariant == Spec => []FinalInv
<1>1. Init => FinalInv
  BY NoMatchAssumption, SMT DEF Init, FinalInv, UnstartedUnknown, FinalQueued, ToSet
<1>2. TypeOK /\ OfferedInv /\ FinalInv /\ [Next]_vars => FinalInv'
  BY FinalStep
<1> QED
  BY <1>1, <1>2, TypeCorrect, OfferedInvariant, PTL DEF Spec

\* The run of the interval that closes a match posts the batch ahead of the end.
LEMMA ClosedBySendMessages ==
  ASSUME TypeOK, FinalInv, NEW m \in Match, SendMessages(m)
  PROVE  ClosedByFinal(m)
<1> SUFFICES ASSUME mobj[m] = "live", ~Closing(m), Closing(m)'
             PROVE  \E i \in 1..Len(events') :
                      /\ events'[i].type = "messages"
                      /\ events'[i].m = m
                      /\ \E k \in 1..Len(events'[i].batch) : Final(events'[i].batch[k])
                      /\ \A j \in 1..Len(events') : events'[j] = Destroyed(m) => j > i
  BY Zenon DEF ClosedByFinal
<1> DEFINE b == [type |-> "messages", m |-> m, batch |-> queued[m]]
           posted == Append(events, b)
           told == OidEvent(Players(m) \cap {t \in Session : Active(t)}, NoMatch)
           more == Append(posted, told)
           n == Len(events)
<1>1. b \in Event /\ b.type = "messages" /\ b.m = m /\ b.batch = queued[m] /\ b # Destroyed(m)
  BY EventTypes DEF TypeOK, Destroyed
<1>2. told \in Event
  BY PlayersType, EventTypes
<1>3. Destroyed(m) \in Event
  BY EventTypes
<1> HIDE DEF b, told
<1>4. n \in Nat /\ events \in Seq(Event) /\ \A j \in 1..n : events[j] # Destroyed(m)
  BY LenProperties DEF TypeOK, Closing, Queued, ToSet
<1>5. /\ posted \in Seq(Event) /\ Len(posted) = n + 1 /\ posted[n + 1] = b
      /\ \A j \in 1..n : posted[j] = events[j]
  BY <1>1, <1>4, AppendProperties
<1>6. ~(Destroyed(m) \in ToSet(posted))
  BY <1>1, <1>4, ToSetAppend DEF Closing, Queued
<1> HIDE DEF posted
<1>7. Ending(m) /\ events' = Append(more, Destroyed(m))
  <2>1. Closing(m)' <=> Destroyed(m) \in ToSet(events')
    BY DEF Closing, Queued, Destroyed
  <2> QED
    BY <1>6, <2>1 DEF SendMessages, Shutdown, Ending, posted, b, told
<1>8. /\ more \in Seq(Event) /\ Len(more) = n + 2
      /\ \A j \in 1..(n + 1) : more[j] = posted[j]
  BY <1>2, <1>4, <1>5, AppendProperties
<1> HIDE DEF more
<1>9. /\ Len(events') = n + 3 /\ events'[n + 1] = b
      /\ \A j \in 1..n : events'[j] = events[j]
  BY <1>3, <1>4, <1>5, <1>7, <1>8, AppendProperties
<1>10. \E k \in 1..Len(queued[m]) : Final(queued[m][k])
  <2>1. sending[m] /\ queued[m] \in Seq(Message)
    BY DEF SendMessages, TypeOK
  <2>2. \E msg \in ToSet(queued[m]) : Final(msg)
    BY <1>7, <2>1 DEF FinalInv, FinalQueued
  <2> QED
    BY <2>1, <2>2, LenProperties DEF ToSet
<1>11. \A j \in 1..Len(events') : events'[j] = Destroyed(m) => j > n + 1
  BY <1>1, <1>4, <1>9
<1>12. n + 1 \in 1..Len(events')
  BY <1>4, <1>9
<1> HIDE DEF n
<1> QED
  BY <1>1, <1>9, <1>10, <1>11, <1>12

\* Nothing but the run of its interval closes a match in play.
LEMMA ClosedByOthers ==
  ASSUME TypeOK, FinalInv, NEW m \in Match, [Next]_vars, ~SendMessages(m)
  PROVE  matchStarted[m] /\ Closing(m)' => Closing(m)
<1> SUFFICES ASSUME matchStarted[m] PROVE Closing(m)' => Closing(m)
  OBVIOUS
<1>c. Closing(m)' <=> Destroyed(m) \in ToSet(events')
  BY DEF Closing, Queued, Destroyed
<1>1. ASSUME NEW e \in Event, e.type # "matchDestroyed", events' = Append(events, e)
      PROVE  Closing(m)' => Closing(m)
  BY <1>c, <1>1, ClosingAppend DEF TypeOK, Closing, Queued
<1>2. CASE Environment
  BY <1>1, <1>2, EventTypes DEF Environment, Authenticate, ConnectionClosed,
     RequestFindMatch, RequestSubscribe, RequestSend, Post
<1>3. ASSUME NEW D, Destroyed(m) \notin Posts(D), NEW q, ToSet(q) \subseteq ToSet(events),
             Extends(q, events', Posts(D))
      PROVE  Closing(m)' => Closing(m)
  BY <1>c, <1>3 DEF Extends, Closing, Queued
<1>4. CASE Handle
  <2>1. Destroyed(m) \notin Posts({k \in Match : ~matchStarted[k]})
    BY PostsHold DEF Destroyed
  <2> QED
    BY <1>3, <1>4, <2>1, HandleExtends, ToSetTail DEF TypeOK
<1>5. ASSUME NEW k \in Match, k # m, SendMessages(k) PROVE Closing(m)' => Closing(m)
  <2>1. Destroyed(m) \notin Posts({k})
    BY <1>5, PostsHold DEF Destroyed
  <2> QED
    BY <1>3, <1>5, <2>1, SendMessagesExtends
<1>6. CASE UNCHANGED vars
  BY <1>c, <1>6 DEF vars, Closing, Queued
<1> QED
  BY <1>2, <1>4, <1>5, <1>6 DEF Next, Server

\* Players are never put out of a match in play without having been sent, before the
\* end of its object, a batch with the message that ends the battle on the client
\* (AztecMatchManager, run of _messageSender).
THEOREM ClosedByAFinalBatch == Spec => ClosedByFinalBatch
<1>1. TypeOK /\ FinalInv /\ [Next]_vars => [\A m \in Match : ClosedByFinal(m)]_vars
  BY ClosedBySendMessages, ClosedByOthers DEF ClosedByFinal
<1> QED
  BY <1>1, TypeCorrect, FinalInvariant, PTL DEF Spec, ClosedByFinalBatch

-----------------------------------------------------------------------------
(* All of it, for those who put another environment in the place of the      *)
(* sessions that may post anything.                                          *)

ServerInv ==
  /\ TypeOK /\ OfferedInv /\ RequestsInv /\ LossInv
  /\ NamesInv /\ EngagedInv /\ PairsInv /\ FinalInv

\* The server starts with nobody and nothing.
LEMMA ServerBegins == Init => ServerInv
<1> SUFFICES ASSUME Init PROVE ServerInv
  OBVIOUS
<1>1. TypeOK
  BY DEF Init, TypeOK, SessionState
<1>2. OfferedInv
  BY NoMatchAssumption DEF Init, OfferedInv, WaitingMatchOffered
<1>3. RequestsInv
  BY SMT DEF Init, RequestsInv, Ordered, ToSet
<1>4. LossInv
  BY SMT DEF Init, LossInv, MadeBeforeClosing, SendersStarted, EndedUnstarted, PlayKeepsTimer,
     WaitingPlayerPresent, LossNoticed, Closing, Queued, ToSet, Players
<1>5. NamesInv
  BY SMT DEF Init, NamesInv, NameHeldOnce, EndIsQueued, EndsComeFirst, Ahead
<1>6. EngagedInv
  BY SMT DEF Init, EngagedInv, PlayersWereOn, SearchersAreFree, OneMatchEach, PlayersPoint,
     Players, ToSet
<1>7. PairsInv
  BY SMT DEF Init, PairsInv, PlayersDistinguishable, NamesakeBehind, Players, ToSet
<1>8. FinalInv
  BY NoMatchAssumption, SMT DEF Init, FinalInv, UnstartedUnknown, FinalQueued, ToSet
<1> QED
  BY <1>1, <1>2, <1>3, <1>4, <1>5, <1>6, <1>7, <1>8 DEF ServerInv

\* Every step of the server and its environment keeps all of it.
LEMMA ServerStep == ServerInv /\ [Next]_vars => ServerInv'
BY TypeStep, OfferedStep, RequestsStep, LossStep, NamesStep, EngagedStep, PairsStep, FinalStep
DEF ServerInv
=============================================================================
