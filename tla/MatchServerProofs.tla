-------------------------- MODULE MatchServerProofs --------------------------
(***************************************************************************)
(* What holds of MatchServer for any number of sessions and matches and    *)
(* any bounds: the types, that no waiting match is forgotten, that one     *)
(* whose player is gone is closing, and that the loss of a player of a     *)
(* match in play is always noticed.                                        *)
(***************************************************************************)
EXTENDS MatchServer, SequenceTheorems, TLAPS

-----------------------------------------------------------------------------
(* The queue *)

\* The members of a queue after an append.
LEMMA ToSetAppend ==
  ASSUME NEW S, NEW q \in Seq(S), NEW e \in S
  PROVE  ToSet(Append(q, e)) = ToSet(q) \cup {e}
<1> DEFINE r == Append(q, e)
<1>1. /\ Len(r) = Len(q) + 1 /\ r \in Seq(S)
      /\ \A i \in 1..Len(q) : r[i] = q[i]
      /\ r[Len(q) + 1] = e
  BY AppendProperties
<1>2. DOMAIN q = 1..Len(q) /\ DOMAIN r = 1..(Len(q) + 1) /\ Len(q) \in Nat
  BY <1>1, LenProperties
<1> HIDE DEF r
<1>3. ToSet(r) \subseteq ToSet(q) \cup {e}
  BY <1>1, <1>2, SMT DEF ToSet
<1>4. ToSet(q) \cup {e} \subseteq ToSet(r)
  BY <1>1, <1>2, SMT DEF ToSet
<1> QED
  BY <1>3, <1>4 DEF r

\* Taking the head off a queue loses nothing else.
LEMMA ToSetTail ==
  ASSUME NEW S, NEW q \in Seq(S), q # <<>>
  PROVE  /\ ToSet(Tail(q)) \subseteq ToSet(q)
         /\ \A e \in ToSet(q) : e # Head(q) => e \in ToSet(Tail(q))
<1> DEFINE r == Tail(q)
<1>1. /\ r \in Seq(S) /\ Len(r) = Len(q) - 1
      /\ \A i \in 1..Len(r) : r[i] = q[i + 1]
  BY HeadTailProperties
<1>2. DOMAIN q = 1..Len(q) /\ DOMAIN r = 1..Len(r) /\ Len(q) \in Nat
  BY <1>1, LenProperties
<1>3. Head(q) = q[1]
  OBVIOUS
<1> HIDE DEF r
<1>4. ToSet(r) \subseteq ToSet(q)
  BY <1>1, <1>2, SMT DEF ToSet
<1>5. ASSUME NEW i \in 1..Len(q), i # 1 PROVE q[i] \in ToSet(r)
  <2>1. i - 1 \in 1..Len(r) /\ r[i - 1] = q[i]
    BY <1>1, <1>2, <1>5
  <2> QED
    BY <2>1, <1>2 DEF ToSet
<1>6. \A e \in ToSet(q) : e # Head(q) => e \in ToSet(r)
  BY <1>2, <1>3, <1>5 DEF ToSet
<1> QED
  BY <1>4, <1>6 DEF r

-----------------------------------------------------------------------------
(* Types *)

\* The events the handlers and the clients post.
LEMMA EventTypes ==
  /\ \A s \in Session : /\ [type |-> "resolve", s |-> s] \in Event
                        /\ [type |-> "findMatch", s |-> s] \in Event
                        /\ [type |-> "clientDestroyed", s |-> s] \in Event
  /\ \A s \in Session, m \in Match :
       /\ [type |-> "subscribe", s |-> s, m |-> m] \in Event
       /\ \A msg \in Message :
            [type |-> "sendMessage", s |-> s, m |-> m, msg |-> msg] \in Event
  /\ \A m \in Match : Destroyed(m) \in Event
  /\ \A m \in Match, b \in Seq(Message) :
       [type |-> "messages", m |-> m, batch |-> b] \in Event
  /\ \A ss \in SUBSET Session, m \in Match \cup {NoMatch} : OidEvent(ss, m) \in Event
BY SMT DEF Event, Destroyed, OidEvent

\* What is queued is an event.
LEMMA QueuedType ==
  ASSUME TypeOK, NEW e \in ToSet(events)
  PROVE  e \in Event
<1>1. \A i \in DOMAIN events : events[i] \in Event
  BY LenProperties, ElementOfSeq DEF TypeOK
<1> QED
  BY <1>1 DEF ToSet

\* The players of a match are sessions (AztecMatchManager._clients).
LEMMA PlayersType ==
  ASSUME TypeOK, NEW m \in Match
  PROVE  Players(m) \subseteq Session
<1>1. clients[m] \in Seq(Session)
  BY DEF TypeOK
<1>2. \A i \in DOMAIN clients[m] : clients[m][i] \in Session
  BY <1>1, LenProperties, ElementOfSeq
<1> QED
  BY <1>2 DEF Players, ToSet

\* What shutdown posts and changes.
LEMMA ShutdownType ==
  ASSUME TypeOK, NEW m \in Match, NEW active, NEW posted \in Seq(Event),
         Shutdown(m, active, posted)
  PROVE  /\ matchOid' \in [Session -> Match \cup {NoMatch}]
         /\ sending' \in [Match -> BOOLEAN]
         /\ events' \in Seq(Event)
<1>1. Players(m) \cap active \in SUBSET Session
  BY PlayersType
<1>2. Append(posted, OidEvent(Players(m) \cap active, NoMatch)) \in Seq(Event)
  BY <1>1, EventTypes, AppendProperties
<1>3. events' \in Seq(Event)
  BY <1>2, EventTypes, AppendProperties DEF Shutdown
<1>4. matchOid' \in [Session -> Match \cup {NoMatch}]
  BY DEF Shutdown, SetOid, TypeOK
<1>5. sending' \in [Match -> BOOLEAN]
  BY DEF Shutdown, TypeOK
<1> QED
  BY <1>3, <1>4, <1>5

\* Every step keeps the types.
LEMMA TypeStep == TypeOK /\ [Next]_vars => TypeOK'
<1> SUFFICES ASSUME TypeOK, [Next]_vars PROVE TypeOK'
  OBVIOUS
<1>t. events # <<>> => Tail(events) \in Seq(Event) /\ Head(events) \in Event
  BY HeadTailProperties DEF TypeOK
<1>1. ASSUME NEW s \in Session, Authenticate(s) PROVE TypeOK'
  <2>1. events' \in Seq(Event)
    BY <1>1, EventTypes, AppendProperties DEF Authenticate, TypeOK
  <2> QED
    BY <1>1, <2>1 DEF Authenticate, TypeOK, matchVars, SessionState
<1>2. ASSUME NEW s \in Session, ConnectionClosed(s) PROVE TypeOK'
  <2>1. events' \in Seq(Event)
    BY <1>2, EventTypes, AppendProperties DEF ConnectionClosed, TypeOK
  <2> QED
    BY <1>2, <2>1 DEF ConnectionClosed, TypeOK, matchVars, SessionState
<1>p. ASSUME NEW s \in Session, NEW e \in Event, Post(s, e) PROVE TypeOK'
  <2>1. events' \in Seq(Event)
    BY <1>p, AppendProperties DEF Post, TypeOK
  <2> QED
    BY <1>p, <2>1 DEF Post, TypeOK, matchVars
<1>3. ASSUME NEW s \in Session, RequestFindMatch(s) PROVE TypeOK'
  BY <1>3, <1>p, EventTypes DEF RequestFindMatch
<1>4. ASSUME NEW s \in Session, NEW m \in Match, RequestSubscribe(s, m) PROVE TypeOK'
  BY <1>4, <1>p, EventTypes DEF RequestSubscribe
<1>5. ASSUME NEW s \in Session, NEW m \in Match, NEW msg \in Message,
             RequestSend(s, m, msg)
      PROVE  TypeOK'
  BY <1>5, <1>p, EventTypes DEF RequestSend
<1>6. ASSUME NEW s \in Session, HandleResolve(s) PROVE TypeOK'
  BY <1>6, <1>t DEF HandleResolve, TypeOK, matchVars, SessionState
<1>7. ASSUME NEW s \in Session, FindFirst(s) PROVE TypeOK'
  <2> PICK m \in Match : /\ mobj' = [mobj EXCEPT ![m] = "live"]
                         /\ awaiting' = m
                         /\ listening' = [listening EXCEPT ![m] = TRUE]
                         /\ AddFirst(m, s)
    BY <1>7 DEF FindFirst
  <2>1. clients' \in [Match -> Seq(Session)]
    BY AppendProperties DEF AddFirst, TypeOK
  <2> QED
    BY <1>7, <1>t, <2>1 DEF FindFirst, AddFirst, TypeOK
<1>8. ASSUME NEW s \in Session, FindSecond(s) PROVE TypeOK'
  <2>1. awaiting \in Match
    BY <1>8 DEF FindSecond, TypeOK
  <2>2. clients' \in [Match -> Seq(Session)]
    BY <1>8, <2>1, AppendProperties DEF FindSecond, AddSecond, TypeOK
  <2>3. Players(awaiting) \cup {s} \in SUBSET Session
    BY <2>1, PlayersType
  <2>4. events' \in Seq(Event)
    BY <1>8, <1>t, <2>1, <2>3, EventTypes, AppendProperties
    DEF FindSecond, AddSecond
  <2>5. matchOid' \in [Session -> Match \cup {NoMatch}]
    BY <1>8, <2>1 DEF FindSecond, AddSecond, SetOid, TypeOK
  <2> QED
    BY <1>8, <2>2, <2>4, <2>5 DEF FindSecond, AddSecond, TypeOK
<1>9. ASSUME NEW s \in Session, HandleClientDestroyed(s) PROVE TypeOK'
  <2>1. /\ matchOid' \in [Session -> Match \cup {NoMatch}]
        /\ sending' \in [Match -> BOOLEAN]
        /\ events' \in Seq(Event)
    <3>1. CASE events' = Tail(events) /\ UNCHANGED <<matchOid, sending>>
      BY <3>1, <1>9, <1>t DEF HandleClientDestroyed, TypeOK
    <3>2. CASE \E m \in Match :
                 Shutdown(m, {t \in Session \ {s} : Active(t)}, Tail(events))
      BY <3>2, <1>9, <1>t, ShutdownType DEF HandleClientDestroyed
    <3> QED
      BY <3>1, <3>2, <1>9 DEF HandleClientDestroyed
  <2>2. PlayerDisconnected \in Message
    BY DEF PlayerDisconnected, Message
  <2>3. queued' \in [Match -> Seq(Message)]
    BY <1>9, <2>2, AppendProperties DEF HandleClientDestroyed, TypeOK
  <2>4. playerDisconnected' \in [Match -> BOOLEAN]
    BY <1>9, Zenon DEF HandleClientDestroyed, TypeOK
  <2> QED
    BY <1>9, <2>1, <2>3, <2>4 DEF HandleClientDestroyed, TypeOK, SessionState
<1>10. ASSUME NEW s \in Session, NEW m \in Match, HandleSubscribe(s, m) PROVE TypeOK'
  BY <1>10, <1>t DEF HandleSubscribe, TypeOK, matchVars
<1>11. ASSUME NEW s \in Session, NEW m \in Match, NEW msg \in Message,
              HandleSend(s, m, msg)
       PROVE  TypeOK'
  <2>1. queued' \in [Match -> Seq(Message)]
    BY <1>11, AppendProperties DEF HandleSend, TypeOK
  <2>2. gotWinMessage' \in [Match -> BOOLEAN]
    BY <1>11, Zenon DEF HandleSend, TypeOK
  <2> QED
    BY <1>11, <1>t, <2>1, <2>2 DEF HandleSend, TypeOK
<1>12. ASSUME NEW m \in Match, HandleMatchDestroyed(m) PROVE TypeOK'
  BY <1>12, <1>t DEF HandleMatchDestroyed, TypeOK, matchVars
<1>13. ASSUME HandleNotice PROVE TypeOK'
  BY <1>13, <1>t DEF HandleNotice, TypeOK, matchVars
<1>14. ASSUME NEW m \in Match, SendMessages(m) PROVE TypeOK'
  <2>1. queued' \in [Match -> Seq(Message)]
    BY <1>14, EmptySeq DEF SendMessages, TypeOK
  <2>2. queued[m] \in Seq(Message)
    BY DEF TypeOK
  <2> DEFINE posted == IF mobj[m] = "live"
                       THEN Append(events, [type |-> "messages", m |-> m,
                                            batch |-> queued[m]])
                       ELSE events
  <2>3. posted \in Seq(Event)
    BY <2>2, EventTypes, AppendProperties DEF TypeOK
  <2> HIDE DEF posted
  <2>4. \/ Shutdown(m, {t \in Session : Active(t)}, posted)
        \/ events' = posted /\ UNCHANGED <<matchOid, sending>>
    BY <1>14 DEF SendMessages, posted
  <2>5. /\ matchOid' \in [Session -> Match \cup {NoMatch}]
        /\ sending' \in [Match -> BOOLEAN]
        /\ events' \in Seq(Event)
    BY <2>3, <2>4, ShutdownType DEF TypeOK
  <2> QED
    BY <1>14, <2>1, <2>5 DEF SendMessages, TypeOK
<1>15. ASSUME UNCHANGED vars PROVE TypeOK'
  BY <1>15 DEF vars, matchVars, TypeOK
<1> QED
  BY <1>1, <1>2, <1>3, <1>4, <1>5, <1>6, <1>7, <1>8, <1>9, <1>10, <1>11, <1>12,
     <1>13, <1>14, <1>15
  DEF Next, Server, Handle, Environment

\* Every variable keeps its type, and the queue holds only events
\* (AztecMatchManager, AztecMatchmaker and the handlers around them).
THEOREM TypeCorrect == Spec => []TypeOK
<1>1. Init => TypeOK
  BY DEF Init, TypeOK, SessionState
<1>2. TypeOK /\ [Next]_vars => TypeOK'
  BY TypeStep
<1> QED
  BY <1>1, <1>2, PTL DEF Spec

-----------------------------------------------------------------------------
(* The matchmaker.  What has to be added to make the property inductive: the *)
(* shared listener listens to the waiting match and to no other, and a       *)
(* manager that has not been made has no players.                            *)

OfferedInv ==
  /\ WaitingMatchOffered
  /\ \A m \in Match : listening[m] => awaiting = m
  /\ \A m \in Match : mobj[m] = "none" => clients[m] = <<>> /\ ~matchStarted[m]

\* Every step keeps the matchmaker's books and the matches in agreement.
LEMMA OfferedStep == TypeOK /\ OfferedInv /\ [Next]_vars => OfferedInv'
<1> SUFFICES ASSUME TypeOK, OfferedInv, [Next]_vars PROVE OfferedInv'
  OBVIOUS
<1> USE NoMatchAssumption DEF TypeOK, OfferedInv, WaitingMatchOffered
\* What most steps leave alone is all that OfferedInv is about.
<1>u. ASSUME UNCHANGED <<awaiting, listening, mobj, clients, matchStarted>>
      PROVE  OfferedInv'
  BY <1>u
<1>1. ASSUME NEW s \in Session, FindFirst(s) PROVE OfferedInv'
  <2> PICK m \in Match : /\ mobj[m] = "none"
                         /\ mobj' = [mobj EXCEPT ![m] = "live"]
                         /\ awaiting' = m
                         /\ listening' = [listening EXCEPT ![m] = TRUE]
                         /\ AddFirst(m, s)
    BY <1>1 DEF FindFirst
  <2>1. awaiting = NoMatch
    BY <1>1 DEF FindFirst
  <2>2. clients' = [clients EXCEPT ![m] = Append(<<>>, s)] /\ matchStarted' = matchStarted
    BY DEF AddFirst
  <2>3. clients'[m] = <<s>> /\ Len(clients'[m]) = 1
    BY <2>2
  <2>4. \A n \in Match : mobj'[n] = "live" /\ ~matchStarted'[n] => awaiting' = n
    BY <2>1, <2>2
  <2>5. /\ mobj'[m] = "live" /\ ~matchStarted'[m] /\ listening'[m]
    BY <2>2
  <2>6. \A n \in Match : listening'[n] => awaiting' = n
    BY <2>1
  <2>7. \A n \in Match : mobj'[n] = "none" => clients'[n] = <<>> /\ ~matchStarted'[n]
    BY <2>2
  <2> QED
    BY <2>3, <2>4, <2>5, <2>6, <2>7
<1>2. ASSUME NEW s \in Session, FindSecond(s) PROVE OfferedInv'
  <2>1. awaiting \in Match /\ mobj[awaiting] = "live"
    BY <1>2 DEF FindSecond
  <2>2. /\ awaiting' = NoMatch /\ mobj' = mobj
        /\ listening' = [listening EXCEPT ![awaiting] = FALSE]
        /\ matchStarted' = [matchStarted EXCEPT ![awaiting] = TRUE]
        /\ clients' = [clients EXCEPT ![awaiting] = Append(@, s)]
    BY <1>2 DEF FindSecond, AddSecond
  <2> QED
    BY <2>1, <2>2
<1>3. ASSUME NEW m \in Match, HandleMatchDestroyed(m) PROVE OfferedInv'
  BY <1>3 DEF HandleMatchDestroyed, matchVars
<1>4. CASE Environment
  BY <1>4, <1>u DEF Environment, Authenticate, ConnectionClosed, RequestFindMatch,
     RequestSubscribe, RequestSend, Post, matchVars
<1>5. CASE \E m \in Match : SendMessages(m)
  BY <1>5, <1>u DEF SendMessages
<1>6. ASSUME NEW s \in Session, HandleResolve(s) \/ HandleClientDestroyed(s)
      PROVE  OfferedInv'
  BY <1>6, <1>u DEF HandleResolve, HandleClientDestroyed, matchVars
<1>7. ASSUME NEW s \in Session, NEW m \in Match,
             HandleSubscribe(s, m) \/ \E msg \in Message : HandleSend(s, m, msg)
      PROVE  OfferedInv'
  BY <1>7, <1>u DEF HandleSubscribe, HandleSend, matchVars
<1>8. CASE HandleNotice \/ UNCHANGED vars
  BY <1>8, <1>u DEF HandleNotice, vars, matchVars
<1> QED
  BY <1>1, <1>2, <1>3, <1>4, <1>5, <1>6, <1>7, <1>8 DEF Next, Server, Handle

\* The matchmaker's books agree with the matches there are, in every state.
LEMMA OfferedInvariant == Spec => []OfferedInv
<1>1. Init => OfferedInv
  BY NoMatchAssumption DEF Init, OfferedInv, WaitingMatchOffered
<1>2. TypeOK /\ OfferedInv /\ [Next]_vars => OfferedInv'
  BY OfferedStep
<1> QED
  BY <1>1, <1>2, TypeCorrect, PTL DEF Spec

\* The matchmaker holds the one match that waits for a player, for any number of
\* callers of findMatch, matches that die and players that leave.
THEOREM WaitingMatchIsOffered == Spec => []WaitingMatchOffered
<1>1. OfferedInv => WaitingMatchOffered
  BY DEF OfferedInv
<1> QED
  BY <1>1, OfferedInvariant, PTL

-----------------------------------------------------------------------------
(* The order of the queue: nothing a session asked for is behind its end.    *)

SessionEvent == {"resolve", "findMatch", "clientDestroyed"}

\* e must not be anywhere before f.
Clash(e, f) ==
  /\ e.type \in SessionEvent /\ f.type \in SessionEvent /\ e.s = f.s
  /\ \/ e.type = "clientDestroyed"
     \/ e.type = f.type /\ e.type # "clientDestroyed"

Ordered(q) == \A i, j \in 1..Len(q) : i < j => ~Clash(q[i], q[j])

\* The life of a session agrees with what is queued of it.
Timely(e) ==
  /\ e.type = "resolve" => session[e.s] = "resolving"
  /\ e.type = "findMatch" => session[e.s] \in {"on", "ended"}
  /\ e.type = "clientDestroyed" => session[e.s] = "ended"

RequestsInv ==
  /\ Ordered(events)
  /\ \A e \in ToSet(events) : Timely(e)

\* Posting an event keeps the order when nothing queued clashes with it.
LEMMA OrderedAppend ==
  ASSUME NEW q \in Seq(Event), NEW e \in Event, Ordered(q),
         \A f \in ToSet(q) : ~Clash(f, e)
  PROVE  Ordered(Append(q, e))
<1> DEFINE r == Append(q, e)
<1>1. /\ Len(r) = Len(q) + 1 /\ r[Len(q) + 1] = e
      /\ \A i \in 1..Len(q) : r[i] = q[i]
  BY AppendProperties
<1>2. Len(q) \in Nat /\ DOMAIN q = 1..Len(q)
  BY LenProperties
<1>3. \A i \in 1..Len(q) : ~Clash(q[i], e)
  BY <1>2 DEF ToSet
<1> HIDE DEF r
<1>4. Ordered(r)
  <2> SUFFICES ASSUME NEW i \in 1..Len(r), NEW j \in 1..Len(r), i < j
               PROVE  ~Clash(r[i], r[j])
    BY DEF Ordered
  <2>1. CASE j = Len(q) + 1
    BY <2>1, <1>1, <1>2, <1>3
  <2>2. CASE j # Len(q) + 1
    <3>1. i \in 1..Len(q) /\ j \in 1..Len(q)
      BY <2>2, <1>1, <1>2
    <3> QED
      BY <3>1, <1>1 DEF Ordered
  <2> QED
    BY <2>1, <2>2
<1> QED
  BY <1>4 DEF r

\* Taking the first event keeps the order, and the first clashed with no other.
LEMMA OrderedTail ==
  ASSUME NEW q \in Seq(Event), q # <<>>, Ordered(q)
  PROVE  /\ Ordered(Tail(q))
         /\ \A f \in ToSet(Tail(q)) : ~Clash(Head(q), f)
<1> DEFINE r == Tail(q)
<1>1. /\ r \in Seq(Event) /\ Len(r) = Len(q) - 1 /\ Head(q) = q[1]
      /\ \A i \in 1..Len(r) : r[i] = q[i + 1]
  BY HeadTailProperties
<1>2. Len(q) \in Nat /\ DOMAIN r = 1..Len(r)
  BY <1>1, LenProperties
<1> HIDE DEF r
<1>3. ASSUME NEW i \in 1..Len(r) PROVE i + 1 \in 1..Len(q) /\ 1 < i + 1 /\ 1 \in 1..Len(q)
  BY <1>1, <1>2
<1>4. Ordered(r)
  <2> SUFFICES ASSUME NEW i \in 1..Len(r), NEW j \in 1..Len(r), i < j
               PROVE  ~Clash(r[i], r[j])
    BY DEF Ordered
  <2>1. i + 1 < j + 1
    BY <1>1, <1>2
  <2> QED
    BY <2>1, <1>1, <1>3 DEF Ordered
<1>5. \A i \in 1..Len(r) : ~Clash(q[1], r[i])
  BY <1>1, <1>3 DEF Ordered
<1>6. \A f \in ToSet(r) : ~Clash(Head(q), f)
  BY <1>1, <1>2, <1>5 DEF ToSet
<1> QED
  BY <1>4, <1>6 DEF r

\* r is q, and after it events that are about no session.
Grown(q, r) ==
  /\ r \in Seq(Event)
  /\ ToSet(q) \subseteq ToSet(r)
  /\ \A e \in ToSet(r) \ ToSet(q) : e.type \notin SessionEvent
  /\ Ordered(q) => Ordered(r)

\* Posting an event keeps what was queued.
LEMMA GrownAppend ==
  ASSUME NEW q \in Seq(Event), NEW e \in Event, e.type \notin SessionEvent
  PROVE  Grown(q, Append(q, e)) /\ ToSet(Append(q, e)) = ToSet(q) \cup {e}
<1>1. \A f \in ToSet(q) : ~Clash(f, e)
  BY DEF Clash
<1> QED
  BY <1>1, ToSetAppend, OrderedAppend, AppendProperties DEF Grown

\* Posting several keeps it too.
LEMMA GrownTransitive ==
  ASSUME NEW q, NEW r, NEW t, Grown(q, r), Grown(r, t)
  PROVE  Grown(q, t)
BY DEF Grown

\* So does posting nothing.
LEMMA GrownSelf ==
  ASSUME NEW q \in Seq(Event)
  PROVE  Grown(q, q)
BY DEF Grown

\* What shutdown posts: the destruction of the match, when it still exists, and
\* of no other.
LEMMA ShutdownGrown ==
  ASSUME TypeOK, NEW m \in Match, NEW active, NEW posted \in Seq(Event),
         Shutdown(m, active, posted)
  PROVE  /\ Grown(posted, events')
         /\ mobj[m] = "live" => Destroyed(m) \in ToSet(events')
         /\ \A n \in Match : Destroyed(n) \in ToSet(events') =>
              Destroyed(n) \in ToSet(posted) \/ (n = m /\ mobj[m] = "live")
<1> DEFINE told == OidEvent(Players(m) \cap active, NoMatch)
           more == Append(posted, told)
<1>1. Players(m) \cap active \in SUBSET Session
  BY PlayersType
<1>2. told \in Event /\ told.type = "matchOid"
  BY <1>1, EventTypes DEF OidEvent
<1>3. Destroyed(m) \in Event /\ Destroyed(m).type = "matchDestroyed"
  BY EventTypes DEF Destroyed
<1>4. \A n \in Match : Destroyed(n) # told /\ (Destroyed(n) = Destroyed(m) => n = m)
  BY <1>2, SMT DEF Destroyed, OidEvent
<1>5. events' = IF mobj[m] = "live" THEN Append(more, Destroyed(m)) ELSE more
  BY DEF Shutdown
<1> HIDE DEF told
<1>6. Grown(posted, more) /\ ToSet(more) = ToSet(posted) \cup {told} /\ more \in Seq(Event)
  BY <1>2, GrownAppend, AppendProperties DEF SessionEvent
<1> HIDE DEF more
<1>7. /\ Grown(more, Append(more, Destroyed(m)))
      /\ ToSet(Append(more, Destroyed(m))) = ToSet(more) \cup {Destroyed(m)}
  BY <1>3, <1>6, GrownAppend DEF SessionEvent
<1>8. Grown(posted, Append(more, Destroyed(m)))
  BY <1>6, <1>7, GrownTransitive
<1> QED
  BY <1>4, <1>5, <1>6, <1>7, <1>8

\* A handler takes the head of the queue and posts nothing about a session.
LEMMA HandleGrown ==
  ASSUME TypeOK, Handle
  PROVE  events # <<>> /\ Grown(Tail(events), events')
<1>1. events # <<>>
  BY DEF Handle, HandleResolve, FindFirst, FindSecond, HandleClientDestroyed,
     HandleSubscribe, HandleSend, HandleMatchDestroyed, HandleNotice
<1>2. Tail(events) \in Seq(Event)
  BY <1>1, HeadTailProperties DEF TypeOK
<1>3. CASE events' = Tail(events)
  BY <1>1, <1>2, <1>3, GrownSelf
<1>4. ASSUME NEW s \in Session, FindSecond(s) PROVE Grown(Tail(events), events')
  <2> DEFINE e == OidEvent(Players(awaiting) \cup {s}, awaiting)
  <2>1. awaiting \in Match
    BY <1>4 DEF FindSecond, TypeOK
  <2>2. e \in Event /\ e.type \notin SessionEvent
    BY <2>1, PlayersType, EventTypes DEF OidEvent, SessionEvent
  <2> HIDE DEF e
  <2>3. Grown(Tail(events), Append(Tail(events), e))
    BY <1>2, <2>2, GrownAppend
  <2> QED
    BY <1>4, <2>3 DEF FindSecond, AddSecond, e
<1>5. ASSUME NEW s \in Session, HandleClientDestroyed(s) PROVE Grown(Tail(events), events')
  BY <1>2, <1>3, <1>5, ShutdownGrown DEF HandleClientDestroyed
<1> QED
  BY <1>1, <1>3, <1>4, <1>5 DEF Handle, HandleResolve, FindFirst, AddFirst,
     HandleSubscribe, HandleSend, HandleMatchDestroyed, HandleNotice

\* The interval posts nothing about a session.
LEMMA SendMessagesGrown ==
  ASSUME TypeOK, NEW m \in Match, SendMessages(m)
  PROVE  Grown(events, events')
<1> DEFINE b == [type |-> "messages", m |-> m, batch |-> queued[m]]
           posted == IF mobj[m] = "live" THEN Append(events, b) ELSE events
<1>1. b \in Event /\ b.type \notin SessionEvent
  BY EventTypes DEF TypeOK, SessionEvent
<1> HIDE DEF b
<1>2. Grown(events, posted) /\ posted \in Seq(Event)
  BY <1>1, GrownAppend, GrownSelf, AppendProperties DEF TypeOK
<1> HIDE DEF posted
<1>3. \/ Shutdown(m, {t \in Session : Active(t)}, posted)
      \/ events' = posted
  BY DEF SendMessages, posted, b
<1> QED
  BY <1>2, <1>3, ShutdownGrown, GrownTransitive

\* Steps that change no session and at most take the head of the queue and post
\* events about no session.
LEMMA RequestsKept ==
  ASSUME TypeOK, RequestsInv, session' = session, NEW q,
         q = events \/ (events # <<>> /\ q = Tail(events)),
         Grown(q, events')
  PROVE  RequestsInv'
<1>1. Ordered(q) /\ ToSet(q) \subseteq ToSet(events)
  BY OrderedTail, ToSetTail DEF RequestsInv, TypeOK
<1>2. Ordered(events')
  BY <1>1 DEF Grown
<1>3. ASSUME NEW e \in ToSet(events') PROVE Timely(e)'
  <2>1. CASE e \in ToSet(q)
    BY <2>1, <1>1 DEF RequestsInv, Timely
  <2>2. CASE e.type \notin SessionEvent
    BY <2>2 DEF Timely, SessionEvent
  <2> QED
    BY <2>1, <2>2, <1>3 DEF Grown
<1> QED
  BY <1>2, <1>3 DEF RequestsInv, Ordered, Clash

\* What a step does that takes an event about session s off the queue and
\* changes nothing but the state of s.
LEMMA RequestsHandled ==
  ASSUME TypeOK, RequestsInv, NEW s \in Session, NEW st, events # <<>>,
         session' = [session EXCEPT ![s] = st],
         Grown(Tail(events), events'),
         \A e \in ToSet(Tail(events)) : e.s = s => Timely(e)'
  PROVE  RequestsInv'
<1>1. Ordered(Tail(events)) /\ ToSet(Tail(events)) \subseteq ToSet(events)
  BY OrderedTail, ToSetTail DEF RequestsInv, TypeOK
<1>2. Ordered(events')
  BY <1>1 DEF Grown
<1>3. ASSUME NEW e \in ToSet(events') PROVE Timely(e)'
  <2>1. CASE e \in ToSet(Tail(events)) /\ e.s = s
    BY <2>1
  <2>2. CASE e \in ToSet(Tail(events)) /\ e.s # s
    <3>1. Timely(e)
      BY <2>2, <1>1 DEF RequestsInv
    <3>2. session'[e.s] = session[e.s]
      BY <2>2 DEF TypeOK
    <3> QED
      BY <3>1, <3>2 DEF Timely
  <2>3. CASE e.type \notin SessionEvent
    BY <2>3 DEF Timely, SessionEvent
  <2> QED
    BY <2>1, <2>2, <2>3, <1>3 DEF Grown
<1> QED
  BY <1>2, <1>3 DEF RequestsInv, Ordered, Clash

\* A session that adds an event about itself to the end of the queue.
LEMMA RequestsPosted ==
  ASSUME TypeOK, RequestsInv, NEW s \in Session, NEW st, NEW e \in Event,
         events' = Append(events, e),
         session' = [session EXCEPT ![s] = st],
         \A f \in ToSet(events) : ~Clash(f, e),
         \A f \in ToSet(events) : f.s = s => Timely(f)',
         Timely(e)'
  PROVE  RequestsInv'
<1>2. /\ Ordered(events')
      /\ ToSet(events') = ToSet(events) \cup {e}
  BY OrderedAppend, ToSetAppend DEF TypeOK, RequestsInv
<1>3. ASSUME NEW f \in ToSet(events') PROVE Timely(f)'
  <2>1. CASE f = e
    BY <2>1
  <2>2. CASE f \in ToSet(events) /\ f.s = s
    BY <2>2
  <2>3. CASE f \in ToSet(events) /\ f.s # s
    <3>1. Timely(f)
      BY <2>3 DEF RequestsInv
    <3>2. session'[f.s] = session[f.s]
      BY <2>3 DEF TypeOK
    <3> QED
      BY <3>1, <3>2 DEF Timely
  <2> QED
    BY <2>1, <2>2, <2>3, <1>2, <1>3
<1> QED
  BY <1>2, <1>3 DEF RequestsInv, Ordered, Clash

\* The event being handled was queued.
LEMMA HeadQueued ==
  ASSUME TypeOK, events # <<>>
  PROVE  Head(events) \in ToSet(events)
<1>1. 1 \in DOMAIN events /\ Head(events) = events[1]
  BY EmptySeq, LenProperties DEF TypeOK
<1> QED
  BY <1>1 DEF ToSet

\* Every step keeps the order of what is queued of each session.
LEMMA RequestsStep == TypeOK /\ RequestsInv /\ [Next]_vars => RequestsInv'
<1> SUFFICES ASSUME TypeOK, RequestsInv, [Next]_vars PROVE RequestsInv'
  OBVIOUS
<1>e. events \in Seq(Event) /\ (events # <<>> => Tail(events) \in Seq(Event))
  BY HeadTailProperties DEF TypeOK
<1>t. events # <<>> => Grown(Tail(events), Tail(events))
  BY <1>e, GrownSelf
<1>h. events # <<>> => /\ Head(events) \in ToSet(events)
                       /\ ToSet(Tail(events)) \subseteq ToSet(events)
                       /\ \A f \in ToSet(Tail(events)) : ~Clash(Head(events), f)
  BY <1>e, HeadQueued, ToSetTail, OrderedTail DEF RequestsInv
<1>1. ASSUME NEW s \in Session, Authenticate(s) PROVE RequestsInv'
  <2> DEFINE e == [type |-> "resolve", s |-> s]
  <2>1. e \in Event /\ e.type = "resolve" /\ e.s = s
    BY EventTypes
  <2>2. events' = Append(events, e) /\ session' = [session EXCEPT ![s] = "resolving"]
    BY <1>1 DEF Authenticate, TypeOK
  <2> HIDE DEF e
  <2>3. session'[s] = "resolving"
    BY <2>2 DEF TypeOK
  <2>4. \A f \in ToSet(events) : f.type \in SessionEvent /\ f.s = s => FALSE
    BY <1>1 DEF Authenticate, RequestsInv, Timely, SessionEvent
  <2>5. \A f \in ToSet(events) : ~Clash(f, e)
    BY <2>1, <2>4 DEF Clash
  <2>6. \A f \in ToSet(events) : f.s = s => Timely(f)'
    BY <2>3, <2>4 DEF Timely, SessionEvent
  <2>7. Timely(e)'
    BY <2>1, <2>3 DEF Timely
  <2> QED
    BY <2>1, <2>2, <2>5, <2>6, <2>7, RequestsPosted
<1>2. ASSUME NEW s \in Session, ConnectionClosed(s) PROVE RequestsInv'
  <2> DEFINE e == [type |-> "clientDestroyed", s |-> s]
  <2>1. e \in Event /\ e.type = "clientDestroyed" /\ e.s = s
    BY EventTypes
  <2>2. events' = Append(events, e) /\ session' = [session EXCEPT ![s] = "ended"]
    BY <1>2 DEF ConnectionClosed, TypeOK
  <2> HIDE DEF e
  <2>3. session'[s] = "ended"
    BY <2>2 DEF TypeOK
  <2>4. \A f \in ToSet(events) : f.type \in SessionEvent /\ f.s = s => f.type = "findMatch"
    BY <1>2 DEF ConnectionClosed, RequestsInv, Timely, SessionEvent
  <2>5. \A f \in ToSet(events) : ~Clash(f, e)
    BY <2>1, <2>4 DEF Clash
  <2>6. \A f \in ToSet(events) : f.s = s => Timely(f)'
    BY <2>3, <2>4 DEF Timely, SessionEvent
  <2>7. Timely(e)'
    BY <2>1, <2>3 DEF Timely
  <2> QED
    BY <2>1, <2>2, <2>5, <2>6, <2>7, RequestsPosted
<1>3. ASSUME NEW s \in Session, RequestFindMatch(s) PROVE RequestsInv'
  <2> DEFINE e == [type |-> "findMatch", s |-> s]
  <2>1. e \in Event /\ e.type = "findMatch" /\ e.s = s
    BY EventTypes
  <2>2. events' = Append(events, e) /\ session' = [session EXCEPT ![s] = "on"]
    BY <1>3 DEF RequestFindMatch, Post, TypeOK
  <2> HIDE DEF e
  <2>3. session'[s] = "on"
    BY <2>2 DEF TypeOK
  <2>4. \A f \in ToSet(events) : f.type \in SessionEvent /\ f.s = s => f.type = "findMatch"
    BY <1>3 DEF RequestFindMatch, Post, RequestsInv, Timely, SessionEvent
  <2>5. \A f \in ToSet(events) : ~Clash(f, e)
    <3>1. ASSUME NEW f \in ToSet(events), f.type = "findMatch", f.s = s PROVE FALSE
      <4>1. f = [type |-> "findMatch", s |-> s]
        BY <3>1, QueuedType, SMT DEF Event
      <4> QED
        BY <1>3, <3>1, <4>1 DEF RequestFindMatch, Queued
    <3> QED
      BY <2>1, <2>4, <3>1 DEF Clash
  <2>6. \A f \in ToSet(events) : f.s = s => Timely(f)'
    BY <2>3, <2>4 DEF Timely, SessionEvent
  <2>7. Timely(e)'
    BY <2>1, <2>3 DEF Timely
  <2> QED
    BY <2>1, <2>2, <2>5, <2>6, <2>7, RequestsPosted
<1>4. ASSUME NEW s \in Session, NEW e \in Event, e.type \notin SessionEvent, Post(s, e)
      PROVE  RequestsInv'
  <2>1. Grown(events, events')
    BY <1>4, <1>e, GrownAppend DEF Post
  <2> QED
    BY <1>4, <2>1, RequestsKept DEF Post
<1>5. ASSUME NEW s \in Session, NEW m \in Match,
             RequestSubscribe(s, m) \/ \E msg \in Message : RequestSend(s, m, msg)
      PROVE  RequestsInv'
  BY <1>4, <1>5, EventTypes DEF RequestSubscribe, RequestSend, SessionEvent
<1>6. ASSUME NEW s \in Session, HandleResolve(s) PROVE RequestsInv'
  <2>1. session[s] = "resolving" /\ events # <<>>
    BY <1>6, <1>h DEF HandleResolve, RequestsInv, Timely
  <2>2. \A e \in ToSet(Tail(events)) :
          e.s = s => e.type \notin {"resolve", "clientDestroyed"}
    BY <1>6, <1>h, <2>1 DEF HandleResolve, RequestsInv, Timely, Clash, SessionEvent
  <2>3. session' = [session EXCEPT ![s] = "on"] /\ Grown(Tail(events), events')
    BY <1>6, <1>t DEF HandleResolve
  <2>4. \A e \in ToSet(Tail(events)) : e.s = s => Timely(e)'
    BY <2>2, <2>3 DEF Timely, TypeOK
  <2> QED
    BY <2>1, <2>3, <2>4, RequestsHandled
<1>7. ASSUME Handle, session' = session PROVE RequestsInv'
  BY <1>7, HandleGrown, RequestsKept
<1>9. ASSUME NEW s \in Session, HandleClientDestroyed(s) PROVE RequestsInv'
  <2>1. Grown(Tail(events), events')
    BY <1>9, HandleGrown DEF Handle
  <2>2. session[s] = "ended" /\ events # <<>>
    BY <1>9, <1>h DEF HandleClientDestroyed, RequestsInv, Timely
  <2>3. \A e \in ToSet(Tail(events)) : e.s = s => e.type \notin SessionEvent
    BY <1>9, <1>h, <2>2 DEF HandleClientDestroyed, RequestsInv, Timely, Clash, SessionEvent
  <2>4. \A e \in ToSet(Tail(events)) : e.s = s => Timely(e)'
    BY <2>3 DEF Timely, SessionEvent
  <2>5. session' = [session EXCEPT ![s] = "gone"]
    BY <1>9 DEF HandleClientDestroyed
  <2> QED
    BY <2>1, <2>2, <2>4, <2>5, RequestsHandled
<1>10. ASSUME NEW m \in Match, SendMessages(m) PROVE RequestsInv'
  BY <1>10, SendMessagesGrown, RequestsKept DEF SendMessages
<1>11. CASE UNCHANGED vars
  BY <1>11, <1>e, GrownSelf, RequestsKept DEF vars
<1>12. CASE Handle
  <2>1. \/ session' = session
        \/ \E s \in Session : HandleResolve(s) \/ HandleClientDestroyed(s)
    BY <1>12 DEF Handle, FindFirst, FindSecond, HandleSubscribe, HandleSend,
       HandleMatchDestroyed, HandleNotice
  <2> QED
    BY <1>6, <1>7, <1>9, <1>12, <2>1
<1> QED
  BY <1>1, <1>2, <1>3, <1>5, <1>10, <1>11, <1>12 DEF Next, Server, Environment

\* The life of a session agrees with what is queued of it, in every state.
LEMMA RequestsInvariant == Spec => []RequestsInv
<1>1. Init => RequestsInv
  BY SMT DEF Init, RequestsInv, Ordered, ToSet
<1>2. TypeOK /\ RequestsInv /\ [Next]_vars => RequestsInv'
  BY RequestsStep
<1> QED
  BY <1>1, <1>2, TypeCorrect, PTL DEF Spec

-----------------------------------------------------------------------------
(* Losses.  Besides the two properties: only a match that was made closes, only *)
(* a started one sends; one that ends unstarted has lost its player; and a     *)
(* match in play keeps its timer.                                              *)

MadeBeforeClosing == \A m \in Match : Closing(m) => mobj[m] # "none"

SendersStarted == \A m \in Match : sending[m] => matchStarted[m]

EndedUnstarted ==
  \A m \in Match : ~matchStarted[m] /\ (Closing(m) \/ mobj[m] = "destroyed") =>
    \A s \in Players(m) : session[s] = "gone"

PlayKeepsTimer ==
  \A m \in Match : matchStarted[m] /\ mobj[m] = "live" /\ ~Closing(m) => sending[m]

LossInv ==
  /\ MadeBeforeClosing /\ SendersStarted /\ EndedUnstarted /\ PlayKeepsTimer
  /\ WaitingPlayerPresent /\ LossNoticed

\* Closing does not change when the head that is taken is another event, and
\* becomes true only by posting the destruction.
LEMMA ClosingTail ==
  ASSUME TypeOK, events # <<>>, NEW m \in Match, Head(events) # Destroyed(m)
  PROVE  Destroyed(m) \in ToSet(Tail(events)) <=> Closing(m)
BY ToSetTail DEF TypeOK, Closing, Queued

\* Posting an event does not take back the destruction of a match.
LEMMA ClosingAppend ==
  ASSUME NEW q \in Seq(Event), NEW e \in Event, e.type # "matchDestroyed", NEW m \in Match
  PROVE  Destroyed(m) \in ToSet(Append(q, e)) <=> Destroyed(m) \in ToSet(q)
<1>1. Destroyed(m) # e
  BY DEF Destroyed
<1> QED
  BY <1>1, ToSetAppend

\* A step that leaves the matches alone, loses no session and closes nothing.
LEMMA LossKept ==
  ASSUME TypeOK, LossInv,
         UNCHANGED <<mobj, clients, matchStarted, playerDisconnected, sending>>,
         \A s \in Session : session'[s] = "gone" <=> session[s] = "gone",
         \A m \in Match : ToSet(queued[m]) \subseteq ToSet(queued'[m]),
         \A m \in Match : Closing(m)' <=> Closing(m)
  PROVE  LossInv'
<1>1. \A m \in Match : Players(m)' = Players(m) /\ Players(m) \subseteq Session
  BY PlayersType DEF Players
<1>2. MadeBeforeClosing' /\ SendersStarted'
  BY DEF LossInv, MadeBeforeClosing, SendersStarted
<1>3. EndedUnstarted' /\ PlayKeepsTimer'
  BY <1>1 DEF LossInv, EndedUnstarted, PlayKeepsTimer
<1>4. WaitingPlayerPresent'
  BY <1>1 DEF LossInv, WaitingPlayerPresent
<1>5. LossNoticed'
  BY <1>1 DEF LossInv, LossNoticed
<1> QED
  BY <1>2, <1>3, <1>4, <1>5 DEF LossInv

\* The head is an event about a session, and the session is where it should be.
LEMMA HeadTimely ==
  ASSUME TypeOK, RequestsInv, events # <<>>
  PROVE  Timely(Head(events))
BY HeadQueued DEF RequestsInv

\* Creating a match (AztecMatchmaker.findMatch) overlooks no loss.
LEMMA LossFindFirst ==
  ASSUME TypeOK, OfferedInv, RequestsInv, LossInv, NEW s \in Session, FindFirst(s)
  PROVE  LossInv'
<1>1. session[s] # "gone" /\ session' = session
  BY HeadTimely DEF FindFirst, Timely
<1> PICK m \in Match : /\ mobj[m] = "none"
                       /\ mobj' = [mobj EXCEPT ![m] = "live"]
                       /\ AddFirst(m, s)
  BY DEF FindFirst
<1>2. clients[m] = <<>> /\ ~matchStarted[m] /\ ~Closing(m)
  BY DEF OfferedInv, LossInv, MadeBeforeClosing
<1>3. \A n \in Match : Closing(n)' <=> Closing(n)
  <2>1. \A n \in Match : Head(events) # Destroyed(n)
    BY DEF FindFirst, Destroyed
  <2> QED
    BY <2>1, ClosingTail DEF AddFirst, FindFirst, Closing, Queued, Destroyed
<1>4. clients' = [clients EXCEPT ![m] = <<s>>]
  BY <1>2 DEF AddFirst, TypeOK
<1>5. \A n \in Match : n # m => Players(n)' = Players(n) /\ mobj'[n] = mobj[n]
  BY <1>4 DEF Players, TypeOK
<1>6. Players(m)' = {s} /\ mobj'[m] = "live"
  BY <1>4 DEF Players, ToSet, TypeOK
<1>7. UNCHANGED <<matchStarted, sending, playerDisconnected, queued>>
  BY DEF AddFirst
<1>8. MadeBeforeClosing' /\ SendersStarted' /\ EndedUnstarted' /\ PlayKeepsTimer'
  BY <1>1, <1>2, <1>3, <1>5, <1>6, <1>7
  DEF LossInv, MadeBeforeClosing, SendersStarted, EndedUnstarted, PlayKeepsTimer
<1>9. WaitingPlayerPresent' /\ LossNoticed'
  BY <1>1, <1>2, <1>3, <1>5, <1>6, <1>7 DEF LossInv, WaitingPlayerPresent, LossNoticed
<1> QED
  BY <1>8, <1>9 DEF LossInv

\* Starting a match (addPlayer) overlooks no loss.
LEMMA LossFindSecond ==
  ASSUME TypeOK, OfferedInv, RequestsInv, LossInv, NEW s \in Session, FindSecond(s)
  PROVE  LossInv'
<1> PICK m \in Match : m = awaiting
  BY DEF FindSecond, TypeOK
<1>1. session[s] # "gone" /\ session' = session
  BY HeadTimely DEF FindSecond, Timely
<1>2. /\ mobj[m] = "live" /\ ~matchStarted[m]
      /\ mobj' = mobj /\ UNCHANGED <<playerDisconnected, queued>>
      /\ sending' = [sending EXCEPT ![m] = TRUE]
      /\ matchStarted' = [matchStarted EXCEPT ![m] = TRUE]
      /\ clients' = [clients EXCEPT ![m] = Append(clients[m], s)]
  BY DEF FindSecond, AddSecond, OfferedInv, WaitingMatchOffered, TypeOK
<1>3. \A n \in Match : Closing(n)' <=> Closing(n)
  <2> DEFINE e == OidEvent(Players(m) \cup {s}, m)
  <2>1. e \in Event /\ e.type # "matchDestroyed"
    BY <1>2, PlayersType, EventTypes DEF OidEvent
  <2>2. events # <<>> /\ events' = Append(Tail(events), e) /\ Tail(events) \in Seq(Event)
    BY HeadTailProperties DEF FindSecond, AddSecond, TypeOK
  <2>3. \A n \in Match : Head(events) # Destroyed(n)
    BY DEF FindSecond, Destroyed
  <2> HIDE DEF e
  <2>4. \A n \in Match : Destroyed(n) \in ToSet(events') <=> Closing(n)
    BY <2>1, <2>2, <2>3, ClosingAppend, ClosingTail
  <2> QED
    BY <2>4 DEF Closing, Queued, Destroyed
<1>5. \A n \in Match : n # m => /\ Players(n)' = Players(n) /\ sending'[n] = sending[n]
                                /\ matchStarted'[n] = matchStarted[n]
  BY <1>2 DEF Players, TypeOK
<1>6. Players(m)' = Players(m) \cup {s} /\ sending'[m] /\ matchStarted'[m]
  BY <1>2, ToSetAppend DEF Players, TypeOK
<1>7. ~Closing(m) => \A p \in Players(m)' : session'[p] # "gone"
  BY <1>1, <1>2, <1>6 DEF LossInv, WaitingPlayerPresent
<1>8. MadeBeforeClosing' /\ SendersStarted' /\ EndedUnstarted' /\ PlayKeepsTimer'
  BY <1>1, <1>2, <1>3, <1>5, <1>6
  DEF LossInv, MadeBeforeClosing, SendersStarted, EndedUnstarted, PlayKeepsTimer
<1>9. WaitingPlayerPresent'
  BY <1>1, <1>2, <1>3, <1>5, <1>6 DEF LossInv, WaitingPlayerPresent
<1>10. LossNoticed'
  BY <1>1, <1>2, <1>3, <1>5, <1>6, <1>7 DEF LossInv, LossNoticed
<1> QED
  BY <1>8, <1>9, <1>10 DEF LossInv

\* Only one match can be waiting with a player whose object still exists: the
\* one the matchmaker holds, and that player is alone in it.
LEMMA OneWaiting ==
  ASSUME TypeOK, OfferedInv, LossInv, NEW w \in Match, NEW s \in Players(w),
         ~matchStarted[w], session[s] # "gone"
  PROVE  w = awaiting /\ mobj[w] = "live" /\ ~Closing(w) /\ Players(w) = {s}
<1>1. ~Closing(w) /\ mobj[w] # "destroyed"
  BY DEF LossInv, EndedUnstarted
<1>2. mobj[w] # "none"
  BY DEF OfferedInv, Players, ToSet
<1>3. mobj[w] = "live" /\ w = awaiting
  BY <1>1, <1>2 DEF OfferedInv, WaitingMatchOffered, TypeOK
<1>4. Len(clients[w]) = 1
  BY <1>3, NoMatchAssumption DEF OfferedInv, WaitingMatchOffered
<1>5. DOMAIN clients[w] = {1}
  BY <1>4, LenProperties DEF TypeOK
<1>6. Players(w) = {clients[w][1]}
  BY <1>5 DEF Players, ToSet
<1> QED
  BY <1>1, <1>3, <1>6

\* The handler of a loss (_clientDeathListener) notices it in every match.
LEMMA LossClientDestroyed ==
  ASSUME TypeOK, OfferedInv, RequestsInv, LossInv, NEW s \in Session,
         HandleClientDestroyed(s)
  PROVE  LossInv'
<1>1. session[s] = "ended" /\ session' = [session EXCEPT ![s] = "gone"]
  BY HeadTimely DEF HandleClientDestroyed, Timely
<1>2. /\ mobj' = mobj /\ clients' = clients /\ matchStarted' = matchStarted
      /\ playerDisconnected' = [m \in Match |->
           playerDisconnected[m] \/ (s \in Players(m) /\ matchStarted[m])]
  BY DEF HandleClientDestroyed
<1>3. \A m \in Match : ToSet(queued'[m]) =
        ToSet(queued[m]) \cup IF s \in Players(m) /\ matchStarted[m]
                              THEN {PlayerDisconnected} ELSE {}
  <2>1. PlayerDisconnected \in Message
    BY DEF PlayerDisconnected, Message
  <2>2. queued' = [m \in Match |-> IF s \in Players(m) /\ matchStarted[m]
                                   THEN Append(queued[m], PlayerDisconnected)
                                   ELSE queued[m]]
    BY DEF HandleClientDestroyed
  <2> QED
    BY <2>1, <2>2, ToSetAppend DEF TypeOK
<1>4. \A m \in Match : Players(m)' = Players(m) /\ Players(m) \subseteq Session
  BY <1>2, PlayersType DEF Players
<1>5. events # <<>> /\ Tail(events) \in Seq(Event)
  BY HeadTailProperties DEF HandleClientDestroyed, TypeOK
<1>6. \A m \in Match : Destroyed(m) \in ToSet(Tail(events)) <=> Closing(m)
  <2>1. \A m \in Match : Head(events) # Destroyed(m)
    BY DEF HandleClientDestroyed, Destroyed
  <2> QED
    BY <1>5, <2>1, ClosingTail
\* The match that shuts down, if there is one, is the waiting one.
<1>7. \/ /\ \A m \in Match : s \in Players(m) => matchStarted[m]
         /\ sending' = sending
         /\ \A m \in Match : Closing(m)' <=> Closing(m)
      \/ \E w \in Match :
           /\ w = awaiting /\ ~matchStarted[w] /\ mobj[w] = "live" /\ Players(w) = {s}
           /\ sending' = [sending EXCEPT ![w] = FALSE]
           /\ \A m \in Match : Closing(m)' <=> Closing(m) \/ m = w
  <2>1. CASE /\ {m \in Match : s \in Players(m) /\ ~matchStarted[m]} = {}
             /\ events' = Tail(events) /\ sending' = sending
    BY <2>1, <1>6 DEF Closing, Queued, Destroyed
  <2>2. ASSUME NEW w \in Match, s \in Players(w), ~matchStarted[w],
               Shutdown(w, {t \in Session \ {s} : Active(t)}, Tail(events))
        PROVE  /\ w = awaiting /\ ~matchStarted[w] /\ mobj[w] = "live" /\ Players(w) = {s}
               /\ sending' = [sending EXCEPT ![w] = FALSE]
               /\ \A m \in Match : Closing(m)' <=> Closing(m) \/ m = w
    <3>1. w = awaiting /\ mobj[w] = "live" /\ Players(w) = {s}
      BY <1>1, <2>2, OneWaiting
    <3>2. \A m \in Match : Destroyed(m) \in ToSet(events') <=>
            Destroyed(m) \in ToSet(Tail(events)) \/ m = w
      BY <1>5, <2>2, <3>1, ShutdownGrown DEF Grown
    <3>3. \A m \in Match : Closing(m)' <=> Closing(m) \/ m = w
      BY <3>2, <1>6 DEF Closing, Queued, Destroyed
    <3>4. sending' = [sending EXCEPT ![w] = FALSE]
      BY <2>2 DEF Shutdown
    <3> QED
      BY <2>2, <3>1, <3>3, <3>4
  <2> QED
    BY <2>1, <2>2 DEF HandleClientDestroyed
<1>8. MadeBeforeClosing' /\ SendersStarted'
  BY <1>2, <1>7 DEF LossInv, MadeBeforeClosing, SendersStarted, TypeOK
<1>9. EndedUnstarted' /\ WaitingPlayerPresent'
  BY <1>1, <1>2, <1>4, <1>7 DEF LossInv, EndedUnstarted, WaitingPlayerPresent, OfferedInv,
     WaitingMatchOffered, TypeOK
<1>10. PlayKeepsTimer'
  BY <1>2, <1>7 DEF LossInv, PlayKeepsTimer, TypeOK
<1>11. LossNoticed'
  <2> SUFFICES ASSUME NEW m \in Match, matchStarted[m], mobj[m] = "live", ~Closing(m)',
                      NEW p \in Players(m), session'[p] = "gone"
               PROVE  /\ playerDisconnected'[m] /\ sending'[m]
                      /\ PlayerDisconnected \in ToSet(queued'[m])
    BY <1>2, <1>4 DEF LossNoticed
  <2>1. ~Closing(m) /\ sending'[m]
    BY <1>7, <1>10, <1>2 DEF PlayKeepsTimer
  <2>2. CASE p = s
    BY <1>2, <1>3, <2>1, <2>2
  <2>3. CASE p # s
    <3>1. session[p] = "gone"
      BY <1>1, <1>4, <2>3 DEF TypeOK
    <3>2. playerDisconnected[m] /\ PlayerDisconnected \in ToSet(queued[m])
      BY <2>1, <3>1 DEF LossInv, LossNoticed
    <3> QED
      BY <1>2, <1>3, <2>1, <3>2
  <2> QED
    BY <2>2, <2>3
<1> QED
  BY <1>8, <1>9, <1>10, <1>11 DEF LossInv

\* The end of a match (_awaitingDeathListener) overlooks no loss in another.
LEMMA LossMatchDestroyed ==
  ASSUME TypeOK, OfferedInv, RequestsInv, LossInv, NEW m \in Match, HandleMatchDestroyed(m)
  PROVE  LossInv'
<1>1. /\ UNCHANGED <<session, clients, matchStarted, sending, playerDisconnected, queued>>
      /\ mobj' = [mobj EXCEPT ![m] = "destroyed"]
      /\ events # <<>> /\ events' = Tail(events)
  BY DEF HandleMatchDestroyed, matchVars
<1>2. Closing(m)
  BY HeadQueued DEF HandleMatchDestroyed, Closing, Queued
<1>3. \A n \in Match : Closing(n)' => Closing(n)
  BY <1>1, ToSetTail DEF Closing, Queued, Destroyed, TypeOK
<1>4. \A n \in Match : n # m => (Closing(n)' <=> Closing(n))
  <2>1. \A n \in Match : n # m => Head(events) # Destroyed(n)
    BY DEF HandleMatchDestroyed, Destroyed
  <2> QED
    BY <1>1, <2>1, ClosingTail DEF Closing, Queued, Destroyed
<1>5. \A n \in Match : Players(n)' = Players(n)
  BY <1>1 DEF Players
<1>6. mobj'[m] = "destroyed" /\ \A n \in Match : n # m => mobj'[n] = mobj[n]
  BY <1>1 DEF TypeOK
<1>7. MadeBeforeClosing' /\ SendersStarted' /\ EndedUnstarted' /\ PlayKeepsTimer'
  BY <1>1, <1>2, <1>3, <1>4, <1>5, <1>6
  DEF LossInv, MadeBeforeClosing, SendersStarted, EndedUnstarted, PlayKeepsTimer
<1>8. WaitingPlayerPresent' /\ LossNoticed'
  BY <1>1, <1>2, <1>3, <1>4, <1>5, <1>6 DEF LossInv, WaitingPlayerPresent, LossNoticed
<1> QED
  BY <1>7, <1>8 DEF LossInv

\* The run of the interval publishes the notice of a loss or keeps it.
LEMMA LossSendMessages ==
  ASSUME TypeOK, LossInv, NEW m \in Match, SendMessages(m)
  PROVE  LossInv'
<1> DEFINE b == [type |-> "messages", m |-> m, batch |-> queued[m]]
           posted == IF mobj[m] = "live" THEN Append(events, b) ELSE events
<1>1. b \in Event /\ b.type # "matchDestroyed"
  BY EventTypes DEF TypeOK
<1> HIDE DEF b
<1>2. posted \in Seq(Event) /\
      \A n \in Match : Destroyed(n) \in ToSet(posted) <=> Closing(n)
  BY <1>1, ClosingAppend, AppendProperties DEF TypeOK, Closing, Queued
<1> HIDE DEF posted
<1>4. /\ UNCHANGED <<session, mobj, clients, matchStarted, playerDisconnected>>
      /\ queued' = [queued EXCEPT ![m] = <<>>]
      /\ matchStarted[m]
  BY DEF SendMessages, LossInv, SendersStarted
<1>5. \/ /\ sending' = [sending EXCEPT ![m] = FALSE]
         /\ mobj[m] = "live" => Closing(m)'
         /\ \A n \in Match : n # m => (Closing(n)' <=> Closing(n))
         /\ Closing(m)' => mobj[m] # "none"
      \/ /\ sending' = sending /\ ~playerDisconnected[m]
         /\ \A n \in Match : Closing(n)' <=> Closing(n)
  <2>1. CASE gotWinMessage[m] \/ playerDisconnected[m]
    <3>1. Shutdown(m, {t \in Session : Active(t)}, posted)
      BY <2>1 DEF SendMessages, posted, b
    <3>2. /\ mobj[m] = "live" => Destroyed(m) \in ToSet(events')
          /\ \A n \in Match : Destroyed(n) \in ToSet(events') =>
               Destroyed(n) \in ToSet(posted) \/ (n = m /\ mobj[m] = "live")
          /\ \A n \in Match : Destroyed(n) \in ToSet(posted) => Destroyed(n) \in ToSet(events')
      BY <1>2, <3>1, ShutdownGrown DEF Grown
    <3>3. /\ mobj[m] = "live" => Closing(m)'
          /\ \A n \in Match : n # m => (Closing(n)' <=> Closing(n))
          /\ Closing(m)' => mobj[m] # "none"
      BY <1>2, <3>2 DEF Closing, Queued, Destroyed, LossInv, MadeBeforeClosing
    <3> QED
      BY <3>1, <3>3 DEF Shutdown, TypeOK
  <2>2. CASE ~(gotWinMessage[m] \/ playerDisconnected[m])
    <3>1. events' = posted /\ sending' = sending
      BY <2>2 DEF SendMessages, posted, b
    <3> QED
      BY <1>2, <2>2, <3>1 DEF Closing, Queued, Destroyed
  <2> QED
    BY <2>1, <2>2
<1>6. \A n \in Match : Players(n)' = Players(n) /\ (n # m => queued'[n] = queued[n])
  BY <1>4 DEF Players, TypeOK
<1>7. MadeBeforeClosing' /\ SendersStarted'
  BY <1>4, <1>5 DEF LossInv, MadeBeforeClosing, SendersStarted, TypeOK
<1>8. EndedUnstarted' /\ PlayKeepsTimer' /\ WaitingPlayerPresent'
  <2>1. \A n \in Match : n = m \/ (Closing(n)' <=> Closing(n))
    BY <1>5
  <2>2. EndedUnstarted' /\ WaitingPlayerPresent'
    BY <1>4, <1>6, <2>1 DEF LossInv, EndedUnstarted, WaitingPlayerPresent
  <2>3. PlayKeepsTimer'
    BY <1>4, <1>5 DEF LossInv, PlayKeepsTimer, TypeOK
  <2> QED
    BY <2>2, <2>3
<1>9. LossNoticed'
  <2> SUFFICES ASSUME NEW n \in Match, matchStarted[n], mobj[n] = "live", ~Closing(n)',
                      NEW p \in Players(n), session[p] = "gone"
               PROVE  /\ playerDisconnected[n] /\ sending'[n]
                      /\ PlayerDisconnected \in ToSet(queued'[n])
    BY <1>4, <1>6 DEF LossNoticed
  <2>1. ~Closing(n)
    BY <1>5
  <2>2. playerDisconnected[n] /\ sending[n] /\ PlayerDisconnected \in ToSet(queued[n])
    BY <2>1 DEF LossInv, LossNoticed
  <2>3. n # m
    BY <1>5, <2>2
  <2>4. sending'[n] = sending[n]
    BY <1>5, <2>3 DEF TypeOK
  <2> QED
    BY <1>6, <2>2, <2>3, <2>4
<1> QED
  BY <1>7, <1>8, <1>9 DEF LossInv

\* Every step keeps the losses of players noticed.
LEMMA LossStep == TypeOK /\ OfferedInv /\ RequestsInv /\ LossInv /\ [Next]_vars => LossInv'
<1> SUFFICES ASSUME TypeOK, OfferedInv, RequestsInv, LossInv, [Next]_vars PROVE LossInv'
  OBVIOUS
<1>t. events \in Seq(Event) /\ (events # <<>> => Tail(events) \in Seq(Event))
  BY HeadTailProperties DEF TypeOK
<1>p. ASSUME NEW e \in Event, e.type # "matchDestroyed", events' = Append(events, e)
      PROVE  \A m \in Match : Closing(m)' <=> Closing(m)
  BY <1>p, <1>t, ClosingAppend DEF Closing, Queued, Destroyed
<1>q. ASSUME events # <<>>, Head(events).type # "matchDestroyed", events' = Tail(events)
      PROVE  \A m \in Match : Closing(m)' <=> Closing(m)
  <2>1. \A m \in Match : Head(events) # Destroyed(m)
    BY <1>q DEF Destroyed
  <2> QED
    BY <1>q, <2>1, ClosingTail DEF Closing, Queued, Destroyed
<1>1. ASSUME NEW s \in Session, Authenticate(s) PROVE LossInv'
  <2>1. \A m \in Match : Closing(m)' <=> Closing(m)
    BY <1>1, <1>p, EventTypes DEF Authenticate
  <2>2. \A t \in Session : session'[t] = "gone" <=> session[t] = "gone"
    BY <1>1 DEF Authenticate, TypeOK
  <2> QED
    BY <1>1, <2>1, <2>2, LossKept DEF Authenticate, matchVars
<1>2. ASSUME NEW s \in Session, ConnectionClosed(s) PROVE LossInv'
  <2>1. \A m \in Match : Closing(m)' <=> Closing(m)
    BY <1>2, <1>p, EventTypes DEF ConnectionClosed
  <2>2. \A t \in Session : session'[t] = "gone" <=> session[t] = "gone"
    BY <1>2 DEF ConnectionClosed, TypeOK
  <2> QED
    BY <1>2, <2>1, <2>2, LossKept DEF ConnectionClosed, matchVars
<1>3. ASSUME NEW s \in Session, NEW e \in Event, e.type # "matchDestroyed", Post(s, e)
      PROVE  LossInv'
  <2>1. \A m \in Match : Closing(m)' <=> Closing(m)
    BY <1>3, <1>p DEF Post
  <2> QED
    BY <1>3, <2>1, LossKept DEF Post, matchVars
<1>4. ASSUME NEW s \in Session, RequestFindMatch(s) PROVE LossInv'
  BY <1>3, <1>4, EventTypes DEF RequestFindMatch
<1>5. ASSUME NEW s \in Session, NEW m \in Match,
             RequestSubscribe(s, m) \/ \E msg \in Message : RequestSend(s, m, msg)
      PROVE  LossInv'
  BY <1>3, <1>5, EventTypes DEF RequestSubscribe, RequestSend
<1>6. ASSUME NEW s \in Session, HandleResolve(s) PROVE LossInv'
  <2>1. \A m \in Match : Closing(m)' <=> Closing(m)
    BY <1>6, <1>q DEF HandleResolve
  <2>2. session[s] = "resolving"
    BY <1>6, HeadTimely DEF HandleResolve, Timely
  <2>3. \A t \in Session : session'[t] = "gone" <=> session[t] = "gone"
    BY <1>6, <2>2 DEF HandleResolve, TypeOK
  <2> QED
    BY <1>6, <2>1, <2>3, LossKept DEF HandleResolve, matchVars
<1>7. ASSUME NEW s \in Session, NEW m \in Match, HandleSubscribe(s, m) PROVE LossInv'
  <2>1. \A n \in Match : Closing(n)' <=> Closing(n)
    BY <1>7, <1>q DEF HandleSubscribe
  <2> QED
    BY <1>7, <2>1, LossKept DEF HandleSubscribe, matchVars
<1>8. ASSUME NEW s \in Session, NEW m \in Match, NEW msg \in Message, HandleSend(s, m, msg)
      PROVE  LossInv'
  <2>1. \A n \in Match : Closing(n)' <=> Closing(n)
    BY <1>8, <1>q DEF HandleSend
  <2>2. \A n \in Match : ToSet(queued[n]) \subseteq ToSet(queued'[n])
    BY <1>8, ToSetAppend DEF HandleSend, TypeOK
  <2> QED
    BY <1>8, <2>1, <2>2, LossKept DEF HandleSend
<1>9. CASE HandleNotice
  <2>1. \A n \in Match : Closing(n)' <=> Closing(n)
    BY <1>9, <1>q DEF HandleNotice
  <2> QED
    BY <1>9, <2>1, LossKept DEF HandleNotice, matchVars
<1>10. CASE UNCHANGED vars
  BY <1>10, LossKept DEF vars, matchVars, Closing, Queued, Destroyed
<1> QED
  BY <1>1, <1>2, <1>4, <1>5, <1>6, <1>7, <1>8, <1>9, <1>10, LossFindFirst, LossFindSecond,
     LossClientDestroyed, LossMatchDestroyed, LossSendMessages
  DEF Next, Server, Handle, Environment

\* A loss is noticed in every state.
LEMMA LossInvariant == Spec => []LossInv
<1>1. Init => LossInv
  BY SMT DEF Init, LossInv, MadeBeforeClosing, SendersStarted, EndedUnstarted, PlayKeepsTimer,
     WaitingPlayerPresent, LossNoticed, Closing, Queued, ToSet, Players
<1>2. TypeOK /\ OfferedInv /\ RequestsInv /\ LossInv /\ [Next]_vars => LossInv'
  BY LossStep
<1> QED
  BY <1>1, <1>2, TypeCorrect, OfferedInvariant, RequestsInvariant, PTL DEF Spec

\* A match that waits for its second player and has lost its first is closing:
\* the shutdown of the death listener is never missed.
THEOREM WaitingPlayerIsPresent == Spec => []WaitingPlayerPresent
<1>1. LossInv => WaitingPlayerPresent
  BY DEF LossInv
<1> QED
  BY <1>1, LossInvariant, PTL

\* However the end of a session, the start of its match, the requests and the
\* timer fall, a match in play that has lost a player is going to say so.
THEOREM LossIsNoticed == Spec => []LossNoticed
<1>1. LossInv => LossNoticed
  BY DEF LossInv
<1> QED
  BY <1>1, LossInvariant, PTL

-----------------------------------------------------------------------------
(* The implementation of Matchmaking.  A search is put together with another *)
(* player because nobody searches while it waits.                            *)

FindMatch(s) == [type |-> "findMatch", s |-> s]

SearchersAreOthers ==
  awaiting # NoMatch => \A s \in Players(awaiting) : ~Queued(FindMatch(s))

\* Steps that give the waiting match no player and post no search.
LEMMA SearchersKept ==
  ASSUME TypeOK, SearchersAreOthers, clients' = clients, awaiting' \in {awaiting, NoMatch},
         NEW q, ToSet(q) \subseteq ToSet(events), Grown(q, events')
  PROVE  SearchersAreOthers'
<1>1. \A s \in Session : Queued(FindMatch(s))' => Queued(FindMatch(s))
  BY SMT DEF Queued, FindMatch, Grown, SessionEvent
<1>2. \A m \in Match : Players(m)' = Players(m) /\ Players(m) \subseteq Session
  BY PlayersType DEF Players
<1> QED
  BY <1>1, <1>2 DEF SearchersAreOthers, TypeOK

\* Nobody who waits in a match is searching (StartMatchView, AztecMatchmaker).
LEMMA SearchersInvariant == Spec => []SearchersAreOthers
<1>1. Init => SearchersAreOthers
  BY DEF Init, SearchersAreOthers
<1>2. TypeOK /\ OfferedInv /\ RequestsInv /\ SearchersAreOthers /\ [Next]_vars
        => SearchersAreOthers'
  <2> SUFFICES ASSUME TypeOK, OfferedInv, RequestsInv, SearchersAreOthers, [Next]_vars
               PROVE  SearchersAreOthers'
    OBVIOUS
  <2>e. events \in Seq(Event)
    BY DEF TypeOK
  <2>1. ASSUME NEW s \in Session, FindFirst(s) PROVE SearchersAreOthers'
    <3> PICK m \in Match : mobj[m] = "none" /\ awaiting' = m /\ AddFirst(m, s)
      BY <2>1 DEF FindFirst
    <3>0. clients[m] = <<>>
      BY DEF OfferedInv
    <3>1. clients' = [clients EXCEPT ![m] = <<s>>]
      BY <3>0 DEF AddFirst, TypeOK
    <3>2. Players(m)' = {s}
      BY <3>1 DEF Players, ToSet, TypeOK
    <3>3. Head(events) = FindMatch(s) /\ events # <<>> /\ events' = Tail(events)
      BY <2>1 DEF FindFirst, AddFirst, FindMatch
    <3>4. FindMatch(s) \notin ToSet(Tail(events))
      <4>1. \A f \in ToSet(Tail(events)) : ~Clash(FindMatch(s), f)
        BY <2>e, <3>3, OrderedTail DEF RequestsInv
      <4>2. Clash(FindMatch(s), FindMatch(s))
        BY DEF Clash, FindMatch, SessionEvent
      <4> QED
        BY <4>1, <4>2
    <3> QED
      BY <3>2, <3>3, <3>4 DEF SearchersAreOthers, Queued, FindMatch, Players
  <2>2. CASE Handle /\ ~\E s \in Session : FindFirst(s)
    <3>1. events # <<>> /\ Grown(Tail(events), events')
      BY <2>2, HandleGrown
    <3>2. ToSet(Tail(events)) \subseteq ToSet(events)
      BY <2>e, <3>1, ToSetTail
    <3>3. ASSUME NEW s \in Session, FindSecond(s) PROVE SearchersAreOthers'
      BY <3>3 DEF FindSecond, SearchersAreOthers
    <3>4. CASE clients' = clients /\ awaiting' \in {awaiting, NoMatch}
      BY <3>1, <3>2, <3>4, SearchersKept
    <3> QED
      BY <2>2, <3>3, <3>4 DEF Handle, HandleResolve, HandleClientDestroyed,
         HandleSubscribe, HandleSend, HandleMatchDestroyed, HandleNotice, matchVars
  <2>3. ASSUME NEW m \in Match, SendMessages(m) PROVE SearchersAreOthers'
    BY <2>3, SendMessagesGrown, SearchersKept DEF SendMessages
  <2>4. ASSUME NEW s \in Session, RequestFindMatch(s) PROVE SearchersAreOthers'
    <3>1. /\ events' = Append(events, FindMatch(s)) /\ FindMatch(s) \in Event
          /\ UNCHANGED <<awaiting, clients>>
      BY <2>4, EventTypes DEF RequestFindMatch, Post, FindMatch, matchVars
    <3>2. ToSet(events') = ToSet(events) \cup {FindMatch(s)}
      BY <2>e, <3>1, ToSetAppend
    <3>3. awaiting # NoMatch => s \notin Players(awaiting)
      BY <2>4 DEF RequestFindMatch, TypeOK
    <3>4. \A t \in Session : FindMatch(t) = FindMatch(s) => t = s
      BY SMT DEF FindMatch
    <3>5. \A m \in Match : Players(m)' = Players(m) /\ Players(m) \subseteq Session
      BY <3>1, PlayersType DEF Players
    <3> QED
      BY <3>1, <3>2, <3>3, <3>4, <3>5 DEF SearchersAreOthers, Queued, TypeOK, FindMatch
  <2>5. ASSUME NEW e \in Event, e.type # "findMatch", events' = Append(events, e),
               UNCHANGED <<awaiting, clients>>
        PROVE  SearchersAreOthers'
    <3>1. ToSet(events') = ToSet(events) \cup {e}
      BY <2>e, <2>5, ToSetAppend
    <3>2. \A t \in Session : Queued(FindMatch(t))' => Queued(FindMatch(t))
      BY <2>5, <3>1 DEF Queued, FindMatch
    <3>3. \A m \in Match : Players(m)' = Players(m) /\ Players(m) \subseteq Session
      BY <2>5, PlayersType DEF Players
    <3> QED
      BY <2>5, <3>2, <3>3 DEF SearchersAreOthers, TypeOK
  <2>6. CASE Environment /\ ~\E s \in Session : RequestFindMatch(s)
    BY <2>5, <2>6, EventTypes DEF Environment, Authenticate, ConnectionClosed,
       RequestSubscribe, RequestSend, Post, matchVars
  <2>7. CASE UNCHANGED vars
    BY <2>7 DEF vars, matchVars, SearchersAreOthers, Queued, Players, FindMatch
  <2> QED
    BY <2>1, <2>2, <2>3, <2>4, <2>6, <2>7 DEF Next, Server
<1> QED
  BY <1>1, <1>2, TypeCorrect, OfferedInvariant, RequestsInvariant, PTL DEF Spec

\* Each step of the server is a step of the matchmaking, or one it does not see.
LEMMA StepMatchmaking ==
  ASSUME TypeOK, OfferedInv, RequestsInv, LossInv, SearchersAreOthers, [Next]_vars
  PROVE  [M!Next]_M!vars
<1> DEFINE left == {s \in Session : session[s] = "gone"}
<1>u. ASSUME UNCHANGED <<awaiting, clients>>, left' = left PROVE UNCHANGED M!vars
  BY <1>u DEF M!vars
<1>1. ASSUME NEW s \in Session, FindFirst(s) PROVE M!Open(s)
  <2> PICK m \in Match : /\ mobj[m] = "none" /\ awaiting' = m /\ AddFirst(m, s)
    BY <1>1 DEF FindFirst
  <2>0. clients[m] = <<>>
    BY DEF OfferedInv
  <2>1. clients' = [clients EXCEPT ![m] = <<s>>]
    BY <2>0 DEF AddFirst, TypeOK
  <2>2. awaiting = NoMatch /\ session' = session
    BY <1>1 DEF FindFirst
  <2> QED
    BY <2>0, <2>1, <2>2 DEF M!Open
<1>2. ASSUME NEW s \in Session, FindSecond(s) PROVE M!Meet(s)
  <2>1. /\ awaiting \in Match /\ awaiting' = NoMatch /\ session' = session
        /\ clients' = [clients EXCEPT ![awaiting] = Append(@, s)]
        /\ Head(events) = FindMatch(s) /\ events # <<>>
    BY <1>2 DEF FindSecond, AddSecond, TypeOK, FindMatch
  <2>2. Len(clients[awaiting]) = 1 /\ clients[awaiting] \in Seq(Session)
    BY <2>1, NoMatchAssumption DEF OfferedInv, WaitingMatchOffered, TypeOK
  <2> DEFINE q == clients[awaiting][1]
  <2>3. clients[awaiting] = <<q>> /\ q \in Session /\ q \in Players(awaiting)
    BY <2>2 DEF Players, ToSet
  <2>4. q # s
    BY <2>1, <2>3, HeadQueued, NoMatchAssumption DEF SearchersAreOthers, Queued
  <2> HIDE DEF q
  <2> QED
    BY <2>1, <2>3, <2>4, NoMatchAssumption DEF M!Meet
<1>3. ASSUME NEW s \in Session, HandleClientDestroyed(s) PROVE M!Leave(s)
  <2>1. session' = [session EXCEPT ![s] = "gone"] /\ UNCHANGED <<awaiting, clients>>
    BY <1>3 DEF HandleClientDestroyed
  <2>2. left' = left \cup {s}
    BY <2>1 DEF TypeOK
  <2> QED
    BY <2>1, <2>2 DEF M!Leave
<1>4. ASSUME NEW m \in Match, HandleMatchDestroyed(m) PROVE M!GiveUp \/ UNCHANGED M!vars
  <2>1. UNCHANGED <<session, clients>> /\ Closing(m)
    BY <1>4, HeadQueued DEF HandleMatchDestroyed, matchVars, Closing, Queued
  <2>2. CASE ~listening[m]
    BY <1>4, <1>u, <2>1, <2>2 DEF HandleMatchDestroyed
  <2>3. CASE listening[m]
    <3>1. awaiting = m /\ awaiting' = NoMatch /\ ~matchStarted[m] /\ Len(clients[m]) = 1
      BY <1>4, <2>3, NoMatchAssumption
      DEF HandleMatchDestroyed, OfferedInv, WaitingMatchOffered, TypeOK
    <3>2. clients[m] = <<clients[m][1]>> /\ clients[m][1] \in Players(m)
      BY <3>1 DEF Players, ToSet, TypeOK
    <3>3. clients[m][1] \in left
      BY <2>1, <3>1, <3>2, PlayersType DEF LossInv, EndedUnstarted
    <3> QED
      BY <2>1, <3>1, <3>2, <3>3, NoMatchAssumption DEF M!GiveUp
  <2> QED
    BY <2>2, <2>3 DEF TypeOK
<1>5. ASSUME NEW s \in Session, Authenticate(s) \/ ConnectionClosed(s) \/ HandleResolve(s)
      PROVE  UNCHANGED M!vars
  <2>1. session[s] # "gone" /\ UNCHANGED <<awaiting, clients>>
    BY <1>5, HeadTimely DEF Authenticate, ConnectionClosed, HandleResolve, Timely, matchVars
  <2>2. \E st : st # "gone" /\ session' = [session EXCEPT ![s] = st]
    BY <1>5 DEF Authenticate, ConnectionClosed, HandleResolve
  <2>3. left' = left
    BY <2>1, <2>2 DEF TypeOK
  <2> QED
    BY <1>u, <2>1, <2>3
<1>6. ASSUME UNCHANGED <<session, awaiting, clients>> PROVE UNCHANGED M!vars
  BY <1>6 DEF M!vars
<1>7. CASE Environment
  BY <1>5, <1>6, <1>7 DEF Environment, RequestFindMatch, RequestSubscribe, RequestSend,
     Post, matchVars
<1>8. CASE \E m \in Match : SendMessages(m)
  BY <1>6, <1>8 DEF SendMessages
<1>9. ASSUME NEW s \in Session, NEW m \in Match,
             HandleSubscribe(s, m) \/ \E msg \in Message : HandleSend(s, m, msg)
      PROVE  UNCHANGED M!vars
  <2>1. UNCHANGED <<session, awaiting, clients>>
    BY <1>9 DEF HandleSubscribe, HandleSend, matchVars
  <2> QED
    BY <1>6, <2>1
<1>10. CASE HandleNotice \/ UNCHANGED vars
  BY <1>6, <1>10 DEF HandleNotice, vars, matchVars
<1> QED
  BY <1>1, <1>2, <1>3, <1>4, <1>5, <1>7, <1>8, <1>9, <1>10 DEF Next, Server, Handle, M!Next

\* Whatever events lie between a decision of the matchmaker and its effects, a
\* search is put together with another player who waits, and nobody is given up
\* but for having left (AztecMatchmaker, AztecMatchManager).
THEOREM ServerImplementsMatchmaking == Spec => ImplementsMatchmaking
<1>1. Init => M!Init
  BY DEF Init, M!Init
<1> QED
  BY <1>1, TypeCorrect, OfferedInvariant, RequestsInvariant, LossInvariant,
     SearchersInvariant, StepMatchmaking, PTL DEF Spec, ImplementsMatchmaking, M!Spec
=============================================================================
