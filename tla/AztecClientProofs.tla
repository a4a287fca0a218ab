-------------------------- MODULE AztecClientProofs --------------------------
(***************************************************************************)
(* Clients and server together, for any number of sessions and matches and *)
(* any bounds: the real client is one of the environments the server has   *)
(* been proved correct in, so that all that holds of MatchServer holds of  *)
(* AztecClient; no client is stranded in a search or in a battle; no match *)
(* ends another one's battle; and two players agree how theirs ended.      *)
(***************************************************************************)
EXTENDS AztecClient, MatchPlayersProofs, ListLemmas, FiniteSetTheorems

-----------------------------------------------------------------------------
(* What is queued, and what the network brings *)

Subscribe(s, m) == [type |-> "subscribe", s |-> s, m |-> m]
Subscribed(m) == [type |-> "subscribed", m |-> m]
SubscribeFailed(m) == [type |-> "subscribeFailed", m |-> m]
Batch(m, b) == [type |-> "messages", m |-> m, batch |-> b]

\* What is on its way to a client
Mail ==
  {e \in Event : e.type \in {"resolve", "matchOid", "messages"}}
    \cup [type : {"subscribed", "subscribeFailed"}, m : Match]

\* What belongs to the search of a session, from its logon to its battle
Search(s) ==
  {e \in Event \cup Mail :
     \/ e.type \in {"resolve", "findMatch", "subscribe"} /\ e.s = s
     \/ e.type = "matchOid" /\ e.m # NoMatch /\ s \in e.to
     \/ e.type \in {"subscribed", "subscribeFailed"}}

\* The same, once START has been typed
Asked(s) == Search(s) \ {Resolve(s)}

\* What the records are, and which belong to whose search
LEMMA MailFacts ==
  /\ \A s \in Session : Resolve(s) \in Mail
  /\ \A m \in Match : Subscribed(m) \in Mail /\ SubscribeFailed(m) \in Mail
  /\ \A m \in Match, b \in Seq(Message) : Batch(m, b) \in Mail
  /\ \A ss \in SUBSET Session, m \in Match \cup {NoMatch} : OidEvent(ss, m) \in Mail
  /\ \A e \in Mail : e.type \in {"resolve", "matchOid", "messages", "subscribed", "subscribeFailed"}
BY EventTypes DEF Mail, Resolve, Subscribed, SubscribeFailed, Batch, OidEvent, Event

\* The fields of an event
LEMMA EventFields ==
  ASSUME NEW e \in Event
  PROVE  /\ e.type \in {"resolve", "findMatch", "clientDestroyed", "sendMessage", "subscribe",
                        "matchOid", "messages", "matchDestroyed"}
         /\ e.type = "resolve" => e.s \in Session /\ e = Resolve(e.s)
         /\ e.type = "findMatch" => e.s \in Session /\ e = FindMatch(e.s)
         /\ e.type = "subscribe" => e.s \in Session /\ e.m \in Match /\ e = Subscribe(e.s, e.m)
         /\ e.type = "matchOid" => /\ e.to \in SUBSET Session /\ e.m \in Match \cup {NoMatch}
                                   /\ e = OidEvent(e.to, e.m)
         /\ e.type = "messages" => e.m \in Match /\ e.batch \in Seq(Message)
                                   /\ e = Batch(e.m, e.batch)
         /\ e.type = "sendMessage" => e.msg \in Message
BY DEF Event, Resolve, FindMatch, Subscribe, OidEvent, Batch

\* The fields of what is on its way to a client
LEMMA MailFields ==
  ASSUME NEW e \in Mail
  PROVE  /\ e.type \in {"resolve", "matchOid", "messages", "subscribed", "subscribeFailed"}
         /\ e.type = "resolve" => e.s \in Session /\ e = Resolve(e.s)
         /\ e.type = "matchOid" => /\ e.to \in SUBSET Session /\ e.m \in Match \cup {NoMatch}
                                   /\ e = OidEvent(e.to, e.m)
         /\ e.type = "messages" => e.m \in Match /\ e.batch \in Seq(Message)
                                   /\ e = Batch(e.m, e.batch)
         /\ e.type = "subscribed" => e.m \in Match /\ e = Subscribed(e.m)
         /\ e.type = "subscribeFailed" => e.m \in Match /\ e = SubscribeFailed(e.m)
<1>1. CASE e \in Event
  BY <1>1, EventFields DEF Mail
<1>2. CASE e \in [type : {"subscribed", "subscribeFailed"}, m : Match]
  BY <1>2 DEF Subscribed, SubscribeFailed
<1> QED
  BY <1>1, <1>2 DEF Mail

\* Which records belong to the search of a session
LEMMA SearchFacts ==
  ASSUME NEW s \in Session
  PROVE  /\ \A t \in Session : /\ Resolve(t) \in Search(s) <=> t = s
                               /\ FindMatch(t) \in Search(s) <=> t = s
                               /\ FindMatch(t) # Resolve(s)
                               /\ ClientDestroyed(t) \notin Search(s)
         /\ \A t \in Session, m \in Match : /\ Subscribe(t, m) \in Search(s) <=> t = s
                                            /\ Subscribe(t, m) # Resolve(s)
         /\ \A t \in Session, m \in Match, msg \in Message :
              [type |-> "sendMessage", s |-> t, m |-> m, msg |-> msg] \notin Search(s)
         /\ \A m \in Match : /\ Subscribed(m) \in Asked(s) /\ SubscribeFailed(m) \in Asked(s)
                             /\ Destroyed(m) \notin Search(s)
         /\ \A m \in Match, b \in Seq(Message) : Batch(m, b) \notin Search(s)
         /\ \A ss \in SUBSET Session, m \in Match \cup {NoMatch} :
              /\ OidEvent(ss, m) \in Search(s) <=> m # NoMatch /\ s \in ss
              /\ OidEvent(ss, m) # Resolve(s)
BY EventTypes, MailFacts DEF Search, Asked, Resolve, FindMatch, ClientDestroyed, Subscribe,
   Subscribed, SubscribeFailed, Destroyed, Batch, OidEvent

\* Whose search the news of a match belong to
LEMMA NewsOfMatch ==
  ASSUME NEW s \in Session, NEW ss \in SUBSET Session, NEW m \in Match
  PROVE  /\ OidEvent(ss, m) \in Search(s) <=> s \in ss
         /\ OidEvent(ss, m) \in Asked(s) <=> s \in ss
<1>1. m # NoMatch /\ m \in Match \cup {NoMatch}
  BY NoMatchAssumption
<1>2. OidEvent(ss, m) \in Search(s) <=> m # NoMatch /\ s \in ss
  BY <1>1, SearchFacts
<1>3. OidEvent(ss, m) # Resolve(s)
  BY DEF OidEvent, Resolve
<1> QED
  BY <1>1, <1>2, <1>3 DEF Asked

-----------------------------------------------------------------------------
(* Types *)

\* What is on its way to session s in particular
MailTo(s) == {e \in Mail : /\ e.type = "resolve" => e.s = s
                           /\ e.type = "matchOid" => s \in e.to}

ClientTypes ==
  /\ inbox \in [Session -> Seq(Mail)]
  /\ \A s \in Session : inbox[s] \in Seq(MailTo(s))
  /\ modes \in [Session -> Seq(Mode)]
  /\ startMatch \in [Session -> {"none", "shown", "entered"}]
  /\ match \in [Session -> Match \cup {NoMatch}]
  /\ ticks \in [Session -> Seq(Seq(Message))]
  /\ newGameCondition \in [Session -> Condition]

\* The types are what ClientTypeOK says, and more.
LEMMA TypesHold == TypeOK /\ ClientTypes => ClientTypeOK
<1> SUFFICES ASSUME TypeOK, ClientTypes PROVE ClientTypeOK
  OBVIOUS
<1>1. ASSUME NEW s \in Session, NEW i \in 1..Len(inbox[s])
      PROVE  inbox[s][i].type \in {"resolve", "matchOid", "messages", "subscribed", "subscribeFailed"}
  <2>1. inbox[s][i] \in Mail
    BY ElementOfSeq DEF ClientTypes
  <2> QED
    BY <2>1, MailFacts
<1> QED
  BY <1>1 DEF ClientTypeOK, ClientTypes

\* A list of mail to s is a list of mail.
LEMMA MailToIsMail ==
  ASSUME NEW s \in Session, NEW q \in Seq(MailTo(s))
  PROVE  q \in Seq(Mail)
BY DEF MailTo

\* What a session has in its inbox, and what is left when the first is taken
LEMMA Inbox ==
  ASSUME ClientTypes, NEW s \in Session, inbox[s] # <<>>
  PROVE  /\ Head(inbox[s]) \in MailTo(s) /\ Head(inbox[s]) \in Mail
         /\ Head(inbox[s]) \in ToSet(inbox[s])
         /\ Tail(inbox[s]) \in Seq(MailTo(s)) /\ Tail(inbox[s]) \in Seq(Mail)
         /\ ToSet(Tail(inbox[s])) \subseteq ToSet(inbox[s])
<1>1. inbox[s] \in Seq(MailTo(s))
  BY DEF ClientTypes
<1>2. Head(inbox[s]) \in MailTo(s) /\ Tail(inbox[s]) \in Seq(MailTo(s))
  BY <1>1, HeadTailProperties
<1>3. ToSet(Tail(inbox[s])) \subseteq ToSet(inbox[s])
  BY <1>1, ToSetTail
<1>4. 1 \in DOMAIN inbox[s] /\ Head(inbox[s]) = inbox[s][1]
  BY <1>1, LenProperties, EmptySeq, HeadTailProperties
<1>5. Head(inbox[s]) \in ToSet(inbox[s])
  BY <1>4 DEF ToSet
<1> QED
  BY <1>2, <1>3, <1>5, MailToIsMail DEF MailTo

\* An event reaches a session with its handler.
Reaches(e, s) == s \in Recipients(e) \/ e = Resolve(s)

\* What reaches a client of an event is mail to it.
LEMMA SentIsMail ==
  ASSUME NEW e \in Event, NEW s \in Session, Reaches(e, s)
  PROVE  Sent(e) \in MailTo(s)
<1>1. /\ e.type \in {"matchOid", "messages", "subscribe", "resolve"}
      /\ e.type = "matchOid" => s \in e.to
      /\ e.type = "resolve" => e.s = s
  BY DEF Reaches, Recipients, Resolve
<1>2. CASE e.type = "subscribe"
  <2>1. Sent(e) = Subscribed(e.m) \/ Sent(e) = SubscribeFailed(e.m)
    BY <1>2 DEF Sent, Subscribed, SubscribeFailed
  <2>2. e.m \in Match
    BY <1>2, EventFields
  <2>3. Sent(e) \in Mail
    BY <2>1, <2>2, MailFacts
  <2>4. Sent(e).type \notin {"resolve", "matchOid"}
    BY <2>1 DEF Subscribed, SubscribeFailed
  <2> QED
    BY <2>3, <2>4 DEF MailTo
<1>3. CASE e.type # "subscribe"
  BY <1>1, <1>3 DEF Sent, Mail, MailTo
<1> QED
  BY <1>2, <1>3

\* The server's step brings mail to the clients, behind what is on its way.
LEMMA Delivery ==
  ASSUME TypeOK, ClientTypes, ServerHandle
  PROVE  /\ events # <<>> /\ events \in Seq(Event) /\ Head(events) \in Event
         /\ Head(events) \in ToSet(events)
         /\ Tail(events) \in Seq(Event) /\ ToSet(Tail(events)) \subseteq ToSet(events)
         /\ \A s \in Session :
              /\ Reaches(Head(events), s) => inbox'[s] = Append(inbox[s], Sent(Head(events)))
              /\ ~Reaches(Head(events), s) => inbox'[s] = inbox[s]
         /\ inbox' \in [Session -> Seq(Mail)]
         /\ \A s \in Session : inbox'[s] \in Seq(MailTo(s))
<1>1. /\ events # <<>> /\ events \in Seq(Event) /\ Head(events) \in Event
      /\ Head(events) \in ToSet(events)
      /\ Tail(events) \in Seq(Event) /\ ToSet(Tail(events)) \subseteq ToSet(events)
  BY HandleGrown, HeadTailProperties, HeadQueued, ToSetTail DEF ServerHandle, TypeOK
<1> DEFINE e == Head(events)
<1>2. inbox' = [s \in Session |-> IF Reaches(e, s) THEN Append(inbox[s], Sent(e)) ELSE inbox[s]]
  BY DEF ServerHandle, Deliver, Resolve, Reaches
<1>3. \A s \in Session : Reaches(e, s) => Sent(e) \in MailTo(s)
  BY <1>1, SentIsMail
<1>4. \A s \in Session : inbox[s] \in Seq(MailTo(s))
  BY DEF ClientTypes
<1> HIDE DEF e
<1>5. \A s \in Session : /\ Reaches(e, s) => inbox'[s] = Append(inbox[s], Sent(e))
                         /\ ~Reaches(e, s) => inbox'[s] = inbox[s]
  BY <1>2
<1>6. \A s \in Session : inbox'[s] \in Seq(MailTo(s))
  BY <1>3, <1>4, <1>5, AppendProperties
<1>7. inbox' \in [Session -> Seq(Mail)]
  BY <1>2, <1>6, MailToIsMail
<1> QED
  BY <1>1, <1>5, <1>6, <1>7 DEF e

\* The places of the final messages are finitely many.
LEMMA FinalsFinite ==
  ASSUME NEW batches \in Seq(Seq(Message))
  PROVE  /\ IsFiniteSet(Finals(batches)) /\ Cardinality(Finals(batches)) \in Nat
         /\ Cardinality(Finals(batches)) = 0 <=> Finals(batches) = {}
<1> DEFINE row(i) == {i} \X {k \in DOMAIN batches[i] : Final(batches[i][k])}
           rows == {row(i) : i \in DOMAIN batches}
<1>1. DOMAIN batches = 1..Len(batches) /\ Len(batches) \in Nat
  BY LenProperties
<1>2. ASSUME NEW i \in DOMAIN batches PROVE IsFiniteSet(row(i))
  <2>1. batches[i] \in Seq(Message)
    BY <1>1, ElementOfSeq
  <2>2. DOMAIN batches[i] = 1..Len(batches[i]) /\ Len(batches[i]) \in Nat
    BY <2>1, LenProperties
  <2>3. IsFiniteSet(DOMAIN batches[i])
    BY <2>2, FS_Interval
  <2>4. IsFiniteSet({k \in DOMAIN batches[i] : Final(batches[i][k])})
    BY <2>3, FS_Subset
  <2> QED
    BY <2>4, FS_Singleton, FS_Product
<1>3. IsFiniteSet(DOMAIN batches)
  BY <1>1, FS_Interval
<1> HIDE DEF row
<1>4. IsFiniteSet(rows)
  <2> DEFINE f == [i \in DOMAIN batches |-> row(i)]
  <2>1. f \in Surjection(DOMAIN batches, rows)
    BY DEF Surjection
  <2> QED
    BY <1>3, <2>1, FS_Surjection
<1>5. IsFiniteSet(UNION rows)
  BY <1>2, <1>4, FS_UNION
<1>6. UNION rows = Finals(batches)
  BY DEF Finals, row
<1> HIDE DEF rows
<1> QED
  BY <1>5, <1>6, FS_CardinalityType, FS_EmptySet

\* The last final message of a batch is a final message of it.
LEMMA EndIsFinal ==
  ASSUME NEW b \in Seq(Message), Ends(b)
  PROVE  EndOf(b) \in ToSet(b) /\ EndOf(b) \in Message /\ Final(EndOf(b))
<1> DEFINE places == {k \in DOMAIN b : Final(b[k])}
<1>1. DOMAIN b = 1..Len(b) /\ Len(b) \in Nat
  BY LenProperties
<1>2. places # {} /\ places \subseteq Nat /\ \A k \in places : k <= Len(b)
  BY <1>1 DEF Ends
<1>3. \E k \in places : \A j \in places : k >= j
  <2> HIDE DEF places
  <2> QED
    BY <1>1, <1>2, Greatest
<1>4. \E k \in DOMAIN b : Final(b[k]) /\ \A j \in DOMAIN b : Final(b[j]) => j <= k
  <2>1. PICK k \in places : \A j \in places : k >= j
    BY <1>3
  <2>2. \A j \in places : j <= k
    BY <1>1, <2>1
  <2> QED
    BY <2>2
<1>5. PICK k \in DOMAIN b : EndOf(b) = b[k] /\ Final(b[k])
  BY <1>4, Zenon DEF EndOf
<1>6. b[k] \in Message
  BY <1>1, ElementOfSeq
<1> QED
  BY <1>5, <1>6 DEF ToSet

\* What the last final message of some batches is, when there is one
LEMMA LastFinalIs ==
  ASSUME NEW batches \in Seq(Seq(Message)), Finals(batches) # {}
  PROVE  \E b \in ToSet(batches) : Ends(b) /\ LastFinal(batches) = EndOf(b)
<1> DEFINE places == {i \in DOMAIN batches : Ends(batches[i])}
<1>1. DOMAIN batches = 1..Len(batches) /\ Len(batches) \in Nat
  BY LenProperties
<1>2. places # {} /\ places \subseteq Nat /\ \A i \in places : i <= Len(batches)
  BY <1>1 DEF Ends, Finals
<1>3. \E i \in places : \A j \in places : i >= j
  <2> HIDE DEF places
  <2> QED
    BY <1>1, <1>2, Greatest
<1>4. \E i \in DOMAIN batches :
        Ends(batches[i]) /\ \A j \in DOMAIN batches : Ends(batches[j]) => j <= i
  <2>1. PICK i \in places : \A j \in places : i >= j
    BY <1>3
  <2>2. \A j \in places : j <= i
    BY <1>1, <2>1
  <2> QED
    BY <2>2
<1>5. PICK i \in DOMAIN batches : LastFinal(batches) = EndOf(batches[i]) /\ Ends(batches[i])
  BY <1>4, Zenon DEF LastFinal
<1> QED
  BY <1>5 DEF ToSet

\* There is a final message when and where some batch ends the battle.
LEMMA FinalsAre ==
  ASSUME NEW batches \in Seq(Seq(Message))
  PROVE  Finals(batches) # {} <=> \E b \in ToSet(batches) : Ends(b)
<1>1. ASSUME NEW x \in Finals(batches) PROVE \E b \in ToSet(batches) : Ends(b)
  <2>1. PICK i \in DOMAIN batches : x \in {i} \X {k \in DOMAIN batches[i] : Final(batches[i][k])}
    BY Zenon DEF Finals
  <2>2. \E k \in DOMAIN batches[i] : Final(batches[i][k])
    BY <2>1
  <2> QED
    BY <2>2 DEF Ends, ToSet
<1>2. ASSUME NEW i \in DOMAIN batches, Ends(batches[i]) PROVE Finals(batches) # {}
  <2>1. PICK k \in DOMAIN batches[i] : Final(batches[i][k])
    BY <1>2 DEF Ends
  <2>2. <<i, k>> \in Finals(batches)
    BY <2>1 DEF Finals
  <2> QED
    BY <2>2
<1> QED
  BY <1>1, <1>2 DEF ToSet

\* A frame of the battle leaves a part of the mode stack.
LEMMA ProcessTypes ==
  ASSUME ClientTypes, NEW s \in Session, ProcessTicks(s)
  PROVE  \E left \in Nat :
           /\ left <= Len(modes[s])
           /\ Finals(ticks[s]) = {} => left = Len(modes[s])
           /\ Finals(ticks[s]) # {} => left < Len(modes[s])
           /\ modes' = [modes EXCEPT ![s] = SubSeq(@, 1, left)]
           /\ startMatch' = [startMatch EXCEPT ![s] =
                IF left > 0 /\ modes[s][left] = "connect" THEN "shown" ELSE "none"]
           /\ ClientTypes'
<1> DEFINE pops == Cardinality(Finals(ticks[s]))
           left == IF pops <= Len(modes[s]) THEN Len(modes[s]) - pops ELSE 0
<1>1. ticks[s] \in Seq(Seq(Message)) /\ modes[s] \in Seq(Mode) /\ Len(modes[s]) \in Nat
  BY LenProperties DEF ClientTypes
<1>2. pops \in Nat /\ (pops = 0 <=> Finals(ticks[s]) = {})
  BY <1>1, FinalsFinite
<1>3. /\ modes' = [modes EXCEPT ![s] = SubSeq(@, 1, left)]
      /\ startMatch' = [startMatch EXCEPT ![s] =
           IF left > 0 /\ modes[s][left] = "connect" THEN "shown" ELSE "none"]
      /\ newGameCondition' = [newGameCondition EXCEPT ![s] =
           IF pops = 0 THEN @ ELSE Outcome(s, LastFinal(ticks[s]))]
      /\ ticks' = [ticks EXCEPT ![s] = <<>>]
      /\ UNCHANGED <<inbox, match>>
  BY DEF ProcessTicks
<1> HIDE DEF pops
<1>m. Len(modes[s]) > 0
  BY <1>1, EmptySeq DEF ProcessTicks, Shows
<1>4. /\ left \in Nat /\ left <= Len(modes[s]) /\ (pops = 0 => left = Len(modes[s]))
      /\ pops # 0 => left < Len(modes[s])
  BY <1>1, <1>2, <1>m
<1> HIDE DEF left
<1>5. SubSeq(modes[s], 1, left) \in Seq(Mode)
  BY <1>1, <1>4, SubSeqProperties
<1>6. Outcome(s, LastFinal(ticks[s])) \in Condition
  BY DEF Outcome, Condition
<1>7. ClientTypes'
  BY <1>3, <1>5, <1>6, EmptySeq DEF ClientTypes
<1> QED
  BY <1>2, <1>3, <1>4, <1>7

\* One mode on top of the others
LEMMA PushTypes ==
  ASSUME ClientTypes, NEW s \in Session, NEW mode \in Mode, Push(s, mode)
  PROVE  /\ modes' \in [Session -> Seq(Mode)]
         /\ startMatch' \in [Session -> {"none", "shown", "entered"}]
         /\ modes'[s] = Append(modes[s], mode)
         /\ startMatch'[s] = IF Shows(s, "connect") THEN "none" ELSE startMatch[s]
         /\ \A t \in Session \ {s} : modes'[t] = modes[t] /\ startMatch'[t] = startMatch[t]
BY AppendProperties DEF Push, ClientTypes

\* The first message of an inbox is taken off.
LEMMA Taken ==
  ASSUME ClientTypes, NEW s \in Session, NEW type, Take(s, type)
  PROVE  /\ session[s] = "on" /\ inbox[s] # <<>> /\ Head(inbox[s]).type = type
         /\ inbox' \in [Session -> Seq(Mail)]
         /\ \A t \in Session : inbox'[t] \in Seq(MailTo(t))
         /\ inbox'[s] = Tail(inbox[s])
         /\ \A t \in Session \ {s} : inbox'[t] = inbox[t]
<1>1. /\ session[s] = "on" /\ inbox[s] # <<>> /\ Head(inbox[s]).type = type
      /\ inbox' = [inbox EXCEPT ![s] = Tail(@)]
  BY DEF Take
<1>2. Tail(inbox[s]) \in Seq(MailTo(s)) /\ Tail(inbox[s]) \in Seq(Mail)
  BY <1>1, Inbox
<1> QED
  BY <1>1, <1>2 DEF ClientTypes

\* Every step keeps the types of the clients.
LEMMA ClientTypesStep ==
  ASSUME TypeOK, ClientTypes, [ClientNext]_allVars
  PROVE  ClientTypes'
<1> USE DEF ClientTypes
<1>0. ASSUME UNCHANGED <<inbox, clientVars>> PROVE ClientTypes'
  BY <1>0 DEF clientVars
<1>1. CASE ServerHandle
  BY <1>1, Delivery DEF ServerHandle, clientVars
<1>2. ASSUME NEW m \in Match, Publish(m) PROVE ClientTypes'
  BY <1>2, <1>0 DEF Publish
<1>3. ASSUME NEW s \in Session, Logon(s) \/ SendWin(s) PROVE ClientTypes'
  BY <1>3, <1>0 DEF Logon, SendWin
<1>4. ASSUME NEW s \in Session, LogonRefused(s) PROVE ClientTypes'
  BY <1>4, PushTypes DEF LogonRefused, Mode
<1>5. ASSUME NEW s \in Session, ConnectionLost(s) PROVE ClientTypes'
  <2>1. /\ inbox' \in [Session -> Seq(Mail)]
        /\ \A t \in Session : inbox'[t] \in Seq(MailTo(t))
    BY <1>5, EmptySeq DEF ConnectionLost
  <2>2. Push(s, "failure") \/ UNCHANGED <<modes, startMatch>>
    BY <1>5 DEF ConnectionLost
  <2>3. UNCHANGED <<match, ticks, newGameCondition>>
    BY <1>5 DEF ConnectionLost
  <2>4. CASE Push(s, "failure")
    BY <2>1, <2>3, <2>4, PushTypes DEF Mode
  <2> QED
    BY <2>1, <2>2, <2>3, <2>4
<1>6. ASSUME NEW s \in Session, TryAgain(s) PROVE ClientTypes'
  BY <1>6, EmptySeq DEF TryAgain
<1>7. ASSUME NEW s \in Session, OnDidLogon(s) PROVE ClientTypes'
  BY <1>7, Taken DEF OnDidLogon
<1>8. ASSUME NEW s \in Session, OnLeftMatch(s) \/ OnMatchOid(s) PROVE ClientTypes'
  BY <1>8, Taken DEF OnLeftMatch, OnMatchOid, clientVars
<1>9. ASSUME NEW s \in Session, OnMatchSubscribe(s) PROVE ClientTypes'
  <2>1. Take(s, "subscribed") /\ Push(s, "battle")
    BY <1>9 DEF OnMatchSubscribe
  <2>2. Head(inbox[s]).m \in Match
    BY <2>1, Taken, Inbox, MailFields
  <2>3. ticks' \in [Session -> Seq(Seq(Message))]
    BY <1>9, EmptySeq DEF OnMatchSubscribe
  <2>4. match' \in [Session -> Match \cup {NoMatch}] /\ newGameCondition' = newGameCondition
    BY <1>9, <2>2 DEF OnMatchSubscribe
  <2>5. /\ modes' \in [Session -> Seq(Mode)]
        /\ startMatch' \in [Session -> {"none", "shown", "entered"}]
    BY <2>1, PushTypes DEF Mode
  <2> QED
    BY <2>1, <2>3, <2>4, <2>5, Taken
<1>10. ASSUME NEW s \in Session, OnMatchSubscribeFail(s) PROVE ClientTypes'
  BY <1>10, Taken, PushTypes DEF OnMatchSubscribeFail, Mode
<1>11. ASSUME NEW s \in Session, OnMessages(s) PROVE ClientTypes'
  <2>1. Take(s, "messages")
    BY <1>11 DEF OnMessages
  <2>2. Head(inbox[s]).batch \in Seq(Message)
    BY <2>1, Taken, Inbox, MailFields
  <2>3. ticks' \in [Session -> Seq(Seq(Message))]
    BY <1>11, <2>2, AppendProperties DEF OnMessages
  <2> QED
    BY <1>11, <2>1, <2>3, Taken DEF OnMessages
<1>12. ASSUME NEW s \in Session, EnterStart(s) PROVE ClientTypes'
  BY <1>12 DEF EnterStart
<1>13. ASSUME NEW s \in Session, ProcessTicks(s) PROVE ClientTypes'
  BY <1>13, ProcessTypes, Zenon
<1>14. CASE UNCHANGED allVars
  BY <1>14, <1>0 DEF allVars
<1> QED
  BY <1>1, <1>2, <1>3, <1>4, <1>5, <1>6, <1>7, <1>8, <1>9, <1>10, <1>11, <1>12, <1>13, <1>14
  DEF ClientNext, Receive

-----------------------------------------------------------------------------
(* One search at a time.  What a session asked for is queued at the server,  *)
(* waits in a match, or is on its way back; it is in one of these places     *)
(* only, from the logon to the battle.                                       *)

\* From two lists to two others, the search of s stays where it is: it is still
\* only one, and there when it was.
Keeps(d, t, e, u, s) ==
  Single(d, t, Search(s)) =>
    /\ Single(e, u, Search(s))
    /\ Listed(e, u, Search(s)) <=> Listed(d, t, Search(s))
    /\ Listed(e, u, Asked(s)) <=> Listed(d, t, Asked(s))

\* Step after step
LEMMA KeepsTransitive ==
  ASSUME NEW d, NEW t, NEW e, NEW u, NEW f, NEW v, NEW s, Keeps(d, t, e, u, s), Keeps(e, u, f, v, s)
  PROVE  Keeps(d, t, f, v, s)
BY DEF Keeps

\* No step
LEMMA KeepsSelf == ASSUME NEW d, NEW t, NEW s PROVE Keeps(d, t, d, t, s)
BY DEF Keeps

\* The lists are a client's inbox and the server's queue, and nothing depends on
\* their order.
LEMMA KeepsSwapped ==
  ASSUME NEW d, NEW t, NEW e, NEW u, NEW s, Keeps(d, t, e, u, s)
  PROVE  Keeps(t, d, u, e, s)
<1>1. \A K, a, b : (Single(a, b, K) <=> Single(b, a, K)) /\ (Listed(a, b, K) <=> Listed(b, a, K))
  BY EitherFirst
<1> QED
  BY <1>1, Zenon DEF Keeps

\* What belongs to no search is added.
LEMMA KeepsAdded ==
  ASSUME NEW S, NEW d \in Seq(S), NEW t, NEW x \in S, NEW s, x \notin Search(s)
  PROVE  Keeps(d, t, Append(d, x), t, s)
<1> SUFFICES ASSUME Single(d, t, Search(s))
             PROVE  /\ Single(Append(d, x), t, Search(s))
                    /\ Listed(Append(d, x), t, Search(s)) <=> Listed(d, t, Search(s))
                    /\ Listed(Append(d, x), t, Asked(s)) <=> Listed(d, t, Asked(s))
  BY DEF Keeps
<1>1. Single(d, t, Asked(s)) /\ x \notin Asked(s)
  BY ListedLess DEF Asked
<1> QED
  BY <1>1, AddOne

\* What belongs to no search is taken.
LEMMA KeepsTaken ==
  ASSUME NEW S, NEW d, NEW t \in Seq(S), t # <<>>, NEW s, Head(t) \notin Search(s)
  PROVE  Keeps(d, t, d, Tail(t), s)
<1> SUFFICES ASSUME Single(d, t, Search(s))
             PROVE  /\ Single(d, Tail(t), Search(s))
                    /\ Listed(d, Tail(t), Search(s)) <=> Listed(d, t, Search(s))
                    /\ Listed(d, Tail(t), Asked(s)) <=> Listed(d, t, Asked(s))
  BY DEF Keeps
<1>1. Single(d, t, Asked(s)) /\ Head(t) \notin Asked(s)
  BY ListedLess DEF Asked
<1> QED
  BY <1>1, LoseOne

\* The answer takes the place of what was asked.
LEMMA KeepsMoved ==
  ASSUME NEW S, NEW d \in Seq(S), NEW T, NEW t \in Seq(T), t # <<>>, NEW x \in S, NEW s,
         x \in Search(s) <=> Head(t) \in Search(s), x \in Asked(s) <=> Head(t) \in Asked(s)
  PROVE  Keeps(d, t, Append(d, x), Tail(t), s)
<1> SUFFICES ASSUME Single(d, t, Search(s))
             PROVE  /\ Single(Append(d, x), Tail(t), Search(s))
                    /\ Listed(Append(d, x), Tail(t), Search(s)) <=> Listed(d, t, Search(s))
                    /\ Listed(Append(d, x), Tail(t), Asked(s)) <=> Listed(d, t, Asked(s))
  BY DEF Keeps
<1>0. Single(d, t, Asked(s))
  BY ListedLess DEF Asked
<1>1. ASSUME NEW K, Single(d, t, K), x \in K <=> Head(t) \in K
      PROVE  /\ Single(Append(d, x), Tail(t), K)
             /\ Listed(Append(d, x), Tail(t), K) <=> Listed(d, t, K)
  <2>1. d \in Seq(S \cup T) /\ t \in Seq(S \cup T) /\ x \in S \cup T
    OBVIOUS
  <2> QED
    BY <1>1, <2>1, MoveOne
<1> QED
  BY <1>0, <1>1

\* What the server handles reaches the client it is for: nothing of a search is lost
\* on the way, and nothing is there twice.
LEMMA PipeKeeps ==
  ASSUME TypeOK, ClientTypes, ServerHandle, NEW s \in Session, Head(events) # FindMatch(s),
         session[s] = "on" \/ Head(events) = Resolve(s) \/ Head(events) \notin Search(s)
  PROVE  Keeps(inbox[s], events, inbox'[s], Tail(events), s)
<1> DEFINE e == Head(events)
<1>1. /\ events # <<>> /\ events \in Seq(Event) /\ e \in Event
      /\ inbox[s] \in Seq(Mail) /\ inbox'[s] \in Seq(MailTo(s))
      /\ Reaches(e, s) => inbox'[s] = Append(inbox[s], Sent(e))
      /\ ~Reaches(e, s) => inbox'[s] = inbox[s]
  BY Delivery, Zenon DEF ClientTypes
<1> HIDE DEF e
<1>2. CASE ~Reaches(e, s)
  <2>1. e \notin Search(s)
    <3> SUFFICES ASSUME e \in Search(s) PROVE FALSE
      OBVIOUS
    <3>1. e # Resolve(s) /\ session[s] = "on"
      BY <1>2 DEF Reaches, e
    <3>2. \/ e.type \in {"resolve", "findMatch", "subscribe"} /\ e.s = s
          \/ e.type = "matchOid" /\ s \in e.to
      BY <1>1, EventFields DEF Search
    <3>3. e.type # "resolve" /\ e.type # "findMatch"
      BY <1>1, <3>1, <3>2, EventFields DEF e
    <3>4. s \in Recipients(e)
      BY <3>1, <3>2, <3>3 DEF Recipients
    <3> QED
      BY <1>2, <3>4 DEF Reaches
  <2> QED
    BY <1>1, <1>2, <2>1, KeepsTaken DEF e
<1>3. CASE Reaches(e, s)
  <2>1. Sent(e) \in MailTo(s) /\ Sent(e) \in Mail
    BY <1>1, <1>3, SentIsMail DEF MailTo
  <2>2. (Sent(e) \in Search(s) <=> e \in Search(s)) /\ (Sent(e) \in Asked(s) <=> e \in Asked(s))
    <3>1. CASE e.type # "subscribe"
      BY <3>1 DEF Sent
    <3>2. CASE e.type = "subscribe"
      <4>1. e = Subscribe(e.s, e.m) /\ e.m \in Match /\ e.s \in Session
        BY <1>1, <3>2, EventFields
      <4>2. s = e.s
        BY <1>3, <3>2 DEF Reaches, Recipients, Resolve
      <4>3. Sent(e) = Subscribed(e.m) \/ Sent(e) = SubscribeFailed(e.m)
        BY <3>2 DEF Sent, Subscribed, SubscribeFailed
      <4>4. Sent(e) \in Asked(s) /\ Subscribe(s, e.m) \in Asked(s)
        BY <4>1, <4>2, <4>3, SearchFacts DEF Asked
      <4> QED
        BY <4>1, <4>2, <4>4 DEF Asked
    <3> QED
      BY <3>1, <3>2
  <2> QED
    BY <1>1, <1>3, <2>1, <2>2, KeepsMoved DEF e
<1> QED
  BY <1>2, <1>3 DEF e

\* A shutdown has no part in a search.
LEMMA ShutdownKeeps ==
  ASSUME TypeOK, NEW m \in Match, NEW active, NEW posted \in Seq(Event),
         Shutdown(m, active, posted), NEW d, NEW s \in Session
  PROVE  Keeps(d, posted, d, events', s)
<1> DEFINE told == OidEvent(Players(m) \cap active, NoMatch)
           more == Append(posted, told)
<1>1. Players(m) \cap active \in SUBSET Session
  BY PlayersType
<1>2. told \in Event /\ told \notin Search(s) /\ Destroyed(m) \in Event /\ Destroyed(m) \notin Search(s)
  BY <1>1, EventTypes, SearchFacts
<1>3. events' = IF mobj[m] = "live" THEN Append(more, Destroyed(m)) ELSE more
  BY DEF Shutdown
<1> HIDE DEF told
<1>4. more \in Seq(Event) /\ Keeps(d, posted, d, more, s)
  BY <1>2, AppendProperties, KeepsAdded, KeepsSwapped
<1> HIDE DEF more
<1>5. Keeps(d, more, d, Append(more, Destroyed(m)), s)
  BY <1>2, <1>4, KeepsAdded, KeepsSwapped
<1> QED
  BY <1>3, <1>4, <1>5, KeepsTransitive

\* Neither has a run of the interval.
LEMMA SendMessagesKeeps ==
  ASSUME TypeOK, NEW m \in Match, SendMessages(m), NEW d, NEW s \in Session
  PROVE  Keeps(d, events, d, events', s)
<1> DEFINE b == Batch(m, queued[m])
           posted == IF mobj[m] = "live" THEN Append(events, b) ELSE events
<1>1. b \in Event /\ b \notin Search(s) /\ events \in Seq(Event)
  BY EventTypes, SearchFacts DEF TypeOK, Batch
<1>2. \/ Shutdown(m, {t \in Session : Active(t)}, posted)
      \/ events' = posted
  BY DEF SendMessages, Batch
<1> HIDE DEF b
<1>3. posted \in Seq(Event) /\ Keeps(d, events, d, posted, s)
  BY <1>1, AppendProperties, KeepsAdded, KeepsSwapped, KeepsSelf
<1> HIDE DEF posted
<1> QED
  BY <1>2, <1>3, ShutdownKeeps, KeepsTransitive

\* Of what the handlers post, only the news of a match belongs to a search.
LEMMA HandlersKeep ==
  ASSUME TypeOK, Handle, \A t \in Session : ~FindSecond(t), NEW d, NEW s \in Session
  PROVE  Keeps(d, Tail(events), d, events', s)
<1>1. Tail(events) \in Seq(Event)
  BY HandleExtends
<1>2. \/ events' = Tail(events)
      \/ \E m \in Match : \E active : Shutdown(m, active, Tail(events))
  BY DEF Handle, HandleResolve, FindFirst, AddFirst, HandleClientDestroyed, HandleSubscribe,
     HandleSend, HandleMatchDestroyed, HandleNotice
<1> QED
  BY <1>1, <1>2, ShutdownKeeps, KeepsSelf

\* Where the search of s is, and whether there is one
Solo(s) == Single(inbox[s], events, Search(s))
Sought(s) == Listed(inbox[s], events, Search(s))
Wanted(s) == Listed(inbox[s], events, Asked(s))
Waits(s) == \E m \in Match : awaiting = m /\ s \in Players(m)

\* The mode stacks there are
Screens == {<<"connect">>, <<"connect", "battle">>, <<"connect", "failure">>, <<>>}

InPlace(s) ==
  /\ Solo(s)
  /\ modes[s] \in Screens
  /\ startMatch[s] # "none" => modes[s] = <<"connect">>
  /\ Sought(s) /\ ~Wanted(s) => modes[s] = <<"connect">> /\ startMatch[s] = "none"
  /\ Wanted(s) => modes[s] = <<"connect">> /\ startMatch[s] = "entered"
  /\ startMatch[s] = "entered" => Wanted(s) \/ Waits(s)
  /\ Waits(s) => ~Sought(s) /\ startMatch[s] = "entered"

Located(s) ==
  /\ session[s] \in {"off", "resolving", "on"} => InPlace(s)
  /\ session[s] \in {"off", "resolving"} =>
       inbox[s] = <<>> /\ startMatch[s] = "none" /\ ~Wanted(s)
  /\ session[s] = "off" => ~Sought(s)
  /\ session[s] = "resolving" => modes[s] = <<"connect">>

PlaceInv == \A s \in Session : Located(s)

\* The state of a search in terms of its two lists
LEMMA KeepsState ==
  ASSUME NEW s, Keeps(inbox[s], events, inbox'[s], events', s), Solo(s)
  PROVE  Solo(s)' /\ (Sought(s)' <=> Sought(s)) /\ (Wanted(s)' <=> Wanted(s))
BY DEF Keeps, Solo, Sought, Wanted, Search, Asked

\* A step that leaves the search of s where it is
LEMMA LocatedKept ==
  ASSUME NEW s \in Session, Located(s), session'[s] = session[s],
         inbox'[s] = inbox[s] \/ session[s] = "on",
         modes'[s] = modes[s], startMatch'[s] = startMatch[s],
         Keeps(inbox[s], events, inbox'[s], events', s),
         Waits(s)' <=> Waits(s)
  PROVE  Located(s)'
<1>1. CASE session[s] \in {"off", "resolving", "on"}
  <2>1. InPlace(s) /\ Solo(s)
    BY <1>1 DEF Located, InPlace
  <2>2. Solo(s)' /\ (Sought(s)' <=> Sought(s)) /\ (Wanted(s)' <=> Wanted(s))
    BY <2>1, KeepsState
  <2>3. InPlace(s)'
    BY <2>1, <2>2, Zenon DEF InPlace
  <2>4. session[s] \in {"off", "resolving"} => inbox[s] = <<>> /\ inbox'[s] = inbox[s]
    BY DEF Located
  <2> QED
    BY <2>2, <2>3, <2>4, Zenon DEF Located
<1>2. CASE session[s] \notin {"off", "resolving", "on"}
  BY <1>2 DEF Located
<1> QED
  BY <1>1, <1>2

\* Nothing has to be said of a session that is over.
LEMMA LocatedOver ==
  ASSUME NEW s \in Session, session'[s] \in {"ended", "gone"}
  PROVE  Located(s)'
BY DEF Located

\* Of a session that is not on yet there is nothing but its logon.
LEMMA BeforeOn ==
  ASSUME TypeOK, ClientTypes, PlaceInv, ServerHandle, NEW s \in Session,
         session[s] \in {"off", "resolving"}, Head(events) # Resolve(s)
  PROVE  Head(events) \notin Search(s) /\ inbox'[s] = inbox[s]
<1>1. ~Wanted(s)
  BY DEF PlaceInv, Located
<1>2. Occurs(events, Asked(s)) <=> Occurs(Tail(events), Asked(s)) \/ Head(events) \in Asked(s)
  BY Delivery, OccursTail
<1>3. Head(events) \notin Asked(s)
  BY <1>1, <1>2 DEF Wanted, Listed
<1>4. ~Reaches(Head(events), s)
  BY DEF Reaches, Recipients
<1>5. inbox'[s] = inbox[s]
  BY <1>4, Delivery
<1> QED
  BY <1>3, <1>5 DEF Asked

\* The handlers leave a search where it is, but for those it is about.
LEMMA LocatedHandled ==
  ASSUME TypeOK, ClientTypes, PlaceInv, ServerHandle, NEW s \in Session,
         Head(events) # FindMatch(s), \A t \in Session : ~FindSecond(t),
         session'[s] = session[s], Head(events) # Resolve(s), Waits(s)' <=> Waits(s)
  PROVE  Located(s)'
<1>1. CASE session[s] \in {"off", "resolving", "on"}
  <2>1. \/ session[s] = "on"
        \/ Head(events) \notin Search(s) /\ inbox'[s] = inbox[s]
    BY <1>1, BeforeOn
  <2>2. Keeps(inbox[s], events, inbox'[s], Tail(events), s)
    BY <2>1, PipeKeeps
  <2>3. Keeps(inbox'[s], Tail(events), inbox'[s], events', s)
    BY HandlersKeep DEF ServerHandle
  <2>4. Keeps(inbox[s], events, inbox'[s], events', s)
    BY <2>2, <2>3, KeepsTransitive
  <2>5. modes'[s] = modes[s] /\ startMatch'[s] = startMatch[s]
    BY DEF ServerHandle, clientVars
  <2> QED
    BY <2>1, <2>4, <2>5, LocatedKept DEF PlaceInv
<1>2. CASE session[s] \notin {"off", "resolving", "on"}
  BY <1>2 DEF Located
<1> QED
  BY <1>1, <1>2

\* The session gets its object and the client hears of its logon.
LEMMA PlaceResolve ==
  ASSUME ServerInv, ClientTypes, PlaceInv, ServerHandle,
         NEW t \in Session, HandleResolve(t), NEW s \in Session
  PROVE  Located(s)'
<1>0. TypeOK /\ RequestsInv
  BY DEF ServerInv
<1>1. /\ Head(events) = Resolve(t) /\ events # <<>> /\ events' = Tail(events)
      /\ session' = [session EXCEPT ![t] = "on"]
      /\ awaiting' = awaiting /\ clients' = clients
  BY DEF HandleResolve, Resolve, matchVars
<1>2. Waits(s)' <=> Waits(s)
  BY <1>1, Zenon DEF Waits, Players
<1>3. Head(events) # FindMatch(s) /\ \A u \in Session : ~FindSecond(u)
  BY <1>1 DEF FindSecond, FindMatch, Resolve
<1>4. CASE s # t
  <2>1. Head(events) # Resolve(s) /\ session'[s] = session[s]
    BY <1>0, <1>1, <1>4 DEF Resolve, TypeOK
  <2> QED
    BY <1>0, <1>2, <1>3, <2>1, LocatedHandled
<1>5. CASE s = t
  <2>1. session[s] = "resolving" /\ session'[s] = "on"
    BY <1>0, <1>1, <1>5, HeadTimely DEF Timely, Resolve, TypeOK
  <2>2. InPlace(s) /\ Solo(s)
    BY <2>1 DEF PlaceInv, Located, InPlace
  <2>3. Keeps(inbox[s], events, inbox'[s], events', s)
    BY <1>0, <1>1, <1>3, <1>5, PipeKeeps
  <2>4. modes'[s] = modes[s] /\ startMatch'[s] = startMatch[s]
    BY DEF ServerHandle, clientVars
  <2>5. Solo(s)' /\ (Sought(s)' <=> Sought(s)) /\ (Wanted(s)' <=> Wanted(s))
    BY <2>2, <2>3, KeepsState
  <2>6. InPlace(s)'
    BY <1>2, <2>2, <2>4, <2>5, Zenon DEF InPlace
  <2> QED
    BY <2>1, <2>6 DEF Located
<1> QED
  BY <1>4, <1>5

\* A search that is being handled is the only trace of its session.
LEMMA SearchTaken ==
  ASSUME ServerInv, ClientTypes, PlaceInv, ServerHandle, NEW s \in Session,
         Head(events) = FindMatch(s), session[s] = "on"
  PROVE  /\ Single(inbox[s], Tail(events), Search(s))
         /\ ~Listed(inbox[s], Tail(events), Search(s))
         /\ ~Listed(inbox[s], Tail(events), Asked(s))
         /\ inbox'[s] = inbox[s] /\ inbox[s] \in Seq(Mail)
         /\ modes[s] = <<"connect">> /\ startMatch[s] = "entered"
<1>0. TypeOK
  BY DEF ServerInv
<1>1. events # <<>> /\ events \in Seq(Event) /\ inbox[s] \in Seq(Mail)
  BY <1>0, Delivery DEF ClientTypes
<1>2. Head(events) \in Search(s) /\ Head(events) \in Asked(s)
  BY SearchFacts DEF Asked
<1>3. InPlace(s) /\ Single(inbox[s], events, Search(s))
  BY DEF PlaceInv, Located, InPlace, Solo
<1>4. Single(inbox[s], Tail(events), Search(s)) /\ ~Listed(inbox[s], Tail(events), Search(s))
  BY <1>1, <1>2, <1>3, LoseOne
<1>5. ~Listed(inbox[s], Tail(events), Asked(s))
  BY <1>4, ListedLess DEF Asked
<1>6. Wanted(s)
  BY <1>1, <1>2, OccursTail DEF Wanted, Listed
<1>7. ~Reaches(Head(events), s)
  BY DEF Reaches, Recipients, FindMatch, Resolve
<1>8. inbox'[s] = inbox[s]
  BY <1>0, <1>7, Delivery
<1> QED
  BY <1>1, <1>3, <1>4, <1>5, <1>6, <1>8 DEF InPlace

\* findMatch when nobody waits: the one who asked does.
LEMMA PlaceFindFirst ==
  ASSUME ServerInv, ClientTypes, PlaceInv, ServerHandle,
         NEW t \in Session, FindFirst(t), NEW s \in Session
  PROVE  Located(s)'
<1>0. TypeOK /\ RequestsInv /\ OfferedInv
  BY DEF ServerInv
<1>1. PICK m \in Match : mobj[m] = "none" /\ awaiting' = m /\ AddFirst(m, t)
  BY DEF FindFirst
<1>2. /\ Head(events) = FindMatch(t) /\ awaiting = NoMatch /\ session' = session
      /\ events' = Tail(events) /\ clients' = [clients EXCEPT ![m] = Append(@, t)]
  BY <1>1 DEF FindFirst, AddFirst, FindMatch
<1>3. clients[m] = <<>>
  BY <1>0, <1>1 DEF OfferedInv
<1>4. clients'[m] = <<t>>
  BY <1>0, <1>2, <1>3 DEF TypeOK
<1>5. Players(m)' = {t}
  BY <1>4 DEF Players, ToSet
<1>6. Waits(s)' <=> s = t
  BY <1>1, <1>5 DEF Waits
<1>7. ~Waits(s)
  BY <1>2, NoMatchAssumption DEF Waits
<1>8. Head(events) # Resolve(s) /\ \A u \in Session : ~FindSecond(u)
  BY <1>2 DEF FindSecond, FindMatch, Resolve
<1>9. modes'[s] = modes[s] /\ startMatch'[s] = startMatch[s]
  BY DEF ServerHandle, clientVars
<1>10. CASE s # t
  <2>1. Head(events) # FindMatch(s)
    BY <1>2, <1>10 DEF FindMatch
  <2> QED
    BY <1>0, <1>2, <1>6, <1>7, <1>8, <1>10, <2>1, LocatedHandled
<1>11. CASE s = t /\ session[s] = "on"
  <2>1. /\ Single(inbox[s], Tail(events), Search(s))
        /\ ~Listed(inbox[s], Tail(events), Search(s))
        /\ ~Listed(inbox[s], Tail(events), Asked(s))
        /\ inbox'[s] = inbox[s]
        /\ modes[s] = <<"connect">> /\ startMatch[s] = "entered"
    BY <1>2, <1>11, SearchTaken
  <2>2. Solo(s)' /\ ~Sought(s)' /\ ~Wanted(s)'
    BY <1>2, <2>1 DEF Solo, Sought, Wanted, Search, Asked
  <2>3. InPlace(s)'
    BY <1>6, <1>9, <1>11, <2>1, <2>2 DEF InPlace, Screens
  <2> QED
    BY <1>2, <1>11, <2>3 DEF Located
<1>12. CASE s = t /\ session[s] # "on"
  <2>1. session'[s] \in {"ended", "gone"}
    BY <1>0, <1>2, <1>12, HeadTimely, Delivery DEF Timely, FindMatch
  <2> QED
    BY <2>1, LocatedOver
<1> QED
  BY <1>10, <1>11, <1>12

\* findMatch when somebody waits: both are on their way to the match.
LEMMA PlaceFindSecond ==
  ASSUME ServerInv, ClientTypes, PlaceInv, ServerHandle,
         NEW t \in Session, FindSecond(t), NEW s \in Session
  PROVE  Located(s)'
<1> DEFINE m == awaiting
           told == OidEvent(Players(m) \cup {t}, m)
<1>0. TypeOK /\ RequestsInv /\ EngagedInv
  BY DEF ServerInv
<1>1. /\ m \in Match /\ m # NoMatch /\ awaiting' = NoMatch /\ session' = session
      /\ Head(events) = FindMatch(t) /\ events # <<>>
      /\ events' = Append(Tail(events), told)
  BY <1>0 DEF FindSecond, AddSecond, FindMatch, TypeOK
<1>2. /\ events \in Seq(Event) /\ Tail(events) \in Seq(Event) /\ told \in Event
      /\ inbox[s] \in Seq(Mail)
  BY <1>0, <1>1, Delivery, PlayersType, EventTypes DEF ClientTypes
<1>p. Players(m) \cup {t} \in SUBSET Session
  BY <1>0, <1>1, PlayersType
<1>3. told \in Search(s) <=> s \in Players(m) \cup {t}
  BY <1>1, <1>p, NewsOfMatch
<1>4. told \in Asked(s) <=> s \in Players(m) \cup {t}
  BY <1>1, <1>p, NewsOfMatch
<1>5. ~Waits(s)'
  BY <1>1, NoMatchAssumption DEF Waits
<1>6. Waits(s) <=> s \in Players(m)
  BY <1>1 DEF Waits
<1>7. ~Reaches(Head(events), s)
  BY <1>1 DEF Reaches, Recipients, FindMatch, Resolve
<1>8. inbox'[s] = inbox[s]
  BY <1>0, <1>7, Delivery
<1>9. modes'[s] = modes[s] /\ startMatch'[s] = startMatch[s]
  BY DEF ServerHandle, clientVars
<1>10. Head(events) \in Search(s) <=> s = t
  BY <1>1, SearchFacts
<1> HIDE DEF m, told
<1>a. ASSUME s \in Players(m) \cup {t}, session[s] = "on",
             Single(inbox[s], Tail(events), Search(s)),
             ~Listed(inbox[s], Tail(events), Search(s)),
             modes[s] = <<"connect">>, startMatch[s] = "entered"
      PROVE  Located(s)'
  <2>1. Single(inbox[s], Tail(events), Asked(s)) /\ ~Listed(inbox[s], Tail(events), Asked(s))
    BY <1>a, ListedLess DEF Asked
  <2>2. Single(inbox[s], events', Search(s)) /\ Listed(inbox[s], events', Search(s))
    BY <1>a, <1>1, <1>2, <1>3, AddOther
  <2>3. Listed(inbox[s], events', Asked(s))
    BY <1>a, <1>1, <1>2, <1>4, <2>1, AddOther
  <2>4. Solo(s)' /\ Sought(s)' /\ Wanted(s)'
    BY <1>8, <2>2, <2>3 DEF Solo, Sought, Wanted, Search, Asked
  <2>5. InPlace(s)'
    BY <1>a, <1>5, <1>9, <2>4 DEF InPlace, Screens
  <2> QED
    BY <1>a, <1>1, <2>5 DEF Located
<1>b. CASE session[s] \notin {"off", "resolving", "on"}
  BY <1>1, <1>b DEF Located
<1>c. CASE s = t /\ session[s] = "on"
  BY <1>1, <1>c, <1>a, SearchTaken
<1>d. CASE s # t /\ s \in Players(m) /\ session[s] = "on"
  <2>1. InPlace(s) /\ Waits(s) /\ Single(inbox[s], events, Search(s))
    BY <1>d, <1>6 DEF PlaceInv, Located, InPlace, Solo
  <2>2. startMatch[s] = "entered" /\ modes[s] = <<"connect">> /\ ~Sought(s)
    BY <2>1 DEF InPlace
  <2>3. /\ Single(inbox[s], Tail(events), Search(s))
        /\ ~Listed(inbox[s], Tail(events), Search(s))
    BY <1>1, <1>2, <2>1, <2>2, LoseOne DEF Sought
  <2> QED
    BY <1>a, <1>d, <2>2, <2>3
<1>e. CASE s \notin Players(m) \cup {t}
  <2>1. Keeps(inbox[s], events, inbox[s], Tail(events), s)
    BY <1>1, <1>2, <1>10, <1>e, KeepsTaken
  <2>2. Keeps(inbox[s], Tail(events), inbox[s], events', s)
    BY <1>1, <1>2, <1>3, <1>e, KeepsAdded, KeepsSwapped
  <2>3. Keeps(inbox[s], events, inbox'[s], events', s)
    BY <1>8, <2>1, <2>2, KeepsTransitive
  <2> QED
    BY <1>1, <1>5, <1>6, <1>8, <1>9, <1>e, <2>3, LocatedKept DEF PlaceInv
<1>f. CASE s \in Players(m) /\ session[s] \in {"off", "resolving"}
  BY <1>0, <1>1, <1>f DEF EngagedInv, PlayersWereOn
<1>g. CASE s = t /\ session[s] \in {"off", "resolving"}
  BY <1>0, <1>1, <1>g, HeadTimely, Delivery DEF Timely, FindMatch
<1> QED
  BY <1>b, <1>c, <1>d, <1>e, <1>f, <1>g

\* The match that waited is gone only when its player is.
LEMMA PlaceMatchDestroyed ==
  ASSUME ServerInv, ClientTypes, PlaceInv, ServerHandle,
         NEW m \in Match, HandleMatchDestroyed(m), NEW s \in Session
  PROVE  Located(s)'
<1>0. TypeOK /\ OfferedInv /\ LossInv
  BY DEF ServerInv
<1>1. /\ Head(events) = Destroyed(m) /\ session' = session /\ clients' = clients
      /\ awaiting' = IF listening[m] THEN NoMatch ELSE awaiting
  BY DEF HandleMatchDestroyed, matchVars
<1>2. Closing(m)
  BY <1>0, <1>1, Delivery DEF Closing, Queued
<1>3. CASE session[s] \in {"ended", "gone"}
  BY <1>1, <1>3, LocatedOver
<1>4. CASE session[s] \notin {"ended", "gone"}
  <2>1. listening[m] => awaiting = m /\ s \notin Players(m)
    BY <1>0, <1>2, <1>4, NoMatchAssumption
    DEF OfferedInv, WaitingMatchOffered, LossInv, EndedUnstarted, TypeOK
  <2>2. Players(m)' = Players(m) /\ \A n \in Match : Players(n)' = Players(n)
    BY <1>1 DEF Players
  <2>3. Waits(s)' <=> Waits(s)
    BY <1>1, <2>1, <2>2, NoMatchAssumption DEF Waits
  <2>4. /\ Head(events) # FindMatch(s) /\ Head(events) # Resolve(s)
        /\ \A t \in Session : ~FindSecond(t)
    BY <1>1 DEF FindSecond, FindMatch, Resolve, Destroyed
  <2> QED
    BY <1>0, <1>1, <2>3, <2>4, LocatedHandled
<1> QED
  BY <1>3, <1>4

\* No step of the server loses a search or begins one.
LEMMA PlaceServer ==
  ASSUME ServerInv, ClientTypes, PlaceInv, ServerHandle, NEW s \in Session
  PROVE  Located(s)'
<1>0. TypeOK
  BY DEF ServerInv
<1>1. ASSUME NEW t \in Session, HandleClientDestroyed(t) PROVE Located(s)'
  <2>1. /\ Head(events) = ClientDestroyed(t) /\ session' = [session EXCEPT ![t] = "gone"]
        /\ awaiting' = awaiting /\ clients' = clients
    BY <1>1 DEF HandleClientDestroyed, ClientDestroyed
  <2>2. Waits(s)' <=> Waits(s)
    BY <2>1, Zenon DEF Waits, Players
  <2>3. /\ Head(events) # FindMatch(s) /\ Head(events) # Resolve(s)
        /\ \A u \in Session : ~FindSecond(u)
    BY <2>1 DEF FindSecond, FindMatch, Resolve, ClientDestroyed
  <2>4. session'[s] = session[s] \/ session'[s] \in {"ended", "gone"}
    BY <1>0, <2>1 DEF TypeOK
  <2> QED
    BY <1>0, <2>2, <2>3, <2>4, LocatedHandled, LocatedOver
<1>2. ASSUME HandleNotice \/ \E t \in Session, m \in Match :
               HandleSubscribe(t, m) \/ \E msg \in Message : HandleSend(t, m, msg)
      PROVE  Located(s)'
  <2>1. UNCHANGED <<session, awaiting, clients>>
    BY <1>2 DEF HandleNotice, HandleSubscribe, HandleSend, matchVars
  <2>2. Waits(s)' <=> Waits(s)
    BY <2>1, Zenon DEF Waits, Players
  <2>3. /\ Head(events) # FindMatch(s) /\ Head(events) # Resolve(s)
        /\ \A u \in Session : ~FindSecond(u)
    BY <1>2 DEF HandleNotice, HandleSubscribe, HandleSend, FindSecond, FindMatch, Resolve
  <2> QED
    BY <1>0, <2>1, <2>2, <2>3, LocatedHandled
<1> QED
  BY <1>1, <1>2, PlaceResolve, PlaceFindFirst, PlaceFindSecond, PlaceMatchDestroyed
  DEF ServerHandle, Handle

\* What a client or the network posts is in no other session's search.
LEMMA LocatedPosted ==
  ASSUME TypeOK, PlaceInv, NEW s \in Session, NEW x \in Event, x \notin Search(s),
         events' = events \/ events' = Append(events, x),
         session'[s] = session[s], inbox'[s] = inbox[s],
         modes'[s] = modes[s], startMatch'[s] = startMatch[s],
         awaiting' = awaiting, clients' = clients
  PROVE  Located(s)'
<1>1. Waits(s)' <=> Waits(s)
  BY Zenon DEF Waits, Players
<1>2. Keeps(inbox[s], events, inbox'[s], events', s)
  BY KeepsAdded, KeepsSwapped, KeepsSelf DEF TypeOK
<1> QED
  BY <1>1, <1>2, LocatedKept DEF PlaceInv

\* The logon is asked for.
LEMMA PlaceLogon ==
  ASSUME ServerInv, ClientTypes, PlaceInv, NEW t \in Session, Logon(t), NEW s \in Session
  PROVE  Located(s)'
<1>0. TypeOK
  BY DEF ServerInv
<1>1. /\ modes[t] = <<"connect">> /\ session[t] = "off"
      /\ session' = [session EXCEPT ![t] = "resolving"]
      /\ events' = Append(events, Resolve(t)) /\ Resolve(t) \in Event
      /\ UNCHANGED <<awaiting, clients, inbox, modes, startMatch>>
  BY EventTypes DEF Logon, Authenticate, Resolve, matchVars, clientVars
<1>2. CASE s # t
  <2>1. Resolve(t) \notin Search(s) /\ session'[s] = session[s]
    BY <1>0, <1>1, <1>2, SearchFacts DEF TypeOK
  <2> QED
    BY <1>0, <1>1, <2>1, LocatedPosted
<1>3. CASE s = t
  <2>1. InPlace(s) /\ ~Sought(s) /\ ~Wanted(s) /\ inbox[s] = <<>> /\ startMatch[s] = "none"
    BY <1>1, <1>3 DEF PlaceInv, Located
  <2>2. ~Waits(s) /\ (Waits(s)' <=> Waits(s))
    BY <1>1, <2>1, Zenon DEF InPlace, Waits, Players
  <2>3. Single(inbox[s], events, Search(s)) /\ events \in Seq(Event)
    BY <1>0, <2>1 DEF InPlace, Solo, TypeOK
  <2>4. Single(inbox[s], events, Asked(s))
    BY <2>3, ListedLess DEF Asked
  <2>5. Single(inbox[s], events', Search(s))
    BY <1>1, <2>1, <2>3, AddOther DEF Sought
  <2>6. ~Listed(inbox[s], events', Asked(s))
    <3>1. Resolve(t) \notin Asked(s)
      BY <1>3 DEF Asked
    <3>2. ~Listed(inbox[s], events, Asked(s))
      BY <2>1 DEF Wanted
    <3> QED
      BY <1>1, <2>3, <2>4, <3>1, <3>2, AddOther
  <2>7. Solo(s)' /\ ~Wanted(s)'
    BY <1>1, <2>5, <2>6 DEF Solo, Wanted, Search, Asked
  <2>8. session'[s] = "resolving"
    BY <1>0, <1>1, <1>3 DEF TypeOK
  <2>9. InPlace(s)'
    BY <1>1, <1>3, <2>1, <2>2, <2>7 DEF InPlace, Screens
  <2> QED
    BY <1>1, <1>3, <2>1, <2>7, <2>8, <2>9 DEF Located
<1> QED
  BY <1>2, <1>3

\* The logon is refused.
LEMMA PlaceRefused ==
  ASSUME ServerInv, ClientTypes, PlaceInv, NEW t \in Session, LogonRefused(t), NEW s \in Session
  PROVE  Located(s)'
<1>0. TypeOK
  BY DEF ServerInv
<1>1. /\ modes[t] = <<"connect">> /\ session[t] = "off" /\ Push(t, "failure")
      /\ UNCHANGED <<session, events, awaiting, clients, inbox>>
  BY DEF LogonRefused, vars, matchVars
<1>2. /\ modes'[t] = Append(modes[t], "failure")
      /\ startMatch'[t] = IF Shows(t, "connect") THEN "none" ELSE startMatch[t]
      /\ \A u \in Session \ {t} : modes'[u] = modes[u] /\ startMatch'[u] = startMatch[u]
  BY <1>1, PushTypes DEF Mode
<1>3. CASE s # t
  <2>1. ClientDestroyed(s) \in Event /\ ClientDestroyed(s) \notin Search(s)
    BY EventTypes, SearchFacts DEF ClientDestroyed
  <2> QED
    BY <1>0, <1>1, <1>2, <1>3, <2>1, LocatedPosted
<1>4. CASE s = t
  <2>1. InPlace(s) /\ ~Sought(s) /\ ~Wanted(s) /\ inbox[s] = <<>> /\ startMatch[s] = "none"
    BY <1>1, <1>4 DEF PlaceInv, Located
  <2>2. ~Waits(s)' /\ Solo(s)' /\ ~Sought(s)' /\ ~Wanted(s)'
    BY <1>1, <2>1 DEF InPlace, Waits, Players, Solo, Sought, Wanted, Search, Asked
  <2>3. modes'[s] = <<"connect", "failure">> /\ startMatch'[s] = "none"
    BY <1>1, <1>2, <1>4, <2>1
  <2>4. InPlace(s)'
    BY <2>2, <2>3 DEF InPlace, Screens
  <2> QED
    BY <1>1, <1>4, <2>1, <2>2, <2>3, <2>4 DEF Located
<1> QED
  BY <1>3, <1>4

\* The connection is lost.
LEMMA PlaceLost ==
  ASSUME ServerInv, ClientTypes, PlaceInv, NEW t \in Session, ConnectionLost(t), NEW s \in Session
  PROVE  Located(s)'
<1>0. TypeOK
  BY DEF ServerInv
<1>1. /\ session' = [session EXCEPT ![t] = "ended"] /\ inbox' = [inbox EXCEPT ![t] = <<>>]
      /\ events' = Append(events, ClientDestroyed(t)) /\ ClientDestroyed(t) \in Event
      /\ awaiting' = awaiting /\ clients' = clients
      /\ Push(t, "failure") \/ UNCHANGED <<modes, startMatch>>
  BY EventTypes DEF ConnectionLost, ConnectionClosed, ClientDestroyed, matchVars
<1>2. CASE s # t
  <2>1. modes'[s] = modes[s] /\ startMatch'[s] = startMatch[s]
    BY <1>1, <1>2, PushTypes DEF Mode
  <2>2. session'[s] = session[s] /\ inbox'[s] = inbox[s] /\ ClientDestroyed(t) \notin Search(s)
    BY <1>0, <1>1, <1>2, SearchFacts DEF TypeOK, ClientTypes
  <2> QED
    BY <1>0, <1>1, <2>1, <2>2, LocatedPosted
<1>3. CASE s = t
  BY <1>0, <1>1, <1>3, LocatedOver DEF TypeOK
<1> QED
  BY <1>2, <1>3

\* A client that changes only its own screen leaves the others alone.
LEMMA PlaceOthers ==
  ASSUME TypeOK, PlaceInv, UNCHANGED vars, NEW t \in Session,
         \A u \in Session \ {t} : /\ inbox'[u] = inbox[u] /\ modes'[u] = modes[u]
                                  /\ startMatch'[u] = startMatch[u],
         NEW s \in Session, s # t
  PROVE  Located(s)'
<1>1. UNCHANGED <<events, session, awaiting, clients>>
  BY DEF vars, matchVars
<1>2. ClientDestroyed(s) \in Event /\ ClientDestroyed(s) \notin Search(s)
  BY EventTypes, SearchFacts DEF ClientDestroyed
<1> QED
  BY <1>1, <1>2, LocatedPosted

\* What ends a search, or the logon, arrives.
LEMMA AnswerTaken ==
  ASSUME ServerInv, ClientTypes, PlaceInv, NEW s \in Session, NEW type, Take(s, type),
         Head(inbox[s]) \in Search(s), UNCHANGED vars
  PROVE  /\ session[s] = "on" /\ session'[s] = "on" /\ InPlace(s) /\ Sought(s)
         /\ modes[s] = <<"connect">>
         /\ Solo(s)' /\ ~Sought(s)' /\ ~Wanted(s)' /\ ~Waits(s)'
<1>1. session[s] = "on" /\ inbox[s] # <<>> /\ inbox'[s] = Tail(inbox[s]) /\ inbox[s] \in Seq(Mail)
  BY Taken DEF ClientTypes
<1>2. UNCHANGED <<events, session, awaiting, clients>>
  BY DEF vars, matchVars
<1>3. InPlace(s) /\ Single(inbox[s], events, Search(s))
  BY <1>1 DEF PlaceInv, Located, InPlace, Solo
<1>4. Sought(s)
  BY <1>1, OccursTail DEF Sought, Listed
<1>5. Single(inbox'[s], events', Search(s)) /\ ~Listed(inbox'[s], events', Search(s))
  BY <1>1, <1>2, <1>3, LoseOther
<1>6. ~Listed(inbox'[s], events', Asked(s))
  BY <1>5, ListedLess DEF Asked
<1>7. Solo(s)' /\ ~Sought(s)' /\ ~Wanted(s)'
  BY <1>5, <1>6 DEF Solo, Sought, Wanted, Search, Asked
<1>8. ~Waits(s)'
  BY <1>2, <1>3, <1>4 DEF InPlace, Waits, Players
<1> QED
  BY <1>1, <1>2, <1>3, <1>4, <1>7, <1>8, Zenon DEF InPlace

\* Messages that are no part of a search change nothing of it.
LEMMA PlaceTaken ==
  ASSUME ServerInv, ClientTypes, PlaceInv, NEW t \in Session, NEW type, Take(t, type),
         Head(inbox[t]) \notin Search(t), UNCHANGED <<vars, modes, startMatch>>, NEW s \in Session
  PROVE  Located(s)'
<1>0. TypeOK
  BY DEF ServerInv
<1>1. /\ session[t] = "on" /\ inbox[t] # <<>> /\ inbox'[t] = Tail(inbox[t]) /\ inbox[t] \in Seq(Mail)
      /\ \A u \in Session \ {t} : inbox'[u] = inbox[u]
  BY Taken DEF ClientTypes
<1>2. UNCHANGED <<events, session, awaiting, clients>>
  BY DEF vars, matchVars
<1>3. CASE s # t
  BY <1>0, <1>1, <1>3, PlaceOthers
<1>4. CASE s = t
  <2>1. Keeps(inbox[s], events, inbox'[s], events', s)
    BY <1>1, <1>2, <1>4, KeepsTaken, KeepsSwapped
  <2>2. Waits(s)' <=> Waits(s)
    BY <1>2, Zenon DEF Waits, Players
  <2> QED
    BY <1>1, <1>2, <1>4, <2>1, <2>2, LocatedKept DEF PlaceInv
<1> QED
  BY <1>3, <1>4

\* The news of a match are answered with a subscription.
LEMMA PlaceMatchOid ==
  ASSUME ServerInv, ClientTypes, PlaceInv, NEW t \in Session, OnMatchOid(t), NEW s \in Session
  PROVE  Located(s)'
<1>0. TypeOK
  BY DEF ServerInv
<1> DEFINE e == Head(inbox[t])
           x == Subscribe(t, e.m)
<1>1. /\ Take(t, "matchOid") /\ e.m # NoMatch
      /\ events' = Append(events, x)
      /\ UNCHANGED <<session, awaiting, clients, modes, startMatch>>
  BY DEF OnMatchOid, Post, Subscribe, matchVars, clientVars
<1>2. /\ session[t] = "on" /\ inbox[t] # <<>> /\ inbox'[t] = Tail(inbox[t]) /\ inbox[t] \in Seq(Mail)
      /\ \A u \in Session \ {t} : inbox'[u] = inbox[u]
      /\ e.type = "matchOid" /\ e \in MailTo(t) /\ e \in Mail
  BY <1>1, Taken, Inbox DEF ClientTypes
<1>3. /\ e.m \in Match /\ t \in e.to /\ e.to \in SUBSET Session
      /\ e = OidEvent(e.to, e.m)
  BY <1>1, <1>2, MailFields DEF MailTo
<1>4. e \in Search(t) /\ e \in Asked(t)
  BY <1>3, NewsOfMatch
<1>5. x \in Event /\ x \in Search(t) /\ x \in Asked(t) /\ (s # t => x \notin Search(s))
  BY <1>3, EventTypes, SearchFacts DEF Subscribe, Asked
<1> HIDE DEF e, x
<1>6. CASE s # t
  BY <1>0, <1>1, <1>2, <1>5, <1>6, LocatedPosted
<1>7. CASE s = t
  <2>1. Keeps(events, inbox[s], events', inbox'[s], s)
    BY <1>0, <1>1, <1>2, <1>4, <1>5, <1>7, KeepsMoved DEF e, TypeOK
  <2>2. Keeps(inbox[s], events, inbox'[s], events', s)
    BY <2>1, KeepsSwapped
  <2>3. Waits(s)' <=> Waits(s)
    BY <1>1, Zenon DEF Waits, Players
  <2> QED
    BY <1>1, <1>2, <1>7, <2>2, <2>3, LocatedKept DEF PlaceInv
<1> QED
  BY <1>6, <1>7

\* A client begins and ends its search as it is told.
LEMMA PlaceAnswered ==
  ASSUME ServerInv, ClientTypes, PlaceInv, NEW t \in Session,
         OnDidLogon(t) \/ OnMatchSubscribe(t) \/ OnMatchSubscribeFail(t), NEW s \in Session
  PROVE  Located(s)'
<1>0. TypeOK
  BY DEF ServerInv
<1>1. PICK type \in {"resolve", "subscribed", "subscribeFailed"} : Take(t, type)
  BY DEF OnDidLogon, OnMatchSubscribe, OnMatchSubscribeFail
<1>2. /\ inbox[t] # <<>> /\ Head(inbox[t]).type = type
      /\ \A u \in Session \ {t} : inbox'[u] = inbox[u]
      /\ Head(inbox[t]) \in MailTo(t) /\ Head(inbox[t]) \in Mail
  BY <1>1, Taken, Inbox
<1>3. Head(inbox[t]) \in Search(t)
  BY <1>1, <1>2, MailFields DEF Search, MailTo
<1>4. UNCHANGED vars
  BY DEF OnDidLogon, OnMatchSubscribe, OnMatchSubscribeFail
<1>5. /\ session[t] = "on" /\ session'[t] = "on" /\ InPlace(t)
      /\ modes[t] = <<"connect">>
      /\ Solo(t)' /\ ~Sought(t)' /\ ~Wanted(t)' /\ ~Waits(t)'
  BY <1>1, <1>3, <1>4, AnswerTaken
<1>6. /\ \A u \in Session \ {t} : modes'[u] = modes[u] /\ startMatch'[u] = startMatch[u]
      /\ \/ modes'[t] = <<"connect">> /\ startMatch'[t] = "shown"
         \/ modes'[t] \in Screens /\ startMatch'[t] = "none"
  <2>1. CASE OnDidLogon(t)
    BY <1>5, <2>1 DEF OnDidLogon, ClientTypes
  <2>2. ASSUME NEW mode \in {"battle", "failure"}, Push(t, mode)
        PROVE  /\ \A u \in Session \ {t} : modes'[u] = modes[u] /\ startMatch'[u] = startMatch[u]
               /\ modes'[t] \in Screens /\ startMatch'[t] = "none"
    <3>1. /\ modes'[t] = Append(modes[t], mode)
          /\ startMatch'[t] = IF Shows(t, "connect") THEN "none" ELSE startMatch[t]
          /\ \A u \in Session \ {t} : modes'[u] = modes[u] /\ startMatch'[u] = startMatch[u]
      BY <2>2, PushTypes DEF Mode
    <3>2. Shows(t, "connect")
      BY <1>5 DEF Shows, Last
    <3>3. modes'[t] \in Screens
      <4>1. modes'[t] = <<"connect", mode>>
        BY <1>5, <3>1, AppendToOne
      <4>2. CASE mode = "battle"
        BY <4>1, <4>2 DEF Screens
      <4>3. CASE mode = "failure"
        BY <4>1, <4>3 DEF Screens
      <4> QED
        BY <4>2, <4>3
    <3> QED
      BY <3>1, <3>2, <3>3
  <2> QED
    BY <2>1, <2>2 DEF OnMatchSubscribe, OnMatchSubscribeFail
<1>7. CASE s # t
  BY <1>0, <1>2, <1>4, <1>6, <1>7, PlaceOthers
<1>8. CASE s = t
  <2>1. InPlace(s)'
    BY <1>5, <1>6, <1>8 DEF InPlace, Screens
  <2> QED
    BY <1>5, <1>8, <2>1 DEF Located
<1> QED
  BY <1>7, <1>8

\* A client that shows its start screen and has asked for nothing asks.
LEMMA PlaceStart ==
  ASSUME ServerInv, ClientTypes, PlaceInv, NEW t \in Session, EnterStart(t), NEW s \in Session
  PROVE  Located(s)'
<1>0. TypeOK
  BY DEF ServerInv
<1>1. /\ session[t] = "on" /\ startMatch[t] = "shown"
      /\ startMatch' = [startMatch EXCEPT ![t] = "entered"]
      /\ events' = Append(events, FindMatch(t)) /\ FindMatch(t) \in Event
      /\ UNCHANGED <<session, awaiting, clients, inbox, modes>>
  BY EventTypes DEF EnterStart, Post, FindMatch, matchVars
<1>2. CASE s # t
  <2>1. FindMatch(t) \notin Search(s) /\ startMatch'[s] = startMatch[s]
    BY <1>1, <1>2, SearchFacts DEF ClientTypes
  <2> QED
    BY <1>0, <1>1, <2>1, LocatedPosted
<1>3. CASE s = t
  <2>1. InPlace(s) /\ ~Sought(s) /\ ~Wanted(s) /\ modes[s] = <<"connect">> /\ ~Waits(s)
    BY <1>1, <1>3 DEF PlaceInv, Located, InPlace
  <2>2. Single(inbox[s], events, Search(s)) /\ events \in Seq(Event)
    BY <1>0, <2>1 DEF InPlace, Solo, TypeOK
  <2>3. Single(inbox[s], events, Asked(s))
    BY <2>2, ListedLess DEF Asked
  <2>4. FindMatch(s) \in Search(s) /\ FindMatch(s) \in Asked(s)
    BY SearchFacts DEF Asked
  <2>5. ~Listed(inbox[s], events, Search(s)) /\ ~Listed(inbox[s], events, Asked(s))
    BY <2>1 DEF Sought, Wanted
  <2>6. Single(inbox[s], events', Search(s)) /\ Listed(inbox[s], events', Search(s))
    BY <1>1, <1>3, <2>2, <2>4, <2>5, AddOther
  <2>7. Listed(inbox[s], events', Asked(s))
    BY <1>1, <1>3, <2>2, <2>3, <2>4, <2>5, AddOther
  <2>8. Solo(s)' /\ Sought(s)' /\ Wanted(s)'
    BY <1>1, <2>6, <2>7 DEF Solo, Sought, Wanted, Search, Asked
  <2>9. ~Waits(s)' /\ startMatch'[s] = "entered"
    BY <1>1, <1>3, <2>1, Zenon DEF Waits, Players, ClientTypes
  <2>10. InPlace(s)'
    BY <1>1, <1>3, <2>1, <2>8, <2>9 DEF InPlace, Screens
  <2> QED
    BY <1>1, <1>3, <2>10 DEF Located
<1> QED
  BY <1>2, <1>3

\* A client in a battle has nothing else under way.
LEMMA InBattleOnly ==
  ASSUME NEW s \in Session, InPlace(s), modes[s] # <<"connect">>
  PROVE  ~Sought(s) /\ ~Wanted(s) /\ ~Waits(s) /\ startMatch[s] = "none"
BY DEF InPlace

\* A frame of the battle, and START on the failure screen
LEMMA PlaceScreens ==
  ASSUME ServerInv, ClientTypes, PlaceInv, NEW t \in Session,
         TryAgain(t) \/ ProcessTicks(t), NEW s \in Session
  PROVE  Located(s)'
<1>0. TypeOK
  BY DEF ServerInv
<1>1. UNCHANGED <<vars, inbox>> /\ session[t] = "on"
  BY DEF TryAgain, ProcessTicks
<1>2. InPlace(t)
  BY <1>1 DEF PlaceInv, Located
<1>3. modes[t] \in Screens \ {<<"connect">>}
  BY <1>2 DEF InPlace, TryAgain, ProcessTicks, Shows, Last
<1>4. ~Sought(t) /\ ~Wanted(t) /\ ~Waits(t) /\ startMatch[t] = "none" /\ Solo(t)
  BY <1>2, <1>3, InBattleOnly DEF InPlace
<1>5. ~Sought(t)' /\ ~Wanted(t)' /\ ~Waits(t)' /\ Solo(t)'
  BY <1>1, <1>4, Zenon
  DEF Sought, Wanted, Waits, Solo, Search, Asked, Players, vars, matchVars
<1>6. /\ \A u \in Session \ {t} : modes'[u] = modes[u] /\ startMatch'[u] = startMatch[u]
      /\ \/ modes'[t] = <<"connect">> /\ startMatch'[t] = "shown"
         \/ modes'[t] \in Screens /\ startMatch'[t] = "none"
  <2>1. CASE TryAgain(t)
    <3>1. modes' = [modes EXCEPT ![t] = <<>>] /\ startMatch' = startMatch
      BY <2>1 DEF TryAgain
    <3> QED
      BY <1>4, <3>1 DEF ClientTypes, Screens
  <2>2. CASE ProcessTicks(t)
    <3>1. PICK left \in Nat :
            /\ left <= Len(modes[t])
            /\ modes' = [modes EXCEPT ![t] = SubSeq(@, 1, left)]
            /\ startMatch' = [startMatch EXCEPT ![t] =
                 IF left > 0 /\ modes[t][left] = "connect" THEN "shown" ELSE "none"]
      BY <2>2, ProcessTypes, Zenon
    <3>2. modes[t] = <<"connect", "battle">>
      BY <1>3, <2>2 DEF ProcessTicks, Shows, Last, Screens
    <3>3. /\ left \in {0, 1, 2}
          /\ modes'[t] = SubSeq(<<"connect", "battle">>, 1, left)
          /\ startMatch'[t] = IF left > 0 /\ <<"connect", "battle">>[left] = "connect"
                              THEN "shown" ELSE "none"
          /\ \A u \in Session \ {t} : modes'[u] = modes[u] /\ startMatch'[u] = startMatch[u]
      BY <3>1, <3>2 DEF ClientTypes
    <3>p. /\ SubSeq(<<"connect", "battle">>, 1, 0) = <<>>
          /\ SubSeq(<<"connect", "battle">>, 1, 1) = <<"connect">>
          /\ SubSeq(<<"connect", "battle">>, 1, 2) = <<"connect", "battle">>
      BY PartsOfTwo
    <3>4. CASE left = 0
      BY <3>3, <3>4, <3>p DEF Screens
    <3>5. CASE left = 1
      BY <3>3, <3>5, <3>p
    <3>6. CASE left = 2
      BY <3>3, <3>6, <3>p DEF Screens
    <3> QED
      BY <3>3, <3>4, <3>5, <3>6
  <2> QED
    BY <2>1, <2>2
<1>7. CASE s # t
  BY <1>0, <1>1, <1>6, <1>7, PlaceOthers
<1>8. CASE s = t
  <2>1. InPlace(s)'
    BY <1>5, <1>6, <1>8 DEF InPlace, Screens
  <2>2. session'[s] = "on"
    BY <1>1, <1>8 DEF vars
  <2> QED
    BY <2>1, <2>2 DEF Located
<1> QED
  BY <1>7, <1>8

\* Every step keeps the searches in their places.
LEMMA PlaceStep ==
  ASSUME ServerInv, ClientTypes, PlaceInv, [ClientNext]_allVars
  PROVE  PlaceInv'
<1> SUFFICES ASSUME NEW s \in Session PROVE Located(s)'
  BY DEF PlaceInv
<1>0. TypeOK
  BY DEF ServerInv
<1>n. ClientDestroyed(s) \in Event /\ ClientDestroyed(s) \notin Search(s)
  BY EventTypes, SearchFacts DEF ClientDestroyed
<1>1. ASSUME NEW m \in Match, Publish(m) PROVE Located(s)'
  <2>1. /\ UNCHANGED <<session, awaiting, clients, inbox, modes, startMatch>>
        /\ SendMessages(m)
    BY <1>1 DEF Publish, SendMessages, clientVars
  <2>2. Keeps(inbox[s], events, inbox'[s], events', s)
    BY <1>0, <2>1, SendMessagesKeeps
  <2>3. Waits(s)' <=> Waits(s)
    BY <2>1, Zenon DEF Waits, Players
  <2> QED
    BY <2>1, <2>2, <2>3, LocatedKept DEF PlaceInv
<1>2. ASSUME NEW t \in Session, OnLeftMatch(t) \/ OnMessages(t) PROVE Located(s)'
  <2>1. PICK type \in {"matchOid", "messages"} : Take(t, type)
    BY <1>2 DEF OnLeftMatch, OnMessages
  <2>2. Head(inbox[t]) \notin Search(t)
    BY <1>2, <2>1, Taken DEF OnLeftMatch, OnMessages, Take, Search
  <2> QED
    BY <1>2, <2>1, <2>2, PlaceTaken DEF OnLeftMatch, OnMessages, clientVars
<1>3. ASSUME NEW t \in Session, SendWin(t) PROVE Located(s)'
  <2> DEFINE x == [type |-> "sendMessage", s |-> t, m |-> match[t],
                   msg |-> [kind |-> "iWon", sender |-> LocalPlayer(t)]]
  <2>1. /\ UNCHANGED <<session, awaiting, clients, inbox, modes, startMatch>>
        /\ events' = Append(events, x)
    BY <1>3 DEF SendWin, Post, matchVars, clientVars
  <2>2. x \notin Search(s)
    BY DEF Search
  <2> HIDE DEF x
  <2>3. Keeps(inbox[s], events, inbox'[s], events', s)
    <3>1. events \in Seq(Event \cup {x}) /\ x \in Event \cup {x}
      BY <1>0 DEF TypeOK
    <3> QED
      BY <2>1, <2>2, <3>1, KeepsAdded, KeepsSwapped
  <2>4. Waits(s)' <=> Waits(s)
    BY <2>1, Zenon DEF Waits, Players
  <2> QED
    BY <2>1, <2>3, <2>4, LocatedKept DEF PlaceInv
<1>4. CASE UNCHANGED allVars
  BY <1>0, <1>4, <1>n, LocatedPosted DEF allVars, vars, matchVars, clientVars
<1> QED
  BY <1>1, <1>2, <1>3, <1>4, PlaceServer, PlaceLogon, PlaceRefused, PlaceLost, PlaceScreens,
     PlaceMatchOid, PlaceAnswered, PlaceStart
  DEF ClientNext, Receive

-----------------------------------------------------------------------------
(* What a step adds to the queue, to an inbox and to the ticks               *)

\* What a shutdown posts
LEMMA ShutdownPosts ==
  ASSUME TypeOK, NEW m \in Match, NEW active, NEW posted \in Seq(Event),
         Shutdown(m, active, posted), NEW e \in ToSet(events')
  PROVE  \/ e \in ToSet(posted)
         \/ e = Destroyed(m)
         \/ e.type = "matchOid" /\ e.m = NoMatch
<1> DEFINE told == OidEvent(Players(m) \cap active, NoMatch)
           more == Append(posted, told)
<1>1. told \in Event
  BY PlayersType, EventTypes
<1>2. told.type = "matchOid" /\ told.m = NoMatch
  BY DEF OidEvent
<1>3. events' = IF mobj[m] = "live" THEN Append(more, Destroyed(m)) ELSE more
  BY DEF Shutdown
<1> HIDE DEF told
<1>4. more \in Seq(Event) /\ ToSet(more) = ToSet(posted) \cup {told}
  BY <1>1, ToSetAppend, AppendProperties
<1> HIDE DEF more
<1>5. Destroyed(m) \in Event /\ ToSet(Append(more, Destroyed(m))) = ToSet(more) \cup {Destroyed(m)}
  BY <1>4, EventTypes, ToSetAppend
<1> QED
  BY <1>2, <1>3, <1>4, <1>5

\* What the handlers post
LEMMA HandlersPost ==
  ASSUME TypeOK, Handle, NEW e \in ToSet(events')
  PROVE  \/ e \in ToSet(Tail(events))
         \/ e.type = "matchDestroyed"
         \/ e.type = "matchOid" /\ e.m = NoMatch
         \/ \E t \in Session : FindSecond(t) /\ e = OidEvent(Players(awaiting) \cup {t}, awaiting)
<1>1. Tail(events) \in Seq(Event)
  BY HandleExtends
<1>2. \/ events' = Tail(events)
      \/ \E m \in Match : \E active : Shutdown(m, active, Tail(events))
      \/ \E t \in Session : FindSecond(t)
  BY DEF Handle, HandleResolve, FindFirst, AddFirst, HandleClientDestroyed, HandleSubscribe,
     HandleSend, HandleMatchDestroyed, HandleNotice
<1>3. ASSUME NEW m \in Match, NEW active, Shutdown(m, active, Tail(events))
      PROVE  \/ e \in ToSet(Tail(events))
             \/ e.type = "matchDestroyed"
             \/ e.type = "matchOid" /\ e.m = NoMatch
  <2>1. \/ e \in ToSet(Tail(events))
        \/ e = Destroyed(m)
        \/ e.type = "matchOid" /\ e.m = NoMatch
    BY <1>1, <1>3, ShutdownPosts
  <2>2. Destroyed(m).type = "matchDestroyed"
    BY DEF Destroyed
  <2> QED
    BY <2>1, <2>2
<1>4. ASSUME NEW t \in Session, FindSecond(t)
      PROVE  \/ e \in ToSet(Tail(events))
             \/ e = OidEvent(Players(awaiting) \cup {t}, awaiting)
  <2> DEFINE x == OidEvent(Players(awaiting) \cup {t}, awaiting)
  <2>1. awaiting \in Match
    BY <1>4 DEF FindSecond, TypeOK
  <2>2. x \in Event
    BY <2>1, PlayersType, EventTypes
  <2>3. events' = Append(Tail(events), x)
    BY <1>4 DEF FindSecond, AddSecond
  <2> DEFINE q == Tail(events)
  <2>4. q \in Seq(Event) /\ events' = Append(q, x)
    BY <1>1, <2>3
  <2> HIDE DEF x, q
  <2>5. ToSet(Append(q, x)) = ToSet(q) \cup {x}
    BY <2>2, <2>4, ToSetAppend
  <2>6. e \in ToSet(Append(q, x))
    BY <2>4
  <2> QED
    BY <2>5, <2>6 DEF x, q
<1> QED
  BY <1>2, <1>3, <1>4

\* What a run of the interval posts
LEMMA SendMessagesPost ==
  ASSUME TypeOK, NEW m \in Match, SendMessages(m), NEW e \in ToSet(events')
  PROVE  \/ e \in ToSet(events)
         \/ e = Destroyed(m)
         \/ e.type = "matchOid" /\ e.m = NoMatch
         \/ e = Batch(m, queued[m]) /\ mobj[m] = "live"
<1> DEFINE b == Batch(m, queued[m])
           posted == IF mobj[m] = "live" THEN Append(events, b) ELSE events
<1>1. b \in Event /\ events \in Seq(Event)
  BY EventTypes DEF TypeOK, Batch
<1>2. \/ Shutdown(m, {t \in Session : Active(t)}, posted)
      \/ events' = posted
  BY DEF SendMessages, Batch
<1> HIDE DEF b
<1>3. /\ posted \in Seq(Event)
      /\ \A f \in ToSet(posted) : f \in ToSet(events) \/ (f = b /\ mobj[m] = "live")
  BY <1>1, ToSetAppend, AppendProperties
<1> HIDE DEF posted
<1> QED
  BY <1>2, <1>3, ShutdownPosts DEF b

\* One event more in the queue
LEMMA PostedOne ==
  ASSUME TypeOK, NEW x \in Event, events' = Append(events, x)
  PROVE  \A e \in ToSet(events') : e \in ToSet(events) \/ e = x
BY ToSetAppend DEF TypeOK

NewEvent(e) ==
  \/ e.type \in {"resolve", "findMatch", "clientDestroyed", "matchDestroyed"}
  \/ e.type = "matchOid" /\ e.m = NoMatch
  \/ /\ ServerHandle
     /\ \E t \in Session : FindSecond(t) /\ e = OidEvent(Players(awaiting) \cup {t}, awaiting)
  \/ \E m \in Match : Publish(m) /\ mobj[m] = "live" /\ e = Batch(m, queued[m])
  \/ \E s \in Session : OnMatchOid(s) /\ e = Subscribe(s, Head(inbox[s]).m)
  \/ \E s \in Session : SendWin(s) /\ e.type = "sendMessage" /\ e.msg.kind = "iWon"

\* Every event comes from the step that posts it.
LEMMA QueueStep ==
  ASSUME TypeOK, ClientTypes, [ClientNext]_allVars, NEW e \in ToSet(events')
  PROVE  \/ e \in ToSet(events) /\ (ServerHandle => e \in ToSet(Tail(events)))
         \/ NewEvent(e)
<1>1. CASE ServerHandle
  <2>1. Handle
    BY <1>1 DEF ServerHandle
  <2>2. \/ e \in ToSet(Tail(events))
        \/ e.type = "matchDestroyed"
        \/ e.type = "matchOid" /\ e.m = NoMatch
        \/ \E t \in Session : FindSecond(t) /\ e = OidEvent(Players(awaiting) \cup {t}, awaiting)
    BY <2>1, HandlersPost
  <2>3. ToSet(Tail(events)) \subseteq ToSet(events)
    BY <1>1, Delivery
  <2> QED
    BY <1>1, <2>2, <2>3 DEF NewEvent
<1>2. ASSUME NEW m \in Match, Publish(m) PROVE e \in ToSet(events) \/ NewEvent(e)
  BY <1>2, SendMessagesPost DEF Publish, NewEvent, Destroyed
<1>3. ASSUME NEW s \in Session,
             Logon(s) \/ ConnectionLost(s) \/ EnterStart(s)
      PROVE  e \in ToSet(events) \/ NewEvent(e)
  <2>1. PICK x \in {Resolve(s), ClientDestroyed(s), FindMatch(s)} : events' = Append(events, x)
    BY <1>3 DEF Logon, Authenticate, ConnectionLost, ConnectionClosed, EnterStart, Post,
       Resolve, ClientDestroyed, FindMatch
  <2>2. /\ Resolve(s) \in Event /\ Resolve(s).type = "resolve"
        /\ ClientDestroyed(s) \in Event /\ ClientDestroyed(s).type = "clientDestroyed"
        /\ FindMatch(s) \in Event /\ FindMatch(s).type = "findMatch"
    BY EventTypes DEF Resolve, ClientDestroyed, FindMatch
  <2> QED
    BY <2>1, <2>2, PostedOne DEF NewEvent
<1>4. ASSUME NEW s \in Session, OnMatchOid(s) PROVE e \in ToSet(events) \/ NewEvent(e)
  <2>1. /\ events' = Append(events, Subscribe(s, Head(inbox[s]).m))
        /\ Take(s, "matchOid") /\ Head(inbox[s]).m # NoMatch
    BY <1>4 DEF OnMatchOid, Post, Subscribe
  <2>2. Head(inbox[s]).m \in Match
    BY <2>1, Taken, Inbox, MailFields
  <2>3. Subscribe(s, Head(inbox[s]).m) \in Event
    BY <2>2, EventTypes DEF Subscribe
  <2> QED
    BY <1>4, <2>1, <2>3, PostedOne DEF NewEvent
<1>5. ASSUME NEW s \in Session, SendWin(s) PROVE e \in ToSet(events) \/ NewEvent(e)
  <2> DEFINE x == [type |-> "sendMessage", s |-> s, m |-> match[s],
                   msg |-> [kind |-> "iWon", sender |-> LocalPlayer(s)]]
  <2>1. events' = Append(events, x)
    BY <1>5 DEF SendWin, Post
  <2>2. x.type = "sendMessage" /\ x.msg.kind = "iWon"
    OBVIOUS
  <2> HIDE DEF x
  <2>3. events \in Seq(Event \cup {x}) /\ x \in Event \cup {x}
    BY DEF TypeOK
  <2>4. e \in ToSet(events) \/ e = x
    BY <2>1, <2>3, ToSetAppend
  <2> QED
    BY <1>5, <2>2, <2>4 DEF NewEvent
<1>6. CASE events' = events
  BY <1>1, <1>6
<1> QED
  BY <1>1, <1>2, <1>3, <1>4, <1>5, <1>6, Zenon
  DEF ClientNext, Receive, LogonRefused, TryAgain, OnDidLogon, OnLeftMatch, OnMatchSubscribe,
      OnMatchSubscribeFail, OnMessages, ProcessTicks, allVars, vars

\* What is new in an inbox is what the server has handled.
LEMMA InboxStep ==
  ASSUME TypeOK, ClientTypes, [ClientNext]_allVars, NEW s \in Session, NEW e \in ToSet(inbox'[s])
  PROVE  \/ e \in ToSet(inbox[s])
         \/ ServerHandle /\ Reaches(Head(events), s) /\ e = Sent(Head(events))
<1>0. inbox[s] \in Seq(Mail)
  BY DEF ClientTypes
<1>1. CASE ServerHandle
  <2>1. CASE Reaches(Head(events), s)
    <3> DEFINE x == Sent(Head(events))
    <3>1. x \in Mail /\ inbox'[s] = Append(inbox[s], x)
      BY <1>1, <2>1, Delivery, SentIsMail DEF MailTo
    <3> HIDE DEF x
    <3>2. e \in ToSet(inbox[s]) \/ e = x
      BY <1>0, <3>1, ToSetAppend
    <3> QED
      BY <1>1, <2>1, <3>2 DEF x
  <2>2. CASE ~Reaches(Head(events), s)
    BY <1>1, <2>2, Delivery
  <2> QED
    BY <2>1, <2>2
<1>2. ASSUME NEW t \in Session, NEW type, Take(t, type) PROVE e \in ToSet(inbox[s])
  BY <1>2, Taken, Inbox
<1>3. ASSUME NEW t \in Session, ConnectionLost(t) PROVE e \in ToSet(inbox[s])
  <2>1. inbox' = [inbox EXCEPT ![t] = <<>>]
    BY <1>3 DEF ConnectionLost
  <2>2. inbox'[s] = inbox[s] \/ inbox'[s] = <<>>
    BY <2>1 DEF ClientTypes
  <2> QED
    BY <2>2 DEF ToSet
<1>4. CASE inbox' = inbox
  BY <1>4
<1> QED
  BY <1>1, <1>2, <1>3, <1>4, Zenon
  DEF ClientNext, Receive, Publish, Logon, LogonRefused, TryAgain, OnDidLogon, OnLeftMatch,
      OnMatchOid, OnMatchSubscribe, OnMatchSubscribeFail, OnMessages, EnterStart, SendWin,
      ProcessTicks, allVars

\* What is new in the ticks has come from the inbox, and is of the match they are of.
LEMMA TicksStep ==
  ASSUME TypeOK, ClientTypes, [ClientNext]_allVars, NEW s \in Session, NEW b \in ToSet(ticks'[s])
  PROVE  /\ match'[s] = match[s]
         /\ \/ b \in ToSet(ticks[s])
            \/ OnMessages(s) /\ Batch(match[s], b) \in ToSet(inbox[s])
<1>e. b \notin ToSet(<<>>)
  BY DEF ToSet
<1>1. ASSUME NEW t \in Session, OnMessages(t)
      PROVE  /\ match'[s] = match[s]
             /\ \/ b \in ToSet(ticks[s])
                \/ OnMessages(s) /\ Batch(match[s], b) \in ToSet(inbox[s])
  <2> DEFINE e == Head(inbox[t])
  <2>1. /\ Take(t, "messages") /\ match' = match
        /\ ticks' = [ticks EXCEPT ![t] = IF match[t] = e.m THEN Append(@, e.batch) ELSE @]
    BY <1>1 DEF OnMessages
  <2>2. /\ e \in Mail /\ e \in ToSet(inbox[t]) /\ e.type = "messages"
        /\ e.batch \in Seq(Message) /\ e = Batch(e.m, e.batch)
    BY <2>1, Taken, Inbox, MailFields
  <2>3. ticks[s] \in Seq(Seq(Message))
    BY DEF ClientTypes
  <2> HIDE DEF e
  <2>4. CASE ticks'[s] = ticks[s]
    BY <2>1, <2>4
  <2>5. CASE ticks'[s] # ticks[s]
    <3>1. s = t /\ match[s] = e.m /\ ticks'[s] = Append(ticks[s], e.batch)
      BY <2>1, <2>5 DEF ClientTypes
    <3>2. ToSet(Append(ticks[s], e.batch)) = ToSet(ticks[s]) \cup {e.batch}
      BY <2>2, <2>3, ToSetAppend
    <3>3. b \in ToSet(ticks[s]) \/ b = e.batch
      BY <3>1, <3>2
    <3> QED
      BY <1>1, <2>1, <2>2, <3>1, <3>3
  <2> QED
    BY <2>4, <2>5
<1>2. ASSUME NEW t \in Session, OnMatchSubscribe(t)
      PROVE  match'[s] = match[s] /\ b \in ToSet(ticks[s])
  <2>1. /\ ticks' = [ticks EXCEPT ![t] = <<>>]
        /\ match' = [match EXCEPT ![t] = Head(inbox[t]).m]
    BY <1>2 DEF OnMatchSubscribe
  <2> QED
    BY <1>e, <2>1 DEF ClientTypes
<1>3. ASSUME NEW t \in Session, ProcessTicks(t)
      PROVE  match'[s] = match[s] /\ b \in ToSet(ticks[s])
  <2>1. ticks' = [ticks EXCEPT ![t] = <<>>] /\ match' = match
    BY <1>3 DEF ProcessTicks
  <2> QED
    BY <1>e, <2>1 DEF ClientTypes
<1>4. CASE UNCHANGED <<match, ticks>>
  BY <1>4
<1> QED
  BY <1>1, <1>2, <1>3, <1>4, Zenon
  DEF ClientNext, Receive, ServerHandle, Publish, Logon, LogonRefused, ConnectionLost, TryAgain,
      OnDidLogon, OnLeftMatch, OnMatchOid, OnMatchSubscribeFail, EnterStart, SendWin,
      allVars, clientVars

-----------------------------------------------------------------------------
(* Batches.  One that ends a battle has been published by a match that does  *)
(* not send any more.                                                        *)

\* A batch of m has been published and not been handled by everybody.
Around(m, b) ==
  \/ Batch(m, b) \in ToSet(events)
  \/ \E s \in Session : Batch(m, b) \in ToSet(inbox[s])
  \/ \E s \in Session : match[s] = m /\ b \in ToSet(ticks[s])

\* A batch that is around is one.
LEMMA AroundType ==
  ASSUME TypeOK, ClientTypes, NEW m, NEW b, Around(m, b)
  PROVE  b \in Seq(Message)
<1>1. CASE Batch(m, b) \in ToSet(events)
  <2>1. Batch(m, b) \in Event
    BY <1>1, QueuedType
  <2> QED
    BY <2>1, EventFields DEF Batch
<1>2. ASSUME NEW s \in Session, Batch(m, b) \in ToSet(inbox[s]) PROVE b \in Seq(Message)
  <2>1. Batch(m, b) \in Mail
    BY <1>2, LenProperties, ElementOfSeq DEF ClientTypes, ToSet
  <2> QED
    BY <2>1, MailFields DEF Batch
<1>3. ASSUME NEW s \in Session, b \in ToSet(ticks[s]) PROVE b \in Seq(Message)
  BY <1>3, LenProperties, ElementOfSeq DEF ClientTypes, ToSet
<1> QED
  BY <1>1, <1>2, <1>3 DEF Around

\* Only the interval publishes.
LEMMA AroundStep ==
  ASSUME TypeOK, ClientTypes, [ClientNext]_allVars, NEW m \in Match, NEW b, Around(m, b)'
  PROVE  \/ Around(m, b)
         \/ Publish(m) /\ mobj[m] = "live" /\ b = queued[m]
<1>t. Batch(m, b).type = "messages" /\ Batch(m, b).m = m /\ Batch(m, b).batch = b
  BY DEF Batch
<1>1. CASE Batch(m, b) \in ToSet(events')
  <2>1. Batch(m, b) \in ToSet(events) \/ NewEvent(Batch(m, b))
    BY <1>1, QueueStep
  <2>2. ASSUME NewEvent(Batch(m, b)) PROVE Publish(m) /\ mobj[m] = "live" /\ b = queued[m]
    <3> DEFINE e == Batch(m, b)
    <3>1. e.type = "messages" /\ e.m = m /\ e.batch = b /\ NewEvent(e)
      BY <1>t, <2>2
    <3> HIDE DEF e
    <3>2. PICK n \in Match : Publish(n) /\ mobj[n] = "live" /\ e = Batch(n, queued[n])
      BY <3>1 DEF NewEvent, OidEvent, Subscribe
    <3>3. e.m = n /\ e.batch = queued[n]
      BY <3>2 DEF Batch
    <3> QED
      BY <3>1, <3>2, <3>3
  <2> QED
    BY <2>1, <2>2 DEF Around
<1>2. ASSUME NEW s \in Session, Batch(m, b) \in ToSet(inbox'[s]) PROVE Around(m, b)
  <2>1. CASE ServerHandle /\ Batch(m, b) = Sent(Head(events))
    <3>1. Head(events) = Batch(m, b)
      BY <1>t, <2>1 DEF Sent
    <3>2. Head(events) \in ToSet(events)
      BY <2>1, Delivery
    <3> QED
      BY <3>1, <3>2 DEF Around
  <2> QED
    BY <1>2, <2>1, InboxStep DEF Around
<1>3. ASSUME NEW s \in Session, match'[s] = m, b \in ToSet(ticks'[s]) PROVE Around(m, b)
  BY <1>3, TicksStep DEF Around
<1> QED
  BY <1>1, <1>2, <1>3 DEF Around

\* A match that has published its last batch is silent: it publishes no more.
\* Only a match whose flags are up has such a message, and no client sends the
\* notice of a loss.
QuietInv ==
  /\ \A m \in Match : \A b : Around(m, b) /\ Ends(b) => ~sending[m] /\ matchStarted[m]
  /\ \A m \in Match : \A msg \in ToSet(queued[m]) : Final(msg) => Ending(m)
  /\ \A e \in ToSet(events) : e.type = "sendMessage" => e.msg.kind # "playerDisconnected"

\* Only the server's thread and the timers touch the matches.
LEMMA ServerMoves ==
  ASSUME [ClientNext]_allVars
  PROVE  \/ ServerHandle
         \/ \E m \in Match : Publish(m)
         \/ UNCHANGED <<matchOid, awaiting, listening, mobj, matchVars, subscribers>>
<1>1. CASE UNCHANGED allVars
  BY <1>1 DEF allVars, vars, matchVars
<1>2. ASSUME NEW s \in Session, NEW e, Post(s, e) PROVE
        UNCHANGED <<matchOid, awaiting, listening, mobj, matchVars, subscribers>>
  BY <1>2 DEF Post
<1>3. ASSUME NEW s \in Session,
             \/ Logon(s) \/ LogonRefused(s) \/ ConnectionLost(s) \/ TryAgain(s)
             \/ Receive(s) \/ EnterStart(s) \/ SendWin(s) \/ ProcessTicks(s)
      PROVE  UNCHANGED <<matchOid, awaiting, listening, mobj, matchVars, subscribers>>
  <2>1. CASE \/ Logon(s) \/ LogonRefused(s) \/ ConnectionLost(s) \/ TryAgain(s)
    BY <2>1 DEF Logon, LogonRefused, ConnectionLost, TryAgain, Authenticate, ConnectionClosed,
                vars, matchVars
  <2>2. CASE Receive(s)
    BY <1>2, <2>2 DEF Receive, OnDidLogon, OnLeftMatch, OnMatchOid, OnMatchSubscribe,
                      OnMatchSubscribeFail, OnMessages, vars, matchVars
  <2>3. CASE EnterStart(s) \/ SendWin(s)
    BY <1>2, <2>3 DEF EnterStart, SendWin
  <2>4. CASE ProcessTicks(s)
    BY <2>4 DEF ProcessTicks, vars, matchVars
  <2> QED
    BY <1>3, <2>1, <2>2, <2>3, <2>4
<1> QED
  BY <1>1, <1>3 DEF ClientNext

\* A timer is started only with the match, and a match starts once.
LEMMA TimerStep ==
  ASSUME ServerInv, [ClientNext]_allVars, NEW m \in Match
  PROVE  /\ sending'[m] => sending[m] \/ ~matchStarted[m]
         /\ matchStarted[m] => matchStarted'[m]
         /\ Ending(m) => Ending(m)'
<1>0. TypeOK /\ OfferedInv
  BY DEF ServerInv
<1>1. CASE UNCHANGED <<sending, matchStarted, gotWinMessage, playerDisconnected>>
  BY <1>1 DEF Ending
<1>2. ASSUME NEW n \in Match, NEW active, NEW posted, Shutdown(n, active, posted)
      PROVE  sending'[m] => sending[m]
  BY <1>0, <1>2 DEF Shutdown, TypeOK
<1>3. ASSUME NEW n \in Match, SendMessages(n)
      PROVE  /\ sending'[m] => sending[m]
             /\ UNCHANGED <<matchStarted, gotWinMessage, playerDisconnected>>
  BY <1>2, <1>3 DEF SendMessages
<1>4. ASSUME NEW s \in Session, FindSecond(s)
      PROVE  /\ sending'[m] => sending[m] \/ ~matchStarted[m]
             /\ matchStarted[m] => matchStarted'[m]
             /\ UNCHANGED <<gotWinMessage, playerDisconnected>>
  BY <1>0, <1>4 DEF FindSecond, AddSecond, OfferedInv, WaitingMatchOffered, TypeOK
<1>5. ASSUME NEW s \in Session, HandleClientDestroyed(s)
      PROVE  /\ sending'[m] => sending[m]
             /\ UNCHANGED <<matchStarted, gotWinMessage>>
             /\ playerDisconnected[m] => playerDisconnected'[m]
  BY <1>0, <1>2, <1>5, Zenon DEF HandleClientDestroyed, TypeOK
<1>6. ASSUME NEW s \in Session, NEW n \in Match, NEW msg \in Message, HandleSend(s, n, msg)
      PROVE  /\ UNCHANGED <<sending, matchStarted, playerDisconnected>>
             /\ gotWinMessage[m] => gotWinMessage'[m]
  <2>1. /\ UNCHANGED <<sending, matchStarted, playerDisconnected>>
        /\ gotWinMessage' = [gotWinMessage EXCEPT ![n] = @ \/ msg.kind = "iWon"]
    BY <1>6 DEF HandleSend
  <2> QED
    BY <1>0, <2>1, Zenon DEF TypeOK
<1>7. CASE Handle
  <2>1. \/ \E s \in Session : FindSecond(s) \/ HandleClientDestroyed(s)
        \/ \E s \in Session, n \in Match, msg \in Message : HandleSend(s, n, msg)
        \/ UNCHANGED <<sending, matchStarted, gotWinMessage, playerDisconnected>>
    BY <1>7 DEF Handle, HandleResolve, FindFirst, AddFirst, HandleSubscribe,
                HandleMatchDestroyed, HandleNotice, matchVars
  <2> QED
    BY <1>1, <1>4, <1>5, <1>6, <2>1 DEF Ending
<1> QED
  BY <1>1, <1>3, <1>7, ServerMoves DEF ServerHandle, Publish, Ending, matchVars

\* What is waiting to be published was sent by a client or is the notice of a
\* loss, and each raises its flag.
LEMMA QueuedStep ==
  ASSUME TypeOK, ClientTypes, [ClientNext]_allVars, NEW m \in Match, NEW msg \in ToSet(queued'[m])
  PROVE  \/ msg \in ToSet(queued[m])
         \/ /\ events # <<>> /\ Head(events).type = "sendMessage" /\ msg = Head(events).msg
            /\ msg.kind = "iWon" => gotWinMessage'[m]
         \/ /\ msg = PlayerDisconnected /\ playerDisconnected'[m]
            /\ \E s \in Players(m) : session'[s] = "gone"
<1>q. /\ queued[m] \in Seq(Message) /\ PlayerDisconnected \in Message
      /\ \A n \in Match : queued[n] \in Seq(Message)
  BY DEF TypeOK, PlayerDisconnected, Message
<1>1. CASE queued'[m] = queued[m]
  BY <1>1
<1>2. ASSUME NEW n \in Match, SendMessages(n) PROVE msg \in ToSet(queued[m])
  <2>1. queued' = [queued EXCEPT ![n] = <<>>]
    BY <1>2 DEF SendMessages
  <2>2. queued'[m] = queued[m] \/ queued'[m] = <<>>
    BY <2>1 DEF TypeOK
  <2>3. msg \notin ToSet(<<>>)
    BY DEF ToSet
  <2> QED
    BY <2>2, <2>3
<1>3. ASSUME NEW s \in Session, NEW n \in Match, NEW new \in Message, HandleSend(s, n, new)
      PROVE  \/ msg \in ToSet(queued[m])
             \/ /\ events # <<>> /\ Head(events).type = "sendMessage" /\ msg = Head(events).msg
                /\ msg.kind = "iWon" => gotWinMessage'[m]
  <2>1. /\ events # <<>> /\ Head(events).type = "sendMessage" /\ Head(events).msg = new
        /\ queued' = [queued EXCEPT ![n] = Append(@, new)]
        /\ gotWinMessage' = [gotWinMessage EXCEPT ![n] = @ \/ new.kind = "iWon"]
    BY <1>3 DEF HandleSend
  <2>2. CASE n # m
    BY <2>1, <2>2, <1>q DEF TypeOK
  <2>3. CASE n = m
    <3>1. queued'[m] = Append(queued[m], new)
      BY <2>1, <2>3 DEF TypeOK
    <3>2. new.kind = "iWon" => gotWinMessage'[m]
      BY <2>1, <2>3, Zenon DEF TypeOK
    <3>3. msg \in ToSet(queued[m]) \/ msg = new
      BY <1>q, <3>1, ToSetAppend
    <3> QED
      BY <2>1, <3>2, <3>3
  <2> QED
    BY <2>2, <2>3
<1>4. ASSUME NEW s \in Session, HandleClientDestroyed(s)
      PROVE  \/ msg \in ToSet(queued[m])
             \/ /\ msg = PlayerDisconnected /\ playerDisconnected'[m]
                /\ \E t \in Players(m) : session'[t] = "gone"
  <2> DEFINE playing == {n \in Match : s \in Players(n) /\ matchStarted[n]}
  <2>1. /\ session' = [session EXCEPT ![s] = "gone"]
        /\ playerDisconnected' = [n \in Match |-> playerDisconnected[n] \/ n \in playing]
        /\ queued' = [n \in Match |-> IF n \in playing THEN Append(queued[n], PlayerDisconnected)
                                                      ELSE queued[n]]
    BY <1>4, Zenon DEF HandleClientDestroyed
  <2>2. CASE m \notin playing
    BY <2>1, <2>2
  <2>3. CASE m \in playing
    <3>1. queued'[m] = Append(queued[m], PlayerDisconnected)
      BY <2>1, <2>3
    <3>2. playerDisconnected'[m]
      BY <2>1, <2>3, Zenon
    <3>3. s \in Players(m) /\ session'[s] = "gone"
      BY <2>1, <2>3 DEF TypeOK
    <3>4. msg \in ToSet(queued[m]) \/ msg = PlayerDisconnected
      BY <1>q, <3>1, ToSetAppend
    <3> QED
      BY <3>2, <3>3, <3>4
  <2> QED
    BY <2>2, <2>3
<1>5. CASE Handle
  <2>1. \/ \E s \in Session : HandleClientDestroyed(s)
        \/ \E s \in Session, n \in Match, new \in Message : HandleSend(s, n, new)
        \/ UNCHANGED queued
    BY <1>5 DEF Handle, HandleResolve, FindFirst, FindSecond, AddFirst, AddSecond,
                HandleSubscribe, HandleMatchDestroyed, HandleNotice, matchVars
  <2> QED
    BY <1>1, <1>3, <1>4, <2>1
<1> QED
  BY <1>1, <1>2, <1>5, ServerMoves DEF ServerHandle, Publish, matchVars

\* Every step keeps the matches silent that are.
LEMMA QuietStep ==
  ASSUME ServerInv, ClientTypes, QuietInv, [ClientNext]_allVars
  PROVE  QuietInv'
<1>0. TypeOK /\ SendersStarted
  BY DEF ServerInv, LossInv
<1>1. ASSUME NEW m \in Match, NEW b, Around(m, b)', Ends(b) PROVE ~sending'[m] /\ matchStarted'[m]
  <2>1. CASE Around(m, b)
    <3>1. ~sending[m] /\ matchStarted[m]
      BY <1>1, <2>1 DEF QuietInv
    <3> QED
      BY <3>1, TimerStep
  <2>2. ASSUME Publish(m), b = queued[m] PROVE ~sending'[m] /\ matchStarted'[m]
    <3>1. sending[m] /\ SendMessages(m)
      BY <2>2 DEF Publish, SendMessages
    <3>2. matchStarted[m] /\ matchStarted'[m]
      BY <1>0, <3>1, TimerStep DEF SendersStarted
    <3>3. b \in Seq(Message)
      BY <1>0, <2>2 DEF TypeOK
    <3>4. Ending(m)
      BY <1>1, <2>2, <3>3, EndIsFinal DEF QuietInv
    <3>5. sending' = [sending EXCEPT ![m] = FALSE]
      BY <3>1, <3>4 DEF SendMessages, Shutdown, Ending
    <3> QED
      BY <1>0, <3>2, <3>5 DEF TypeOK
  <2> QED
    BY <1>0, <1>1, <2>1, <2>2, AroundStep
<1>2. ASSUME NEW m \in Match, NEW msg \in ToSet(queued'[m]), Final(msg) PROVE Ending(m)'
  <2>1. CASE msg \in ToSet(queued[m])
    BY <1>2, <2>1, TimerStep DEF QuietInv
  <2>2. ASSUME events # <<>>, Head(events).type = "sendMessage", msg = Head(events).msg,
               msg.kind = "iWon" => gotWinMessage'[m]
        PROVE  Ending(m)'
    <3>1. Head(events) \in ToSet(events)
      BY <1>0, <2>2, HeadQueued
    <3>2. msg.kind = "iWon"
      BY <1>2, <2>2, <3>1 DEF QuietInv, Final
    <3> QED
      BY <2>2, <3>2 DEF Ending
  <2> QED
    BY <1>0, <2>1, <2>2, QueuedStep DEF Ending
<1>3. ASSUME NEW e \in ToSet(events'), e.type = "sendMessage"
      PROVE  e.msg.kind # "playerDisconnected"
  <2>1. CASE NewEvent(e)
    BY <1>3, <2>1 DEF NewEvent, OidEvent, Batch, Subscribe
  <2> QED
    BY <1>0, <1>3, <2>1, QueueStep DEF QuietInv
<1> QED
  BY <1>1, <1>2, <1>3 DEF QuietInv

-----------------------------------------------------------------------------
(* What a client is told.  It hears of the match it plays, and of no other   *)
(* that still goes on.                                                       *)

\* Players stay, and come to a match that goes on only by a search of theirs.
LEMMA EngagedFrom ==
  ASSUME ServerInv, [ClientNext]_allVars, NEW m \in Match, NEW s \in Session
  PROVE  /\ s \in Players(m) => s \in Players(m)'
         /\ s \in Players(m)' /\ Engaged(m)' =>
              \/ s \in Players(m) /\ Engaged(m)
              \/ ServerHandle /\ (FindFirst(s) \/ FindSecond(s))
<1>0. TypeOK /\ OfferedInv
  BY DEF ServerInv
<1>1. CASE UNCHANGED <<clients, sending, awaiting>>
  BY <1>1 DEF Players, Engaged
<1>2. ASSUME NEW n \in Match, NEW active, NEW posted, Shutdown(n, active, posted)
      PROVE  sending'[m] => sending[m]
  BY <1>0, <1>2 DEF Shutdown, TypeOK
<1>3. ASSUME NEW n \in Match, SendMessages(n)
      PROVE  clients' = clients /\ awaiting' = awaiting /\ (sending'[m] => sending[m])
  BY <1>2, <1>3 DEF SendMessages
<1>4. ASSUME NEW t \in Session, HandleClientDestroyed(t)
      PROVE  clients' = clients /\ awaiting' = awaiting /\ (sending'[m] => sending[m])
  BY <1>0, <1>2, <1>4, Zenon DEF HandleClientDestroyed
<1>5. ASSUME NEW n \in Match, HandleMatchDestroyed(n)
      PROVE  clients' = clients /\ sending' = sending /\ awaiting' \in {awaiting, NoMatch}
  BY <1>5 DEF HandleMatchDestroyed, matchVars
<1>6. ASSUME NEW n \in Match, NEW t \in Session, clients' = [clients EXCEPT ![n] = Append(@, t)]
      PROVE  Players(m)' = IF m = n THEN Players(n) \cup {t} ELSE Players(m)
  <2>1. clients[n] \in Seq(Session)
    BY <1>0 DEF TypeOK
  <2>2. ToSet(Append(clients[n], t)) = ToSet(clients[n]) \cup {t}
    BY <2>1, ToSetAppend
  <2> QED
    BY <1>0, <1>6, <2>2 DEF TypeOK, Players
<1>7. ASSUME NEW t \in Session, FindFirst(t)
      PROVE  /\ s \in Players(m) => s \in Players(m)'
             /\ s \in Players(m)' /\ Engaged(m)' => (s \in Players(m) /\ Engaged(m)) \/ s = t
  <2>1. PICK n \in Match : mobj[n] = "none" /\ awaiting' = n /\ AddFirst(n, t)
    BY <1>7 DEF FindFirst
  <2>2. clients[n] = <<>> /\ clients' = [clients EXCEPT ![n] = Append(@, t)] /\ sending' = sending
    BY <1>0, <2>1 DEF OfferedInv, AddFirst
  <2>3. Players(n) = {}
    BY <2>2 DEF Players, ToSet
  <2> QED
    BY <1>6, <2>1, <2>2, <2>3 DEF Engaged
<1>8. ASSUME NEW t \in Session, FindSecond(t)
      PROVE  /\ s \in Players(m) => s \in Players(m)'
             /\ s \in Players(m)' /\ Engaged(m)' => (s \in Players(m) /\ Engaged(m)) \/ s = t
  <2>1. /\ awaiting \in Match /\ awaiting' = NoMatch
        /\ clients' = [clients EXCEPT ![awaiting] = Append(@, t)]
        /\ sending' = [sending EXCEPT ![awaiting] = TRUE]
    BY <1>0, <1>8 DEF FindSecond, AddSecond, TypeOK
  <2>2. Players(m)' = IF m = awaiting THEN Players(awaiting) \cup {t} ELSE Players(m)
    BY <1>6, <2>1
  <2>3. m # awaiting => sending'[m] = sending[m]
    BY <1>0, <2>1 DEF TypeOK
  <2> QED
    BY <2>1, <2>2, <2>3, NoMatchAssumption DEF Engaged
<1>9. CASE ServerHandle
  <2>1. \/ \E t \in Session : FindFirst(t) \/ FindSecond(t) \/ HandleClientDestroyed(t)
        \/ \E n \in Match : HandleMatchDestroyed(n)
        \/ UNCHANGED <<clients, sending, awaiting>>
    BY <1>9 DEF ServerHandle, Handle, HandleResolve, HandleSubscribe, HandleSend,
                HandleNotice, matchVars
  <2>2. ASSUME NEW t \in Session, HandleClientDestroyed(t)
        PROVE  /\ s \in Players(m) => s \in Players(m)'
               /\ s \in Players(m)' /\ Engaged(m)' => s \in Players(m) /\ Engaged(m)
    BY <1>4, <2>2 DEF Players, Engaged
  <2>3. ASSUME NEW n \in Match, HandleMatchDestroyed(n)
        PROVE  /\ s \in Players(m) => s \in Players(m)'
               /\ s \in Players(m)' /\ Engaged(m)' => s \in Players(m) /\ Engaged(m)
    BY <1>5, <2>3, NoMatchAssumption DEF Players, Engaged
  <2> QED
    BY <1>1, <1>7, <1>8, <1>9, <2>1, <2>2, <2>3
<1>10. CASE \E n \in Match : Publish(n)
  BY <1>3, <1>10 DEF Publish, Players, Engaged
<1> QED
  BY <1>1, <1>9, <1>10, ServerMoves DEF matchVars

\* A client subscribes by its own event, and nobody unsubscribes.
LEMMA SubscribersStep ==
  ASSUME TypeOK, [ClientNext]_allVars, NEW m \in Match, NEW s \in Session
  PROVE  /\ s \in subscribers[m] => s \in subscribers'[m]
         /\ s \in subscribers'[m] =>
              \/ s \in subscribers[m]
              \/ ServerHandle /\ HandleSubscribe(s, m)
<1>1. CASE UNCHANGED subscribers
  BY <1>1
<1>2. ASSUME NEW t \in Session, NEW n \in Match, HandleSubscribe(t, n)
      PROVE  /\ s \in subscribers[m] => s \in subscribers'[m]
             /\ s \in subscribers'[m] => s \in subscribers[m] \/ (s = t /\ m = n)
  BY <1>2 DEF HandleSubscribe, TypeOK
<1>3. CASE ServerHandle
  <2>1. \/ \E t \in Session, n \in Match : HandleSubscribe(t, n)
        \/ UNCHANGED subscribers
    BY <1>3 DEF ServerHandle, Handle, HandleResolve, FindFirst, FindSecond, HandleSend,
                HandleNotice, HandleClientDestroyed, HandleMatchDestroyed
  <2> QED
    BY <1>1, <1>2, <1>3, <2>1
<1>4. CASE \E n \in Match : Publish(n)
  BY <1>1, <1>4 DEF Publish, SendMessages
<1> QED
  BY <1>1, <1>3, <1>4, ServerMoves

\* When an event of a client's search is handled, nothing else of it is around.
LEMMA HeadAlone ==
  ASSUME TypeOK, ClientTypes, PlaceInv, NEW s \in Session, session[s] = "on",
         events # <<>>, Head(events) \in Search(s)
  PROVE  /\ \A e \in ToSet(Tail(events)) \cup ToSet(inbox[s]) : e \notin Search(s)
         /\ modes[s] = <<"connect">>
<1>1. events \in Seq(Event) /\ inbox[s] \in Seq(Mail) /\ InPlace(s)
  BY DEF TypeOK, ClientTypes, PlaceInv, Located
<1>2. ~Listed(inbox[s], Tail(events), Search(s))
  BY <1>1, LoseOne DEF InPlace, Solo
<1>3. Sought(s)
  BY <1>1, OccursTail DEF Sought, Listed
<1>4. Tail(events) \in Seq(Event)
  BY <1>1
<1> QED
  BY <1>1, <1>2, <1>3, <1>4 DEF InPlace, Listed, Occurs, ToSet

\* A client comes to a battle by the answer to its subscription.
LEMMA BattleFrom ==
  ASSUME TypeOK, ClientTypes, [ClientNext]_allVars, NEW s \in Session, InBattle(s)'
  PROVE  \/ InBattle(s) /\ match'[s] = match[s]
         \/ /\ OnMatchSubscribe(s) /\ session[s] = "on"
            /\ Subscribed(match'[s]) \in ToSet(inbox[s]) /\ match'[s] \in Match
<1>m. modes[s] \in Seq(Mode)
  BY DEF ClientTypes
<1>1. ASSUME NEW t \in Session, NEW mode \in Mode, mode # "battle", Push(t, mode), match' = match
      PROVE  InBattle(s) /\ match'[s] = match[s]
  <2>1. modes'[s] = modes[s] \/ modes'[s] = Append(modes[s], mode)
    BY <1>1, PushTypes
  <2>2. ToSet(Append(modes[s], mode)) = ToSet(modes[s]) \cup {mode}
    BY <1>m, ToSetAppend
  <2> QED
    BY <1>1, <2>1, <2>2 DEF InBattle
<1>2. ASSUME NEW t \in Session, OnMatchSubscribe(t)
      PROVE  \/ InBattle(s) /\ match'[s] = match[s]
             \/ /\ OnMatchSubscribe(s) /\ session[s] = "on"
                /\ Subscribed(match'[s]) \in ToSet(inbox[s]) /\ match'[s] \in Match
  <2>1. /\ Take(t, "subscribed") /\ Push(t, "battle")
        /\ match' = [match EXCEPT ![t] = Head(inbox[t]).m]
    BY <1>2 DEF OnMatchSubscribe
  <2>2. "battle" \in Mode
    BY DEF Mode
  <2>3. CASE s # t
    BY <2>1, <2>2, <2>3, PushTypes DEF InBattle, ClientTypes
  <2>4. CASE s = t
    <3>1. /\ session[s] = "on" /\ Head(inbox[s]) \in ToSet(inbox[s])
          /\ Head(inbox[s]) \in Mail /\ Head(inbox[s]).type = "subscribed"
      BY <2>1, <2>4, Taken, Inbox
    <3>2. match'[s] = Head(inbox[s]).m
      BY <2>1, <2>4 DEF ClientTypes
    <3> QED
      BY <1>2, <2>4, <3>1, <3>2, MailFields
  <2> QED
    BY <2>3, <2>4
<1>3. ASSUME NEW t \in Session, TryAgain(t)
      PROVE  InBattle(s) /\ match'[s] = match[s]
  <2>1. modes' = [modes EXCEPT ![t] = <<>>] /\ match' = match
    BY <1>3 DEF TryAgain
  <2>2. ToSet(<<>>) = {}
    BY DEF ToSet
  <2> QED
    BY <2>1, <2>2 DEF InBattle, ClientTypes
<1>4. ASSUME NEW t \in Session, ProcessTicks(t)
      PROVE  InBattle(s) /\ match'[s] = match[s]
  <2>1. PICK left \in Nat : left <= Len(modes[t]) /\ modes' = [modes EXCEPT ![t] = SubSeq(@, 1, left)]
    BY <1>4, ProcessTypes
  <2>2. match' = match
    BY <1>4 DEF ProcessTicks
  <2>3. \/ modes'[s] = modes[s]
        \/ modes'[s] = SubSeq(modes[s], 1, left) /\ left <= Len(modes[s])
    BY <2>1 DEF ClientTypes
  <2>4. ASSUME left <= Len(modes[s]) PROVE ToSet(SubSeq(modes[s], 1, left)) \subseteq ToSet(modes[s])
    BY <1>m, <2>4 DEF ToSet
  <2> QED
    BY <2>2, <2>3, <2>4 DEF InBattle
<1>5. CASE UNCHANGED <<modes, match>>
  BY <1>5 DEF InBattle
<1>6. \A t \in Session : LogonRefused(t) \/ OnMatchSubscribeFail(t) => Push(t, "failure") /\ match' = match
  BY DEF LogonRefused, OnMatchSubscribeFail
<1>7. \A t \in Session : ConnectionLost(t) =>
        \/ Push(t, "failure") /\ match' = match
        \/ UNCHANGED <<modes, match>>
  BY DEF ConnectionLost
<1>8. "failure" \in Mode
  BY DEF Mode
<1> QED
  BY <1>1, <1>2, <1>3, <1>4, <1>5, <1>6, <1>7, <1>8, Zenon
  DEF ClientNext, Receive, ServerHandle, Publish, Logon, EnterStart, SendWin, OnDidLogon,
      OnLeftMatch, OnMatchOid, OnMessages, allVars, clientVars

\* The match m is played by s, which plays no other.
Told(s, m) ==
  /\ matchStarted[m]
  /\ s \in Players(m)
  /\ \A n \in Match : Engaged(n) /\ s \in Players(n) => n = m

\* A client is going to hear of a match, or to subscribe to it.
News(s, m) ==
  \/ \E ss \in SUBSET Session :
       s \in ss /\ OidEvent(ss, m) \in ToSet(events) \cup ToSet(inbox[s])
  \/ Subscribe(s, m) \in ToSet(events)

Informed(s) ==
  /\ \A m \in Match : News(s, m) => Told(s, m) /\ s \notin subscribers[m]
  /\ \A m \in Match : Subscribed(m) \in ToSet(inbox[s]) => Told(s, m) /\ s \in subscribers[m]
  /\ InBattle(s) => match[s] \in Match /\ Told(s, match[s]) /\ s \in subscribers[match[s]]
  /\ \A n \in Match : Engaged(n) /\ s \in Players(n) =>
       startMatch[s] # "shown" /\ Resolve(s) \notin ToSet(inbox[s])

\* What a client is told is true, and it does not look for a match while one of
\* its own goes on.
ToldInv == \A s \in Session : session[s] = "on" => Informed(s)

\* What is news belongs to a search.
LEMMA NewsIsSearch ==
  ASSUME TypeOK, NEW s \in Session, NEW m \in Match, News(s, m)
  PROVE  \E e \in ToSet(events) \cup ToSet(inbox[s]) : e \in Search(s)
<1>1. CASE Subscribe(s, m) \in ToSet(events)
  BY <1>1, SearchFacts
<1>2. ASSUME NEW ss \in SUBSET Session, s \in ss,
             OidEvent(ss, m) \in ToSet(events) \cup ToSet(inbox[s])
      PROVE  \E e \in ToSet(events) \cup ToSet(inbox[s]) : e \in Search(s)
  BY <1>2, NewsOfMatch
<1> QED
  BY <1>1, <1>2 DEF News

\* What a client has been told stays true until it searches again.
LEMMA ToldKept ==
  ASSUME ServerInv, [ClientNext]_allVars, NEW s \in Session, NEW m \in Match, Told(s, m),
         ~(ServerHandle /\ (FindFirst(s) \/ FindSecond(s)))
  PROVE  Told(s, m)'
<1>1. matchStarted'[m] /\ s \in Players(m)'
  BY TimerStep, EngagedFrom DEF Told
<1>2. ASSUME NEW n \in Match, Engaged(n)', s \in Players(n)' PROVE n = m
  BY <1>2, EngagedFrom DEF Told
<1> QED
  BY <1>1, <1>2 DEF Told

\* When a match starts, all its players are told of it, and of no other.
LEMMA ToldOfStart ==
  ASSUME ServerInv, [ClientNext]_allVars, ServerHandle, NEW t \in Session, FindSecond(t),
         NEW m, m = awaiting, NEW s \in Players(m) \cup {t}
  PROVE  m \in Match /\ s \in Session /\ Told(s, m)' /\ s \notin subscribers'[m]
<1>0. /\ TypeOK /\ OfferedInv /\ UnstartedUnknown
  BY DEF ServerInv, FinalInv
<1>1. [Next]_vars
  BY DEF ServerHandle, Next, Server
<1>2. EngagedInv'
  BY <1>1, ServerStep DEF ServerInv
<1>3. /\ m \in Match /\ ~matchStarted[m]
      /\ clients' = [clients EXCEPT ![m] = Append(@, t)]
      /\ sending' = [sending EXCEPT ![m] = TRUE]
      /\ matchStarted' = [matchStarted EXCEPT ![m] = TRUE]
      /\ subscribers' = subscribers
  BY <1>0 DEF FindSecond, AddSecond, TypeOK, OfferedInv, WaitingMatchOffered
<1>4. s \in Session /\ s \notin subscribers'[m]
  BY <1>0, <1>3, PlayersType DEF UnstartedUnknown
<1>5. ToSet(Append(clients[m], t)) = ToSet(clients[m]) \cup {t}
  BY <1>0, <1>3, ToSetAppend DEF TypeOK
<1>6. clients'[m] = Append(clients[m], t)
  BY <1>0, <1>3 DEF TypeOK
<1>7. s \in ToSet(clients'[m])
  BY <1>5, <1>6 DEF Players
<1>8. matchStarted'[m] /\ sending'[m]
  BY <1>0, <1>3 DEF TypeOK
<1>9. ASSUME NEW n \in Match, Engaged(n)', s \in Players(n)' PROVE n = m
  BY <1>2, <1>3, <1>7, <1>8, <1>9 DEF EngagedInv, OneMatchEach, Engaged, Players
<1> QED
  BY <1>3, <1>4, <1>7, <1>8, <1>9, Zenon DEF Told, Players

\* One who is paired knows of no other match.
LEMMA ToldFound ==
  ASSUME ServerInv, ClientTypes, PlaceInv, [ClientNext]_allVars, NEW s \in Session,
         session[s] = "on", ServerHandle, FindFirst(s) \/ FindSecond(s)
  PROVE  Informed(s)'
<1>0. TypeOK
  BY DEF ServerInv
<1>1. Head(events) = FindMatch(s) /\ events # <<>>
  BY DEF FindFirst, FindSecond, FindMatch
<1>2. /\ inbox'[s] = inbox[s] /\ modes[s] = <<"connect">> /\ startMatch[s] = "entered"
      /\ \A e \in ToSet(Tail(events)) \cup ToSet(inbox[s]) : e \notin Search(s)
  BY <1>0, <1>1, SearchTaken, SearchFacts, HeadAlone
<1>3. modes' = modes /\ startMatch' = startMatch
  BY DEF ServerHandle, clientVars
<1>4. Resolve(s) \notin ToSet(inbox'[s]) /\ \A m \in Match : Subscribed(m) \notin ToSet(inbox'[s])
  BY <1>2, SearchFacts DEF Asked
<1>5. ~InBattle(s)'
  BY <1>2, <1>3 DEF InBattle, ToSet
<1>6. ASSUME NEW m \in Match, News(s, m)' PROVE Told(s, m)' /\ s \notin subscribers'[m]
  <2>1. PICK e \in ToSet(events') : \/ e = Subscribe(s, m)
                                    \/ \E ss \in SUBSET Session : s \in ss /\ e = OidEvent(ss, m)
    BY <1>2, <1>6, NewsOfMatch DEF News
  <2>2. e \in Search(s) /\ e \notin ToSet(Tail(events))
    BY <1>2, <2>1, NewsOfMatch, SearchFacts
  <2>3. e.type # "matchDestroyed" /\ (e.type = "matchOid" => e.m = m)
    BY <2>1 DEF Subscribe, OidEvent
  <2>4. PICK t \in Session : FindSecond(t) /\ e = OidEvent(Players(awaiting) \cup {t}, awaiting)
    BY <1>0, <2>2, <2>3, HandlersPost, NoMatchAssumption DEF ServerHandle
  <2>5. t = s
    BY <1>1, <2>4 DEF FindSecond, FindMatch
  <2>6. m = awaiting
    BY <2>3, <2>4 DEF OidEvent
  <2> QED
    BY <2>4, <2>5, <2>6, ToldOfStart, Zenon
<1> QED
  BY <1>2, <1>3, <1>4, <1>5, <1>6 DEF Informed

\* What reaches a client of an event, and what it was
LEMMA SentFrom ==
  ASSUME NEW e \in Event, NEW s \in Session
  PROVE  /\ \A ss, m : Sent(e) = OidEvent(ss, m) => e = OidEvent(ss, m)
         /\ Sent(e) = Resolve(s) => e = Resolve(s)
         /\ \A m \in Match : Sent(e) = Subscribed(m) /\ Reaches(e, s) =>
              e = Subscribe(s, m) /\ mobj[m] = "live"
<1>1. CASE e.type = "subscribe"
  <2>1. /\ e.s \in Session /\ e.m \in Match /\ e = Subscribe(e.s, e.m)
        /\ Sent(e) = [type |-> IF mobj[e.m] = "live" THEN "subscribed" ELSE "subscribeFailed",
                      m |-> e.m]
    BY <1>1, EventFields DEF Sent
  <2>2. Sent(e).type \in {"subscribed", "subscribeFailed"} /\ Sent(e).m = e.m
    BY <2>1
  <2>3. ASSUME NEW m \in Match, Sent(e) = Subscribed(m), Reaches(e, s)
        PROVE  e = Subscribe(s, m) /\ mobj[m] = "live"
    <3>1. e.m = m /\ mobj[e.m] = "live"
      BY <2>1, <2>2, <2>3 DEF Subscribed
    <3>2. e.s = s
      BY <1>1, <2>3 DEF Reaches, Recipients, Resolve
    <3> QED
      BY <2>1, <3>1, <3>2
  <2> QED
    BY <2>2, <2>3 DEF OidEvent, Resolve
<1>2. CASE e.type # "subscribe"
  <2>1. Sent(e) = e
    BY <1>2 DEF Sent
  <2>2. e.type # "subscribed"
    BY EventFields
  <2> QED
    BY <2>1, <2>2 DEF Subscribed
<1> QED
  BY <1>1, <1>2

\* What is news to a client was news before or starts a match of its.
LEMMA NewsFrom ==
  ASSUME ServerInv, ClientTypes, [ClientNext]_allVars, NEW s \in Session, NEW m \in Match,
         News(s, m)'
  PROVE  \/ News(s, m)
         \/ /\ ServerHandle /\ m = awaiting
            /\ \E t \in Session : FindSecond(t) /\ s \in Players(awaiting) \cup {t}
<1>0. TypeOK
  BY DEF ServerInv
<1>1. CASE Subscribe(s, m) \in ToSet(events')
  <2> DEFINE e == Subscribe(s, m)
  <2>1. e.type = "subscribe" /\ e.s = s /\ e.m = m /\ e \in ToSet(events')
    BY <1>1 DEF Subscribe
  <2> HIDE DEF e
  <2>2. CASE e \in ToSet(events)
    BY <2>2 DEF News, e
  <2>3. CASE NewEvent(e)
    <3>1. PICK t \in Session : OnMatchOid(t) /\ e = Subscribe(t, Head(inbox[t]).m)
      BY <2>1, <2>3 DEF NewEvent, OidEvent, Batch
    <3>2. t = s /\ Head(inbox[s]).m = m
      BY <2>1, <3>1 DEF Subscribe
    <3>3. Take(s, "matchOid")
      BY <3>1, <3>2 DEF OnMatchOid
    <3>4. Head(inbox[s]) \in MailTo(s) /\ Head(inbox[s]) \in ToSet(inbox[s])
      BY <3>3, Taken, Inbox
    <3>5. /\ Head(inbox[s]).type = "matchOid" /\ s \in Head(inbox[s]).to
          /\ Head(inbox[s]).to \in SUBSET Session
          /\ Head(inbox[s]) = OidEvent(Head(inbox[s]).to, m)
      BY <3>2, <3>3, <3>4, Taken, MailFields DEF MailTo
    <3> QED
      BY <3>4, <3>5 DEF News
  <2> QED
    BY <1>0, <2>1, <2>2, <2>3, QueueStep
<1>2. ASSUME NEW ss \in SUBSET Session, s \in ss, OidEvent(ss, m) \in ToSet(events')
      PROVE  \/ News(s, m)
             \/ /\ ServerHandle /\ m = awaiting
                /\ \E t \in Session : FindSecond(t) /\ s \in Players(awaiting) \cup {t}
  <2> DEFINE e == OidEvent(ss, m)
  <2>1. e.type = "matchOid" /\ e.to = ss /\ e.m = m /\ e \in ToSet(events')
    BY <1>2 DEF OidEvent
  <2> HIDE DEF e
  <2>2. CASE e \in ToSet(events)
    BY <1>2, <2>2 DEF News, e
  <2>3. CASE NewEvent(e)
    <3>1. PICK t \in Session :
            ServerHandle /\ FindSecond(t) /\ e = OidEvent(Players(awaiting) \cup {t}, awaiting)
      BY <2>1, <2>3, NoMatchAssumption DEF NewEvent, Subscribe, Batch
    <3>2. m = awaiting /\ s \in Players(awaiting) \cup {t}
      BY <1>2, <2>1, <3>1 DEF OidEvent
    <3> QED
      BY <3>1, <3>2
  <2> QED
    BY <1>0, <2>1, <2>2, <2>3, QueueStep
<1>3. ASSUME NEW ss \in SUBSET Session, s \in ss, OidEvent(ss, m) \in ToSet(inbox'[s])
      PROVE  News(s, m)
  <2>1. CASE OidEvent(ss, m) \in ToSet(inbox[s])
    BY <1>3, <2>1 DEF News
  <2>2. CASE ServerHandle /\ OidEvent(ss, m) = Sent(Head(events))
    BY <1>0, <1>3, <2>2, Delivery, SentFrom DEF News
  <2> QED
    BY <1>0, <1>3, <2>1, <2>2, InboxStep
<1> QED
  BY <1>1, <1>2, <1>3 DEF News

\* A session that comes on is a new one.
LEMMA ToldResolved ==
  ASSUME ServerInv, ClientTypes, PlaceInv, [ClientNext]_allVars, NEW s \in Session,
         session[s] # "on", session'[s] = "on"
  PROVE  /\ Informed(s)'
         /\ ~InBattle(s)'
         /\ \A m \in Match : /\ Subscribed(m) \notin ToSet(inbox'[s])
                            /\ Subscribe(s, m) \notin ToSet(events')
<1>0. TypeOK /\ RequestsInv /\ PlayersWereOn
  BY DEF ServerInv, EngagedInv
<1>1. ASSUME NEW e, Post(s, e) PROVE session' = session
  BY <1>1 DEF Post
<1>2. ServerHandle /\ HandleResolve(s)
  <2>1. ASSUME NEW t \in Session, ConnectionClosed(t) \/ Authenticate(t) \/ HandleClientDestroyed(t)
        PROVE  FALSE
    BY <1>0, <2>1 DEF ConnectionClosed, Authenticate, HandleClientDestroyed, TypeOK
  <2>2. \A t \in Session : HandleResolve(t) => t = s
    BY <1>0 DEF HandleResolve, TypeOK
  <2>3. ~UNCHANGED session
    OBVIOUS
  <2>4. \A t \in Session : EnterStart(t) \/ SendWin(t) \/ OnMatchOid(t) => UNCHANGED session
    BY DEF EnterStart, SendWin, OnMatchOid, Post
  <2>5. \A t \in Session, n \in Match :
          \/ HandleSubscribe(t, n)
          \/ \E msg \in Message : HandleSend(t, n, msg)
          => UNCHANGED session
    BY DEF HandleSubscribe, HandleSend
  <2>6. \A n \in Match : HandleMatchDestroyed(n) \/ SendMessages(n) => UNCHANGED session
    BY DEF HandleMatchDestroyed, SendMessages
  <2>7. \A t \in Session : FindFirst(t) \/ FindSecond(t) => UNCHANGED session
    BY DEF FindFirst, FindSecond
  <2>8. CASE ServerHandle
    BY <2>1, <2>2, <2>3, <2>5, <2>6, <2>7, <2>8 DEF ServerHandle, Handle, HandleNotice
  <2>9. CASE ~ServerHandle
    BY <2>1, <2>3, <2>4, <2>6, <2>9 DEF ClientNext, Receive, Publish, Logon, LogonRefused,
       ConnectionLost, TryAgain, ProcessTicks, OnDidLogon, OnLeftMatch, OnMatchSubscribe,
       OnMatchSubscribeFail, OnMessages, allVars, clientVars, vars
  <2> QED
    BY <2>8, <2>9
<1>3. /\ Head(events) = Resolve(s) /\ events # <<>> /\ events' = Tail(events)
      /\ UNCHANGED <<clients, sending, awaiting>>
  BY <1>2 DEF HandleResolve, Resolve, matchVars
<1>4. session[s] = "resolving"
  BY <1>0, <1>3, HeadTimely DEF Timely, Resolve
<1>5. /\ inbox[s] = <<>> /\ modes[s] = <<"connect">> /\ Solo(s)
      /\ modes' = modes
  BY <1>2, <1>4 DEF PlaceInv, Located, InPlace, ServerHandle, clientVars
<1>6. /\ events \in Seq(Event) /\ inbox[s] \in Seq(Mail) /\ Tail(events) \in Seq(Event)
      /\ Reaches(Head(events), s) /\ Sent(Head(events)) = Resolve(s)
  <2>1. events \in Seq(Event) /\ inbox[s] \in Seq(Mail) /\ Tail(events) \in Seq(Event)
    BY <1>0, <1>2, Delivery DEF ClientTypes
  <2>2. Resolve(s).type # "subscribe"
    BY DEF Resolve
  <2> QED
    BY <1>3, <2>1, <2>2 DEF Reaches, Sent
<1>7. inbox'[s] = <<Resolve(s)>>
  BY <1>0, <1>2, <1>5, <1>6, Delivery
<1>8. \A e \in ToSet(events') : e \notin Search(s)
  <2>1. ~Listed(inbox[s], Tail(events), Search(s))
    <3>1. Head(events) \in Search(s)
      BY <1>3, SearchFacts
    <3> QED
      BY <1>3, <1>5, <1>6, <3>1, LoseOne DEF Solo
  <2> QED
    BY <1>3, <1>6, <2>1 DEF Listed, Occurs, ToSet
<1>9. ToSet(inbox'[s]) = {Resolve(s)}
  BY <1>7 DEF ToSet
<1>10. ~InBattle(s)'
  BY <1>5 DEF InBattle, ToSet
<1>11. \A m \in Match : ~News(s, m)' /\ Subscribed(m) \notin ToSet(inbox'[s])
  BY <1>8, <1>9, NewsOfMatch, SearchFacts DEF News, Asked
<1>12. \A n \in Match : s \notin Players(n)'
  BY <1>0, <1>3, <1>4 DEF PlayersWereOn, Players
<1> QED
  BY <1>10, <1>11, <1>12 DEF Informed, News

\* A start screen comes up after the logon or at the end of a battle.
LEMMA ShownFrom ==
  ASSUME TypeOK, ClientTypes, [ClientNext]_allVars, NEW s \in Session, startMatch'[s] = "shown"
  PROVE  \/ startMatch[s] = "shown"
         \/ OnDidLogon(s) /\ Resolve(s) \in ToSet(inbox[s])
         \/ ProcessTicks(s) /\ InBattle(s) /\ \E b \in ToSet(ticks[s]) : Ends(b)
<1>1. ASSUME NEW t \in Session, NEW mode \in Mode, Push(t, mode) PROVE startMatch[s] = "shown"
  BY <1>1, PushTypes
<1>2. ASSUME NEW t \in Session, OnDidLogon(t)
      PROVE  startMatch[s] = "shown" \/ (OnDidLogon(s) /\ Resolve(s) \in ToSet(inbox[s]))
  <2>1. Take(t, "resolve") /\ startMatch' = [startMatch EXCEPT ![t] = "shown"]
    BY <1>2 DEF OnDidLogon
  <2>2. /\ Head(inbox[t]) \in MailTo(t) /\ Head(inbox[t]) \in ToSet(inbox[t])
        /\ Head(inbox[t]).type = "resolve"
    BY <2>1, Taken, Inbox
  <2>3. Head(inbox[t]) = Resolve(t)
    BY <2>2, MailFields DEF MailTo
  <2> QED
    BY <1>2, <2>1, <2>2, <2>3 DEF ClientTypes
<1>3. ASSUME NEW t \in Session, ProcessTicks(t)
      PROVE  \/ startMatch[s] = "shown"
             \/ ProcessTicks(s) /\ InBattle(s) /\ \E b \in ToSet(ticks[s]) : Ends(b)
  <2>1. PICK left \in Nat :
           /\ left <= Len(modes[t])
           /\ Finals(ticks[t]) = {} => left = Len(modes[t])
           /\ startMatch' = [startMatch EXCEPT ![t] =
                IF left > 0 /\ modes[t][left] = "connect" THEN "shown" ELSE "none"]
    BY <1>3, ProcessTypes
  <2>2. Shows(t, "battle") /\ modes[t] \in Seq(Mode) /\ ticks[t] \in Seq(Seq(Message))
    BY <1>3 DEF ProcessTicks, ClientTypes
  <2>3. /\ Len(modes[t]) \in Nat /\ modes[t][Len(modes[t])] = "battle" /\ modes[t] # <<>>
    BY <2>2 DEF Shows, Last
  <2>4. "battle" \in ToSet(modes[t])
    BY <2>2, <2>3 DEF ToSet
  <2>5. CASE s # t
    BY <2>1, <2>5 DEF ClientTypes
  <2>6. CASE s = t
    <3>1. left > 0 /\ modes[t][left] = "connect"
      BY <2>1, <2>6 DEF ClientTypes
    <3>2. Finals(ticks[t]) # {}
      BY <2>1, <2>3, <3>1
    <3> QED
      BY <1>3, <2>2, <2>4, <2>6, <3>2, FinalsAre DEF InBattle
  <2> QED
    BY <2>5, <2>6
<1>4. ASSUME NEW t \in Session, EnterStart(t) PROVE startMatch[s] = "shown"
  BY <1>4 DEF EnterStart, ClientTypes
<1>5. CASE UNCHANGED startMatch
  BY <1>5
<1>6. \A t \in Session : /\ LogonRefused(t) \/ OnMatchSubscribeFail(t) => Push(t, "failure")
                         /\ OnMatchSubscribe(t) => Push(t, "battle")
                         /\ ConnectionLost(t) => Push(t, "failure") \/ UNCHANGED startMatch
  BY DEF LogonRefused, OnMatchSubscribeFail, OnMatchSubscribe, ConnectionLost
<1>7. "failure" \in Mode /\ "battle" \in Mode
  BY DEF Mode
<1> QED
  BY <1>1, <1>2, <1>3, <1>4, <1>5, <1>6, <1>7, Zenon
  DEF ClientNext, Receive, ServerHandle, Publish, Logon, SendWin, TryAgain,
      OnLeftMatch, OnMatchOid, OnMessages, allVars, clientVars

\* A client that goes on knows what it knew.
LEMMA ToldGoesOn ==
  ASSUME ServerInv, ClientTypes, QuietInv, PlaceInv, [ClientNext]_allVars, NEW s \in Session,
         session[s] = "on", Informed(s), ~(ServerHandle /\ (FindFirst(s) \/ FindSecond(s)))
  PROVE  Informed(s)'
<1>0. TypeOK /\ OfferedInv /\ RequestsInv
  BY DEF ServerInv
<1>1. ASSUME NEW m \in Match, News(s, m)' PROVE Told(s, m)' /\ s \notin subscribers'[m]
  <2>1. ASSUME ServerHandle, m = awaiting, NEW t \in Session, FindSecond(t),
               s \in Players(awaiting) \cup {t}
        PROVE  Told(s, m)' /\ s \notin subscribers'[m]
    BY <2>1, ToldOfStart
  <2>2. CASE News(s, m)
    <3>1. Told(s, m) /\ s \notin subscribers[m]
      BY <2>2 DEF Informed
    <3>2. ~(ServerHandle /\ HandleSubscribe(s, m))
      <4> SUFFICES ASSUME ServerHandle, HandleSubscribe(s, m) PROVE FALSE
        OBVIOUS
      <4>1. events # <<>> /\ Head(events) = Subscribe(s, m) /\ events' = Tail(events)
        BY DEF HandleSubscribe, Subscribe
      <4>2. Head(events) \in Search(s)
        BY <4>1, SearchFacts
      <4>3. \A e \in ToSet(events') \cup ToSet(inbox[s]) : e \notin Search(s)
        BY <1>0, <4>1, <4>2, HeadAlone
      <4>4. ASSUME NEW ss \in SUBSET Session, OidEvent(ss, m) \in ToSet(inbox'[s])
            PROVE  OidEvent(ss, m) \in ToSet(inbox[s])
        <5>1. \/ OidEvent(ss, m) \in ToSet(inbox[s])
              \/ OidEvent(ss, m) = Sent(Head(events))
          BY <1>0, <4>4, InboxStep
        <5>2. Head(events) \in Event
          BY <1>0, Delivery
        <5> QED
          BY <4>1, <5>1, <5>2, SentFrom DEF Subscribe, OidEvent
      <4> QED
        BY <1>1, <4>3, <4>4, NewsOfMatch, SearchFacts DEF News
    <3> QED
      BY <1>0, <3>1, <3>2, ToldKept, SubscribersStep
  <2> QED
    BY <1>1, <2>1, <2>2, NewsFrom
<1>2. ASSUME NEW m \in Match, Subscribed(m) \in ToSet(inbox'[s])
      PROVE  Told(s, m)' /\ s \in subscribers'[m]
  <2>1. CASE Subscribed(m) \in ToSet(inbox[s])
    BY <1>0, <2>1, ToldKept, SubscribersStep DEF Informed
  <2>2. CASE ServerHandle /\ Reaches(Head(events), s) /\ Subscribed(m) = Sent(Head(events))
    <3>1. /\ Head(events) = Subscribe(s, m) /\ mobj[m] = "live" /\ Head(events) \in ToSet(events)
      BY <1>0, <2>2, Delivery, SentFrom
    <3>2. Told(s, m)
      BY <3>1 DEF Informed, News
    <3>3. PICK t \in Session, n \in Match : HandleSubscribe(t, n)
      BY <2>2, <3>1 DEF ServerHandle, Handle, HandleResolve, FindFirst, FindSecond,
         HandleClientDestroyed, HandleSend, HandleMatchDestroyed, HandleNotice, Subscribe, Destroyed
    <3>4. t = s /\ n = m
      BY <3>1, <3>3 DEF HandleSubscribe, Subscribe
    <3>5. s \in subscribers'[m]
      BY <1>0, <3>1, <3>3, <3>4 DEF HandleSubscribe, TypeOK
    <3> QED
      BY <3>2, <3>5, ToldKept
  <2> QED
    BY <1>0, <1>2, <2>1, <2>2, InboxStep
<1>3. ASSUME InBattle(s)'
      PROVE  match'[s] \in Match /\ Told(s, match[s])' /\ s \in subscribers'[match'[s]]
  <2> DEFINE m == match'[s]
  <2>1. m \in Match /\ Told(s, m) /\ s \in subscribers[m]
    BY <1>0, <1>3, BattleFrom DEF Informed
  <2>2. ASSUME NEW n \in Match, n = m PROVE Told(s, n)' /\ s \in subscribers'[n]
    BY <1>0, <2>1, <2>2, ToldKept, SubscribersStep
  <2>3. PICK n \in Match : n = m
    BY <2>1
  <2>4. Told(s, n)' /\ s \in subscribers'[n]
    BY <2>2, <2>3
  <2> QED
    BY <2>3, <2>4 DEF Told
<1>4. ASSUME NEW n \in Match, Engaged(n)', s \in Players(n)'
      PROVE  startMatch'[s] # "shown" /\ Resolve(s) \notin ToSet(inbox'[s])
  <2>1. Engaged(n) /\ s \in Players(n)
    BY <1>4, EngagedFrom
  <2>2. startMatch[s] # "shown" /\ Resolve(s) \notin ToSet(inbox[s])
    BY <2>1 DEF Informed
  <2>3. ASSUME InBattle(s), NEW b \in ToSet(ticks[s]), Ends(b) PROVE FALSE
    <3>1. match[s] \in Match /\ Told(s, match[s])
      BY <2>3 DEF Informed
    <3>2. Around(match[s], b)
      BY <2>3 DEF Around
    <3>3. ~sending[match[s]] /\ matchStarted[match[s]]
      BY <2>3, <3>1, <3>2 DEF QuietInv
    <3>4. n = match[s]
      BY <2>1, <3>1 DEF Told
    <3> QED
      BY <1>0, <2>1, <3>1, <3>3, <3>4, NoMatchAssumption DEF Engaged, OfferedInv, WaitingMatchOffered
  <2>4. ASSUME Resolve(s) \in ToSet(inbox'[s]) PROVE FALSE
    <3>1. ServerHandle /\ Resolve(s) = Sent(Head(events))
      BY <1>0, <2>2, <2>4, InboxStep
    <3>2. Head(events) = Resolve(s) /\ events # <<>>
      BY <1>0, <3>1, Delivery, SentFrom
    <3> QED
      BY <1>0, <3>2, HeadTimely DEF Timely, Resolve
  <2> QED
    BY <1>0, <2>2, <2>3, <2>4, ShownFrom
<1> QED
  BY <1>1, <1>2, <1>3, <1>4 DEF Informed

\* Every step keeps the clients informed.
LEMMA ToldStep ==
  ASSUME ServerInv, ClientTypes, QuietInv, PlaceInv, ToldInv, [ClientNext]_allVars
  PROVE  ToldInv'
<1> SUFFICES ASSUME NEW s \in Session, session'[s] = "on" PROVE Informed(s)'
  BY DEF ToldInv
<1>1. CASE session[s] # "on"
  BY <1>1, ToldResolved
<1>2. CASE session[s] = "on" /\ ServerHandle /\ (FindFirst(s) \/ FindSecond(s))
  BY <1>2, ToldFound
<1>3. CASE session[s] = "on" /\ ~(ServerHandle /\ (FindFirst(s) \/ FindSecond(s)))
  BY <1>3, ToldGoesOn DEF ToldInv
<1> QED
  BY <1>1, <1>2, <1>3

-----------------------------------------------------------------------------
(* The real client is an environment the server was built for, and what the  *)
(* server promises holds with it.                                            *)

\* The client that plays is the player it says it is.
LEMMA PlayerIsLocal ==
  ASSUME TypeOK, PlayersDistinguishable, NEW s \in Session, match[s] \in Match, Told(s, match[s])
  PROVE  clients[match[s]][LocalPlayer(s)] = s /\ LocalPlayer(s) \in {1, 2}
<1> DEFINE c == clients[match[s]]
<1>1. /\ c \in Seq(Session) /\ Len(c) = 2 /\ NameOf[c[1]] # NameOf[c[2]] /\ s \in ToSet(c)
  BY DEF TypeOK, PlayersDistinguishable, Told, Players
<1>2. s = c[1] \/ s = c[2]
  BY <1>1 DEF ToSet
<1>3. LocalPlayer(s) = IF NameOf[c[1]] = NameOf[s] THEN 1 ELSE 2
  BY DEF LocalPlayer
<1> QED
  BY <1>1, <1>2, <1>3

\* The invariant of the clients and the server together
ClientInv == ServerInv /\ ClientTypes /\ QuietInv /\ PlaceInv /\ ToldInv

\* A client asks for a match only when it plays none.
LEMMA SearchIsRequest ==
  ASSUME ClientInv, NEW s \in Session, EnterStart(s)
  PROVE  RequestFindMatch(s)
<1>1. /\ Shows(s, "connect") /\ startMatch[s] = "shown" /\ MatchesLeft
      /\ Post(s, FindMatch(s)) /\ session[s] = "on"
  BY DEF EnterStart, FindMatch, Post
<1>2. InPlace(s) /\ Informed(s)
  BY <1>1 DEF ClientInv, PlaceInv, Located, ToldInv
<1>3. ~Wanted(s)
  BY <1>1, <1>2 DEF InPlace
<1>4. ~Queued(FindMatch(s))
  <2>1. FindMatch(s) \in Asked(s)
    BY SearchFacts DEF Asked
  <2>2. events \in Seq(Event)
    BY DEF ClientInv, ServerInv, TypeOK
  <2> QED
    BY <1>3, <2>1, <2>2 DEF Wanted, Listed, Occurs, Queued, ToSet
<1>5. \A m \in Match : s \in Players(m) => m # awaiting /\ ~sending[m]
  BY <1>1, <1>2 DEF Informed, Engaged
<1> QED
  BY <1>1, <1>4, <1>5 DEF RequestFindMatch, FindMatch

\* A client subscribes to the match it plays, once.
LEMMA SubscriptionIsRequest ==
  ASSUME ClientInv, NEW s \in Session, OnMatchOid(s)
  PROVE  \E m \in Match : RequestSubscribe(s, m)
<1> DEFINE e == Head(inbox[s])
<1>0. ClientTypes /\ TypeOK
  BY DEF ClientInv, ServerInv
<1>1. Take(s, "matchOid") /\ e.m # NoMatch /\ Post(s, Subscribe(s, e.m))
  BY DEF OnMatchOid, Subscribe
<1>2. /\ session[s] = "on" /\ inbox[s] # <<>> /\ e \in MailTo(s) /\ e \in ToSet(inbox[s])
      /\ e.type = "matchOid"
  BY <1>0, <1>1, Taken, Inbox
<1>3. e.to \in SUBSET Session /\ e.m \in Match /\ e = OidEvent(e.to, e.m) /\ s \in e.to
  BY <1>1, <1>2, MailFields DEF MailTo
<1>4. Informed(s) /\ InPlace(s)
  BY <1>2 DEF ClientInv, ToldInv, PlaceInv, Located
<1>5. News(s, e.m)
  BY <1>2, <1>3 DEF News
<1>6. Told(s, e.m) /\ s \notin subscribers[e.m]
  BY <1>3, <1>4, <1>5 DEF Informed
<1>7. ~Queued(Subscribe(s, e.m))
  <2>1. e \in Search(s) /\ Subscribe(s, e.m) \in Search(s)
    BY <1>3, NewsOfMatch, SearchFacts
  <2>2. inbox[s] \in Seq(Mail) /\ events \in Seq(Event) /\ e = inbox[s][1]
    BY <1>0, <1>2 DEF TypeOK, ClientTypes
  <2>3. Occurs(inbox[s], Search(s))
    BY <1>2, <2>1, <2>2 DEF Occurs
  <2>4. ~Occurs(events, Search(s))
    BY <1>4, <2>3 DEF InPlace, Solo, Single
  <2> QED
    BY <2>1, <2>2, <2>4 DEF Occurs, Queued, ToSet
<1> QED
  BY <1>1, <1>3, <1>6, <1>7 DEF RequestSubscribe, Told, Subscribe

\* A client claims victory as the player it is.
LEMMA WinIsRequest ==
  ASSUME ClientInv, NEW s \in Session, SendWin(s)
  PROVE  \E m \in Match, msg \in Message : RequestSend(s, m, msg)
<1> DEFINE msg == [kind |-> "iWon", sender |-> LocalPlayer(s)]
<1>0. TypeOK /\ PlayersDistinguishable /\ ClientTypes
  BY DEF ClientInv, ServerInv, PairsInv
<1>1. /\ Shows(s, "battle") /\ session[s] = "on"
      /\ Len(queued[match[s]])
           + Len(SelectSeq(events, LAMBDA e : e.type = "sendMessage")) < MaxQueued
      /\ Post(s, [type |-> "sendMessage", s |-> s, m |-> match[s], msg |-> msg])
  BY DEF SendWin, Post
<1>2. InBattle(s)
  BY <1>0, <1>1 DEF Shows, Last, InBattle, ToSet, ClientTypes
<1>3. match[s] \in Match /\ Told(s, match[s]) /\ s \in subscribers[match[s]]
  BY <1>1, <1>2 DEF ClientInv, ToldInv, Informed
<1>4. clients[match[s]][LocalPlayer(s)] = s /\ LocalPlayer(s) \in {1, 2}
  BY <1>0, <1>3, PlayerIsLocal
<1>5. msg \in Message /\ msg.kind = "iWon" /\ msg.sender = LocalPlayer(s)
  BY <1>4 DEF Message
<1> HIDE DEF msg
<1>6. RequestSend(s, match[s], msg)
  BY <1>1, <1>3, <1>4, <1>5 DEF RequestSend
<1> QED
  BY <1>3, <1>5, <1>6

\* Every step of the clients and the server is one of the server and an
\* environment that keeps to what the server counts on.
LEMMA ClientStepIsServerStep ==
  ASSUME ClientInv, [ClientNext]_allVars
  PROVE  [Next]_vars
<1>1. CASE ServerHandle
  BY <1>1 DEF ServerHandle, Next, Server
<1>2. CASE \E m \in Match : Publish(m)
  BY <1>2 DEF Publish, Next, Server
<1>3. ASSUME NEW s \in Session, Logon(s) \/ ConnectionLost(s) PROVE Next
  BY <1>3 DEF Logon, ConnectionLost, Next, Environment
<1>4. ASSUME NEW s \in Session, EnterStart(s) PROVE Next
  BY <1>4, SearchIsRequest DEF Next, Environment
<1>5. ASSUME NEW s \in Session, OnMatchOid(s) PROVE Next
  BY <1>5, SubscriptionIsRequest DEF Next, Environment
<1>6. ASSUME NEW s \in Session, SendWin(s) PROVE Next
  BY <1>6, WinIsRequest DEF Next, Environment
<1>7. CASE UNCHANGED vars
  BY <1>7
<1> QED
  BY <1>1, <1>2, <1>3, <1>4, <1>5, <1>6, <1>7, Zenon
  DEF ClientNext, Receive, LogonRefused, TryAgain, OnDidLogon, OnLeftMatch, OnMatchSubscribe,
      OnMatchSubscribeFail, OnMessages, ProcessTicks, allVars

\* At the start nobody is anywhere.
LEMMA ClientBegins == ClientInit => ClientInv
<1> SUFFICES ASSUME ClientInit PROVE ClientInv
  OBVIOUS
<1>1. ServerInv
  BY ServerBegins DEF ClientInit
<1>2. /\ inbox = [s \in Session |-> <<>>] /\ modes = [s \in Session |-> <<"connect">>]
      /\ startMatch = [s \in Session |-> "none"] /\ match = [s \in Session |-> NoMatch]
      /\ ticks = [s \in Session |-> <<>>] /\ newGameCondition = [s \in Session |-> "INITIAL"]
  BY DEF ClientInit
<1>3. /\ events = <<>> /\ session = [s \in Session |-> "off"] /\ awaiting = NoMatch
      /\ queued = [m \in Match |-> <<>>]
  BY DEF ClientInit, Init
<1>e. ToSet(<<>>) = {}
  BY DEF ToSet
<1>4. ClientTypes
  <2>1. <<"connect">> \in Seq(Mode)
    BY DEF Mode
  <2>2. \A S : <<>> \in Seq(S)
    OBVIOUS
  <2> QED
    BY <1>2, <2>1, <2>2 DEF ClientTypes, Condition
<1>5. QuietInv
  BY <1>2, <1>3, <1>e DEF QuietInv, Around
<1>6. \A s \in Session : /\ Solo(s) /\ ~Sought(s) /\ ~Wanted(s)
  BY <1>2, <1>3 DEF Solo, Single, Once, Sought, Wanted, Listed, Occurs
<1>7. \A s \in Session : ~Waits(s)
  BY <1>3, NoMatchAssumption DEF Waits
<1>8. PlaceInv
  BY <1>2, <1>3, <1>6, <1>7 DEF PlaceInv, Located, InPlace, Screens
<1>9. ToldInv
  BY <1>3 DEF ToldInv
<1> QED
  BY <1>1, <1>4, <1>5, <1>8, <1>9 DEF ClientInv

\* Every step keeps the invariant.
LEMMA ClientStep == ClientInv /\ [ClientNext]_allVars => ClientInv'
<1> SUFFICES ASSUME ClientInv, [ClientNext]_allVars PROVE ClientInv'
  OBVIOUS
<1>1. ServerInv /\ TypeOK /\ ClientTypes /\ QuietInv /\ PlaceInv /\ ToldInv
  BY DEF ClientInv, ServerInv
<1>2. ServerInv'
  BY <1>1, ClientStepIsServerStep, ServerStep
<1>3. ClientTypes'
  BY <1>1, ClientTypesStep
<1>4. QuietInv'
  BY <1>1, QuietStep
<1>5. PlaceInv'
  BY <1>1, PlaceStep
<1>6. ToldInv'
  BY <1>1, ToldStep
<1> QED
  BY <1>2, <1>3, <1>4, <1>5, <1>6 DEF ClientInv

\* It holds in every state the clients and the server get to.
LEMMA ClientInvariant == ClientSpec => []ClientInv
<1> QED
  BY ClientBegins, ClientStep, PTL DEF ClientSpec

\* The clients of the source, put together with the server, behave as sessions
\* the server was modelled with: everything proved of the server holds in the
\* complete system.
THEOREM ClientImplementsServer == ClientSpec => ImplementsServer
<1>1. ClientInit => Init
  BY DEF ClientInit
<1>2. ClientInv /\ [ClientNext]_allVars => [Next]_vars
  BY ClientStepIsServerStep
<1> QED
  BY <1>1, <1>2, ClientInvariant, PTL DEF ClientSpec, Spec, ImplementsServer

\* What has been proved of the server among any clients that use it as it counts on
\* holds among the clients of the source (AztecMatchmaker, AztecMatchManager).
THEOREM ServerKeepsItsPromises ==
  ClientSpec => /\ [](/\ WaitingMatchOffered /\ WaitingPlayerPresent /\ LossNoticed
                      /\ PlayersDistinguishable /\ PlayersPointAtMatch)
                /\ ClosedByFinalBatch
                /\ ImplementsMatchmaking
BY ClientImplementsServer, WaitingMatchIsOffered, WaitingPlayerIsPresent, LossIsNoticed,
   PlayersAreDistinguishable, PlayersPointAtTheirMatch, ClosedByAFinalBatch,
   ServerImplementsMatchmaking, PTL DEF ImplementsServer

\* The type invariant of clients and server
THEOREM ClientTypeCorrect == ClientSpec => []ClientTypeOK
<1>1. ClientInv => ClientTypeOK
  BY TypesHold DEF ClientInv, ServerInv
<1> QED
  BY <1>1, ClientInvariant, PTL

-----------------------------------------------------------------------------
(* What clients and server promise together *)

\* A client that shows "Searching for opponent" is known to the server, whatever
\* the order of answers, subscriptions and losses.
THEOREM SearchersHaveAFuture == ClientSpec => []SearchHasFuture
<1>1. ASSUME ClientInv PROVE SearchHasFuture
  <2> SUFFICES ASSUME NEW s \in Session, session[s] = "on", startMatch[s] = "entered"
               PROVE
    \/ Queued(FindMatch(s))
    \/ awaiting # NoMatch /\ s \in Players(awaiting) /\ ~Closing(awaiting)
    \/ \E i \in 1..Len(events) :
         /\ events[i].type \in {"matchOid", "subscribe"} /\ events[i].m # NoMatch
         /\ IF events[i].type = "matchOid" THEN s \in events[i].to ELSE s = events[i].s
    \/ \E i \in 1..Len(inbox[s]) :
         \/ inbox[s][i].type \in {"subscribed", "subscribeFailed"}
         \/ inbox[s][i].type = "matchOid" /\ inbox[s][i].m # NoMatch
    BY DEF SearchHasFuture, FindMatch
  <2>0. /\ TypeOK /\ ClientTypes /\ OfferedInv /\ EndedUnstarted
        /\ events \in Seq(Event) /\ inbox[s] \in Seq(Mail)
    BY <1>1 DEF ClientInv, ServerInv, LossInv, TypeOK, ClientTypes
  <2>1. Wanted(s) \/ Waits(s)
    BY <1>1 DEF ClientInv, PlaceInv, Located, InPlace
  <2>2. CASE Waits(s)
    <3>1. awaiting \in Match /\ s \in Players(awaiting) /\ ~matchStarted[awaiting]
      BY <2>0, <2>2, NoMatchAssumption DEF Waits, OfferedInv, WaitingMatchOffered
    <3>2. ~Closing(awaiting)
      BY <2>0, <3>1 DEF EndedUnstarted
    <3> QED
      BY <3>1, <3>2, NoMatchAssumption
  <2>3. CASE Occurs(events, Asked(s))
    <3>1. PICK i \in 1..Len(events) : events[i] \in Asked(s)
      BY <2>3 DEF Occurs
    <3>2. events[i] \in Event /\ events[i] \in ToSet(events)
      BY <2>0 DEF ToSet
    <3> DEFINE e == events[i]
    <3>3. e \in Event /\ e \in ToSet(events) /\ e \in Search(s) /\ e # Resolve(s)
      BY <3>1, <3>2 DEF Asked
    <3> HIDE DEF e
    <3>4. \/ e = FindMatch(s)
          \/ e.type = "subscribe" /\ e.s = s /\ e.m \in Match
          \/ e.type = "matchOid" /\ e.m # NoMatch /\ s \in e.to
      BY <3>3, EventFields DEF Search
    <3> QED
      BY <3>3, <3>4, NoMatchAssumption DEF Queued, e
  <2>4. CASE Occurs(inbox[s], Asked(s))
    <3>1. PICK i \in 1..Len(inbox[s]) : inbox[s][i] \in Asked(s)
      BY <2>4 DEF Occurs
    <3> DEFINE e == inbox[s][i]
    <3>2. e \in Mail /\ e \in Search(s) /\ e # Resolve(s)
      BY <2>0, <3>1 DEF Asked
    <3> HIDE DEF e
    <3>3. e.type \in {"subscribed", "subscribeFailed"} \/ (e.type = "matchOid" /\ e.m # NoMatch)
      BY <3>2, MailFields DEF Search
    <3> QED
      BY <3>3 DEF e
  <2> QED
    BY <2>1, <2>2, <2>3, <2>4 DEF Wanted, Listed
<1> QED
  BY <1>1, ClientInvariant, PTL

\* A client leaves a battle by the ticks of its own match.
LEMMA BattleLeft ==
  ASSUME ClientInv, [ClientNext]_allVars, NEW s \in Session, InBattle(s), ~InBattle(s)'
  PROVE  /\ ProcessTicks(s) /\ session[s] = "on"
         /\ \E b \in ToSet(ticks[s]) : Ends(b)
<1>0. ClientTypes /\ modes[s] \in Seq(Mode) /\ PlaceInv
  BY DEF ClientInv, ClientTypes
<1>1. ASSUME NEW t \in Session, NEW mode \in Mode, Push(t, mode) PROVE FALSE
  <2>1. modes'[s] = modes[s] \/ modes'[s] = Append(modes[s], mode)
    BY <1>0, <1>1, PushTypes
  <2>2. ToSet(Append(modes[s], mode)) = ToSet(modes[s]) \cup {mode}
    BY <1>0, ToSetAppend
  <2> QED
    BY <2>1, <2>2 DEF InBattle
<1>2. ASSUME NEW t \in Session, TryAgain(t) PROVE FALSE
  <2>1. Shows(t, "failure") /\ session[t] = "on" /\ modes' = [modes EXCEPT ![t] = <<>>]
    BY <1>2 DEF TryAgain
  <2>2. modes[t] \in Screens /\ modes[t] # <<>> /\ Last(modes[t]) = "failure"
    BY <1>0, <2>1 DEF Shows, PlaceInv, Located, InPlace
  <2>3. Last(<<"connect">>) = "connect" /\ Last(<<"connect", "battle">>) = "battle"
    BY DEF Last
  <2>4. modes[t] = <<"connect", "failure">>
    BY <2>2, <2>3 DEF Screens
  <2>5. ~InBattle(t)
    BY <2>4 DEF InBattle, ToSet
  <2>6. s # t
    BY <2>5
  <2> QED
    BY <1>0, <2>1, <2>6 DEF InBattle, ClientTypes
<1>3. ASSUME NEW t \in Session, ProcessTicks(t)
      PROVE  /\ ProcessTicks(s) /\ session[s] = "on"
             /\ \E b \in ToSet(ticks[s]) : Ends(b)
  <2>1. PICK left \in Nat :
           /\ left <= Len(modes[t])
           /\ Finals(ticks[t]) = {} => left = Len(modes[t])
           /\ modes' = [modes EXCEPT ![t] = SubSeq(@, 1, left)]
    BY <1>0, <1>3, ProcessTypes
  <2>2. CASE s # t
    BY <1>0, <2>1, <2>2 DEF InBattle, ClientTypes
  <2>3. CASE s = t
    <3>1. Finals(ticks[s]) # {}
      <4> SUFFICES ASSUME Finals(ticks[s]) = {} PROVE FALSE
        OBVIOUS
      <4>1. modes'[s] = SubSeq(modes[s], 1, Len(modes[s]))
        BY <1>0, <2>1, <2>3 DEF ClientTypes
      <4>2. modes'[s] = modes[s]
        BY <1>0, <4>1
      <4> QED
        BY <4>2 DEF InBattle
    <3>2. ticks[s] \in Seq(Seq(Message))
      BY <1>0 DEF ClientTypes
    <3> QED
      BY <1>3, <2>3, <3>1, <3>2, FinalsAre DEF ProcessTicks
  <2> QED
    BY <2>2, <2>3
<1>4. CASE UNCHANGED modes
  BY <1>4 DEF InBattle
<1>5. \A t \in Session : /\ LogonRefused(t) \/ OnMatchSubscribeFail(t) => Push(t, "failure")
                         /\ OnMatchSubscribe(t) => Push(t, "battle")
                         /\ ConnectionLost(t) => Push(t, "failure") \/ UNCHANGED modes
  BY DEF LogonRefused, OnMatchSubscribeFail, OnMatchSubscribe, ConnectionLost
<1>6. "failure" \in Mode /\ "battle" \in Mode
  BY DEF Mode
<1> QED
  BY <1>1, <1>2, <1>3, <1>4, <1>5, <1>6, Zenon
  DEF ClientNext, Receive, ServerHandle, Publish, Logon, SendWin, EnterStart,
      OnDidLogon, OnLeftMatch, OnMatchOid, OnMessages, allVars, clientVars

\* No battle is ended by what is left of another match.
THEOREM NoEndIsStray == ClientSpec => NoStrayEnd
<1>1. ASSUME ClientInv, [ClientNext]_allVars, NEW s \in Session, InBattle(s), ~InBattle(s)'
      PROVE  Closing(match[s]) \/ mobj[match[s]] = "destroyed"
  <2>1. PICK b \in ToSet(ticks[s]) : Ends(b) /\ session[s] = "on"
    BY <1>1, BattleLeft
  <2>2. match[s] \in Match /\ Around(match[s], b)
    BY <1>1, <2>1 DEF ClientInv, ToldInv, Informed, Around
  <2>3. ~sending[match[s]] /\ matchStarted[match[s]]
    BY <1>1, <2>1, <2>2 DEF ClientInv, QuietInv
  <2>4. mobj[match[s]] \in {"live", "destroyed"}
    BY <1>1, <2>2, <2>3 DEF ClientInv, ServerInv, OfferedInv, TypeOK
  <2> QED
    BY <1>1, <2>2, <2>3, <2>4 DEF ClientInv, ServerInv, LossInv, PlayKeepsTimer
<1>2. ClientInv /\ [ClientNext]_allVars =>
        [\A s \in Session : InBattle(s) /\ ~InBattle(s)' =>
           Closing(match[s]) \/ mobj[match[s]] = "destroyed"]_allVars
  BY <1>1
<1> QED
  BY <1>2, ClientInvariant, PTL DEF ClientSpec, NoStrayEnd

-----------------------------------------------------------------------------
(* The end of a battle.  What decides whether it reaches a client is the     *)
(* order of three events: the subscription, the batch that ends the battle,  *)
(* and the destruction of the match.                                         *)

\* What is ahead of what when the first entry goes or another one comes
LEMMA AheadMore ==
  ASSUME NEW S, NEW q \in Seq(S), NEW x \in S
  PROVE  /\ \A e, f : Ahead(q, e, f) => Ahead(Append(q, x), e, f)
         /\ \A e \in ToSet(q) : Ahead(Append(q, x), e, x)
         /\ \A e, f : Ahead(Append(q, x), e, f) => Ahead(q, e, f) \/ (e \in ToSet(q) /\ f = x)
<1> DEFINE r == Append(q, x)
<1>1. /\ r \in Seq(S) /\ Len(q) \in Nat /\ Len(r) = Len(q) + 1 /\ r[Len(q) + 1] = x
      /\ \A i \in 1..Len(q) : r[i] = q[i]
  BY AppendProperties, LenProperties
<1> HIDE DEF r
<1>2. ASSUME NEW e, NEW f, Ahead(q, e, f) PROVE Ahead(r, e, f)
  <2>1. PICK i, j \in 1..Len(q) : i < j /\ q[i] = e /\ q[j] = f
    BY <1>2 DEF Ahead
  <2>2. i \in 1..Len(r) /\ j \in 1..Len(r) /\ r[i] = e /\ r[j] = f
    BY <1>1, <2>1
  <2> QED
    BY <2>1, <2>2 DEF Ahead
<1>3. ASSUME NEW e \in ToSet(q) PROVE Ahead(r, e, x)
  <2>1. PICK i \in 1..Len(q) : q[i] = e
    BY DEF ToSet
  <2>2. /\ i \in 1..Len(r) /\ Len(r) \in 1..Len(r) /\ i < Len(r)
        /\ r[i] = e /\ r[Len(r)] = x
    BY <1>1, <2>1
  <2> QED
    BY <2>2 DEF Ahead
<1>4. ASSUME NEW e, NEW f, Ahead(r, e, f)
      PROVE  Ahead(q, e, f) \/ (e \in ToSet(q) /\ f = x)
  <2>1. PICK i, j \in 1..Len(r) : i < j /\ r[i] = e /\ r[j] = f
    BY <1>4 DEF Ahead
  <2>2. i \in 1..Len(q) /\ q[i] = e
    BY <1>1, <2>1
  <2>3. CASE j = Len(r)
    BY <1>1, <2>1, <2>2, <2>3 DEF ToSet
  <2>4. CASE j # Len(r)
    <3>1. j \in 1..Len(q) /\ q[j] = f
      BY <1>1, <2>1, <2>4
    <3> QED
      BY <2>1, <2>2, <3>1 DEF Ahead
  <2> QED
    BY <2>3, <2>4
<1> QED
  BY <1>2, <1>3, <1>4 DEF r

\* The queue r is q with entries of F put behind it, whatever they are.
Continues(q, r, F) ==
  /\ r \in Seq(Event)
  /\ ToSet(q) \subseteq ToSet(r)
  /\ \A e \in ToSet(r) : e \in ToSet(q) \/ e \in F
  /\ \A e, f : Ahead(q, e, f) => Ahead(r, e, f)
  /\ \A e \in ToSet(q), f \in ToSet(r) : f \notin ToSet(q) => Ahead(r, e, f)
  /\ \A e, f : Ahead(r, e, f) => Ahead(q, e, f) \/ (e \in ToSet(r) /\ f \in F)

\* A queue continues itself,
LEMMA ContinuesSelf == ASSUME NEW q \in Seq(Event), NEW F PROVE Continues(q, q, F)
BY DEF Continues

\* and so does one with an entry of F behind it.
LEMMA ContinuesAppend ==
  ASSUME NEW q \in Seq(Event), NEW F, NEW x \in Event, x \in F
  PROVE  Continues(q, Append(q, x), F)
<1> DEFINE r == Append(q, x)
<1>1. /\ r \in Seq(Event) /\ ToSet(r) = ToSet(q) \cup {x}
      /\ \A e, f : Ahead(q, e, f) => Ahead(r, e, f)
      /\ \A e \in ToSet(q) : Ahead(r, e, x)
      /\ \A e, f : Ahead(r, e, f) => Ahead(q, e, f) \/ (e \in ToSet(q) /\ f = x)
  BY AheadMore, ToSetAppend, AppendProperties
<1> HIDE DEF r
<1>2. Continues(q, r, F)
  BY <1>1 DEF Continues
<1> QED
  BY <1>2 DEF r

\* What continues a continuation continues the queue.
LEMMA ContinuesTransitive ==
  ASSUME NEW q, NEW r, NEW t, NEW F, Continues(q, r, F), Continues(r, t, F)
  PROVE  Continues(q, t, F)
<1>1. t \in Seq(Event) /\ ToSet(q) \subseteq ToSet(t) /\ ToSet(r) \subseteq ToSet(t)
  BY DEF Continues
<1>2. \A e \in ToSet(t) : e \in ToSet(q) \/ e \in F
  BY DEF Continues
<1>3. \A e, f : Ahead(q, e, f) => Ahead(t, e, f)
  BY DEF Continues
<1>4. ASSUME NEW e \in ToSet(q), NEW f \in ToSet(t), f \notin ToSet(q) PROVE Ahead(t, e, f)
  BY <1>4 DEF Continues
<1>5. ASSUME NEW e, NEW f, Ahead(t, e, f)
      PROVE  Ahead(q, e, f) \/ (e \in ToSet(t) /\ f \in F)
  BY <1>1, <1>5 DEF Continues
<1> QED
  BY <1>1, <1>2, <1>3, <1>4, <1>5 DEF Continues

\* What this step posts
NewEvents == {e \in Event : NewEvent(e)}

\* A match that shuts down posts behind what is queued,
LEMMA ShutdownContinues ==
  ASSUME TypeOK, NEW m \in Match, NEW active, NEW posted \in Seq(Event),
         Shutdown(m, active, posted)
  PROVE  Continues(posted, events', NewEvents)
<1> DEFINE oid == OidEvent(Players(m) \cap active, NoMatch)
           told == Append(posted, oid)
<1>1. oid \in Event /\ oid \in NewEvents
  <2>1. oid \in Event
    BY PlayersType, EventTypes
  <2>2. oid.type = "matchOid" /\ oid.m = NoMatch
    BY DEF OidEvent
  <2> QED
    BY <2>1, <2>2 DEF NewEvents, NewEvent
<1>2. Destroyed(m) \in Event /\ Destroyed(m) \in NewEvents
  <2>1. Destroyed(m) \in Event
    BY EventTypes
  <2>2. Destroyed(m).type = "matchDestroyed"
    BY DEF Destroyed
  <2> QED
    BY <2>1, <2>2 DEF NewEvents, NewEvent
<1>3. events' = IF mobj[m] = "live" THEN Append(told, Destroyed(m)) ELSE told
  BY DEF Shutdown
<1> HIDE DEF oid
<1>4. told \in Seq(Event) /\ Continues(posted, told, NewEvents)
  BY <1>1, ContinuesAppend, AppendProperties
<1> HIDE DEF told
<1>5. Continues(told, Append(told, Destroyed(m)), NewEvents)
  BY <1>2, <1>4, ContinuesAppend
<1> QED
  BY <1>3, <1>4, <1>5, ContinuesTransitive

\* and so do the handlers of the server,
LEMMA HandleContinues ==
  ASSUME TypeOK, ClientTypes, ServerHandle
  PROVE  Tail(events) \in Seq(Event) /\ Continues(Tail(events), events', NewEvents)
<1>1. Tail(events) \in Seq(Event)
  BY Delivery
<1>2. \/ events' = Tail(events)
      \/ \E m \in Match : \E active : Shutdown(m, active, Tail(events))
      \/ \E t \in Session : FindSecond(t)
  BY DEF ServerHandle, Handle, HandleResolve, FindFirst, AddFirst, HandleClientDestroyed,
     HandleSubscribe, HandleSend, HandleMatchDestroyed, HandleNotice
<1>3. ASSUME NEW t \in Session, FindSecond(t) PROVE Continues(Tail(events), events', NewEvents)
  <2> DEFINE oid == OidEvent(Players(awaiting) \cup {t}, awaiting)
  <2>1. awaiting \in Match /\ events' = Append(Tail(events), oid)
    BY <1>3 DEF FindSecond, AddSecond, TypeOK
  <2>2. oid \in Event
    BY <2>1, PlayersType, EventTypes
  <2>3. oid \in NewEvents
    BY <1>3, <2>2 DEF NewEvents, NewEvent
  <2> HIDE DEF oid
  <2> QED
    BY <1>1, <2>1, <2>2, <2>3, ContinuesAppend
<1> QED
  BY <1>1, <1>2, <1>3, ShutdownContinues, ContinuesSelf

\* the intervals,
LEMMA PublishContinues ==
  ASSUME TypeOK, NEW m \in Match, Publish(m)
  PROVE  Continues(events, events', NewEvents)
<1> DEFINE posted == IF mobj[m] = "live" THEN Append(events, Batch(m, queued[m])) ELSE events
<1>0. events \in Seq(Event) /\ Batch(m, queued[m]) \in Event
  BY EventTypes DEF TypeOK, Batch
<1>1. posted \in Seq(Event) /\ Continues(events, posted, NewEvents)
  <2>1. CASE mobj[m] = "live"
    <3>1. Batch(m, queued[m]) \in NewEvents
      BY <1>0, <2>1 DEF NewEvents, NewEvent
    <3> QED
      BY <1>0, <2>1, <3>1, ContinuesAppend, AppendProperties
  <2>2. CASE mobj[m] # "live"
    BY <1>0, <2>2, ContinuesSelf
  <2> QED
    BY <2>1, <2>2
<1>2. \/ Shutdown(m, {t \in Session : Active(t)}, posted)
      \/ events' = posted
  BY DEF Publish, SendMessages, Batch
<1> HIDE DEF posted
<1> QED
  BY <1>1, <1>2, ShutdownContinues, ContinuesTransitive

\* and the clients.
LEMMA OthersContinue ==
  ASSUME ClientInv, [ClientNext]_allVars, ~ServerHandle
  PROVE  Continues(events, events', NewEvents)
<1>0. events \in Seq(Event) /\ TypeOK /\ ClientTypes
  BY DEF TypeOK, ClientInv, ServerInv
<1>1. CASE events' = events
  BY <1>0, <1>1, ContinuesSelf
<1>2. ASSUME NEW x \in Event, NewEvent(x), events' = Append(events, x)
      PROVE  Continues(events, events', NewEvents)
  BY <1>0, <1>2, ContinuesAppend DEF NewEvents
<1>3. ASSUME NEW s \in Session, Logon(s) \/ ConnectionLost(s) \/ EnterStart(s)
      PROVE  Continues(events, events', NewEvents)
  <2>1. \E x \in {Resolve(s), ClientDestroyed(s), FindMatch(s)} : events' = Append(events, x)
    BY <1>3 DEF Logon, ConnectionLost, EnterStart, Authenticate, ConnectionClosed, Post,
                Resolve, ClientDestroyed, FindMatch
  <2>2. PICK x \in {Resolve(s), ClientDestroyed(s), FindMatch(s)} : events' = Append(events, x)
    BY <2>1
  <2>3. x \in Event
    BY EventTypes DEF Resolve, ClientDestroyed, FindMatch
  <2>4. x.type \in {"resolve", "clientDestroyed", "findMatch"}
    BY DEF Resolve, ClientDestroyed, FindMatch
  <2> QED
    BY <1>2, <2>2, <2>3, <2>4 DEF NewEvent
<1>4. ASSUME NEW s \in Session, OnMatchOid(s) PROVE Continues(events, events', NewEvents)
  <2> DEFINE x == Subscribe(s, Head(inbox[s]).m)
  <2>1. Take(s, "matchOid") /\ Head(inbox[s]).m # NoMatch /\ events' = Append(events, x)
    BY <1>4 DEF OnMatchOid, Post, Subscribe
  <2>2. Head(inbox[s]) \in Mail /\ Head(inbox[s]).type = "matchOid"
    BY <1>0, <2>1, Taken, Inbox
  <2>3. Head(inbox[s]).m \in Match
    BY <2>1, <2>2, MailFields
  <2>4. x \in Event /\ NewEvent(x)
    BY <1>4, <2>3, EventTypes DEF Subscribe, NewEvent
  <2> HIDE DEF x
  <2> QED
    BY <1>2, <2>1, <2>4
<1>5. ASSUME NEW s \in Session, SendWin(s) PROVE Continues(events, events', NewEvents)
  <2> DEFINE x == [type |-> "sendMessage", s |-> s, m |-> match[s],
                   msg |-> [kind |-> "iWon", sender |-> LocalPlayer(s)]]
  <2>1. events' = Append(events, x)
    BY <1>5 DEF SendWin, Post
  <2>2. NewEvent(x)
    BY <1>5 DEF NewEvent
  <2>3. x \in Event
    <3>1. events' \in Seq(Event)
      BY <1>0, ClientStepIsServerStep, TypeStep DEF TypeOK
    <3>2. /\ Len(events') = Len(events) + 1 /\ Len(events) \in Nat
          /\ events'[Len(events) + 1] = x
      BY <1>0, <2>1, LenProperties DEF x
    <3> HIDE DEF x
    <3> QED
      BY <3>1, <3>2, ElementOfSeq
  <2> HIDE DEF x
  <2> QED
    BY <1>2, <2>1, <2>2, <2>3
<1>6. ASSUME NEW s \in Session,
             \/ LogonRefused(s) \/ TryAgain(s) \/ ProcessTicks(s) \/ OnDidLogon(s)
             \/ OnLeftMatch(s) \/ OnMatchSubscribe(s) \/ OnMatchSubscribeFail(s) \/ OnMessages(s)
      PROVE  events' = events
  BY <1>6 DEF LogonRefused, TryAgain, ProcessTicks, OnDidLogon, OnLeftMatch, OnMatchSubscribe,
     OnMatchSubscribeFail, OnMessages, vars
<1>7. CASE UNCHANGED allVars
  BY <1>1, <1>7 DEF allVars, vars
<1> QED
  BY <1>0, <1>1, <1>3, <1>4, <1>5, <1>6, <1>7, PublishContinues, Zenon DEF ClientNext, Receive

\* A batch that ends the battle of m is queued, and what comes first is not the
\* destruction of m.
Coming(m) ==
  \E b : /\ Ends(b) /\ Queued(Batch(m, b))
         /\ ~Ahead(events, Destroyed(m), Batch(m, b))

\* It is not ahead of the subscription of s either.
InTime(s, m) ==
  \E b : /\ Ends(b) /\ Queued(Batch(m, b))
         /\ ~Ahead(events, Destroyed(m), Batch(m, b))
         /\ ~Ahead(events, Batch(m, b), Subscribe(s, m))

\* A subscription to a match that is closing is either in time for its last batch
\* or is going to fail.
Fate(s, m) ==
  Queued(Subscribe(s, m)) /\ mobj[m] = "live" /\ Closing(m) =>
    InTime(s, m) \/ Ahead(events, Destroyed(m), Subscribe(s, m))

FateInv == \A s \in Session : session[s] = "on" => \A m \in Match : Fate(s, m)

\* The records of these three events differ.
LEMMA ThreeEvents ==
  ASSUME NEW s, NEW m, NEW b, NEW ss, NEW n
  PROVE  /\ Batch(m, b) # Destroyed(m) /\ Batch(m, b) # Subscribe(s, m)
         /\ Destroyed(m) # Subscribe(s, m)
         /\ OidEvent(ss, n) # Batch(m, b) /\ OidEvent(ss, n) # Destroyed(m)
         /\ OidEvent(ss, n) # Subscribe(s, m)
<1>1. /\ Batch(m, b).type = "messages" /\ Destroyed(m).type = "matchDestroyed"
      /\ Subscribe(s, m).type = "subscribe" /\ OidEvent(ss, n).type = "matchOid"
  BY DEF Batch, Destroyed, Subscribe, OidEvent
<1> QED
  BY <1>1

\* The last batch keeps its place until it is sent.
LEMMA BatchStays ==
  ASSUME ClientInv, [ClientNext]_allVars, NEW m \in Match, NEW b, Ends(b), Queued(Batch(m, b)),
         ~Ahead(events, Destroyed(m), Batch(m, b))
  PROVE  /\ ~Ahead(events', Destroyed(m), Batch(m, b))
         /\ Queued(Batch(m, b))' \/ (ServerHandle /\ Head(events) = Batch(m, b))
<1> DEFINE B == Batch(m, b)
<1>0. TypeOK /\ ClientTypes /\ events \in Seq(Event)
  BY DEF ClientInv, ServerInv, TypeOK
<1>1. B.type = "messages" /\ B.m = m
  BY DEF Batch
<1>2. ~sending[m]
  BY DEF ClientInv, QuietInv, Around, Queued
<1>3. B \in ToSet(events) /\ ~Ahead(events, Destroyed(m), B)
  BY DEF Queued
<1> HIDE DEF B
<1>4. B \notin NewEvents
  <2> SUFFICES ASSUME NewEvent(B) PROVE FALSE
    BY DEF NewEvents
  <2>1. PICK n \in Match : Publish(n) /\ B = Batch(n, queued[n])
    BY <1>1 DEF NewEvent, OidEvent, Subscribe
  <2>2. n = m
    BY <1>1, <2>1 DEF Batch
  <2> QED
    BY <1>2, <2>1, <2>2 DEF Publish, SendMessages
<1>5. CASE ServerHandle
  <2>1. events # <<>> /\ Continues(Tail(events), events', NewEvents)
    BY <1>0, <1>5, Delivery, HandleContinues
  <2>2. ~Ahead(Tail(events), Destroyed(m), B)
    BY <1>0, <1>3, <2>1, AheadTail
  <2>3. B = Head(events) \/ B \in ToSet(Tail(events))
    BY <1>0, <1>3, <2>1, ToSetTail
  <2> QED
    BY <1>4, <1>5, <2>1, <2>2, <2>3 DEF Continues, Queued, B
<1>6. CASE ~ServerHandle
  <2>1. Continues(events, events', NewEvents)
    BY <1>6, OthersContinue
  <2> QED
    BY <1>3, <1>4, <2>1 DEF Continues, Queued, B
<1> QED
  BY <1>5, <1>6

\* A match in play is closed by the run of its interval that publishes the last
\* batch, behind it.
LEMMA LastBatch ==
  ASSUME ClientInv, [ClientNext]_allVars, NEW m \in Match, matchStarted[m], ~Closing(m), Closing(m)'
  PROVE  /\ Coming(m)' /\ mobj[m] = "live" /\ mobj' = mobj
         /\ \A s \in Session : InTime(s, m)'
<1> DEFINE B == Batch(m, queued[m])
           posted == Append(events, B)
<1>0. /\ TypeOK /\ FinalInv /\ events \in Seq(Event) /\ QuietInv
  BY DEF ClientInv, ServerInv, TypeOK
<1>1. SendMessages(m)
  BY <1>0, ClientStepIsServerStep, ClosedByOthers
<1>b. B \in Event /\ queued[m] \in Seq(Message)
  BY <1>0, EventTypes DEF TypeOK, Batch
<1>2. Ending(m) /\ mobj[m] = "live" /\ sending[m] /\ mobj' = mobj
  <2>1. sending[m] /\ mobj' = mobj
    BY <1>1 DEF SendMessages
  <2>2. CASE ~Ending(m)
    <3>1. events' = posted \/ events' = events
      BY <1>1, <2>2 DEF SendMessages, Ending, Batch
    <3>2. ToSet(posted) = ToSet(events) \cup {B}
      BY <1>0, <1>b, ToSetAppend
    <3>3. B # Destroyed(m)
      BY ThreeEvents
    <3> HIDE DEF B, posted
    <3> QED
      BY <3>1, <3>2, <3>3 DEF Closing, Queued
  <2>3. CASE Ending(m) /\ mobj[m] # "live"
    <3>1. events' = Append(events, OidEvent(Players(m) \cap {t \in Session : Active(t)}, NoMatch))
      BY <1>1, <2>3 DEF SendMessages, Shutdown, Ending
    <3>2. OidEvent(Players(m) \cap {t \in Session : Active(t)}, NoMatch) \in Event
      BY EventTypes
    <3>3. OidEvent(Players(m) \cap {t \in Session : Active(t)}, NoMatch) # Destroyed(m)
      BY ThreeEvents
    <3> QED
      BY <1>0, <3>1, <3>2, <3>3, ToSetAppend DEF Closing, Queued
  <2> QED
    BY <2>1, <2>2, <2>3
<1> DEFINE O == OidEvent(Players(m) \cap {t \in Session : Active(t)}, NoMatch)
           told == Append(posted, O)
<1>3. events' = Append(told, Destroyed(m))
  BY <1>1, <1>2 DEF SendMessages, Shutdown, Ending, Batch
<1>4. O \in Event /\ Destroyed(m) \in Event
  BY EventTypes
<1>5. Ends(queued[m])
  <2>1. PICK msg \in ToSet(queued[m]) : Final(msg)
    BY <1>0, <1>2 DEF FinalInv, FinalQueued
  <2> QED
    BY <2>1 DEF Ends, ToSet
<1>6. /\ B # Destroyed(m) /\ O # B /\ O # Destroyed(m)
      /\ \A s \in Session : /\ B # Subscribe(s, m) /\ Destroyed(m) # Subscribe(s, m)
                            /\ O # Subscribe(s, m)
  BY ThreeEvents
<1>7. B \notin ToSet(events) /\ Destroyed(m) \notin ToSet(events)
  BY <1>0, <1>2, <1>5 DEF QuietInv, Around, Closing, Queued
<1> HIDE DEF B, O
<1>8. /\ posted \in Seq(Event) /\ ToSet(posted) = ToSet(events) \cup {B}
      /\ \A e, f : Ahead(posted, e, f) => Ahead(events, e, f) \/ (e \in ToSet(events) /\ f = B)
  BY <1>0, <1>b, ToSetAppend, AheadMore, AppendProperties
<1> HIDE DEF posted
<1>9. /\ told \in Seq(Event) /\ ToSet(told) = ToSet(posted) \cup {O}
      /\ \A e, f : Ahead(told, e, f) => Ahead(posted, e, f) \/ (e \in ToSet(posted) /\ f = O)
  BY <1>4, <1>8, ToSetAppend, AheadMore, AppendProperties
<1> HIDE DEF told
<1>10. /\ ToSet(events') = ToSet(told) \cup {Destroyed(m)}
       /\ \A e, f : Ahead(events', e, f) =>
            Ahead(told, e, f) \/ (e \in ToSet(told) /\ f = Destroyed(m))
  BY <1>3, <1>4, <1>9, ToSetAppend, AheadMore
<1>11. \A e, f : Ahead(events, e, f) => e \in ToSet(events)
  BY <1>0, AheadQueued
<1>12. ~Ahead(events', Destroyed(m), B)
  BY <1>6, <1>7, <1>8, <1>9, <1>10, <1>11
<1>13. \A s \in Session : ~Ahead(events', B, Subscribe(s, m))
  BY <1>6, <1>7, <1>8, <1>9, <1>10, <1>11
<1>14. B \in ToSet(events')
  BY <1>8, <1>9, <1>10
<1>15. \E b : Ends(b) /\ B = Batch(m, b)
  BY <1>5 DEF B
<1> QED
  BY <1>2, <1>12, <1>13, <1>14, <1>15 DEF Coming, InTime, Queued

\* The life of the object of a match
LEMMA LiveStep ==
  ASSUME ServerInv, [ClientNext]_allVars, NEW m \in Match
  PROVE  /\ mobj'[m] = "live" => mobj[m] = "live" \/ ~matchStarted'[m]
         /\ mobj[m] = "live" => \/ mobj'[m] = "live"
                                \/ ServerHandle /\ HandleMatchDestroyed(m)
         /\ ServerHandle /\ HandleMatchDestroyed(m) => mobj'[m] # "live"
<1>0. TypeOK /\ OfferedInv
  BY DEF ServerInv
<1>1. CASE UNCHANGED mobj
  BY <1>0, <1>1 DEF HandleMatchDestroyed, TypeOK
<1>2. ASSUME NEW n \in Match, HandleMatchDestroyed(n)
      PROVE  mobj' = [mobj EXCEPT ![n] = "destroyed"]
  BY <1>2 DEF HandleMatchDestroyed
<1>3. ASSUME NEW t \in Session, FindFirst(t)
      PROVE  /\ mobj'[m] = "live" => mobj[m] = "live" \/ ~matchStarted'[m]
             /\ mobj[m] = "live" => mobj'[m] = "live"
             /\ ~HandleMatchDestroyed(m)
  <2>1. PICK n \in Match : mobj[n] = "none" /\ mobj' = [mobj EXCEPT ![n] = "live"] /\ AddFirst(n, t)
    BY <1>3 DEF FindFirst
  <2>2. ~matchStarted[n] /\ matchStarted' = matchStarted
    BY <1>0, <2>1 DEF OfferedInv, AddFirst
  <2>3. ~HandleMatchDestroyed(m)
    BY <1>3 DEF FindFirst, HandleMatchDestroyed, Destroyed
  <2> QED
    BY <1>0, <2>1, <2>2, <2>3 DEF TypeOK
<1>4. CASE ServerHandle
  <2>1. \/ \E t \in Session : FindFirst(t)
        \/ \E n \in Match : HandleMatchDestroyed(n)
        \/ UNCHANGED mobj
    BY <1>4 DEF ServerHandle, Handle, HandleResolve, FindSecond, HandleClientDestroyed,
       HandleSubscribe, HandleSend, HandleNotice
  <2> QED
    BY <1>0, <1>1, <1>2, <1>3, <1>4, <2>1 DEF TypeOK
<1>5. CASE \E n \in Match : Publish(n)
  BY <1>1, <1>5 DEF Publish, SendMessages
<1> QED
  BY <1>1, <1>4, <1>5, ServerMoves

\* A subscription is posted once.
LEMMA SubscribedOnce ==
  ASSUME ClientInv, [ClientNext]_allVars, NEW s \in Session, NEW m \in Match,
         NewEvent(Subscribe(s, m))
  PROVE  ~Queued(Subscribe(s, m)) /\ events' = Append(events, Subscribe(s, m))
<1> DEFINE e == Subscribe(s, m)
<1>1. e.type = "subscribe" /\ e.s = s /\ e.m = m /\ NewEvent(e)
  BY DEF Subscribe
<1> HIDE DEF e
<1>2. PICK t \in Session : OnMatchOid(t) /\ e = Subscribe(t, Head(inbox[t]).m)
  BY <1>1 DEF NewEvent, OidEvent, Batch
<1>3. t = s /\ Head(inbox[s]).m = m
  BY <1>1, <1>2 DEF Subscribe
<1>4. events' = Append(events, Subscribe(s, m))
  BY <1>2, <1>3 DEF OnMatchOid, Post, Subscribe
<1>5. PICK n \in Match : RequestSubscribe(s, n)
  BY <1>2, <1>3, SubscriptionIsRequest
<1>6. events' = Append(events, Subscribe(s, n)) /\ ~Queued(Subscribe(s, n))
  BY <1>5 DEF RequestSubscribe, Post, Subscribe
<1>7. events \in Seq(Event)
  BY DEF ClientInv, ServerInv, TypeOK
<1>8. Subscribe(s, n) = Subscribe(s, m)
  <2>1. /\ Append(events, Subscribe(s, n))[Len(events) + 1] = Subscribe(s, n)
        /\ Append(events, Subscribe(s, m))[Len(events) + 1] = Subscribe(s, m)
    BY <1>7 DEF Subscribe
  <2> QED
    BY <1>4, <1>6, <2>1
<1> QED
  BY <1>4, <1>6, <1>8

\* One that is queued stays in time, or is going to fail.
LEMMA FateKept ==
  ASSUME ClientInv, [ClientNext]_allVars, NEW s \in Session, session[s] = "on", NEW m \in Match,
         Fate(s, m), Queued(Subscribe(s, m)), Queued(Subscribe(s, m))',
         mobj[m] = "live", mobj'[m] = "live", Closing(m)
  PROVE  InTime(s, m)' \/ Ahead(events', Destroyed(m), Subscribe(s, m))
<1> DEFINE S == Subscribe(s, m)
<1>0. TypeOK /\ ClientTypes /\ events \in Seq(Event) /\ ServerInv
  BY DEF ClientInv, ServerInv, TypeOK
<1>1. ~NewEvent(S)
  BY SubscribedOnce
<1>2. S \in Event /\ S \in ToSet(events) /\ S \in ToSet(events')
  BY EventTypes DEF Queued, Subscribe
<1>e. \A b : Batch(m, b) # S
  BY ThreeEvents
<1> HIDE DEF S
<1>3. ServerHandle => events # <<>> /\ S \in ToSet(Tail(events))
  BY <1>0, <1>1, <1>2, QueueStep, Delivery
<1>4. CASE InTime(s, m)
  <2>1. PICK b : /\ Ends(b) /\ Queued(Batch(m, b)) /\ ~Ahead(events, Destroyed(m), Batch(m, b))
                 /\ ~Ahead(events, Batch(m, b), S)
    BY <1>4 DEF InTime, S
  <2>2. ~(ServerHandle /\ Head(events) = Batch(m, b))
    BY <1>0, <1>3, <2>1, AheadTail
  <2>3. ~Ahead(events', Destroyed(m), Batch(m, b)) /\ Queued(Batch(m, b))'
    BY <2>1, <2>2, BatchStays
  <2>4. ~Ahead(events', Batch(m, b), S)
    <3>1. CASE ServerHandle
      <4>1. ~Ahead(Tail(events), Batch(m, b), S)
        BY <1>0, <1>3, <2>1, <3>1, AheadTail
      <4> QED
        BY <1>0, <1>1, <3>1, <4>1, HandleContinues DEF Continues, NewEvents
    <3>2. CASE ~ServerHandle
      BY <1>1, <2>1, <3>2, OthersContinue DEF Continues, NewEvents
    <3> QED
      BY <3>1, <3>2
  <2> QED
    BY <2>1, <2>3, <2>4 DEF InTime, Queued, S
<1>5. CASE Ahead(events, Destroyed(m), S)
  <2>1. CASE ServerHandle
    <3>1. Head(events) # Destroyed(m)
      <4> SUFFICES ASSUME Head(events) = Destroyed(m) PROVE FALSE
        OBVIOUS
      <4>1. PICK n \in Match : HandleMatchDestroyed(n)
        BY <2>1 DEF ServerHandle, Handle, HandleResolve, FindFirst, FindSecond,
           HandleClientDestroyed, HandleSubscribe, HandleSend, HandleNotice, Destroyed
      <4>2. Head(events) = Destroyed(n)
        BY <4>1 DEF HandleMatchDestroyed
      <4>3. Destroyed(n).m = n /\ Destroyed(m).m = m
        BY DEF Destroyed
      <4>4. n = m
        BY <4>2, <4>3
      <4>5. HandleMatchDestroyed(m)
        BY <4>1, <4>4
      <4> QED
        BY <1>0, <2>1, <4>5, LiveStep
    <3>2. Ahead(Tail(events), Destroyed(m), S)
      BY <1>0, <1>3, <1>5, <2>1, <3>1, AheadTail
    <3> QED
      BY <1>0, <2>1, <3>2, HandleContinues DEF Continues, S
  <2>2. CASE ~ServerHandle
    BY <1>5, <2>2, OthersContinue DEF Continues, S
  <2> QED
    BY <2>1, <2>2
<1> QED
  BY <1>4, <1>5 DEF Fate, S

\* Every step keeps subscriptions and last batches in a good order.
LEMMA FateStep ==
  ASSUME ClientInv, FateInv, [ClientNext]_allVars
  PROVE  FateInv'
<1> SUFFICES ASSUME NEW s \in Session, session'[s] = "on", NEW m \in Match,
                    Queued(Subscribe(s, m))', mobj'[m] = "live", Closing(m)'
             PROVE  InTime(s, m)' \/ Ahead(events', Destroyed(m), Subscribe(s, m))
  BY DEF FateInv, Fate
<1>0. TypeOK /\ ClientTypes /\ events \in Seq(Event) /\ ServerInv /\ PlaceInv
  BY DEF ClientInv, ServerInv, TypeOK
<1>1. session[s] = "on"
  BY <1>0, ToldResolved DEF Queued
<1>2. mobj[m] = "live"
  <2>1. ToldInv'
    BY ClientStep DEF ClientInv
  <2>2. Informed(s)' /\ News(s, m)'
    BY <2>1 DEF ToldInv, News, Queued
  <2>3. matchStarted'[m]
    BY <2>2 DEF Informed, Told
  <2> QED
    BY <1>0, <2>3, LiveStep
<1>3. CASE Queued(Subscribe(s, m))
  <2>1. matchStarted[m]
    BY <1>1, <1>3 DEF ClientInv, ToldInv, Informed, News, Queued, Told
  <2>2. CASE Closing(m)
    BY <1>1, <1>2, <1>3, <2>2, FateKept DEF FateInv
  <2>3. CASE ~Closing(m)
    BY <2>1, <2>3, LastBatch
  <2> QED
    BY <2>2, <2>3
<1>4. CASE ~Queued(Subscribe(s, m))
  <2>1. Subscribe(s, m) \in Event
    BY EventTypes DEF Subscribe
  <2>2. NewEvent(Subscribe(s, m))
    BY <1>0, <1>4, QueueStep DEF Queued
  <2>3. events' = Append(events, Subscribe(s, m))
    BY <2>2, SubscribedOnce
  <2>4. Destroyed(m) \in ToSet(events)
    BY <1>0, <2>1, <2>3, ToSetAppend, ThreeEvents DEF Closing, Queued
  <2> QED
    BY <1>0, <2>1, <2>3, <2>4, AheadMore
<1> QED
  BY <1>3, <1>4

-----------------------------------------------------------------------------
(* Battles go on or come to their end.                                       *)

\* The match m is in play and its interval runs.
GoesOn(m) == mobj[m] = "live" /\ ~Closing(m) /\ sending[m]

\* What becomes of a match in play and of its last batch
LEMMA FutureOfMatch ==
  ASSUME ClientInv, [ClientNext]_allVars, NEW m \in Match, matchStarted[m],
         GoesOn(m) \/ (mobj[m] = "live" /\ Coming(m)),
         NEW s \in Session, session[s] = "on", s \in subscribers[m]
  PROVE  \/ GoesOn(m)'
         \/ mobj'[m] = "live" /\ Coming(m)'
         \/ \E b : Ends(b) /\ inbox'[s] = Append(inbox[s], Batch(m, b)) /\ Batch(m, b) \in Mail
<1>0. TypeOK /\ ClientTypes /\ events \in Seq(Event) /\ ServerInv
  BY DEF ClientInv, ServerInv, TypeOK
<1>1. CASE GoesOn(m)
  <2>1. mobj'[m] = "live"
    <3>1. ~(ServerHandle /\ HandleMatchDestroyed(m))
      BY <1>0, <1>1, HeadQueued DEF GoesOn, Closing, Queued, HandleMatchDestroyed
    <3> QED
      BY <1>0, <1>1, <3>1, LiveStep DEF GoesOn
  <2>2. CASE Closing(m)'
    BY <1>1, <2>1, <2>2, LastBatch DEF GoesOn
  <2>3. CASE ~Closing(m)'
    <3>1. PlayKeepsTimer' /\ matchStarted'[m]
      BY <1>0, ClientStep, TimerStep DEF ClientInv, ServerInv, LossInv
    <3> QED
      BY <2>1, <2>3, <3>1 DEF PlayKeepsTimer, GoesOn, Closing
  <2> QED
    BY <2>2, <2>3
<1>2. ASSUME mobj[m] = "live", NEW b, Ends(b), Queued(Batch(m, b)),
             ~Ahead(events, Destroyed(m), Batch(m, b))
      PROVE  \/ mobj'[m] = "live" /\ Coming(m)'
             \/ Ends(b) /\ inbox'[s] = Append(inbox[s], Batch(m, b)) /\ Batch(m, b) \in Mail
  <2> DEFINE B == Batch(m, b)
  <2>1. B.type = "messages" /\ B.m = m /\ B \in ToSet(events) /\ B # Destroyed(m)
    BY <1>2, ThreeEvents DEF Batch, Queued
  <2>2. ~Ahead(events', Destroyed(m), B) /\ (Queued(B)' \/ (ServerHandle /\ Head(events) = B))
    BY <1>2, BatchStays
  <2>3. ~Ahead(events, Destroyed(m), B)
    BY <1>2
  <2> HIDE DEF B
  <2>4. CASE ServerHandle /\ Head(events) = B
    <3>1. B \in Event
      BY <1>0, <2>4, Delivery
    <3>2. Sent(B) = B /\ B \in Mail
      BY <2>1, <3>1 DEF Sent, Mail
    <3>3. Reaches(B, s)
      BY <1>2, <2>1 DEF Reaches, Recipients
    <3> QED
      BY <1>0, <1>2, <2>4, <3>2, <3>3, Delivery DEF B
  <2>5. CASE ~(ServerHandle /\ Head(events) = B)
    <3>1. ~(ServerHandle /\ HandleMatchDestroyed(m))
      <4> SUFFICES ASSUME ServerHandle, HandleMatchDestroyed(m) PROVE FALSE
        OBVIOUS
      <4>1. Head(events) = Destroyed(m) /\ events # <<>>
        BY DEF HandleMatchDestroyed
      <4>2. B \in ToSet(Tail(events))
        BY <1>0, <2>1, <4>1, ToSetTail
      <4> QED
        BY <1>0, <2>3, <4>1, <4>2, AheadTail
    <3>2. mobj'[m] = "live"
      BY <1>0, <1>2, <3>1, LiveStep
    <3>3. Coming(m)'
      BY <1>2, <2>2, <2>5 DEF Coming, Queued, B
    <3> QED
      BY <3>2, <3>3
  <2> QED
    BY <2>4, <2>5
<1> QED
  BY <1>1, <1>2 DEF Coming

\* A match in play that is not closing has its interval running.
LEMMA FutureOfPlay ==
  ASSUME ClientInv, [ClientNext]_allVars, NEW m \in Match, matchStarted[m], mobj'[m] = "live",
         ~Closing(m)
  PROVE  GoesOn(m)' \/ Coming(m)'
<1>0. ServerInv
  BY DEF ClientInv
<1>1. CASE Closing(m)'
  BY <1>1, LastBatch
<1>2. CASE ~Closing(m)'
  <2>1. PlayKeepsTimer' /\ matchStarted'[m]
    BY <1>0, ClientStep, TimerStep DEF ClientInv, ServerInv, LossInv
  <2> QED
    BY <1>2, <2>1 DEF PlayKeepsTimer, GoesOn, Closing
<1> QED
  BY <1>1, <1>2

\* How the inbox of a client that stays changes
LEMMA InboxMoves ==
  ASSUME TypeOK, ClientTypes, [ClientNext]_allVars, NEW s \in Session, session'[s] = "on"
  PROVE  \/ inbox'[s] = inbox[s]
         \/ \E x \in Mail : inbox'[s] = Append(inbox[s], x)
         \/ Receive(s) /\ inbox[s] # <<>> /\ inbox'[s] = Tail(inbox[s])
<1>1. CASE ServerHandle
  BY <1>1, Delivery, SentIsMail DEF MailTo
<1>2. ASSUME NEW t \in Session, NEW type, Take(t, type), Receive(t)
      PROVE  \/ inbox'[s] = inbox[s]
             \/ Receive(s) /\ inbox[s] # <<>> /\ inbox'[s] = Tail(inbox[s])
  BY <1>2, Taken
<1>3. ASSUME NEW t \in Session, ConnectionLost(t) PROVE inbox'[s] = inbox[s]
  <2>1. inbox' = [inbox EXCEPT ![t] = <<>>] /\ session'[t] # "on"
    BY <1>3 DEF ConnectionLost, ConnectionClosed, TypeOK
  <2> QED
    BY <2>1 DEF ClientTypes
<1>4. CASE inbox' = inbox
  BY <1>4
<1>5. ASSUME NEW t \in Session, Receive(t)
      PROVE  \E type : Take(t, type)
  BY <1>5 DEF Receive, OnDidLogon, OnLeftMatch,
      OnMatchOid, OnMatchSubscribe, OnMatchSubscribeFail, OnMessages
<1> QED
  BY <1>1, <1>2, <1>3, <1>4, <1>5, Zenon
  DEF ClientNext, Publish, Logon, LogonRefused, TryAgain, EnterStart, SendWin,
      ProcessTicks, allVars

\* When the answer to a subscription is taken, nothing else of the search is around.
LEMMA AnswerAlone ==
  ASSUME TypeOK, ClientTypes, PlaceInv, NEW s \in Session, session[s] = "on",
         inbox[s] # <<>>, Head(inbox[s]) \in Search(s)
  PROVE  \A e \in ToSet(Tail(inbox[s])) : e \notin Search(s)
<1>1. inbox[s] \in Seq(Mail) /\ InPlace(s)
  BY DEF ClientTypes, PlaceInv, Located
<1>2. ~Listed(Tail(inbox[s]), events, Search(s))
  BY <1>1, LoseOther DEF InPlace, Solo
<1>3. Tail(inbox[s]) \in Seq(Mail)
  BY <1>1
<1> QED
  BY <1>2, <1>3 DEF Listed, Occurs, ToSet

\* The future of a battle that is about to begin, and of one that has begun
FutureOfAnswer(s, m) ==
  \/ GoesOn(m)
  \/ mobj[m] = "live" /\ Coming(m)
  \/ \E b : Ends(b) /\ Ahead(inbox[s], Subscribed(m), Batch(m, b))

FutureOfBattle(s, m) ==
  \/ GoesOn(m)
  \/ mobj[m] = "live" /\ Coming(m)
  \/ \E b : Ends(b) /\ Batch(m, b) \in ToSet(inbox[s])
  \/ \E b \in ToSet(ticks[s]) : Ends(b)

\* A client that is in a battle, or is going to be, will hear of its end: its
\* match goes on, or the last batch is queued, or it is on its way behind the
\* subscription, or it is there.
FutureInv ==
  \A s \in Session : session[s] = "on" =>
    /\ \A m \in Match : Subscribed(m) \in ToSet(inbox[s]) => FutureOfAnswer(s, m)
    /\ InBattle(s) => FutureOfBattle(s, match[s])

\* A subscription is answered in time.
LEMMA FutureOfSubscription ==
  ASSUME ClientInv, FateInv, [ClientNext]_allVars, NEW s \in Session, session[s] = "on",
         NEW m \in Match, ServerHandle, Head(events) = Subscribe(s, m), mobj[m] = "live"
  PROVE  FutureOfAnswer(s, m)'
<1>0. TypeOK /\ ClientTypes /\ events \in Seq(Event) /\ ServerInv /\ PlaceInv
  BY DEF ClientInv, ServerInv, TypeOK
<1>1. events # <<>> /\ Subscribe(s, m) \in ToSet(events)
  BY <1>0, Delivery
<1>2. matchStarted[m]
  BY <1>1 DEF ClientInv, ToldInv, Informed, News, Told
<1>3. mobj'[m] = "live"
  BY <1>0, LiveStep, ThreeEvents DEF HandleMatchDestroyed
<1>4. CASE ~Closing(m)
  BY <1>2, <1>3, <1>4, FutureOfPlay DEF FutureOfAnswer
<1>5. CASE Closing(m)
  <2>1. ~Ahead(events, Destroyed(m), Subscribe(s, m))
    <3>1. Subscribe(s, m) \in Search(s)
      BY <1>0, <1>1, SearchFacts
    <3>2. Subscribe(s, m) \notin ToSet(Tail(events))
      BY <1>0, <1>1, <3>1, HeadAlone
    <3> QED
      BY <1>0, <1>1, <3>2, AheadTail
  <2>2. InTime(s, m)
    BY <1>1, <1>5, <2>1 DEF FateInv, Fate, Queued
  <2>3. PICK b : Ends(b) /\ Queued(Batch(m, b)) /\ ~Ahead(events, Destroyed(m), Batch(m, b))
    BY <2>2 DEF InTime
  <2>4. Head(events) # Batch(m, b)
    BY ThreeEvents
  <2>5. ~Ahead(events', Destroyed(m), Batch(m, b)) /\ Queued(Batch(m, b))'
    BY <2>3, <2>4, BatchStays
  <2>6. Coming(m)'
    BY <2>3, <2>5 DEF Coming, Queued
  <2> QED
    BY <1>3, <2>6 DEF FutureOfAnswer
<1> QED
  BY <1>4, <1>5

\* An answer that has come stays in time.
LEMMA FutureOfAnswerKept ==
  ASSUME ClientInv, [ClientNext]_allVars, NEW s \in Session, session[s] = "on", session'[s] = "on",
         NEW m \in Match, Subscribed(m) \in ToSet(inbox[s]), Subscribed(m) \in ToSet(inbox'[s]),
         FutureOfAnswer(s, m)
  PROVE  FutureOfAnswer(s, m)'
<1>0. TypeOK /\ ClientTypes /\ PlaceInv /\ inbox[s] \in Seq(Mail)
  BY DEF ClientInv, ServerInv, ClientTypes
<1>1. matchStarted[m] /\ s \in subscribers[m]
  BY DEF ClientInv, ToldInv, Informed, Told
<1>2. CASE GoesOn(m) \/ (mobj[m] = "live" /\ Coming(m))
  <2>1. ASSUME NEW b, Ends(b), inbox'[s] = Append(inbox[s], Batch(m, b)), Batch(m, b) \in Mail
        PROVE  Ahead(inbox'[s], Subscribed(m), Batch(m, b))
    BY <1>0, <2>1, AheadMore
  <2> QED
    BY <1>1, <1>2, <2>1, FutureOfMatch DEF FutureOfAnswer
<1>3. ASSUME NEW b, Ends(b), Ahead(inbox[s], Subscribed(m), Batch(m, b))
      PROVE  Ahead(inbox'[s], Subscribed(m), Batch(m, b))
  <2>1. ASSUME NEW x \in Mail, inbox'[s] = Append(inbox[s], x)
        PROVE  Ahead(inbox'[s], Subscribed(m), Batch(m, b))
    BY <1>0, <1>3, <2>1, AheadMore
  <2>2. CASE inbox[s] # <<>> /\ inbox'[s] = Tail(inbox[s])
    <3>1. Subscribed(m) \in Search(s)
      BY SearchFacts DEF Asked
    <3>2. Head(inbox[s]) # Subscribed(m)
      BY <1>0, <2>2, <3>1, AnswerAlone
    <3> QED
      BY <1>0, <1>3, <2>2, <3>2, AheadTail
  <2> QED
    BY <1>0, <1>3, <2>1, <2>2, InboxMoves
<1> QED
  BY <1>2, <1>3 DEF FutureOfAnswer

\* A frame that handles the end of a battle leaves it.
LEMMA EndLeaves ==
  ASSUME ClientTypes, NEW s \in Session, ProcessTicks(s), modes[s] \in Screens,
         NEW b \in ToSet(ticks[s]), Ends(b)
  PROVE  ~InBattle(s)'
<1>1. Finals(ticks[s]) # {}
  BY FinalsAre DEF ClientTypes
<1>2. PICK left \in Nat :
        /\ left < Len(modes[s])
        /\ modes' = [modes EXCEPT ![s] = SubSeq(@, 1, left)]
  BY <1>1, ProcessTypes
<1>3. modes[s] = <<"connect", "battle">>
  <2>1. Last(<<"connect">>) = "connect" /\ Last(<<"connect", "failure">>) = "failure"
    BY DEF Last
  <2>2. modes[s] # <<>> /\ Last(modes[s]) = "battle"
    BY DEF ProcessTicks, Shows
  <2> QED
    BY <2>1, <2>2 DEF Screens
<1>4. left \in {0, 1}
  BY <1>2, <1>3
<1>5. modes'[s] = SubSeq(<<"connect", "battle">>, 1, left)
  BY <1>2, <1>3 DEF ClientTypes
<1>6. modes'[s] = <<>> \/ modes'[s] = <<"connect">>
  BY <1>4, <1>5, PartsOfTwo
<1> QED
  BY <1>6 DEF InBattle, ToSet

\* What is there to end a battle stays there until it does.
LEMMA EndStays ==
  ASSUME ClientInv, [ClientNext]_allVars, NEW s \in Session, session[s] = "on", session'[s] = "on",
         InBattle(s), InBattle(s)', match'[s] = match[s], ~OnMatchSubscribe(s)
  PROVE  /\ \A b \in ToSet(ticks[s]) : Ends(b) => b \in ToSet(ticks'[s])
         /\ \A b : Batch(match[s], b) \in ToSet(inbox[s]) =>
              Batch(match[s], b) \in ToSet(inbox'[s]) \/ b \in ToSet(ticks'[s])
<1>0. /\ TypeOK /\ ClientTypes /\ PlaceInv /\ inbox[s] \in Seq(Mail)
      /\ ticks[s] \in Seq(Seq(Message)) /\ InPlace(s)
  BY DEF ClientInv, ServerInv, ClientTypes, PlaceInv, Located
<1>1. ASSUME OnMessages(s)
      PROVE  /\ ToSet(ticks[s]) \subseteq ToSet(ticks'[s])
             /\ \A b : Head(inbox[s]) = Batch(match[s], b) => b \in ToSet(ticks'[s])
  <2> DEFINE e == Head(inbox[s])
  <2>1. Take(s, "messages") /\ ticks' = [ticks EXCEPT ![s] =
                 IF match[s] = e.m THEN Append(@, e.batch) ELSE @]
    BY <1>1 DEF OnMessages
  <2>2. e \in Mail /\ e.type = "messages" /\ e.batch \in Seq(Message)
    BY <1>0, <2>1, Taken, Inbox, MailFields
  <2> HIDE DEF e
  <2>3. ticks'[s] = IF match[s] = e.m THEN Append(ticks[s], e.batch) ELSE ticks[s]
    BY <1>0, <2>1 DEF ClientTypes
  <2>4. ToSet(Append(ticks[s], e.batch)) = ToSet(ticks[s]) \cup {e.batch}
    BY <1>0, <2>2, ToSetAppend
  <2>5. \A b : e = Batch(match[s], b) => e.m = match[s] /\ e.batch = b
    BY DEF Batch
  <2> QED
    BY <2>3, <2>4, <2>5 DEF e
<1>2. ASSUME NEW b \in ToSet(ticks[s]), Ends(b) PROVE b \in ToSet(ticks'[s])
  <2>1. ASSUME NEW t \in Session, ProcessTicks(t) PROVE ticks'[s] = ticks[s]
    <3>1. s # t
      BY <1>0, <1>2, <2>1, EndLeaves DEF InPlace
    <3>2. ticks' = [ticks EXCEPT ![t] = <<>>]
      BY <2>1 DEF ProcessTicks
    <3> QED
      BY <3>1, <3>2 DEF ClientTypes
  <2>2. ASSUME NEW t \in Session, OnMatchSubscribe(t) PROVE ticks'[s] = ticks[s]
    BY <1>0, <2>2 DEF OnMatchSubscribe, ClientTypes
  <2>3. ASSUME NEW t \in Session, OnMessages(t), s # t PROVE ticks'[s] = ticks[s]
    BY <1>0, <2>3 DEF OnMessages, ClientTypes
  <2>4. CASE ticks' = ticks
    BY <2>4
  <2>5. ticks'[s] = ticks[s] \/ OnMessages(s)
    BY <2>1, <2>2, <2>3, <2>4, Zenon
    DEF ClientNext, Receive, ServerHandle, Publish, Logon, LogonRefused, ConnectionLost, TryAgain,
        OnDidLogon, OnLeftMatch, OnMatchOid, OnMatchSubscribeFail, EnterStart, SendWin,
        allVars, clientVars
  <2> QED
    BY <1>1, <2>5
<1>3. ASSUME NEW b, Batch(match[s], b) \in ToSet(inbox[s])
      PROVE  Batch(match[s], b) \in ToSet(inbox'[s]) \/ b \in ToSet(ticks'[s])
  <2> DEFINE B == Batch(match[s], b)
  <2>1. B.type = "messages"
    BY DEF Batch
  <2> HIDE DEF B
  <2>2. ASSUME NEW x \in Mail, inbox'[s] = Append(inbox[s], x) PROVE B \in ToSet(inbox'[s])
    BY <1>0, <1>3, <2>2, ToSetAppend DEF B
  <2>3. ASSUME Receive(s), inbox[s] # <<>>, inbox'[s] = Tail(inbox[s])
        PROVE  B \in ToSet(inbox'[s]) \/ (B = Head(inbox[s]) /\ OnMessages(s))
    <3>1. B = Head(inbox[s]) \/ B \in ToSet(Tail(inbox[s]))
      BY <1>0, <1>3, <2>3, ToSetTail DEF B
    <3>2. B = Head(inbox[s]) => OnMessages(s)
      BY <2>1, <2>3 DEF Receive, OnDidLogon, OnLeftMatch, OnMatchOid, OnMatchSubscribe,
         OnMatchSubscribeFail, Take
    <3> QED
      BY <2>3, <3>1, <3>2
  <2>4. B \in ToSet(inbox'[s]) \/ (B = Head(inbox[s]) /\ OnMessages(s))
    BY <1>0, <1>3, <2>2, <2>3, InboxMoves DEF B
  <2> QED
    BY <1>1, <2>4 DEF B
<1> QED
  BY <1>2, <1>3

\* A battle goes on or keeps its end in sight.
LEMMA FutureOfBattleKept ==
  ASSUME ClientInv, FutureInv, [ClientNext]_allVars, NEW s \in Session,
         session[s] = "on", session'[s] = "on", InBattle(s)', NEW m, match'[s] = m
  PROVE  FutureOfBattle(s, m)'
<1>0. TypeOK /\ ClientTypes /\ PlaceInv /\ inbox[s] \in Seq(Mail) /\ Informed(s)
  BY DEF ClientInv, ServerInv, ClientTypes, ToldInv
<1>1. ASSUME m \in Match, matchStarted[m], s \in subscribers[m],
             GoesOn(m) \/ (mobj[m] = "live" /\ Coming(m))
      PROVE  FutureOfBattle(s, m)'
  <2>1. ASSUME NEW b, inbox'[s] = Append(inbox[s], Batch(m, b)), Batch(m, b) \in Mail
        PROVE  Batch(m, b) \in ToSet(inbox'[s])
    BY <1>0, <2>1, ToSetAppend
  <2> QED
    BY <1>1, <2>1, FutureOfMatch DEF FutureOfBattle
<1>2. CASE OnMatchSubscribe(s) /\ Subscribed(m) \in ToSet(inbox[s]) /\ m \in Match
  <2>1. matchStarted[m] /\ s \in subscribers[m] /\ FutureOfAnswer(s, m)
    BY <1>0, <1>2 DEF FutureInv, Informed, Told
  <2>2. ASSUME NEW b, Ends(b), Ahead(inbox[s], Subscribed(m), Batch(m, b))
        PROVE  Batch(m, b) \in ToSet(inbox'[s])
    <3>1. inbox[s] # <<>> /\ inbox'[s] = Tail(inbox[s])
      BY <1>0, <1>2, Taken DEF OnMatchSubscribe
    <3> QED
      BY <1>0, <2>2, <3>1, AheadTail
  <2> QED
    BY <1>1, <1>2, <2>1, <2>2 DEF FutureOfAnswer, FutureOfBattle
<1>3. CASE InBattle(s) /\ match[s] = m /\ ~OnMatchSubscribe(s)
  <2>1. m \in Match /\ matchStarted[m] /\ s \in subscribers[m] /\ FutureOfBattle(s, m)
    BY <1>0, <1>3 DEF FutureInv, Informed, Told
  <2>2. /\ \A b \in ToSet(ticks[s]) : Ends(b) => b \in ToSet(ticks'[s])
        /\ \A b : Batch(m, b) \in ToSet(inbox[s]) =>
             Batch(m, b) \in ToSet(inbox'[s]) \/ b \in ToSet(ticks'[s])
    BY <1>3, EndStays
  <2> QED
    BY <1>1, <2>1, <2>2 DEF FutureOfBattle
<1>4. ~(InBattle(s) /\ OnMatchSubscribe(s))
  <2> SUFFICES ASSUME InBattle(s), OnMatchSubscribe(s) PROVE FALSE
    OBVIOUS
  <2>1. inbox[s] # <<>> /\ Head(inbox[s]).type = "subscribed"
    BY <1>0, Taken DEF OnMatchSubscribe
  <2>2. Head(inbox[s]) \in Search(s)
    BY <1>0, <2>1, Inbox DEF Search
  <2>3. Sought(s) /\ InPlace(s)
    BY <1>0, <2>1, <2>2, OccursTail DEF Sought, Listed, PlaceInv, Located
  <2>4. modes[s] = <<"connect">>
    BY <2>3, InBattleOnly
  <2> QED
    BY <2>4 DEF InBattle, ToSet
<1> QED
  BY <1>0, <1>2, <1>3, <1>4, BattleFrom

\* Every step leaves every battle a future.
LEMMA FutureStep ==
  ASSUME ClientInv, FateInv, FutureInv, [ClientNext]_allVars
  PROVE  FutureInv'
<1>0. TypeOK /\ ClientTypes /\ PlaceInv /\ ServerInv /\ events \in Seq(Event)
  BY DEF ClientInv, ServerInv, TypeOK
<1>1. ASSUME NEW s \in Session, session'[s] = "on", NEW m \in Match,
             Subscribed(m) \in ToSet(inbox'[s])
      PROVE  FutureOfAnswer(s, m)'
  <2>1. session[s] = "on"
    BY <1>0, <1>1, ToldResolved
  <2>2. CASE Subscribed(m) \in ToSet(inbox[s])
    BY <1>1, <2>1, <2>2, FutureOfAnswerKept DEF FutureInv
  <2>3. CASE ServerHandle /\ Reaches(Head(events), s) /\ Subscribed(m) = Sent(Head(events))
    <3>1. Head(events) = Subscribe(s, m) /\ mobj[m] = "live"
      BY <1>0, <2>3, Delivery, SentFrom
    <3> QED
      BY <2>1, <2>3, <3>1, FutureOfSubscription
  <2> QED
    BY <1>0, <1>1, <2>2, <2>3, InboxStep
<1>2. ASSUME NEW s \in Session, session'[s] = "on", InBattle(s)', NEW m, match'[s] = m
      PROVE  FutureOfBattle(s, m)'
  <2>1. session[s] = "on"
    BY <1>0, <1>2, ToldResolved
  <2> QED
    BY <1>2, <2>1, FutureOfBattleKept
<1>3. ASSUME NEW s \in Session, session'[s] = "on", InBattle(s)'
      PROVE  FutureOfBattle(s, match[s])'
  <2>1. PICK m : m = match'[s]
    OBVIOUS
  <2>2. FutureOfBattle(s, m)'
    BY <1>2, <1>3, <2>1
  <2> QED
    BY <2>1, <2>2 DEF FutureOfBattle
<1> QED
  BY <1>1, <1>3 DEF FutureInv


\* The complete invariant of the futures
FutureInvariant == ClientInv /\ FateInv /\ FutureInv

\* Nobody is on when the system starts.
LEMMA FutureBegins == ClientInit => FutureInvariant
<1> SUFFICES ASSUME ClientInit PROVE FutureInvariant
  OBVIOUS
<1>1. \A s \in Session : session[s] # "on"
  BY DEF ClientInit, Init
<1> QED
  BY <1>1, ClientBegins DEF FutureInvariant, FateInv, FutureInv

\* A last batch that is coming is queued, with no destruction ahead of it.
LEMMA LastBatchAhead ==
  ASSUME TypeOK, NEW m \in Match, Coming(m)
  PROVE  \E i \in 1..Len(events) :
           /\ events[i].type = "messages" /\ events[i].m = m
           /\ Ends(events[i].batch)
           /\ \A j \in 1..i : events[j] # Destroyed(m)
<1>1. PICK b : /\ Ends(b) /\ Batch(m, b) \in ToSet(events)
               /\ ~Ahead(events, Destroyed(m), Batch(m, b))
  BY DEF Coming, Queued
<1>2. Len(events) \in Nat /\ DOMAIN events = 1..Len(events)
  BY LenProperties DEF TypeOK
<1>3. PICK i \in 1..Len(events) : events[i] = Batch(m, b)
  BY <1>1, <1>2 DEF ToSet
<1>4. /\ events[i].type = "messages" /\ events[i].m = m /\ events[i].batch = b
  BY <1>3 DEF Batch
<1>5. ASSUME NEW j \in 1..i, events[j] = Destroyed(m) PROVE FALSE
  <2>1. j # i
    BY <1>3, <1>5, ThreeEvents
  <2>2. j \in 1..Len(events) /\ j < i
    BY <1>2, <2>1
  <2> QED
    BY <1>1, <1>3, <1>5, <2>2 DEF Ahead
<1> QED
  BY <1>1, <1>4, <1>5

\* A client in a battle is never stranded: its match goes on with the client
\* subscribed and the interval running, or the message that ends the battle is
\* on its way to it.
THEOREM BattlesHaveAFuture == ClientSpec => []BattleHasFuture
<1>1. FutureInvariant /\ [ClientNext]_allVars => FutureInvariant'
  BY ClientStep, FateStep, FutureStep DEF FutureInvariant
<1>2. ASSUME FutureInvariant PROVE BattleHasFuture
  <2> SUFFICES ASSUME NEW s \in Session, session[s] = "on", InBattle(s)
               PROVE  \/ GoesOn(match[s]) /\ s \in subscribers[match[s]]
                      \/ FinalOnItsWay(s)
    BY DEF BattleHasFuture, GoesOn
  <2>0. TypeOK /\ match[s] \in Match /\ s \in subscribers[match[s]] /\ inbox[s] \in Seq(Mail)
        /\ ticks[s] \in Seq(Seq(Message))
    BY <1>2 DEF FutureInvariant, ClientInv, ServerInv, ClientTypes, ToldInv, Informed
  <2>1. FutureOfBattle(s, match[s])
    BY <1>2 DEF FutureInvariant, FutureInv
  <2>2. CASE Coming(match[s])
    BY <2>0, <2>2, LastBatchAhead DEF FinalOnItsWay
  <2>3. ASSUME NEW b, Ends(b), Batch(match[s], b) \in ToSet(inbox[s]) PROVE FinalOnItsWay(s)
    <3>1. PICK i \in 1..Len(inbox[s]) : inbox[s][i] = Batch(match[s], b)
      BY <2>0, <2>3 DEF ToSet
    <3>2. inbox[s][i].type = "messages" /\ inbox[s][i].m = match[s] /\ inbox[s][i].batch = b
      BY <3>1 DEF Batch
    <3> QED
      BY <2>3, <3>2 DEF FinalOnItsWay
  <2>4. ASSUME NEW b \in ToSet(ticks[s]), Ends(b) PROVE FinalOnItsWay(s)
    <3>1. PICK i \in 1..Len(ticks[s]) : ticks[s][i] = b
      BY <2>0 DEF ToSet
    <3> QED
      BY <2>4, <3>1 DEF FinalOnItsWay
  <2> QED
    BY <2>0, <2>1, <2>2, <2>3, <2>4 DEF FutureOfBattle
<1> QED
  BY <1>1, <1>2, FutureBegins, PTL DEF ClientSpec

-----------------------------------------------------------------------------
(* How battles end.  All that is around of the end of a match says the same, *)
(* and so do the clients that have left its battle.                          *)

\* A session that is gone stays gone.
LEMMA GoneStays ==
  ASSUME ServerInv, [Next]_vars, NEW s \in Session, session[s] = "gone"
  PROVE  session'[s] = "gone"
<1>0. TypeOK /\ RequestsInv
  BY DEF ServerInv
<1>1. CASE session' = session
  BY <1>1
<1>2. ASSUME NEW t \in Session, HandleResolve(t) PROVE session'[s] = "gone"
  <2>1. events # <<>> /\ Head(events) = Resolve(t) /\ session' = [session EXCEPT ![t] = "on"]
    BY <1>2 DEF HandleResolve, Resolve
  <2>2. session[t] = "resolving"
    BY <1>0, <2>1, HeadTimely DEF Timely, Resolve
  <2> QED
    BY <1>0, <2>1, <2>2 DEF TypeOK
<1>3. ASSUME NEW t \in Session, Authenticate(t) \/ ConnectionClosed(t) \/ HandleClientDestroyed(t)
      PROVE  session'[s] = "gone"
  BY <1>0, <1>3 DEF Authenticate, ConnectionClosed, HandleClientDestroyed, TypeOK
<1>4. ASSUME NEW t \in Session, FindFirst(t) \/ FindSecond(t) \/ RequestFindMatch(t)
      PROVE  session' = session
  BY <1>4 DEF FindFirst, FindSecond, RequestFindMatch, Post
<1>5. ASSUME NEW t \in Session, NEW m \in Match,
             \/ HandleSubscribe(t, m) \/ RequestSubscribe(t, m)
             \/ \E msg \in Message : HandleSend(t, m, msg) \/ RequestSend(t, m, msg)
      PROVE  session' = session
  BY <1>5 DEF HandleSubscribe, RequestSubscribe, HandleSend, RequestSend, Post
<1>6. ASSUME NEW m \in Match, HandleMatchDestroyed(m) \/ SendMessages(m)
      PROVE  session' = session
  BY <1>6 DEF HandleMatchDestroyed, SendMessages
<1> QED
  BY <1>1, <1>2, <1>3, <1>4, <1>5, <1>6
  DEF Next, Server, Handle, Environment, HandleNotice, vars

\* Nobody is added to a match that has started.
LEMMA StartedPlayersStay ==
  ASSUME ServerInv, [ClientNext]_allVars, NEW m \in Match, matchStarted[m]
  PROVE  clients'[m] = clients[m]
<1>0. TypeOK /\ OfferedInv
  BY DEF ServerInv
<1>1. CASE clients' = clients
  BY <1>1
<1>2. ASSUME NEW s \in Session, FindFirst(s) PROVE clients'[m] = clients[m]
  <2>1. PICK n \in Match : mobj[n] = "none" /\ AddFirst(n, s)
    BY <1>2 DEF FindFirst
  <2>2. n # m
    BY <1>0, <2>1 DEF OfferedInv
  <2> QED
    BY <1>0, <2>1, <2>2 DEF AddFirst, TypeOK
<1>3. ASSUME NEW s \in Session, FindSecond(s) PROVE clients'[m] = clients[m]
  <2>1. awaiting # m
    BY <1>0, <1>3 DEF FindSecond, OfferedInv, WaitingMatchOffered
  <2> QED
    BY <1>0, <1>3, <2>1 DEF FindSecond, AddSecond, TypeOK
<1>4. CASE ServerHandle
  <2>1. \/ \E s \in Session : FindFirst(s) \/ FindSecond(s)
        \/ clients' = clients
    BY <1>4 DEF ServerHandle, Handle, HandleResolve, HandleClientDestroyed, HandleSubscribe,
       HandleSend, HandleMatchDestroyed, HandleNotice, matchVars
  <2> QED
    BY <1>1, <1>2, <1>3, <2>1
<1> QED
  BY <1>1, <1>4, ServerMoves DEF Publish, SendMessages, matchVars

\* The client has left the battle of m for good.
Finished(s, m) == match[s] = m /\ ~InBattle(s)

\* A client finishes a match by the ticks that end it.
LEMMA FinishedFrom ==
  ASSUME ClientInv, [ClientNext]_allVars, NEW s \in Session, NEW m \in Match, Finished(s, m)'
  PROVE  /\ match[s] = m
         /\ \/ Finished(s, m) /\ newGameCondition'[s] = newGameCondition[s]
            \/ /\ session[s] = "on" /\ session' = session
               /\ \E b \in ToSet(ticks[s]) :
                    Ends(b) /\ newGameCondition'[s] = Outcome(s, EndOf(b))
<1>0. ClientTypes /\ PlaceInv
  BY DEF ClientInv
<1>1. match'[s] = m /\ ~InBattle(s)'
  BY DEF Finished
<1>2. match[s] = m
  <2>1. ASSUME NEW t \in Session, OnMatchSubscribe(t) PROVE match'[s] = match[s]
    <3>1. /\ match' = [match EXCEPT ![t] = Head(inbox[t]).m]
          /\ Take(t, "subscribed") /\ Push(t, "battle") /\ "battle" \in Mode
      BY <2>1 DEF OnMatchSubscribe, Mode
    <3>2. ASSUME s = t PROVE FALSE
      <4>1. modes'[s] = Append(modes[s], "battle") /\ modes[s] \in Seq(Mode)
        BY <1>0, <3>1, <3>2, PushTypes DEF ClientTypes
      <4>2. "battle" \in ToSet(modes'[s])
        BY <3>1, <4>1, ToSetAppend
      <4> QED
        BY <1>1, <4>2 DEF InBattle
    <3> QED
      BY <1>0, <3>1, <3>2 DEF ClientTypes
  <2>2. match'[s] = match[s]
    BY <2>1, Zenon
    DEF ClientNext, Receive, ServerHandle, Publish, Logon, LogonRefused, ConnectionLost, TryAgain,
        OnDidLogon, OnLeftMatch, OnMatchOid, OnMatchSubscribeFail, OnMessages, EnterStart, SendWin,
        ProcessTicks, allVars, clientVars
  <2> QED
    BY <1>1, <2>2
<1>3. CASE InBattle(s)
  <2>1. ProcessTicks(s) /\ session[s] = "on"
    BY <1>1, <1>3, BattleLeft
  <2>2. Finals(ticks[s]) # {} /\ ticks[s] \in Seq(Seq(Message))
    BY <1>0, <1>1, <1>3, BattleLeft, FinalsAre DEF ClientTypes
  <2>3. Cardinality(Finals(ticks[s])) # 0
    BY <2>2, FinalsFinite
  <2>4. newGameCondition'[s] = Outcome(s, LastFinal(ticks[s])) /\ session' = session
    BY <1>0, <2>1, <2>3 DEF ProcessTicks, ClientTypes, vars
  <2> QED
    BY <1>2, <2>1, <2>2, <2>4, LastFinalIs
<1>4. CASE ~InBattle(s)
  <2>1. ASSUME NEW t \in Session, ProcessTicks(t)
        PROVE  newGameCondition'[s] = newGameCondition[s]
    <3>1. /\ \E c : newGameCondition' = [newGameCondition EXCEPT ![t] = c]
          /\ modes[t] # <<>> /\ Last(modes[t]) = "battle"
      BY <2>1 DEF ProcessTicks, Shows
    <3>2. InBattle(t)
      <4>1. modes[t] \in Seq(Mode)
        BY <1>0 DEF ClientTypes
      <4>2. Len(modes[t]) \in 1..Len(modes[t]) /\ Last(modes[t]) = modes[t][Len(modes[t])]
        BY <3>1, <4>1, LenProperties, EmptySeq DEF Last
      <4> QED
        BY <3>1, <4>1, <4>2 DEF InBattle, ToSet
    <3>3. s # t
      BY <1>4, <3>2
    <3> QED
      BY <1>0, <3>1, <3>3 DEF ClientTypes
  <2>2. newGameCondition'[s] = newGameCondition[s]
    BY <2>1, Zenon
    DEF ClientNext, Receive, ServerHandle, Publish, Logon, LogonRefused, ConnectionLost, TryAgain,
        OnDidLogon, OnLeftMatch, OnMatchOid, OnMatchSubscribe, OnMatchSubscribeFail, OnMessages,
        EnterStart, SendWin, allVars, clientVars
  <2> QED
    BY <1>2, <1>4, <2>2 DEF Finished
<1> QED
  BY <1>3, <1>4

\* A client has battles only of matches that it plays.
PlayedInv == \A s \in Session : match[s] # NoMatch => matchStarted[match[s]] /\ s \in Players(match[s])

\* One message ends the battle of m, for all who have not heard of it yet and for
\* all who have.
Verdict(m, f) ==
  /\ f \in Message /\ Final(f)
  /\ \A b : Around(m, b) /\ Ends(b) => EndOf(b) = f
  /\ \A s \in Session : Finished(s, m) => newGameCondition[s] = Outcome(s, f)

HasNotice(b) == \E msg \in ToSet(b) : msg.kind = "playerDisconnected"

SomeGone(m) == \E u \in Players(m) : session[u] = "gone"

\* A match that publishes has nobody who has finished.  Notices of a loss are
\* about, and clients have been told of one, only when a player is gone.
VerdictInv ==
  /\ PlayedInv
  /\ \A m \in Match : \E f : Verdict(m, f)
  /\ \A m \in Match, s \in Session : Finished(s, m) => ~sending[m]
  /\ \A m \in Match : HasNotice(queued[m]) => SomeGone(m)
  /\ \A m \in Match : \A b : Around(m, b) /\ HasNotice(b) => SomeGone(m)
  /\ \A m \in Match, s \in Session :
       Finished(s, m) /\ newGameCondition[s] = "OPPONENT_DISCONNECTED" =>
         \A t \in Players(m) \ {s} : session[t] = "gone"

\* A client that has been in a battle of a match goes on being a player of it.
LEMMA PlayedStep ==
  ASSUME ClientInv, PlayedInv, [ClientNext]_allVars
  PROVE  PlayedInv'
<1>0. ServerInv /\ ClientTypes
  BY DEF ClientInv
<1>1. ASSUME NEW m \in Match, NEW s \in Session, matchStarted[m], s \in Players(m)
      PROVE  matchStarted'[m] /\ s \in Players(m)'
  BY <1>0, <1>1, TimerStep, EngagedFrom
<1>2. ASSUME NEW s \in Session, match'[s] = match[s], match'[s] # NoMatch
      PROVE  matchStarted'[match'[s]] /\ s \in Players(match[s])'
  <2>1. PICK m \in Match : m = match[s]
    BY <1>0, <1>2 DEF ClientTypes
  <2>2. matchStarted'[m] /\ s \in Players(m)'
    BY <1>1, <1>2, <2>1 DEF PlayedInv
  <2> QED
    BY <1>2, <2>1, <2>2 DEF Players
<1>3. ASSUME NEW s \in Session, OnMatchSubscribe(s)
      PROVE  /\ matchStarted'[match'[s]] /\ s \in Players(match[s])'
             /\ \A t \in Session \ {s} : match'[t] = match[t]
  <2>1. /\ match' = [match EXCEPT ![s] = Head(inbox[s]).m] /\ session[s] = "on"
        /\ Take(s, "subscribed")
    BY <1>3 DEF OnMatchSubscribe, Take
  <2>2. /\ Head(inbox[s]) \in ToSet(inbox[s])
        /\ Head(inbox[s]) \in Mail /\ Head(inbox[s]).type = "subscribed"
    BY <1>0, <2>1, Taken, Inbox
  <2>3. PICK m \in Match : m = Head(inbox[s]).m /\ Head(inbox[s]) = Subscribed(m)
    BY <2>2, MailFields
  <2>4. matchStarted[m] /\ s \in Players(m)
    BY <2>1, <2>2, <2>3 DEF ClientInv, ToldInv, Informed, Told
  <2>5. matchStarted'[m] /\ s \in Players(m)' /\ match'[s] = m
    BY <1>0, <1>1, <2>1, <2>3, <2>4 DEF ClientTypes
  <2> QED
    BY <1>0, <2>1, <2>5 DEF ClientTypes, Players
<1>4. ASSUME NEW s \in Session
      PROVE  match'[s] = match[s] \/ OnMatchSubscribe(s)
  <2>1. ASSUME NEW t \in Session, OnMatchSubscribe(t)
        PROVE  match'[s] = match[s] \/ OnMatchSubscribe(s)
    BY <1>3, <2>1
  <2> QED
    BY <2>1, Zenon
    DEF ClientNext, Receive, ServerHandle, Publish, Logon, LogonRefused, ConnectionLost, TryAgain,
        OnDidLogon, OnLeftMatch, OnMatchOid, OnMatchSubscribeFail, OnMessages, EnterStart, SendWin,
        ProcessTicks, allVars, clientVars
<1> QED
  BY <1>2, <1>3, <1>4 DEF PlayedInv

\* What a client makes of a message does not change while it looks at the match.
LEMMA OutcomeStays ==
  ASSUME ClientInv, PlayedInv, [ClientNext]_allVars, NEW s \in Session, NEW m \in Match, NEW f,
         match[s] = m, match'[s] = m
  PROVE  Outcome(s, f)' = Outcome(s, f)
<1>1. ServerInv
  BY DEF ClientInv
<1>2. clients'[m] = clients[m]
  BY <1>1, StartedPlayersStay, NoMatchAssumption DEF PlayedInv
<1> QED
  BY <1>2 DEF Outcome, LocalPlayer

\* One message goes on to end the battle of m.
LEMMA VerdictStep ==
  ASSUME ClientInv, VerdictInv, [ClientNext]_allVars, NEW m \in Match
  PROVE  \E f : Verdict(m, f)'
<1>0. /\ TypeOK /\ ServerInv /\ ClientTypes /\ QuietInv /\ PlayedInv
      /\ \A s \in Session : Finished(s, m) => ~sending[m]
  BY DEF ClientInv, ServerInv, VerdictInv
<1>1. CASE \A b : Around(m, b)' /\ Ends(b) => Around(m, b)
  <2>1. PICK f : Verdict(m, f)
    BY DEF VerdictInv
  <2>2. ASSUME NEW s \in Session, Finished(s, m)'
        PROVE  newGameCondition'[s] = Outcome(s, f)'
    <3>1. match[s] = m /\ match'[s] = m
      BY <2>2, FinishedFrom DEF Finished
    <3>2. ASSUME NEW b \in ToSet(ticks[s]), Ends(b) PROVE EndOf(b) = f
      BY <2>1, <3>1, <3>2 DEF Verdict, Around
    <3>3. newGameCondition'[s] = Outcome(s, f)
      BY <2>1, <2>2, <3>2, FinishedFrom DEF Verdict
    <3> QED
      BY <1>0, <3>1, <3>3, OutcomeStays
  <2>3. Verdict(m, f)'
    BY <1>1, <2>1, <2>2 DEF Verdict
  <2> QED
    BY <2>3
<1>2. ASSUME NEW b, Around(m, b)', Ends(b), ~Around(m, b)
      PROVE  \E f : Verdict(m, f)'
  <2>1. Publish(m) /\ b = queued[m] /\ sending[m]
    BY <1>0, <1>2, AroundStep DEF Publish, SendMessages
  <2> DEFINE f == EndOf(b)
  <2>2. f \in Message /\ Final(f)
    BY <1>0, <1>2, <2>1, EndIsFinal DEF TypeOK
  <2>3. ASSUME NEW c, Around(m, c)', Ends(c) PROVE EndOf(c) = f
    <3>1. ~Around(m, c)
      BY <1>0, <2>1, <2>3 DEF QuietInv
    <3> QED
      BY <1>0, <2>1, <2>3, <3>1, AroundStep
  <2> HIDE DEF f
  <2>4. ASSUME NEW s \in Session PROVE ~Finished(s, m)'
    <3>1. ASSUME NEW c \in ToSet(ticks[s]), Ends(c), match[s] = m PROVE FALSE
      BY <1>0, <2>1, <3>1 DEF QuietInv, Around
    <3> QED
      BY <1>0, <2>1, <3>1, FinishedFrom
  <2>5. Verdict(m, f)'
    BY <2>2, <2>3, <2>4 DEF Verdict
  <2> QED
    BY <2>5
<1> QED
  BY <1>1, <1>2

\* A player who is gone stays one.
LEMMA SomeGoneStays ==
  ASSUME ClientInv, [ClientNext]_allVars, NEW m \in Match, SomeGone(m)
  PROVE  SomeGone(m)'
<1>0. ServerInv /\ [Next]_vars /\ TypeOK
  BY ClientStepIsServerStep DEF ClientInv, ServerInv
<1>1. PICK u \in Players(m) : session[u] = "gone"
  BY DEF SomeGone
<1>2. u \in Session
  BY <1>0, <1>1, PlayersType
<1>3. u \in Players(m)' /\ session'[u] = "gone"
  BY <1>0, <1>1, <1>2, EngagedFrom, GoneStays
<1> QED
  BY <1>3 DEF SomeGone

\* Every step keeps what is said of the ends of the matches.
LEMMA VerdictsStep ==
  ASSUME ClientInv, VerdictInv, [ClientNext]_allVars
  PROVE  VerdictInv'
<1>0. /\ TypeOK /\ ServerInv /\ ClientTypes /\ QuietInv /\ PlayedInv /\ ToldInv
      /\ [Next]_vars
  BY ClientStepIsServerStep DEF ClientInv, ServerInv, VerdictInv
<1>1. PlayedInv'
  BY <1>0, PlayedStep
<1>2. ASSUME NEW m \in Match PROVE \E f : Verdict(m, f)'
  BY VerdictStep
<1>3. ASSUME NEW m \in Match, NEW s \in Session, Finished(s, m)' PROVE ~sending'[m]
  <2>1. match[s] = m /\ matchStarted[m]
    BY <1>0, <1>3, FinishedFrom, NoMatchAssumption DEF PlayedInv
  <2>2. ~sending[m]
    <3>1. ASSUME NEW b \in ToSet(ticks[s]), Ends(b) PROVE ~sending[m]
      BY <1>0, <2>1, <3>1 DEF QuietInv, Around
    <3> QED
      BY <1>3, <3>1, FinishedFrom DEF VerdictInv
  <2> QED
    BY <1>0, <2>1, <2>2, TimerStep
<1>4. ASSUME NEW m \in Match, NEW msg \in ToSet(queued'[m]), msg.kind = "playerDisconnected"
      PROVE  SomeGone(m)'
  <2>1. CASE msg \in ToSet(queued[m])
    BY <1>4, <2>1, SomeGoneStays DEF VerdictInv, HasNotice
  <2>2. ASSUME events # <<>>, Head(events).type = "sendMessage", msg = Head(events).msg
        PROVE  FALSE
    BY <1>0, <1>4, <2>2, HeadQueued DEF QuietInv
  <2>3. ASSUME NEW u \in Players(m), session'[u] = "gone" PROVE SomeGone(m)'
    <3>1. u \in Session
      BY <1>0, PlayersType
    <3>2. u \in Players(m)'
      BY <1>0, <3>1, EngagedFrom
    <3> QED
      BY <2>3, <3>2 DEF SomeGone
  <2> QED
    BY <1>0, <2>1, <2>2, <2>3, QueuedStep
<1>5. ASSUME NEW m \in Match, NEW b, Around(m, b)', HasNotice(b) PROVE SomeGone(m)'
  <2>1. CASE Around(m, b)
    BY <1>5, <2>1, SomeGoneStays DEF VerdictInv
  <2>2. CASE b = queued[m]
    BY <1>5, <2>2, SomeGoneStays DEF VerdictInv
  <2> QED
    BY <1>0, <1>5, <2>1, <2>2, AroundStep
<1>6. ASSUME NEW m \in Match, NEW s \in Session, Finished(s, m)',
             newGameCondition'[s] = "OPPONENT_DISCONNECTED", NEW t \in Players(m)' \ {s}
      PROVE  session'[t] = "gone"
  <2>1. match[s] = m /\ matchStarted[m] /\ s \in Players(m)
    BY <1>0, <1>6, FinishedFrom, NoMatchAssumption DEF PlayedInv
  <2>2. t \in Players(m) /\ t \in Session
    <3>1. clients'[m] = clients[m]
      BY <1>0, <2>1, StartedPlayersStay
    <3> QED
      BY <1>0, <3>1, PlayersType DEF Players
  <2>3. CASE Finished(s, m) /\ newGameCondition'[s] = newGameCondition[s]
    <3>1. session[t] = "gone"
      BY <1>6, <2>2, <2>3 DEF VerdictInv
    <3> QED
      BY <1>0, <2>2, <3>1, GoneStays
  <2>4. ASSUME session[s] = "on", NEW b \in ToSet(ticks[s]), Ends(b),
               newGameCondition'[s] = Outcome(s, EndOf(b))
        PROVE  session[t] = "gone"
    <3>1. Around(m, b)
      BY <2>1, <2>4 DEF Around
    <3>2. EndOf(b) \in ToSet(b) /\ EndOf(b).kind = "playerDisconnected"
      <4>1. b \in Seq(Message)
        BY <1>0, <3>1, AroundType
      <4>2. EndOf(b) \in ToSet(b)
        BY <2>4, <4>1, EndIsFinal
      <4> QED
        BY <1>6, <2>4, <4>2 DEF Outcome
    <3>3. PICK u \in Players(m) : session[u] = "gone"
      BY <3>1, <3>2 DEF VerdictInv, HasNotice, SomeGone
    <3>4. Len(clients[m]) = 2
      BY <1>0, <2>1 DEF ServerInv, PairsInv, PlayersDistinguishable
    <3>5. \A x, y, z \in Players(m) : x = y \/ y = z \/ x = z
      BY <1>0, <3>4 DEF Players, ToSet, TypeOK
    <3> QED
      BY <1>6, <2>1, <2>2, <2>4, <3>3, <3>5
  <2>5. CASE ~(Finished(s, m) /\ newGameCondition'[s] = newGameCondition[s])
    <3>1. session[t] = "gone"
      BY <1>6, <2>4, <2>5, FinishedFrom
    <3> QED
      BY <1>0, <2>2, <3>1, GoneStays
  <2> QED
    BY <2>3, <2>5
<1> QED
  BY <1>1, <1>2, <1>3, <1>4, <1>5, <1>6 DEF VerdictInv, HasNotice

\* Nobody has been in a battle when the system starts, and nothing is around.
LEMMA VerdictBegins == ClientInit => VerdictInv
<1> SUFFICES ASSUME ClientInit PROVE VerdictInv
  OBVIOUS
<1>1. /\ \A s \in Session : match[s] = NoMatch /\ ticks[s] = <<>> /\ inbox[s] = <<>>
      /\ events = <<>> /\ \A m \in Match : queued[m] = <<>>
  BY DEF ClientInit, Init
<1>2. \A m \in Match, s \in Session : ~Finished(s, m)
  BY <1>1, NoMatchAssumption DEF Finished
<1>3. \A m \in Match : \A b : ~Around(m, b)
  BY <1>1 DEF Around, ToSet
<1> DEFINE won == [kind |-> "iWon", sender |-> 1]
<1>4. won \in Message /\ Final(won)
  BY DEF Message, Final
<1> HIDE DEF won
<1>5. \A m \in Match : Verdict(m, won)
  BY <1>2, <1>3, <1>4 DEF Verdict
<1>6. \A m \in Match : ~HasNotice(queued[m])
  BY <1>1 DEF HasNotice, ToSet
<1>7. PlayedInv
  BY <1>1 DEF PlayedInv
<1> QED
  BY <1>2, <1>3, <1>5, <1>6, <1>7 DEF VerdictInv

\* Two clients that have left the battle of the same match agree on how it ended,
\* and one who is told that the opponent left is told so of one that has.
THEOREM OutcomesAgreed == ClientSpec => []OutcomesAgree
<1>1. ClientInv /\ VerdictInv /\ [ClientNext]_allVars => (ClientInv /\ VerdictInv)'
  BY ClientStep, VerdictsStep
<1>2. ASSUME ClientInv, VerdictInv PROVE OutcomesAgree
  <2> SUFFICES ASSUME NEW s \in Session, NEW t \in Session, s # t, match[s] = match[t],
                      match[s] # NoMatch, ~InBattle(s)
               PROVE  /\ ~InBattle(t) => (newGameCondition[s] = "WON" <=> newGameCondition[t] = "LOST")
                      /\ newGameCondition[s] = "OPPONENT_DISCONNECTED" => session[t] # "on"
    BY DEF OutcomesAgree
  <2>0. TypeOK /\ PlayersDistinguishable /\ ClientTypes
    BY <1>2 DEF ClientInv, ServerInv, PairsInv
  <2>1. PICK m \in Match : match[s] = m /\ match[t] = m
    BY <2>0 DEF ClientTypes
  <2>2. matchStarted[m] /\ s \in Players(m) /\ t \in Players(m) /\ Finished(s, m)
    BY <1>2, <2>1 DEF VerdictInv, PlayedInv, Finished
  <2>3. LocalPlayer(s) \in {1, 2} /\ LocalPlayer(t) \in {1, 2} /\ LocalPlayer(s) # LocalPlayer(t)
    <3> DEFINE c == clients[m]
    <3>1. c \in Seq(Session) /\ Len(c) = 2 /\ NameOf[c[1]] # NameOf[c[2]]
      BY <2>0, <2>2 DEF TypeOK, PlayersDistinguishable
    <3>2. s \in {c[1], c[2]} /\ t \in {c[1], c[2]}
      BY <2>2, <3>1 DEF Players, ToSet
    <3>3. /\ LocalPlayer(s) = IF NameOf[c[1]] = NameOf[s] THEN 1 ELSE 2
          /\ LocalPlayer(t) = IF NameOf[c[1]] = NameOf[t] THEN 1 ELSE 2
      BY <2>1 DEF LocalPlayer
    <3> QED
      BY <3>1, <3>2, <3>3
  <2>4. ASSUME ~InBattle(t)
        PROVE  newGameCondition[s] = "WON" <=> newGameCondition[t] = "LOST"
    <3>1. PICK f : Verdict(m, f)
      BY <1>2 DEF VerdictInv
    <3>2. /\ newGameCondition[s] = Outcome(s, f) /\ newGameCondition[t] = Outcome(t, f)
          /\ f.sender \in {1, 2}
      BY <2>1, <2>2, <2>4, <3>1 DEF Verdict, Finished, Message
    <3> QED
      BY <2>3, <3>2 DEF Outcome
  <2>5. ASSUME newGameCondition[s] = "OPPONENT_DISCONNECTED" PROVE session[t] # "on"
    BY <1>2, <2>2, <2>5 DEF VerdictInv
  <2> QED
    BY <2>4, <2>5
<1> QED
  BY <1>1, <1>2, ClientBegins, VerdictBegins, PTL DEF ClientSpec
=============================================================================
