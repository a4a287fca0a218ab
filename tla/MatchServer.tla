----------------------------- MODULE MatchServer -----------------------------
(***************************************************************************)
(* The Aztec game server: AztecAuthenticator and AztecSession (who may log *)
(* on and when a session ends), AztecMatchmaker (pairs callers of          *)
(* findMatch) and AztecMatchManager (one per match: collects messages,     *)
(* publishes them in batches ten times a second, shuts the match down).    *)
(*                                                                         *)
(* All of it runs on one thread, the distributed object manager of the     *)
(* Presents library.  That thread takes events from the front of one queue *)
(* and runs one handler to its end.  Setting an attribute of a distributed *)
(* object changes the field at once and posts an event that tells the      *)
(* listeners and the subscribed clients; destroy() only posts an event.    *)
(* So between the step that decides something and the step in which the    *)
(* rest of the server hears of it, any event already queued is handled.    *)
(* That gap is what this module is about.                                  *)
(*                                                                         *)
(* The clients are the environment here: any session that is on may post a *)
(* request.  AztecClient.tla replaces them by the real client.             *)
(***************************************************************************)
EXTENDS Naturals, Sequences, SequencesExt, FiniteSets

CONSTANTS
  Session,     \* client connections; one that comes back is another member
  Name,        \* user names
  NameOf,      \* the name each session logs on with
  Match,       \* match managers (and their MatchObjects) that may be made
  NoMatch,     \* null (awaiting), -1 and 0 (matchOid)
  MaxEvents,   \* bound: the environment and the timers wait above this length
  MaxQueued    \* bound: messages of a match waiting for its next batch

ASSUME NamesAssumption == NameOf \in [Session -> Name]
ASSUME NoMatchAssumption == NoMatch \notin Match
ASSUME BoundsAssumption == MaxEvents \in Nat /\ MaxQueued \in Nat

VARIABLES
  session,       \* life of a session and of its AztecClientObject
  matchOid,      \* AztecClientObject.matchOid
  awaiting,      \* AztecMatchmaker._awaitingSecond
  listening,     \* is _awaitingDeathListener a listener of the MatchObject?
  mobj,          \* life of a MatchObject
  clients,       \* AztecMatchManager._clients
  matchStarted,
  gotWinMessage,
  playerDisconnected,
  queued,        \* AztecMatchManager._queuedMessages
  sending,       \* is the interval _messageSender scheduled?
  subscribers,   \* sessions subscribed to the MatchObject
  events         \* the queue of the distributed object manager

matchVars == <<clients, matchStarted, gotWinMessage, playerDisconnected,
               queued, sending>>
vars == <<session, matchOid, awaiting, listening, mobj, matchVars,
          subscribers, events>>

-----------------------------------------------------------------------------
(* Values *)

\* "command" stands for every game message; the server looks only for IWon.
Message == [kind : {"iWon", "playerDisconnected", "command"}, sender : {1, 2}]

NoticeAsCommand == [kind |-> "command", sender |-> 1]

PlayerDisconnected == [kind |-> "playerDisconnected", sender |-> 1]

SessionState == {"off", "resolving", "on", "ended", "gone"}

Event ==
  [type : {"resolve", "findMatch", "clientDestroyed"}, s : Session]
    \cup [type : {"sendMessage"}, s : Session, m : Match, msg : Message]
    \cup [type : {"subscribe"}, s : Session, m : Match]
    \cup [type : {"matchOid"}, to : SUBSET Session, m : Match \cup {NoMatch}]
    \cup [type : {"messages"}, m : Match, batch : Seq(Message)]
    \cup [type : {"matchDestroyed"}, m : Match]

TypeOK ==
  /\ session \in [Session -> SessionState]
  /\ matchOid \in [Session -> Match \cup {NoMatch}]
  /\ awaiting \in Match \cup {NoMatch}
  /\ listening \in [Match -> BOOLEAN]
  /\ mobj \in [Match -> {"none", "live", "destroyed"}]
  /\ clients \in [Match -> Seq(Session)]
  /\ matchStarted \in [Match -> BOOLEAN]
  /\ gotWinMessage \in [Match -> BOOLEAN]
  /\ playerDisconnected \in [Match -> BOOLEAN]
  /\ queued \in [Match -> Seq(Message)]
  /\ sending \in [Match -> BOOLEAN]
  /\ subscribers \in [Match -> SUBSET Session]
  /\ events \in Seq(Event)

\* isActive(): the object exists until its destroyed event has been handled.
Active(s) == session[s] \in {"on", "ended"}

Players(m) == ToSet(clients[m])

Queued(e) == e \in ToSet(events)

\* what destroy() of a MatchObject posts
Destroyed(m) == [type |-> "matchDestroyed", m |-> m]

Init ==
  /\ session = [s \in Session |-> "off"]
  /\ matchOid = [s \in Session |-> NoMatch]
  /\ awaiting = NoMatch
  /\ listening = [m \in Match |-> FALSE]
  /\ mobj = [m \in Match |-> "none"]
  /\ clients = [m \in Match |-> <<>>]
  /\ matchStarted = [m \in Match |-> FALSE]
  /\ gotWinMessage = [m \in Match |-> FALSE]
  /\ playerDisconnected = [m \in Match |-> FALSE]
  /\ queued = [m \in Match |-> <<>>]
  /\ sending = [m \in Match |-> FALSE]
  /\ subscribers = [m \in Match |-> {}]
  /\ events = <<>>

-----------------------------------------------------------------------------
(* Sessions.  Authentication and the closing of a connection come from     *)
(* other threads: they are not handlers of queued events.                  *)

NeverInUse(name) == FALSE

\* getClient: the library registers a session when its connection is accepted
\* and forgets it in endSession.
InUse(name) ==
  \E s \in Session : NameOf[s] = name /\ session[s] \in {"resolving", "on"}

\* processAuthentication, and the start of the session.  (A connection that
\* passes the check in the instant before the other is registered is given that
\* other session by the library: it is not a member of Session of its own.)
Authenticate(s) ==
  /\ session[s] = "off"
  /\ ~InUse(NameOf[s])
  /\ Len(events) < MaxEvents
  /\ session' = [session EXCEPT ![s] = "resolving"]
  /\ events' = Append(events, [type |-> "resolve", s |-> s])
  /\ UNCHANGED <<matchOid, awaiting, listening, mobj, matchVars, subscribers>>

\* The session gets its AztecClientObject (AztecClientResolver).
HandleResolve(s) ==
  /\ events # <<>>
  /\ Head(events) = [type |-> "resolve", s |-> s]
  /\ session' = [session EXCEPT ![s] = "on"]
  /\ events' = Tail(events)
  /\ UNCHANGED <<matchOid, awaiting, listening, mobj, matchVars, subscribers>>

\* sessionConnectionClosed: the session ends at once, its name is free, and
\* the destruction of its AztecClientObject is queued.
ConnectionClosed(s) ==
  /\ session[s] = "on"
  /\ Len(events) < MaxEvents
  /\ session' = [session EXCEPT ![s] = "ended"]
  /\ events' = Append(events, [type |-> "clientDestroyed", s |-> s])
  /\ UNCHANGED <<matchOid, awaiting, listening, mobj, matchVars, subscribers>>

-----------------------------------------------------------------------------
(* Requests of clients *)

Post(s, e) ==
  /\ session[s] = "on"
  /\ Len(events) < MaxEvents
  /\ events' = Append(events, e)
  /\ UNCHANGED <<session, matchOid, awaiting, listening, mobj, matchVars,
                 subscribers>>

\* Bound: a search is only begun when it will be answered with the matches that
\* may be made: with a new one, or as the second player of the one that waits.
MatchesLeft ==
  LET searches == Len(SelectSeq(events, LAMBDA e : e.type = "findMatch"))
  IN \/ Cardinality({m \in Match : mobj[m] # "none"}) + searches < Cardinality(Match)
     \/ searches = 0 /\ awaiting # NoMatch /\ ~Queued(Destroyed(awaiting))

\* A client asks once, and asks again only after its match is over.
RequestFindMatch(s) ==
  /\ ~Queued([type |-> "findMatch", s |-> s])
  /\ \A m \in Match : s \in Players(m) => m # awaiting /\ ~sending[m]
  /\ MatchesLeft
  /\ Post(s, [type |-> "findMatch", s |-> s])

RequestSubscribe(s, m) ==
  /\ matchStarted[m] /\ s \in Players(m)
  /\ s \notin subscribers[m]
  /\ ~Queued([type |-> "subscribe", s |-> s, m |-> m])
  /\ Post(s, [type |-> "subscribe", s |-> s, m |-> m])

RequestSend(s, m, msg) ==
  /\ s \in subscribers[m]
  /\ msg.kind # "playerDisconnected"
  /\ clients[m][msg.sender] = s
  /\ Len(queued[m])
       + Len(SelectSeq(events, LAMBDA e : e.type = "sendMessage")) < MaxQueued
  /\ Post(s, [type |-> "sendMessage", s |-> s, m |-> m, msg |-> msg])

-----------------------------------------------------------------------------
(* AztecMatchManager *)

\* setMatchOid(oid) on each session of a set: the fields change, and the events
\* posted one after the other are one event of the queue here.
OidEvent(ss, oid) == [type |-> "matchOid", to |-> ss, m |-> oid]

SetOid(ss, oid) ==
  matchOid' = [t \in Session |-> IF t \in ss THEN oid ELSE matchOid[t]]

\* addPlayer of the first player
AddFirst(m, s) ==
  /\ clients' = [clients EXCEPT ![m] = Append(@, s)]
  /\ events' = Tail(events)
  /\ UNCHANGED <<matchOid, matchStarted, gotWinMessage, playerDisconnected,
                 queued, sending>>

AddSecondWithoutTimer(m, s) ==
  /\ clients' = [clients EXCEPT ![m] = Append(@, s)]
  /\ matchStarted' = [matchStarted EXCEPT ![m] = TRUE]
  /\ SetOid(Players(m) \cup {s}, m)
  /\ events' = Append(Tail(events), OidEvent(Players(m) \cup {s}, m))
  /\ UNCHANGED <<gotWinMessage, playerDisconnected, queued, sending>>

AddSecondTellsOne(m, s) ==
  /\ clients' = [clients EXCEPT ![m] = Append(@, s)]
  /\ sending' = [sending EXCEPT ![m] = TRUE]
  /\ matchStarted' = [matchStarted EXCEPT ![m] = TRUE]
  /\ SetOid({s}, m)
  /\ events' = Append(Tail(events), OidEvent({s}, m))
  /\ UNCHANGED <<gotWinMessage, playerDisconnected, queued>>

\* addPlayer of a later one.  Members whose object is gone are told of the match
\* too; their event is dropped.
AddSecond(m, s) ==
  /\ clients' = [clients EXCEPT ![m] = Append(@, s)]
  /\ sending' = [sending EXCEPT ![m] = TRUE]
  /\ matchStarted' = [matchStarted EXCEPT ![m] = TRUE]
  /\ SetOid(Players(m) \cup {s}, m)
  /\ events' = Append(Tail(events), OidEvent(Players(m) \cup {s}, m))
  /\ UNCHANGED <<gotWinMessage, playerDisconnected, queued>>

ShutdownWithoutDestroy(m, active, posted) ==
  /\ SetOid(Players(m) \cap active, NoMatch)
  /\ sending' = [sending EXCEPT ![m] = FALSE]
  /\ events' = Append(posted, OidEvent(Players(m) \cap active, NoMatch))

\* shutdown() run by a handler that has already posted what makes the queue
\* `posted`; active are the sessions whose object exists at that point.
Shutdown(m, active, posted) ==
  LET told == Append(posted, OidEvent(Players(m) \cap active, NoMatch))
  IN /\ SetOid(Players(m) \cap active, NoMatch)
     /\ sending' = [sending EXCEPT ![m] = FALSE]
     /\ events' = IF mobj[m] = "live" THEN Append(told, Destroyed(m)) ELSE told

\* The run of the interval _messageSender.  Setting an attribute of an object
\* that is gone posts nothing.
SendMessages(m) ==
  /\ sending[m]
  /\ Len(events) < MaxEvents
  /\ LET posted == IF mobj[m] = "live"
                   THEN Append(events, [type |-> "messages", m |-> m,
                                        batch |-> queued[m]])
                   ELSE events
     IN IF gotWinMessage[m] \/ playerDisconnected[m]
        THEN Shutdown(m, {t \in Session : Active(t)}, posted)
        ELSE events' = posted /\ UNCHANGED <<matchOid, sending>>
  /\ queued' = [queued EXCEPT ![m] = <<>>]
  /\ UNCHANGED <<session, awaiting, listening, mobj, clients, matchStarted,
                 gotWinMessage, playerDisconnected, subscribers>>

HandleSendIgnoresWin(s, m, msg) ==
  /\ events # <<>>
  /\ Head(events) = [type |-> "sendMessage", s |-> s, m |-> m, msg |-> msg]
  /\ queued' = [queued EXCEPT ![m] = Append(@, msg)]
  /\ events' = Tail(events)
  /\ UNCHANGED <<session, matchOid, awaiting, listening, mobj, clients, matchStarted,
                 gotWinMessage, playerDisconnected, sending, subscribers>>

\* sendMessage for a client.  The provider is never deregistered, so a match
\* that is over still accepts messages.
HandleSend(s, m, msg) ==
  /\ events # <<>>
  /\ Head(events) = [type |-> "sendMessage", s |-> s, m |-> m, msg |-> msg]
  /\ gotWinMessage' = [gotWinMessage EXCEPT ![m] = @ \/ msg.kind = "iWon"]
  /\ queued' = [queued EXCEPT ![m] = Append(@, msg)]
  /\ events' = Tail(events)
  /\ UNCHANGED <<session, matchOid, awaiting, listening, mobj, clients,
                 matchStarted, playerDisconnected, sending, subscribers>>

\* _clientDeathListener of every match the session was ever added to: a match
\* that has not started shuts down, the others queue the notice of the loss.
HandleClientDestroyed(s) ==
  LET playing == {m \in Match : s \in Players(m) /\ matchStarted[m]}
      waiting == {m \in Match : s \in Players(m) /\ ~matchStarted[m]}
  IN /\ events # <<>>
     /\ Head(events) = [type |-> "clientDestroyed", s |-> s]
     /\ session' = [session EXCEPT ![s] = "gone"]
     /\ playerDisconnected' = [m \in Match |-> playerDisconnected[m] \/ m \in playing]
     /\ queued' = [m \in Match |-> IF m \in playing
                                   THEN Append(queued[m], PlayerDisconnected)
                                   ELSE queued[m]]
     /\ \/ /\ waiting = {}
           /\ events' = Tail(events)
           /\ UNCHANGED <<matchOid, sending>>
        \/ \E m \in waiting :
             Shutdown(m, {t \in Session \ {s} : Active(t)}, Tail(events))
     /\ UNCHANGED <<awaiting, listening, mobj, clients, matchStarted,
                    gotWinMessage, subscribers>>

-----------------------------------------------------------------------------
(* AztecMatchmaker *)

\* findMatch when nobody waits: a new manager with its MatchObject
FindFirst(s) ==
  /\ events # <<>>
  /\ Head(events) = [type |-> "findMatch", s |-> s]
  /\ awaiting = NoMatch
  /\ \E m \in Match :
       /\ mobj[m] = "none"
       /\ mobj' = [mobj EXCEPT ![m] = "live"]
       /\ awaiting' = m
       /\ listening' = [listening EXCEPT ![m] = TRUE]
       /\ AddFirst(m, s)
  /\ UNCHANGED <<session, subscribers>>

FindSecondKeepsListener(s) ==
  /\ events # <<>>
  /\ Head(events) = [type |-> "findMatch", s |-> s]
  /\ awaiting # NoMatch
  /\ AddSecond(awaiting, s)
  /\ awaiting' = NoMatch
  /\ UNCHANGED <<session, listening, mobj, subscribers>>

\* findMatch when somebody waits
FindSecond(s) ==
  /\ events # <<>>
  /\ Head(events) = [type |-> "findMatch", s |-> s]
  /\ awaiting # NoMatch
  /\ AddSecond(awaiting, s)
  /\ listening' = [listening EXCEPT ![awaiting] = FALSE]
  /\ awaiting' = NoMatch
  /\ UNCHANGED <<session, mobj, subscribers>>

HandleAnyDestroyed(m) ==
  /\ events # <<>>
  /\ Head(events) = Destroyed(m)
  /\ mobj' = [mobj EXCEPT ![m] = "destroyed"]
  /\ awaiting' = NoMatch
  /\ listening' = [listening EXCEPT ![m] = FALSE]
  /\ events' = Tail(events)
  /\ UNCHANGED <<session, matchOid, matchVars, subscribers>>

\* The MatchObject is removed and its listeners hear of it; there is a single
\* _awaitingDeathListener, which does not look at which object died.
HandleMatchDestroyed(m) ==
  /\ events # <<>>
  /\ Head(events) = Destroyed(m)
  /\ mobj' = [mobj EXCEPT ![m] = "destroyed"]
  /\ awaiting' = IF listening[m] THEN NoMatch ELSE awaiting
  /\ listening' = [listening EXCEPT ![m] = FALSE]
  /\ events' = Tail(events)
  /\ UNCHANGED <<session, matchOid, matchVars, subscribers>>

-----------------------------------------------------------------------------
(* The rest of the library *)

\* A subscription to an object that is gone fails.
HandleSubscribe(s, m) ==
  /\ events # <<>>
  /\ Head(events) = [type |-> "subscribe", s |-> s, m |-> m]
  /\ subscribers' = [subscribers EXCEPT ![m] =
                       IF mobj[m] = "live" THEN @ \cup {s} ELSE @]
  /\ events' = Tail(events)
  /\ UNCHANGED <<session, matchOid, awaiting, listening, mobj, matchVars>>

\* An event nobody on the server listens to is only sent on to the clients.
HandleNotice ==
  /\ events # <<>>
  /\ Head(events).type \in {"messages", "matchOid"}
  /\ events' = Tail(events)
  /\ UNCHANGED <<session, matchOid, awaiting, listening, mobj, matchVars,
                 subscribers>>

\* The sessions an event reaches over the network when it is handled
Recipients(e) ==
  {s \in Session :
     /\ session[s] = "on"
     /\ \/ e.type = "matchOid" /\ s \in e.to
        \/ e.type = "messages" /\ mobj[e.m] = "live" /\ s \in subscribers[e.m]
        \/ e.type = "subscribe" /\ s = e.s}

-----------------------------------------------------------------------------
Handle ==
  \/ \E s \in Session : \/ HandleResolve(s)
                        \/ FindFirst(s)
                        \/ FindSecond(s)
                        \/ HandleClientDestroyed(s)
  \/ \E s \in Session, m \in Match : \/ HandleSubscribe(s, m)
                                     \/ \E msg \in Message : HandleSend(s, m, msg)
  \/ \E m \in Match : HandleMatchDestroyed(m)
  \/ HandleNotice

Server == Handle \/ \E m \in Match : SendMessages(m)

Environment ==
  \/ \E s \in Session : Authenticate(s) \/ ConnectionClosed(s) \/ RequestFindMatch(s)
  \/ \E s \in Session, m \in Match :
       RequestSubscribe(s, m) \/ \E msg \in Message : RequestSend(s, m, msg)

Next == Server \/ Environment

Spec == Init /\ [][Next]_vars

-----------------------------------------------------------------------------
(* What the server promises.  A match is closing once its shutdown has      *)
(* posted the destruction of its MatchObject.                               *)

Closing(m) == Queued(Destroyed(m))

\* A match that exists and has one player is the one the matchmaker holds, and
\* the one it holds is such a match: no player is left in a match that nobody
\* will ever be added to (AztecMatchmaker.findMatch, the shared death listener).
WaitingMatchOffered ==
  /\ \A m \in Match : mobj[m] = "live" /\ ~matchStarted[m] => awaiting = m
  /\ awaiting # NoMatch => /\ mobj[awaiting] = "live"
                           /\ ~matchStarted[awaiting]
                           /\ Len(clients[awaiting]) = 1
                           /\ listening[awaiting]

\* When the player who waits is gone, the match it waited in is on its way out:
\* a later search cannot be paired with nobody for ever.
WaitingPlayerPresent ==
  \A m \in Match :
    mobj[m] = "live" /\ ~matchStarted[m] /\ (\E s \in Players(m) : session[s] = "gone")
      => Closing(m)

\* The loss of a player of a match in play is always going to be published: the
\* flag is up, the notice is queued and the timer that publishes it runs
\* (AztecMatchManager, _clientDeathListener against addPlayer).
LossNoticed ==
  \A m \in Match :
    /\ matchStarted[m] /\ mobj[m] = "live" /\ ~Closing(m)
    /\ \E s \in Players(m) : session[s] = "gone"
    => playerDisconnected[m] /\ PlayerDisconnected \in ToSet(queued[m]) /\ sending[m]

\* The client tells which player it is by comparing player1 with its own name
\* (ConnectMode), so the two names of a match have to differ, although a name
\* may be used again as soon as its session has ended.
PlayersDistinguishable ==
  \A m \in Match : matchStarted[m] =>
    /\ Len(clients[m]) = 2
    /\ NameOf[clients[m][1]] # NameOf[clients[m][2]]

\* A player's matchOid names the match it plays until that match is closed: an
\* older match that ends late does not throw the player out of the next one.
PlayersPointAtMatch ==
  \A m \in Match : matchStarted[m] /\ mobj[m] = "live" /\ ~Closing(m) =>
    \A s \in Players(m) : Active(s) => matchOid[s] = m

Final(msg) == msg.kind \in {"iWon", "playerDisconnected"}

\* The step that closes match m, which is in play, has just published a batch of it
\* with a message that ends the battle.
ClosedByFinal(m) ==
  matchStarted[m] /\ mobj[m] = "live" /\ ~Closing(m) /\ Closing(m)' =>
    \E i \in 1..Len(events') :
       /\ events'[i].type = "messages"
       /\ events'[i].m = m
       /\ \E k \in 1..Len(events'[i].batch) : Final(events'[i].batch[k])
       /\ \A j \in 1..Len(events') : events'[j] = Destroyed(m) => j > i

\* A match in play is closed only by a step that has just published a batch
\* with a message that ends the battle on the clients; nothing else reaches
\* them (AztecMatchManager, run of _messageSender).
ClosedByFinalBatch == [][\A m \in Match : ClosedByFinal(m)]_vars

\* The server implements the matchmaking its players count on: a search is put
\* together with the player who waits, and nobody stops waiting without an
\* opponent but by leaving (AztecMatchmaker.findMatch and its death listener,
\* AztecMatchManager.addPlayer and _clientDeathListener together).
M == INSTANCE Matchmaking WITH
       Player <- Session, Game <- Match, NoGame <- NoMatch,
       waiting <- awaiting, players <- clients,
       left <- {s \in Session : session[s] = "gone"}
ImplementsMatchmaking == M!Spec
=============================================================================
