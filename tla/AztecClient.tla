----------------------------- MODULE AztecClient -----------------------------
(***************************************************************************)
(* The life of a client, from the name screen to the battle and back, put  *)
(* together with the server of MatchServer.tla: AztecClient (the           *)
(* connection), ConnectMode and StartMatchView (ask for a match),          *)
(* NetworkedMessageMgr (batches received and not yet processed), the part  *)
(* of BattleMessages that ends a battle, and NetworkFailureMode.           *)
(*                                                                         *)
(* The client is one thread: messages of the server are dispatched one at  *)
(* a time, and so is each frame.  What a frame pushes on the mode stack or *)
(* pops from it takes effect at the end of the frame.  The game itself is  *)
(* in Battle.tla; here a client in a battle may claim victory at any time, *)
(* and batches without messages, which end nothing, are left out.          *)
(***************************************************************************)
EXTENDS MatchServer

VARIABLES
  inbox,       \* what the network still has to bring to a client, in order
  modes,       \* the mode stack, the visible mode last
  startMatch,  \* _startMatch: absent, shown, or START was typed
  match,       \* the MatchObject of the latest BattleMode
  ticks,       \* NetworkedMessageMgr._ticks
  newGameCondition

clientVars == <<modes, startMatch, match, ticks, newGameCondition>>
allVars == <<vars, inbox, clientVars>>

Mode == {"connect", "battle", "failure"}

Condition == {"INITIAL", "WON", "LOST", "OPPONENT_DISCONNECTED"}

ClientTypeOK ==
  /\ TypeOK
  /\ \A s \in Session : \A i \in 1..Len(inbox[s]) :
       inbox[s][i].type \in {"resolve", "matchOid", "messages",
                             "subscribed", "subscribeFailed"}
  /\ modes \in [Session -> Seq(Mode)]
  /\ startMatch \in [Session -> {"none", "shown", "entered"}]
  /\ match \in [Session -> Match \cup {NoMatch}]
  /\ ticks \in [Session -> Seq(Seq(Message))]
  /\ newGameCondition \in [Session -> Condition]

ClientInit ==
  /\ Init
  /\ inbox = [s \in Session |-> <<>>]
  /\ modes = [s \in Session |-> <<"connect">>]
  /\ startMatch = [s \in Session |-> "none"]
  /\ match = [s \in Session |-> NoMatch]
  /\ ticks = [s \in Session |-> <<>>]
  /\ newGameCondition = [s \in Session |-> "INITIAL"]

Shows(s, mode) == modes[s] # <<>> /\ Last(modes[s]) = mode

InBattle(s) == "battle" \in ToSet(modes[s])

LocalPlayerFromZero(s) ==
  IF NameOf[clients[match[s]][1]] = NameOf[s] THEN 0 ELSE 1

LocalPlayerSwapped(s) ==
  IF NameOf[clients[match[s]][1]] = NameOf[s] THEN 2 ELSE 1

\* The player this client controls: player1 when its name is the one given.
LocalPlayer(s) ==
  IF NameOf[clients[match[s]][1]] = NameOf[s] THEN 1 ELSE 2

\* pushMode.  ConnectMode.exit destroys the start screen.
Push(s, mode) ==
  /\ modes' = [modes EXCEPT ![s] = Append(@, mode)]
  /\ startMatch' = [startMatch EXCEPT ![s] = IF Shows(s, "connect") THEN "none" ELSE @]

-----------------------------------------------------------------------------
(* The server, and the network from it to the clients *)

\* What reaches a client of an event: a subscription is answered.
Sent(e) ==
  IF e.type = "subscribe"
  THEN [type |-> IF mobj[e.m] = "live" THEN "subscribed" ELSE "subscribeFailed",
        m |-> e.m]
  ELSE e

Deliver(e) ==
  inbox' = [s \in Session |-> IF s \in Recipients(e) \/ e = [type |-> "resolve", s |-> s]
                              THEN Append(inbox[s], Sent(e))
                              ELSE inbox[s]]

ServerHandle == Handle /\ Deliver(Head(events)) /\ UNCHANGED clientVars

Publish(m) ==
  /\ queued[m] # <<>>
  /\ SendMessages(m)
  /\ UNCHANGED <<inbox, clientVars>>

-----------------------------------------------------------------------------
(* Logging on and off *)

\* ConnectMode.connect and AztecClient's logon
Logon(s) ==
  /\ modes[s] = <<"connect">>
  /\ Authenticate(s)
  /\ UNCHANGED <<inbox, clientVars>>

\* CLIENT_FAILED_TO_LOGON: "Username already being used!"
LogonRefused(s) ==
  /\ modes[s] = <<"connect">>
  /\ session[s] = "off"
  /\ InUse(NameOf[s])
  /\ Push(s, "failure")
  /\ UNCHANGED <<vars, inbox, match, ticks, newGameCondition>>

\* The connection is lost: CLIENT_CONNECTION_FAILED on this side, and what the
\* network still held is gone.  Closing the application does the same to the
\* server.
ConnectionLost(s) ==
  /\ ConnectionClosed(s)
  /\ inbox' = [inbox EXCEPT ![s] = <<>>]
  /\ IF "connect" \in ToSet(modes[s]) THEN Push(s, "failure")
                                      ELSE UNCHANGED <<modes, startMatch>>
  /\ UNCHANGED <<match, ticks, newGameCondition>>

\* START on the failure screen: every mode goes for a new ConnectMode, which is
\* that of another member of Session.  The old AztecClient is not logged off; one
\* whose session is over has no effect on anything, and its end is left out.
TryAgain(s) ==
  /\ Shows(s, "failure")
  /\ session[s] = "on"
  /\ modes' = [modes EXCEPT ![s] = <<>>]
  /\ UNCHANGED <<vars, inbox, startMatch, match, ticks, newGameCondition>>

-----------------------------------------------------------------------------
(* What the server sends *)

\* The first message is of this form; it is taken off the inbox.
Take(s, type) ==
  /\ session[s] = "on"
  /\ inbox[s] # <<>>
  /\ Head(inbox[s]).type = type
  /\ inbox' = [inbox EXCEPT ![s] = Tail(@)]

\* CLIENT_DID_LOGON
OnDidLogon(s) ==
  /\ Take(s, "resolve")
  /\ startMatch' = [startMatch EXCEPT ![s] = "shown"]
  /\ UNCHANGED <<vars, modes, match, ticks, newGameCondition>>

\* matchOidChanged, without a match and with one
OnLeftMatch(s) ==
  /\ Take(s, "matchOid")
  /\ Head(inbox[s]).m = NoMatch
  /\ UNCHANGED <<vars, clientVars>>

OnMatchOid(s) ==
  /\ Take(s, "matchOid")
  /\ Head(inbox[s]).m # NoMatch
  /\ Post(s, [type |-> "subscribe", s |-> s, m |-> Head(inbox[s]).m])
  /\ UNCHANGED clientVars

\* onMatchObject: a new BattleMode with its NetworkedMessageMgr
OnMatchSubscribe(s) ==
  /\ Take(s, "subscribed")
  /\ Push(s, "battle")
  /\ match' = [match EXCEPT ![s] = Head(inbox[s]).m]
  /\ ticks' = [ticks EXCEPT ![s] = <<>>]
  /\ UNCHANGED <<vars, newGameCondition>>

OnMatchSubscribeFail(s) ==
  /\ Take(s, "subscribeFailed")
  /\ Push(s, "failure")
  /\ UNCHANGED <<vars, match, ticks, newGameCondition>>

\* messagesChanged: one more tick for the NetworkedMessageMgr of that object
OnMessages(s) ==
  /\ Take(s, "messages")
  /\ ticks' = [ticks EXCEPT ![s] =
                 IF match[s] = Head(inbox[s]).m THEN Append(@, Head(inbox[s]).batch)
                                                ELSE @]
  /\ UNCHANGED <<vars, modes, startMatch, match, newGameCondition>>

Receive(s) ==
  \/ OnDidLogon(s)
  \/ OnLeftMatch(s)
  \/ OnMatchOid(s)
  \/ OnMatchSubscribe(s)
  \/ OnMatchSubscribeFail(s)
  \/ OnMessages(s)

-----------------------------------------------------------------------------
(* The player and the frames *)

\* START is typed: _startEntered, then findMatch.
EnterStart(s) ==
  /\ Shows(s, "connect")
  /\ startMatch[s] = "shown"
  /\ startMatch' = [startMatch EXCEPT ![s] = "entered"]
  /\ MatchesLeft
  /\ Post(s, [type |-> "findMatch", s |-> s])
  /\ UNCHANGED <<inbox, modes, match, ticks, newGameCondition>>

\* BattleMessages.win: every hit on a beaten opponent sends one.
SendWin(s) ==
  /\ Shows(s, "battle")
  /\ Len(queued[match[s]])
       + Len(SelectSeq(events, LAMBDA e : e.type = "sendMessage")) < MaxQueued
  /\ Post(s, [type |-> "sendMessage", s |-> s, m |-> match[s],
              msg |-> [kind |-> "iWon", sender |-> LocalPlayer(s)]])
  /\ UNCHANGED <<inbox, clientVars>>

OutcomeAlwaysWon(s, msg) ==
  IF msg.kind = "playerDisconnected" THEN "OPPONENT_DISCONNECTED" ELSE "WON"

\* What handleMessage makes of a final message
Outcome(s, msg) ==
  IF msg.kind = "playerDisconnected" THEN "OPPONENT_DISCONNECTED"
  ELSE IF msg.sender = LocalPlayer(s) THEN "WON" ELSE "LOST"

\* The places of the final messages in a list of batches
Finals(batches) ==
  UNION {{i} \X {k \in DOMAIN batches[i] : Final(batches[i][k])} : i \in DOMAIN batches}

Ends(batch) == \E k \in DOMAIN batch : Final(batch[k])

\* The last final message of a batch, and of a list of batches
EndOf(batch) ==
  batch[CHOOSE k \in DOMAIN batch :
          Final(batch[k]) /\ \A j \in DOMAIN batch : Final(batch[j]) => j <= k]

LastFinal(batches) ==
  EndOf(batches[CHOOSE i \in DOMAIN batches :
                  Ends(batches[i]) /\ \A j \in DOMAIN batches : Ends(batches[j]) => j <= i])

\* A frame of a visible BattleMode: processTicks takes all the ticks and handles
\* all their messages, each final one pops a mode.  The ConnectMode that comes
\* to light shows its start screen, unless it is popped in turn.
ProcessTicks(s) ==
  LET pops == Cardinality(Finals(ticks[s]))
      left == IF pops <= Len(modes[s]) THEN Len(modes[s]) - pops ELSE 0
  IN /\ session[s] = "on"
     /\ Shows(s, "battle")
     /\ ticks[s] # <<>>
     /\ ticks' = [ticks EXCEPT ![s] = <<>>]
     /\ modes' = [modes EXCEPT ![s] = SubSeq(@, 1, left)]
     /\ newGameCondition' = [newGameCondition EXCEPT ![s] =
                               IF pops = 0 THEN @ ELSE Outcome(s, LastFinal(ticks[s]))]
     /\ startMatch' = [startMatch EXCEPT ![s] =
                         IF left > 0 /\ modes[s][left] = "connect" THEN "shown" ELSE "none"]
     /\ UNCHANGED <<vars, inbox, match>>

-----------------------------------------------------------------------------
ClientNext ==
  \/ ServerHandle
  \/ \E m \in Match : Publish(m)
  \/ \E s \in Session :
       \/ Logon(s) \/ LogonRefused(s) \/ ConnectionLost(s) \/ TryAgain(s)
       \/ Receive(s) \/ EnterStart(s) \/ SendWin(s) \/ ProcessTicks(s)

ClientSpec == ClientInit /\ [][ClientNext]_allVars

\* The server's thread takes the next event, the timers fire, the network
\* brings what is on its way and frames are drawn.  Nobody has to log on, type
\* START, win or lose the connection.
Fairness ==
  /\ WF_allVars(ServerHandle)
  /\ \A m \in Match : WF_allVars(Publish(m))
  /\ \A s \in Session : WF_allVars(Receive(s)) /\ WF_allVars(ProcessTicks(s))

FairClientSpec == ClientSpec /\ Fairness

-----------------------------------------------------------------------------
(* Properties *)

\* A message that ends the battle of this client has been published and has not
\* been handled yet.
FinalOnItsWay(s) ==
  \/ \E i \in 1..Len(events) :
       /\ events[i].type = "messages" /\ events[i].m = match[s]
       /\ Ends(events[i].batch)
       /\ \A j \in 1..i : events[j] # Destroyed(match[s])
  \/ \E i \in 1..Len(inbox[s]) :
       /\ inbox[s][i].type = "messages" /\ inbox[s][i].m = match[s]
       /\ Ends(inbox[s][i].batch)
  \/ \E i \in 1..Len(ticks[s]) : Ends(ticks[s][i])

\* A client in a battle is never stranded: either its match goes on, with the
\* client subscribed and the timer running, or the message that ends the battle
\* is on its way to it.
BattleHasFuture ==
  \A s \in Session : session[s] = "on" /\ InBattle(s) =>
    \/ /\ mobj[match[s]] = "live" /\ ~Closing(match[s])
       /\ sending[match[s]] /\ s \in subscribers[match[s]]
    \/ FinalOnItsWay(s)

\* A client that shows "Searching for opponent" is known to the server: its
\* request, the match it waits in, or the answer exists.
SearchHasFuture ==
  \A s \in Session : session[s] = "on" /\ startMatch[s] = "entered" =>
    \/ Queued([type |-> "findMatch", s |-> s])
    \/ awaiting # NoMatch /\ s \in Players(awaiting) /\ ~Closing(awaiting)
    \/ \E i \in 1..Len(events) :
         /\ events[i].type \in {"matchOid", "subscribe"} /\ events[i].m # NoMatch
         /\ IF events[i].type = "matchOid" THEN s \in events[i].to ELSE s = events[i].s
    \/ \E i \in 1..Len(inbox[s]) :
         \/ inbox[s][i].type \in {"subscribed", "subscribeFailed"}
         \/ inbox[s][i].type = "matchOid" /\ inbox[s][i].m # NoMatch

\* Two clients that have both left the battle of the same match agree on how it
\* ended; one who is told that the opponent left is not told so of a client that
\* is still there.
OutcomesAgree ==
  \A s, t \in Session :
    /\ s # t /\ match[s] = match[t] /\ match[s] # NoMatch
    /\ ~InBattle(s)
    => /\ ~InBattle(t) => (newGameCondition[s] = "WON" <=> newGameCondition[t] = "LOST")
       /\ newGameCondition[s] = "OPPONENT_DISCONNECTED" => session[t] # "on"

\* A battle ends on a client only when its own match is closed or gone: what is
\* left of an older match, still on its way or in _ticks, ends no later battle
\* (NetworkedMessageMgr, one per MatchObject).
NoStrayEnd ==
  [][\A s \in Session : InBattle(s) /\ ~InBattle(s)' =>
       Closing(match[s]) \/ mobj[match[s]] = "destroyed"]_allVars

\* The clients use the server as it counts on: each searches only when no match of
\* its own goes on (_startEntered, ConnectMode.showStartMatch), subscribes once to a
\* match it was told of (AztecClient.gotClientObject), and sends to a match it is
\* subscribed to, under its own number (ConnectMode.connect); the server checks none
\* of this.
ImplementsServer == Spec

\* A player whose opponent is gone does not stay in the battle for ever
\* (AztecMatchManager._clientDeathListener and its interval).
AbandonedBattleEnds ==
  \A s \in Session : \A t \in Session \ {s} :
    (/\ InBattle(s) /\ session[s] = "on"
     /\ t \in Players(match[s]) /\ session[t] = "gone")
      ~> (~InBattle(s) \/ session[s] # "on")

\* Of two players who search, one stops searching: it gets a match, or is told
\* that it failed (AztecMatchmaker.findMatch).
SearchersMeet ==
  \A pair \in {p \in SUBSET Session : Cardinality(p) = 2} :
    (\A s \in pair : session[s] = "on" /\ startMatch[s] = "entered")
      ~> (\E s \in pair : startMatch[s] # "entered" \/ session[s] # "on")

\* "Type START to begin a new match" (StartMatchView, the screen after a match):
\* no frame of a battle leaves a client that is on without a mode to show.
ConnectModeStays ==
  [][\A s \in Session : session[s] = "on" /\ Shows(s, "battle") => modes'[s] # <<>>]_allVars

\* "Type START to try again" (NetworkFailureMode): the client that shows it does
\* not hold the name the player is about to log on with again.
FailureCanBeRetried ==
  \A s \in Session : Shows(s, "failure") => session[s] # "on"
=============================================================================
