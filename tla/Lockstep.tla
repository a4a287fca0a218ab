------------------------------ MODULE Lockstep ------------------------------
(***************************************************************************)
(* A match in play seen as lockstep: the server publishes a batch of       *)
(* messages ten times a second (AztecMatchManager), the NetworkedMessageMgr *)
(* of each client collects one tick for each batch, and BattleMessages     *)
(* handles, for each tick, its messages and then one update of the battle. *)
(* A battle is a function of the ticks its client has handled, so what     *)
(* matters here is which ticks these are.  MatchServer and AztecClient say *)
(* how a match begins and ends; here it lasts and nobody leaves.           *)
(***************************************************************************)
EXTENDS Integers, Sequences, SequencesExt, FiniteSets

CONSTANTS
  Client,       \* the players of the match
  MaxMessages,  \* bound: messages sent in the match
  MaxIdle       \* bound: empty batches

ASSUME BoundsAssumption == MaxMessages \in Nat /\ MaxIdle \in Nat

VARIABLES
  sent,         \* who sent each message of the match; a message is its number
  queued,       \* AztecMatchManager._queuedMessages
  idle,         \* number of empty batches published
  events,       \* the queue of the distributed object manager
  subscribers,  \* of the MatchObject
  inbox,        \* what the network still has to bring to a client
  playing,      \* has the client pushed its BattleMode?
  ticks,        \* NetworkedMessageMgr._ticks
  handled,      \* ticks the client's battle has handled
  log,          \* history: batches published
  start         \* history: how many before the client subscribed, -1 before that

vars == <<sent, queued, idle, events, subscribers, inbox, playing, ticks,
          handled, log, start>>

Message == 1..MaxMessages
Tick == Seq(Message)

Event == [type : {"subscribe"}, c : Client]
           \cup [type : {"sendMessage"}, msg : Message]
           \cup [type : {"messages"}, batch : Tick]

Delivery == [type : {"subscribed"}] \cup [type : {"messages"}, batch : Tick]

TypeOK ==
  /\ sent \in Seq(Client)
  /\ queued \in Tick
  /\ idle \in 0..MaxIdle
  /\ events \in Seq(Event)
  /\ subscribers \in SUBSET Client
  /\ inbox \in [Client -> Seq(Delivery)]
  /\ playing \in SUBSET Client
  /\ ticks \in [Client -> Seq(Tick)]
  /\ handled \in [Client -> Seq(Tick)]
  /\ log \in Seq(Tick)
  /\ start \in [Client -> Nat \cup {-1}]

\* Both clients have been told of the match and are about to subscribe.
Init ==
  /\ sent = <<>>
  /\ queued = <<>>
  /\ idle = 0
  /\ events = <<>>
  /\ subscribers = {}
  /\ inbox = [c \in Client |-> <<>>]
  /\ playing = {}
  /\ ticks = [c \in Client |-> <<>>]
  /\ handled = [c \in Client |-> <<>>]
  /\ log = <<>>
  /\ start = [c \in Client |-> -1]

-----------------------------------------------------------------------------
(* The server *)

\* The run of the interval: a batch is published even when it is empty.
SendMessages ==
  /\ queued = <<>> => idle < MaxIdle
  /\ idle' = IF queued = <<>> THEN idle + 1 ELSE idle
  /\ events' = Append(events, [type |-> "messages", batch |-> queued])
  /\ queued' = <<>>
  /\ UNCHANGED <<sent, subscribers, inbox, playing, ticks, handled, log, start>>

HandleSend ==
  /\ events # <<>>
  /\ Head(events).type = "sendMessage"
  /\ queued' = Append(queued, Head(events).msg)
  /\ events' = Tail(events)
  /\ UNCHANGED <<sent, idle, subscribers, inbox, playing, ticks, handled, log, start>>

HandleSubscribe ==
  /\ events # <<>>
  /\ Head(events).type = "subscribe"
  /\ LET c == Head(events).c
     IN /\ subscribers' = subscribers \cup {c}
        /\ inbox' = [inbox EXCEPT ![c] = Append(@, [type |-> "subscribed"])]
        /\ start' = [start EXCEPT ![c] = Len(log)]
  /\ events' = Tail(events)
  /\ UNCHANGED <<sent, queued, idle, playing, ticks, handled, log>>

\* The new value of MatchObject.messages reaches the subscribers of this moment.
HandleMessages ==
  /\ events # <<>>
  /\ Head(events).type = "messages"
  /\ inbox' = [c \in Client |-> IF c \in subscribers THEN Append(inbox[c], Head(events))
                                                     ELSE inbox[c]]
  /\ log' = Append(log, Head(events).batch)
  /\ events' = Tail(events)
  /\ UNCHANGED <<sent, queued, idle, subscribers, playing, ticks, handled, start>>

-----------------------------------------------------------------------------
(* A client *)

\* The matchOid of the match arrives: a subscription is asked for, once.
OnMatchOid(c) ==
  /\ c \notin subscribers
  /\ [type |-> "subscribe", c |-> c] \notin ToSet(events)
  /\ events' = Append(events, [type |-> "subscribe", c |-> c])
  /\ UNCHANGED <<sent, queued, idle, subscribers, inbox, playing, ticks, handled, log, start>>

\* onMatchObject: the BattleMode with its NetworkedMessageMgr
OnMatchSubscribe(c) ==
  /\ inbox[c] # <<>>
  /\ Head(inbox[c]).type = "subscribed"
  /\ playing' = playing \cup {c}
  /\ inbox' = [inbox EXCEPT ![c] = Tail(@)]
  /\ UNCHANGED <<sent, queued, idle, events, subscribers, ticks, handled, log, start>>

\* messagesChanged: _ticks.push(tick)
Push(ts, t) == Append(ts, t)

OnMessages(c) ==
  /\ inbox[c] # <<>>
  /\ Head(inbox[c]).type = "messages"
  /\ ticks' = [ticks EXCEPT ![c] = Push(@, Head(inbox[c]).batch)]
  /\ inbox' = [inbox EXCEPT ![c] = Tail(@)]
  /\ UNCHANGED <<sent, queued, idle, events, subscribers, playing, handled, log, start>>

\* sendMessage of the manager; the marshaller's request becomes an event.
SendMessage(c) ==
  /\ c \in playing
  /\ Len(sent) < MaxMessages
  /\ sent' = Append(sent, c)
  /\ events' = Append(events, [type |-> "sendMessage", msg |-> Len(sent')])
  /\ UNCHANGED <<queued, idle, subscribers, inbox, playing, ticks, handled, log, start>>

\* The ticks handled and kept
ProcessTicksAgain(c) ==
  /\ c \in playing
  /\ ticks[c] # <<>>
  /\ handled' = [handled EXCEPT ![c] = @ \o ticks[c]]
  /\ UNCHANGED <<sent, queued, idle, events, subscribers, inbox, playing, ticks, log, start>>

\* Only the latest tick handled, the others dropped
ProcessLatest(c) ==
  /\ c \in playing
  /\ ticks[c] # <<>>
  /\ handled' = [handled EXCEPT ![c] = Append(@, Last(ticks[c]))]
  /\ ticks' = [ticks EXCEPT ![c] = <<>>]
  /\ UNCHANGED <<sent, queued, idle, events, subscribers, inbox, playing, log, start>>

\* A frame: processTicks takes all the ticks there are.
ProcessTicks(c) ==
  /\ c \in playing
  /\ ticks[c] # <<>>
  /\ handled' = [handled EXCEPT ![c] = @ \o ticks[c]]
  /\ ticks' = [ticks EXCEPT ![c] = <<>>]
  /\ UNCHANGED <<sent, queued, idle, events, subscribers, inbox, playing, log, start>>

-----------------------------------------------------------------------------
Server == SendMessages \/ HandleSend \/ HandleSubscribe \/ HandleMessages

Next ==
  \/ Server
  \/ \E c \in Client : \/ OnMatchOid(c) \/ OnMatchSubscribe(c) \/ OnMessages(c)
                       \/ SendMessage(c) \/ ProcessTicks(c)

Spec == Init /\ [][Next]_vars

\* The server's thread and its timer, the network and the frames go on.  Nobody
\* has to send anything.
Fairness ==
  /\ WF_vars(HandleSend) /\ WF_vars(HandleSubscribe) /\ WF_vars(HandleMessages)
  /\ WF_vars(SendMessages)
  /\ \A c \in Client : /\ WF_vars(OnMatchSubscribe(c)) /\ WF_vars(OnMessages(c))
                       /\ WF_vars(ProcessTicks(c))

FairSpec == Spec /\ Fairness

-----------------------------------------------------------------------------
(* Properties *)

\* The match implements the log of ticks: each client handles the batches
\* published since it subscribed, in the order of the server, each once,
\* however late the network and the frames are (NetworkedMessageMgr,
\* BattleMessages.processTicks).
L == INSTANCE TickLog
ImplementsTickLog == L!Spec

Handled(c, msg) == \E i \in 1..Len(handled[c]) : msg \in ToSet(handled[c][i])

\* What a player does takes effect: its message comes back to it and is handled.
\* It cannot have been published before the client that sent it subscribed.
OwnMessagesHandled ==
  \A c \in Client, msg \in Message :
    (msg <= Len(sent) /\ sent[msg] = c) ~> Handled(c, msg)

\* "all the network-synced objects live in here" (BattleMode): when two clients
\* have handled the same number of ticks, they have handled the same ones.
BattlesInSync ==
  \A c, d \in Client :
    Len(handled[c]) = Len(handled[d]) => handled[c] = handled[d]
=============================================================================
