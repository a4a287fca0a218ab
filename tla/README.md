# Aztec in TLA+

TLA+ models of *Aztec* ("Quetzalcoatl Teaches Typing"), a two-player typing
game: a Java server on the Presents library that pairs players and relays their
messages, and an ActionScript client in which two replicas of the same battle
run in lockstep on the batches the server publishes. The models are checked
with TLC, and what matters most about the server, its clients and the rules is
proved with TLAPS. The page the game is played on, and the start of the game in it, are
modelled too.

Paths below are relative to `src/server/src/main/java/aztec/` (S) and
`src/client-core/src/main/as/aztec/` (C).  The page is in `src/html-template/`, its
preloader in `src/web-client/src/main/as/aztec/`.

## 1. The system

### Server (S)

One thread, the distributed object manager of Presents, takes events off one
queue and runs one handler to its end. A setter of a distributed object changes
the field at once and *posts* an event; `destroy()` only posts one. Connections
are accepted and lost on other threads, which post too.

| component | state | operations |
|---|---|---|
| `AztecAuthenticator`, `AztecSession`, `AztecClientResolver` | names in use, client objects | accept or refuse a name ("inuse"); end a session with its connection |
| `AztecMatchmaker` | `_awaitingSecond`, one shared `_awaitingDeathListener` | `findMatch`; the waiting match dies |
| `AztecMatchManager` (one per match) | `_clients`, `_matchStarted`, `_gotWinMessage`, `_playerDisconnected`, `_queuedMessages`, `_messageSender` | `addPlayer`, `sendMessage`, the interval's run (publish a batch, shut down), `shutdown`, the loss of a player |
| `MatchObject`, `AztecClientObject` | `messages`, `player1/2`, `seed`; `matchOid` | generated setters |

### Client (C)

| component | state | operations |
|---|---|---|
| `net/AztecClient` | the connection | logon, `findMatch`, subscribe when `matchOid` changes |
| `connect/ConnectMode`, `StartMatchView`, `NetworkFailureMode` | mode stack, start screen | connect, START, push a battle, failures |
| `net/NetworkedMessageMgr`, `LoopbackMessageMgr` | ticks received, ticks being filled | `messagesChanged`, `ticks`, `update`, `sendMessage` |
| `battle/BattleMessages` | – | one handler per message; `processTicks` |
| `controller/Player`, `Villager`, `VillagerGenerator`, `NetObjectDB` | temples, affinity, hearts, selections, work and its tasks, claimed letters | see section 3.3 |
| `TextSelector`, `VillagerSelectionMgr`, `VillagerCommandMenu`, `HeartView` | providers, the current selection, open menus | keys, registration, cancelling |
| views, meters | – | drawing |

### The page and the application

| component | state | operations |
|---|---|---|
| `swfobject.js` | `ua`, functions waiting for the DOM, whether it is ready, Express Install | detect the player, wait for the DOM, `embedSWF`, the probe for the player's version, the installer's callback |
| `history/history.js` | kind of browser, its hidden frame | start when the DOM is ready |
| `index.template.html` | the div `flashContent` | runs both, then `embedSWF` and `createCSS` |
| `AztecWebPreloader`, `AztecApp` | splash screen, mode stack | load, run, resources loaded or failed |

### How they interact, and what is hard

A player logs on, types START, and `findMatch` either creates a match that waits
or completes the one that does. `addPlayer` of the second player starts a timer
and sets `matchOid` of both; each client answers by subscribing to the match
object and, once subscribed, pushes a battle. From then on every key that
completes a text sends a message, the server collects the messages of both and
ten times a second publishes them as one batch, and both clients apply the batch
and update their replica by one tick. A client that sees the other's temple fall
sends `IWonMessage`; the server publishes it and shuts the match down.

The hard behaviour is in the gaps:

* between posting an event and handling it, other events are handled
  (a search meets a dying match, a loss meets the start of a match);
* a message is sent on a state the other player may already have changed;
* a death in the middle of an update removes objects the update has not reached;
* nothing but one timer ever ends a match; nothing but one message ends a battle;
* the clients are not acknowledged: a batch published before the subscription is
  handled is never seen;
* the page learns from up to five sources that its DOM is ready, in an order that
  depends on the browser, and learns the version of the player twice.

`PROJECT.json` lists these hazards, each with its line.

What makes each component correct: a name has one session at a time; nobody is
left in a match that nobody will be added to; the two names of a match differ;
the loss of a player is always published; a match is closed only behind the batch
that ends the battle; a client in a battle or in a search is never stranded; the
two players agree on the outcome; a villager is selected by at most one player,
has its own first letter and one task per work; a summoned god strikes; victory
is claimed exactly when the opponent's temple has fallen. The page embeds the game
once, just when the player suffices, and otherwise shows something that says so. (It
does not in one case: `empty_page`.)

## 2. Modules

| module | models | composes |
|---|---|---|
| `MatchServer` | the server; any session may post a request | implements `Matchmaking` |
| `AztecClient` | the client from logon to the end of a battle | extends `MatchServer`, replaces its environment, and implements it |
| `Matchmaking` | abstract: one player waits, the next one who searches meets it | implemented by `MatchServer` |
| `Battle` | the rules, for one replica, object by object | – |
| `Lockstep` | a match in play: batches, ticks and frames of all its clients | implements `TickLog` |
| `Lists` | what `Battle` and `Replicas` do to a list (`Kept`) | – |
| `TickLog` | abstract: one log of ticks and its readers | implemented by `Lockstep` |
| `Replicas` | the battles of both clients side by side: random numbers, command texts | extends `Lockstep` |
| `Selection` | what one player can type (villagers, commands, gods), with its messages on their way | – |
| `Loopback` | messages and ticks of a battle on one computer | – |
| `WebPage` | the page and its scripts in each kind of browser | – |
| `App` | from the page to the first mode, and the local battle | extends `WebPage` and `Loopback` |
| `MatchServerProofs`, `MatchPlayersProofs`, `AztecClientProofs`, `BattleProofs`, `SelectionProofs`, `LockstepProofs`, `AppProofs` | theorems | the first three extend each other |
| `ListLemmas` | lemmas on loops and on lists, for the proofs | |
| `MCAztecClient`, `MCBattle`, `MCLockstep`, `MCReplicas`, `MCSelection`, `MCWeb` | values for TLC | |

Definitions whose name tells of a mistake (`FindSecondKeepsListener`,
`KeepAction`, ...) stand in front of the definition they spoil. They are not part
of the specification: putting one in the place of the correct definition has to
make the property named with it in `PROJECT.json` fail.

## 3. The models and the code

### 3.1 MatchServer

`events` is the queue of the object manager. Each `Handle...`, `FindFirst` and
`FindSecond` takes its first event and does all that the handlers of that event
do: `HandleClientDestroyed`, for one, runs the death listener in every match the
session was added to. `SendMessages` is the run of the interval. `Authenticate`
and `ConnectionClosed` are not handlers, they happen at any time. What a setter
posts is modelled by what reaches somebody: `matchOid` and `messages`. The two
`matchOid` events one handler posts in a row are one event with the set of its
addressees. Setting an attribute of an object that is gone posts nothing, a
subscription to it fails, a provider whose match is over still takes messages: so
does the model. The seed is left out. `player1` and `player2` are the names of
`clients[m][1]` and `clients[m][2]`.

A player who comes back is another member of `Session` with the same `NameOf`.

`Matchmaking` is what all this is for, without events, objects or listeners: one
player waits; the next who searches, another one, is put together with it; and
nobody stops waiting without an opponent but by leaving. The mapping is
`waiting <- awaiting`, `players <- clients`, `left <-` the sessions that are gone.
`findMatch` is its `Open` or `Meet`, the end of a session its `Leave`, and its
`GiveUp` the death listener's, some events later: until then a player can still
meet one who has left (`try_again` shows what becomes of it).

What the environment may do is no more than clients do: a player subscribes to a match
that has started, once; it sends to a match it is subscribed to, under its own number;
it searches when none of its matches goes on. The server checks none of that. That the
real client keeps to it is checked (`ImplementsServer`, `MatchServer`'s own `Spec` as a
property of the clients' system) and proved (section 5). So TLC checks the server's
properties in the system it really runs in, `AztecClient`, and the proofs show them for
every environment that keeps to these rules.

External, modelled from the way the code uses it: the queue, the registration of
sessions and names, subscriptions, delivery.

### 3.2 AztecClient

`inbox` is what the network still has to bring to a client, in order (a
connection keeps the order; losing it loses the inbox). `modes` is the mode stack:
`pushMode` and `popMode` are applied in order at the end of the step that made
them. `ProcessTicks` is a frame of a visible `BattleMode`: it takes *all* ticks
and handles *all* their messages: `Finals` are the places of those that end a battle,
each pops a mode, and `LastFinal` is the one whose verdict stands. `ClientNext` uses the server's `Handle` and
`SendMessages` unchanged and only adds delivery. `TryAgain` is START on the failure
screen: the modes go, but not the `AztecClient` and its session. Batches without messages are not
published in this model (`Publish`): they end nothing.

### 3.3 Battle

A client handles the messages of a tick (`phase = "messages"`), then updates the
objects one by one: the generator (`"generate"`), then villagers and tasks in the
order they were added (`"update"`; `done` are those this update has passed, `todo`
those it has not). A death in the middle takes the villager and its task out of
both (`Kept`, in `Lists`, is the loop over the list). Which messages come, and in which
order, is free: the players and the network do what they like. The random choice of a
name is a free choice.

Numbers between 0 and 1 are multiples of a unit, 1 being `Full`; durations are
numbers of updates. The constants are the fields of `GameDesc`, and the proofs
hold for every value the assumptions allow.

`Battle` is checked in two projections, because nothing about villagers depends
on the temples' numbers: `battle` with damage and gains of zero and two villagers,
`battle_strikes` with one villager and real numbers.

`StrikesInFull` follows `Player.as:150-152`, where what defense absorbs is at most
`DEFENSE_STRENGTH` (a half) of the damage. The comment at `GameDesc.as:21` ("Attack
absorbed by defense as a percentage of attack absorbed by health") can also be read as
half of what *health* absorbs, a third of the damage; in the code both absorb the same.
The property bounds the use of defense by the loss of health, so it holds under both
readings and does not decide between them.

### 3.4 Lockstep and TickLog

A battle is a function of the seed and of the ticks its client has handled, so
`Lockstep` keeps these ticks (`handled`) in the place of the battle. It is the
inside of a match: both clients have been given its `matchOid` and subscribe when
they do (`OnMatchOid`, `HandleSubscribe`), the interval publishes batches, empty
ones too (`SendMessages`), `OnMessages` is the listener of `NetworkedMessageMgr`
and `ProcessTicks` a frame of `BattleMode`. `MatchServer` and `AztecClient` say how
a match begins and ends; here nobody leaves. Messages are numbered, and `log` and
`start` are history variables.

`TickLog` says what lockstep rests on: a log, and readers who each handle it in
order and once from where they joined. The refinement mapping is by name: `log`,
`start` and `handled`. It does not promise that readers join at the same point,
and the code does not either (`out_of_sync`).

### 3.5 Replicas

`Replicas` puts the battles back into `Lockstep`: `content` is what each message
says, its `senderId` included, and `replica[c]` what random choices and menus touch:
the living by name, who has selected whom, affinity, the numbers that the seed of the
match makes (`netRandoms`, as `BattleCtx._netRandoms`) and how many of them have been
drawn (`drawn`). `NewReplica` is what `BattleMode.setup` begins with. `Frame` is a
`ProcessTicks` of `Lockstep` that also takes the replica through every tick
(`AfterTicks`; `HandleTick`: the messages, then one update). `Generate` calls a villager
`Error` when no letter is free, as `generateName` does; that it never comes to this is
part of the types. The local player's menu is the
difference between two replicas: opening one picks texts at random on that client
only (`MenuDraws`). `SeedDraws` is `BattleCtx.randomsFor`: the generator's picks use
the seed of the match, the menu's do not. `Menus` fills a menu command by command,
as `Player.selectVillager` does, with the texts of `VillagerCommandGenerator`: the
highest affinity that is reached, and a first letter no other command has. Since
picks of texts do not come from the seed they are free choices. Work, strikes and
summons are in `Battle`, how menus close is in `Selection`. What is sent is chosen
from what the sender's replica offers.

### 3.6 Selection

The keyboard of one player. `cur` is `TextSelector._curSelectable`; a first letter
chooses a text and the rest of it is one step, because texts offered together never
share a first letter. `menus` are the open `VillagerCommandMenu`s in the order in
which they were registered. `Keys` is `onKeyboardEvent`; `Handle` is the return of
this player's messages, with everything `Player.selectVillager` and its handlers
do on the local side; the other player's messages, births and strikes happen at any
time. A message is known to its receiver by the villager's *name*, which another
villager may have by then (`WithName`). `onCancel` counts the one-time handlers of
`selector.canceled`, which outlive the menus they were made with. `hearts` and `gods`
are those of `HeartView`: `SetHearts` is its setter, which adds the gods that become
affordable and pops as many as no longer are, as a loop over the gods in the order
of their cost, which is that of their declaration (`GodsAssumption`); a god that is being typed stays
selectable, and its summons may be refused when it comes back (`Refuse`).

### 3.7 Loopback

A frame's time is spent by the iterations of `update`'s loop (`LeaveOpen`,
`FillTick`), so that one step closes one tick; `HandleTicks` takes and handles them.
Time is in units of which a tick has `TickInterval`. `log` is a history variable.
`unshift` puts a tick in front of those that wait: a frame that closes several handles
the latest first, so `Loopback` is no `TickLog`. What it promises, whatever the frames,
is `TicksHandledOnce`; a frame that closes one tick handles it in its turn.

### 3.8 WebPage

The template is that of the Flex SDK; it is modelled as this page uses it. A
`browser` is what the scripts can tell apart: its kind, whether the player is listed
as a plug-in, which version is installed and which is described (the two may differ,
as the comment before `testPlayerVersion` says), its system, and whether the page is
in a frame. `document` is how far the page has come. SWFObject's state is a record,
and its functions are operators on that: `CallDomLoadFunctions` runs `domLoadFnArr`
in order (`run` is its loop), `Main` and then the function of `embedSWF` (`EmbedNow`). `waiting` has the
sources of `onDomLoad`; a loop with `setTimeout` is an action (`Poll`, `HistoryPoll`,
`HistoryDoScroll`, `ProbeAgain`) that waits for its condition instead of asking
again. `display` and `visible` are the two ways in which `flashContent` can be
hidden. The installer (`playerProductInstall.swf`), the events of the browser and
what it does with `doScroll` are external. It is assumed that Internet Explorer for
the Mac lists its player as a plug-in, and that WebKit before 312 has no
`readyState`.

### 3.9 App

The movie of the page, if its player can run it: preloader, application, resources,
modes. `multiplayer` is `Aztec.MULTIPLAYER`, true in the source; a build where it is
false starts a local battle, whose steps are those of `Loopback`. `App` ends at
`ConnectMode`, where `AztecClient` begins.

## 4. Runs

| run | question | bounds |
|---|---|---|
| `client` | do the clients use the server as it counts on, do the matchmaker's, the managers' and the sessions' books agree in every order and implement `Matchmaking`, is no client stranded, does an old match end no new battle? | 3 sessions (two with one name: a player who comes back), 2 matches, 3 events, 1 message waiting per match |
| `client_match` | do outcomes agree, does an abandoned battle end, do searchers meet? | 2 sessions, 1 match, 3 events, 2 messages |
| `battle` | selections, letters, work and update list | 3 names, 2 sharing a letter, 2 villagers, work of 2 updates, strikes after 2, 1 heart |
| `battle_strikes` | health, defense, victory; do strikes and work end? | 1 villager, 3 units of health, 1 heart, damage of 2 units, tasks of 2 updates |
| `replicas` | which ticks does each battle handle, do the replicas stay equal, can every menu be typed, is what a player sends handled? | 2 clients, 3 messages, 1 empty batch, 1 villager, 3 letters and 4 names, 2 actions, 2 greetings, 2 seeds |
| `selection` | can a player always give up a villager, is the emphasis justified, does the other keep its own, are the right gods offered? | 3 villagers, 2 with one name, 2 actions, 2 gods for 1 and 2 hearts of at most 2, 3 messages on their way, 4 selections between two cancellations |
| `out_of_sync` | *(finding)* are the battles in sync? | 2 clients, 3 messages, 2 empty batches |
| `two_menus` | *(finding)* is at most one menu open? | 3 villagers, 2 messages on their way |
| `web` | does the page decide once, by the right version, and come to rest, with something to see but in the case of `empty_page`; is each local tick handled once? | all 8 kinds of browser, 4 versions, 2 retries of the probe; ticks of 2 units, frames of up to 3, 2 ticks of at most 2 messages out of 2 |
| `empty_page` | *(finding)* is the alternative text seen when there will be no game? | those of `web` |
| `try_again` | *(finding)* can a player whose search failed try again? | 2 sessions, 2 matches |
| `two_ends` | *(finding)* does a frame of a battle leave a mode to show? | 2 sessions, 2 matches |

Every bound is a guard on what the *environment* may add: `MaxEvents`, `MaxQueued`,
and `MatchesLeft` (a search is begun only when one of the matches of the instance
will answer it); handlers are never blocked by one, and what they post may make the
queue longer. Three events waiting are a race and a third party in between: loss,
search, destruction. One message waiting, with the notice of the loss that needs no
room, is a batch of two; two messages let both players claim the win at once.
Two matches are enough for an
old match to meet a new one, which is all the shared listener and `matchOid` can
confuse. With two villagers, three names and two updates per task a villager can be
stolen in mid-work, killed before and after its turn in an update, and its letter
taken over by another name. Matches are interchangeable (symmetry), so are the two
sessions with one name, and the two names with one letter. Symmetry is not used under liveness. In `replicas` a client can
subscribe before, between and behind the batches, and a frame take none, one or
several; `MaxIdle` bounds empty batches only. Three messages are a selection, a
command and the next selection, so a name is drawn after a menu was opened by one
client alone. A sacrifice costs more affinity than there is, so the clamp is reached
and the menu that follows has the texts of the lowest tier. With as many greetings
as actions the last command has one letter left. In `selection` three messages on their
way are a double selection and what follows it, and the third villager takes the name
of the first while messages about the first are still coming back. With two hearts the
dearer god comes second and a summons of it takes both gods away at once. In `web`
the versions are none, one too old for Express Install, one that only Express Install
can replace, and one that suffices although two of its parts are less than those
required; two retries are a probe that answers at once, late or never (the code has
ten, and they differ by their number only). A frame of 3 units closes two ticks.

`CHECK_DEADLOCK FALSE` is set where the system really may stop: every session can
end and every match be used up. A battle never stops, and there deadlock is
checked. A match of `Lockstep` stops at its bounds; `Selection` can stop when all
villagers are dead.

*Fairness.* The server's thread takes the next event, timers fire, connections
that stay up deliver, frames are drawn, ticks keep coming and an update that began
finishes: weak fairness of exactly these. Nobody has to log on, type, send or stay.
A browser goes on with a page until it is loaded, `setTimeout` fires, and the movie
and its resources load or fail; nobody has to answer the installer's dialog.

### What the findings show

* `try_again`: the waiting player's connection is lost; before the server handles
  the destruction of its match, another player's search is handled and is put into
  that match. Its subscription fails ("Unable to get match"), the screen says "Type
  START to try again", and the name is refused, because the old client is still on.
* `two_ends`: each message that ends a battle pops a mode, and a frame handles all
  of them: two strikes on a beaten temple, or a win together with a loss of the
  opponent, pop the screen underneath as well.
* `out_of_sync`: a batch is published, and handled by one client, before the other
  client's subscription is. The other battle never sees its tick and stays behind.
* `empty_page`: Internet Explorer 9 and 10 are addressed as older ones where the ActiveX
  player is found, and take none of the rules `createCSS` means to add. The div
  `flashContent` stays as the style sheet has it, not displayed. Express Install's callback
  displays it by hand, but a player older than 6.0.65 is not offered Express Install: the
  page is empty. `PageSettles` (run `web`) exempts just that page (`EmptyPage`), so it also
  says that there is no other.
* `two_menus`: a player types a second villager's name before the selection of the
  first comes back. Both menus open, and the lower one has nothing to command.

## 5. Proofs

For any finite or infinite sets of sessions and matches, and any bounds
(`MatchServerProofs`):

* `TypeCorrect`: `TypeOK` is inductive by itself.
* `WaitingMatchIsOffered`: `WaitingMatchOffered` is not inductive. `OfferedInv`
  adds that the listener listens to the waiting match and to no other, and that a
  match not yet made has no players.
* `WaitingPlayerIsPresent` and `LossIsNoticed`, from `LossInv`. They rest on the
  order of the queue (`RequestsInv`): nothing a session asked for is queued behind
  its end, so a player who is added to a match cannot already be gone. `LossInv`
  adds that only matches that were made are closing or publishing, that an
  unstarted match is only closed by the loss of its player, and that a match in
  play has its timer running.

* `ServerImplementsMatchmaking`: every step of the server is a step of `Matchmaking`
  or none. Beside `OfferedInv` and `LossInv` it needs that a search in the queue is of
  a session that is in no match that waits (`SearchersAreOthers`), so that nobody
  meets itself.

`MatchPlayersProofs` goes on from there. Its invariants are about what lies *ahead*
of what in the queue (`Ahead`, `Extends`): handlers take from the front and post at
the back, so an order once right stays right.

* `PlayersPointAtTheirMatch`: `EngagedInv`. A session is a player of one match that is
  engaged at most, a search is queued only for a session that is in none, and a player
  was on before it played; so nothing but its own match ever writes a player's
  `matchOid` while that match is in play.
* `PlayersAreDistinguishable`: a name is free again when its session has ended, but
  that end is still an event to be handled. `NamesInv`: it is ahead of the `resolve` of
  the session that takes the name over. `PairsInv`: hence, when the newcomer searches,
  the death of the match in which its namesake waited is ahead of that search or done.
* `ClosedByAFinalBatch`: `FinalInv`. When a match that publishes knows that it is to
  end, the message that says so is in its queue, and so in the batch that goes out
  before `shutdown` posts the destruction; and nobody outside a match that has not
  started knows its object.

Each of these invariants has a lemma for one step (`TypeStep`, `OfferedStep`, ...,
`FinalStep`); `ServerInv` is all of them, and `ServerStep` says that it is inductive.

`AztecClientProofs` puts the clients to it, again for any sessions and matches.
`ClientInv` is `ServerInv` with four invariants of clients, network and queue together;
the last two parts below stand beside it, each with its own lemma for one step:

* `PlaceInv`: where a session is. Between its logon and its battle there is at most one
  event or message of its search (`Search`: the logon being resolved, the search, the
  news of a match, the subscription, its answer) in the queue and in its inbox together
  (`Single`), and the screen agrees with it: "Searching" is shown just when there is one
  or the session waits in the match that is offered. `Keeps` says of each step that
  moves events along that it keeps that count.
* `QuietInv`: a match that has published a batch which ends a battle publishes no more.
* `ToldInv`: the match a client is told of, subscribes to or plays has started, the
  client is a player of it, and no other match of this player goes on; it is not
  subscribed before it asked to be.
* `ClientTypes`: the types, of which one part says that what is on its way to a client
  is addressed to it.
* `FateInv` and `FutureInv`, for the end of a battle: what decides whether it reaches a
  client is the order of three events, the subscription, the last batch and the
  destruction of the match. A subscription queued while the match closes is ahead of
  the last batch, which is ahead of the destruction, or behind the destruction, and
  then fails; a client that was subscribed finds its match in play, or the batch in the
  queue, in its inbox or in its ticks.
* `VerdictInv`, for how it ended: one final message (`Verdict`) is the last of every
  batch around that ends the battle of a match, and what each client that has left made
  of it; a match that still publishes has no such batch and nobody who has left. Notices
  of a loss are about only when a player is gone.

From them follow `ClientImplementsServer` (the clients are an environment the server was
modelled for) and with it `ServerKeepsItsPromises` (the theorems above hold with them), `SearchersHaveAFuture`,
`BattlesHaveAFuture`, `OutcomesAgreed`, `NoEndIsStray` and `ClientTypeCorrect`.

For any names, gods and numbers that satisfy the assumptions of `Battle`
(`BattleProofs`): `IInv`, the conjunction of the types of the state (without the
two sequences), `SelectionsExclusive`, `LettersOfTheLiving` and `VictoryClaimed`,
is inductive. `NameToBeFound` follows by counting letters, and the action property
`StrikesInFull` from the arithmetic of one strike. `QueueInv` is about the two
sequences: together, `done` and `todo` hold one entry for every living villager, one
task for every villager that works, and nothing else of either (`BookOf`). Each way to
change them (add one, take one out of both, pass one on) is a lemma on `Kept`, and
`BattleTypeCorrect`, `OneTaskPerWork` and `TheLivingAreUpdated` follow.

For any villagers, names, actions and gods (`SelectionProofs`): `IInv` has four
parts. `TypeInv` are the types, with menus that are numbered in the order in which they
were opened, and a current command that is about the villager of its menu. `WorldInv` keeps a
selected villager born, selections exclusive, and the living apart by name: since a
message finds its villager by name, the villager it finds is the one it was sent about,
or one that was born since. `Release` is `SelectedCanBeReleased` for a villager whose
selection is still on its way as well, and `Emphases` is `EmphasisJustified` with what
the message that selects the villager will make of it. `GodsAreOffered` rests on the
order of the costs: `FirstGods` says that the gods one can pay for are a prefix of the
list, so popping as many as there are too many pops the right ones. That no message
takes the other player's villager (`NobodyTakesTheOthers`) is an action property.

For any clients and bounds (`LockstepProofs`): `LockstepImplementsTickLog`. `TypeOK`
is inductive by itself; the refinement needs to know that what a client has
handled, what waits in its `_ticks` and what is on its way to it are, one after
the other, the log from where it subscribed (`Chain`; one lemma for each way a batch
moves along it), and that a client asks for its subscription once (`AskedOnce`).

The second part of `LockstepProofs` is about `Replicas`, for any names, actions,
greetings and seeds. `Simulated` says that there is one seed, and that every replica is
what a new one becomes by the ticks its client has handled, one after the other
(`TicksMake`). It stands on two observations. What a message or a tick makes of a replica
(`MessageIn`, `TickMakes`) does not mention the client it belongs to, although
`HandleMessage` does: the menu of the local player draws nothing from the seed
(`MessageShown`). And ticks that have been handled stay what they were, since they
consist of messages that have been sent (`MessagesExist`). `HandledAlike` then finds that
two clients that joined together and have handled equally many ticks have handled the same
ones, and `ReplicasInAgreement` follows. For the types, `FreeLetter` counts the
letters: with fewer villagers than letters one is free, since a name is in one list only.
For the menus, fewer greetings have been used than there are, so each command
finds a letter of its own (`MenusType`, by `LoopInduction` over the commands). The
theorems are `ReplicasInAgreement`, `ReplicasTypeCorrect`, `MenusTypable` and
`ReplicasImplementTickLog`.

For any interval, frames and messages (`AppProofs`): `LocalTicksHandledOnce`. The
invariant is `FilledLatestFirst`: the ticks that wait are the end of the log, the latest
first, and all that was closed before has been handled. The order that `TicksHandledOnce`
asks for is then the reverse one.

For any browser, any versions and any number of retries (`AppProofs`): `AppInv` has the
types and `SwfInv`, which goes through the phases of the page: no script has run; the
head is read and `domLoadFnArr` is exactly `main` and the function of `embedSWF`; or the
DOM was ready once, that list has been run and is not run again, and `flashContent` is
what became of it (`Outcome`) by the version that was known then (`Right`). Whoever
reports the DOM, and in whatever order, finds one of these; so the page is told once
(`PageIsToldOnce`) and rightly (`GameIsSupported`). `VersionOrder` shows that the
nested comparison of `hasPlayerVersion` is the order of versions part by part.
`AppTicksHandledOnce` carries `LocalTicksHandledOnce` over to the battles `App` begins.

`ListLemmas` has what these proofs need of loops, and of lists in which an entry of some
kind occurs at most once. An induction theorem that takes an operator cannot be used here, so `Least` and `LoopInduction` are stated with *sets* of
numbers, and loops are written in the models as recursive functions on 0..n, of which
`LoopComputes` says that they have the value their defining equation gives.

Assumptions: `BoundsAssumption` of `Lockstep`; `NamesAssumption`, `CommandsAssumption`,
`SeedAssumption` of `Replicas` (a name is in the list of its letter only, as
`VillagerGenerator.initNameMap` sorts them, and there are no fewer greeting letters
than commands); `TickAssumption` and
`FrameAssumption` of `Loopback`; `NamesAssumption`, `NoMatchAssumption`, `BoundsAssumption` of
`MatchServer`; `NamesAssumption`, `GodAssumption`, `NumberAssumption` of `Battle`;
`ActionAssumption`, `NoVillagerAssumption`, `GodsAssumption`, `BoundAssumption` of
`Selection`; `VersionAssumption`, `RetriesAssumption` of `WebPage`. Costs in the order
of the declaration are those of `GameDesc.godHearts` (1, 3, 5).

*Only model-checked*: liveness (the prover has no rules for fairness and
`ENABLED`): `AbandonedBattleEnds`, `SearchersMeet`,
`SummonsStrike`, `WorkEnds`, `OwnMessagesHandled`, `PageSettles`. Every safety property of the passing runs is a theorem.

## 6. Not modelled

* Work, strikes and births of two replicas side by side: `Battle` has these for one
  replica, `Replicas` has names, selections and affinity for two.
* The letters of a text behind the first.
* Drawing, animation, alerts, meters, sounds, layout.
* Binary fractions: health is in whole units.
* The name entry screen, the progress bar, the desktop shell, deployment and build
  files, debugging aids. In a local build START after a battle calls `findMatch` of a
  client that was never made (`ConnectMode._client`); the local battle's end is left
  out with it.
* Of `swfobject.js`: static publishing (`registerObject`; no object is registered, so
  `matchVersions` does nothing), the public functions the page does not call, the
  endless wait for a `readyState` of 4 that `showExpressInstall` begins for a div, and
  the cleanup when an Internet Explorer leaves the page.
* Of `history.js`: everything `setDefaultURL` and `setBrowserURL` begin, which only a
  Flex `BrowserManager` calls, and this game has none; `historyFrame.html`, which for
  the same reason is never loaded; `hashChangeHandler`, which throws for want of a
  player and changes nothing that is read.
* Generated marshallers and setters beyond what a call of them posts.

## 7. Plan

1. `MatchServer` with `MatchServerProofs`; 2. `AztecClient`; 3. `Battle` with
   `BattleProofs` – done.
4. `TickLog`, `Lockstep` with `LockstepProofs`; 5. `Selection`, with the gods of
   `HeartView`; 6. `Replicas`, with the texts of `VillagerCommandGenerator` – done.
7. `Matchmaking`, implemented by `MatchServer`; `Loopback`; `WebPage` and `App`, with
   `AppProofs` – done.
8. `Screens`, before a match (`NameEntryView`, `TextEntryField`, `StartMatchView`).
9. Proofs of all safety properties the passing runs check – done.
