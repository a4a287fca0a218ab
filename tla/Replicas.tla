------------------------------ MODULE Replicas ------------------------------
(***************************************************************************)
(* The battles themselves, side by side: each client of Lockstep simulates *)
(* its replica from the seed of the match and the ticks it handles, and    *)
(* each shows its own player something the other replica knows nothing of, *)
(* the command menu, whose texts are picked at random too                  *)
(* (VillagerCommandGenerator).  BattleCtx keeps two sources of random      *)
(* numbers apart for that: one with the seed of the match for the          *)
(* networked objects, and one for everything that is only shown.           *)
(*                                                                         *)
(* A replica here is what random choices and the menus touch: names,       *)
(* selections and affinity.  Battle.tla has all the rules, Selection.tla   *)
(* how menus are closed.                                                   *)
(***************************************************************************)
EXTENDS Lockstep, Lists, FiniteSetsExt

CONSTANTS
  Names,          \* VillagerGenerator._names: for each letter, the names with it
  NumVillagers,   \* GameDesc.numVillagers
  Actions,        \* VillagerAction.values() but DEFAULT, in their order
  Sacrifice,
  Full,           \* an affinity of 1.0
  sacrificeLoss,  \* - GameDesc.sacrificeAffinityOffset
  minAffinity,    \* _commands: the affinities texts of each action are for
  Greeting,       \* first letters of the greetings
  Error,          \* what generateName returns when every letter is claimed
  Seed,           \* a seed is the sequence of numbers it makes, again and again
  None            \* no villager, no menu

Name == UNION {ToSet(Names[i]) : i \in 1..Len(Names)}

\* A name is in the list of its letter, and a letter without names has no list.
ASSUME NamesAssumption ==
  /\ Names \in Seq(Seq(Name) \ {<<>>})
  /\ \A i, j \in 1..Len(Names) : i # j => ToSet(Names[i]) \cap ToSet(Names[j]) = {}
  /\ NumVillagers \in 0..Len(Names)
  /\ None \notin Name /\ Error \notin Name
ASSUME CommandsAssumption ==
  /\ Actions \in Seq(ToSet(Actions)) /\ Sacrifice \in ToSet(Actions)
  /\ Full \in Nat /\ sacrificeLoss \in Nat
  /\ minAffinity \in [ToSet(Actions) -> SUBSET (0..Full)]
  /\ \A a \in ToSet(Actions) : 0 \in minAffinity[a]
  /\ Cardinality(Greeting) >= Len(Actions)
ASSUME SeedAssumption == \A s \in Seed : s \in Seq(Nat) \ {<<>>}

VARIABLES
  content,  \* of each message
  replica,  \* of each client
  menu      \* texts of the command menu each client opened last

replicaVars == <<content, replica, menu>>
allVars == <<vars, replicaVars>>

SelectVillagerMessage == [type : {"select"}, senderId : Client, name : Name]
DeselectVillagerMessage == [type : {"deselect"}, senderId : Client, name : Name]
VillagerActionMessage ==
  [type : {"action"}, senderId : Client, name : Name, action : ToSet(Actions)]

Content == SelectVillagerMessage \cup DeselectVillagerMessage \cup VillagerActionMessage

\* villagers in the order they were added; netRandoms, made from the seed of the
\* match, and how many of its numbers have been drawn
Replica == [villagers : Seq(Name), selected : [Client -> Name \cup {None}],
            affinity : [Client -> 0..Full], netRandoms : Seed, drawn : Nat]

CommandText == [minAffinity : 0..Full, letter : Greeting]

ReplicasTypeOK ==
  /\ TypeOK
  /\ content \in Seq(Content) /\ Len(content) = Len(sent)
  /\ replica \in [Client -> Replica]
  /\ menu \in [Client -> [ToSet(Actions) -> CommandText] \cup {None}]

\* BattleMode.setup, with the seed of the MatchObject
NewReplica(seed) ==
  [villagers |-> <<>>, selected |-> [p \in Client |-> None],
   affinity |-> [p \in Client |-> Full], netRandoms |-> seed, drawn |-> 0]

ReplicasInit ==
  /\ Init
  /\ content = <<>>
  /\ \E seed \in Seed : replica = [c \in Client |-> NewReplica(seed)]
  /\ menu = [c \in Client |-> None]

-----------------------------------------------------------------------------
(* Random numbers *)

OneSource(object) == 1

\* randomsFor: how many numbers of the seed a pick of an object takes
SeedDraws(object) == IF object = "VillagerGenerator" THEN 1 ELSE 0

\* rands().pick with the n-th number of a seed
Pick(list, seed, n) == list[1 + (seed[1 + (n % Len(seed))] % Len(list))]

-----------------------------------------------------------------------------
(* A tick of a replica *)

\* generate: a letter nobody living has, and one of its names
Generate(r) ==
  LET lists == Kept(Names, {list \in ToSet(Names) : ToSet(list) \cap ToSet(r.villagers) = {}})
      list == Pick(lists, r.netRandoms, r.drawn)
      name == Pick(list, r.netRandoms, r.drawn + 1)
  IN IF lists = <<>> THEN [r EXCEPT !.villagers = Append(@, Error)]
     ELSE [r EXCEPT !.villagers = Append(@, name),
                    !.drawn = @ + 2 * SeedDraws("VillagerGenerator")]

\* VillagerGenerator.update
Update(r) ==
  LET needed == NumVillagers - Len(r.villagers)
      after[i \in 0..needed] == IF i = 0 THEN r ELSE Generate(after[i - 1])
  IN IF needed > 0 THEN after[needed] ELSE r

Living(r, name) == name \in ToSet(r.villagers)

IsSelected(r, name) == \E p \in Client : r.selected[p] = name

\* getCommandText for each action of the menu, in the replica of the local player:
\* a pick of a text and one of a greeting
MenuDraws(c, sender) ==
  IF c = sender THEN 2 * Len(Actions) * SeedDraws("VillagerCommandGenerator") ELSE 0

HandleSelectVillager(c, b, sender, name) ==
  IF ~Living(b.replica, name) \/ IsSelected(b.replica, name) THEN b
  ELSE [b EXCEPT !.replica.selected[sender] = name,
                 !.replica.drawn = @ + MenuDraws(c, sender),
                 !.opened = IF c = sender THEN b.replica.affinity[sender] ELSE @]

HandleDeselectVillager(b, sender, name) ==
  IF b.replica.selected[sender] # name THEN b
  ELSE [b EXCEPT !.replica.selected[sender] = None]

KeepOffset(x) == x

ClampBelow(x) == IF x < 0 THEN 0 ELSE x

\* A sacrificed villager is gone, and so is any reference to it.
HandleVillagerAction(b, sender, name, action) ==
  IF b.replica.selected[sender] # name THEN b
  ELSE IF action # Sacrifice THEN [b EXCEPT !.replica.selected[sender] = None]
  ELSE [b EXCEPT !.replica.selected[sender] = None,
                 !.replica.affinity[sender] = ClampBelow(@ - sacrificeLoss),
                 !.replica.villagers = Kept(@, (Name \cup {Error}) \ {name})]

HandleMessage(c, b, msg) ==
  CASE msg.type = "select" -> HandleSelectVillager(c, b, msg.senderId, msg.name)
    [] msg.type = "deselect" -> HandleDeselectVillager(b, msg.senderId, msg.name)
    [] msg.type = "action" -> HandleVillagerAction(b, msg.senderId, msg.name, msg.action)

\* The messages of a tick, then one update
HandleTick(c, b, msgs) ==
  LET after[i \in 0..Len(msgs)] ==
        IF i = 0 THEN b ELSE HandleMessage(c, after[i - 1], msgs[i])
  IN [after[Len(msgs)] EXCEPT !.replica = Update(@)]

-----------------------------------------------------------------------------
(* The command menu *)

AnyGreeting(action, affinity, usedGreetingLetters) ==
  [minAffinity : {Max({m \in minAffinity[action] : m <= affinity})}, letter : Greeting]

\* getCommandText: the texts for the highest affinity the player's reaches, with a
\* greeting no other command of the menu begins with
CommandTexts(action, affinity, usedGreetingLetters) ==
  [minAffinity : {Max({m \in minAffinity[action] : m <= affinity})},
   letter : Greeting \ usedGreetingLetters]

Letters(texts) == {texts[a].letter : a \in DOMAIN texts}

With(texts, action, t) ==
  [a \in DOMAIN texts \cup {action} |-> IF a = action THEN t ELSE texts[a]]

\* The menus selectVillager can make, command by command
Menus(affinity) ==
  LET menus[i \in 0..Len(Actions)] ==
        IF i = 0 THEN {<<>>}
        ELSE UNION {{With(texts, Actions[i], t) :
                       t \in CommandTexts(Actions[i], affinity, Letters(texts))}
                    : texts \in menus[i - 1]}
  IN menus[Len(Actions)]

-----------------------------------------------------------------------------
Network ==
  /\ \/ Server
     \/ \E c \in Client : OnMatchOid(c) \/ OnMatchSubscribe(c) \/ OnMessages(c)
  /\ UNCHANGED replicaVars

\* A player acts on what its own replica shows: free villagers, the commands of
\* a menu, Escape.
Offered(c) ==
  LET r == replica[c]
      mine == {r.selected[c]} \ {None}
  IN [type : {"select"}, senderId : {c}, name : {n \in ToSet(r.villagers) : ~IsSelected(r, n)}]
       \cup [type : {"deselect"}, senderId : {c}, name : mine]
       \cup [type : {"action"}, senderId : {c}, name : mine, action : ToSet(Actions)]

Send(c, said) ==
  /\ said \in Offered(c)
  /\ SendMessage(c)
  /\ content' = Append(content, said)
  /\ UNCHANGED <<replica, menu>>

Messages(tick) == [i \in 1..Len(tick) |-> content[tick[i]]]

\* processTicks: all the ticks there are
AfterTicks(c) ==
  LET battle[i \in 0..Len(ticks[c])] ==
        IF i = 0 THEN [replica |-> replica[c], opened |-> None]
        ELSE HandleTick(c, battle[i - 1], Messages(ticks[c][i]))
  IN battle[Len(ticks[c])]

Frame(c) ==
  /\ ProcessTicks(c)
  /\ LET after == AfterTicks(c)
     IN /\ replica' = [replica EXCEPT ![c] = after.replica]
        /\ IF after.opened = None THEN UNCHANGED menu
           ELSE \E texts \in Menus(after.opened) : menu' = [menu EXCEPT ![c] = texts]
  /\ UNCHANGED content

ReplicasNext ==
  \/ Network
  \/ \E c \in Client : Frame(c) \/ \E said \in Content : Send(c, said)

ReplicasSpec == ReplicasInit /\ [][ReplicasNext]_allVars

\* The fairness of Lockstep: a frame is a ProcessTicks, and can be drawn when that
\* can be done.  Nobody has to send anything.
FairReplicasSpec == ReplicasSpec /\ Fairness

-----------------------------------------------------------------------------
(* Properties *)

\* "all the network-synced objects live in here" (BattleMode): two clients that
\* joined at the same tick and have handled equally many have the same battle,
\* whatever each of them has shown to its own player in between, and so names,
\* selections and the next random number are the same (BattleCtx.randomsFor).
ReplicasAgree ==
  \A c, d \in Client :
    (start[c] = start[d] /\ Len(handled[c]) = Len(handled[d])) => replica[c] = replica[d]

\* Whatever has become of the affinity, a menu offers every action, and a first
\* letter tells the commands apart (Player.selectVillager, getCommandText).
MenuTypable ==
  \A c \in Client : menu[c] # None =>
    /\ DOMAIN menu[c] = ToSet(Actions)
    /\ \A a, b \in DOMAIN menu[c] : menu[c][a].letter = menu[c][b].letter => a = b
=============================================================================
