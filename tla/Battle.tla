-------------------------------- MODULE Battle --------------------------------
(***************************************************************************)
(* The rules of a battle as one client simulates them: BattleMessages      *)
(* (what each message does), Player, Villager and VillagerGenerator.       *)
(*                                                                         *)
(* The client alternates between handling the messages of a tick and       *)
(* updating, object by object, the database of networked objects           *)
(* (NetObjectDB).  The update is not one step here: what one object does   *)
(* (a villager that works, a task that ends, a summoned god that strikes)  *)
(* is seen by the objects after it in the same update, so the order counts.*)
(*                                                                         *)
(* Players type freely and what they type arrives later, so any message    *)
(* about any villager, living or not, may have to be handled.  Numbers     *)
(* between 0 and 1 are whole multiples of a unit, 1 being Full.            *)
(***************************************************************************)
EXTENDS Integers, Sequences, FiniteSets, Lists

CONSTANTS
  VillagerName,    \* _names, the names of villagers
  LetterOf,        \* the first letter of each name
  NumVillagers,    \* GameDesc.numVillagers
  God,
  godHearts,       \* GameDesc.godHearts
  godDamage,       \* GameDesc.godDamage
  MAX_HEARTS,
  Full,            \* 1.0 in units
  initialDefense,
  sacrificeLoss,   \* - GameDesc.sacrificeAffinityOffset
  festivalGain,    \* affinity per update of a villager at a festival
  worshipGain,     \* defense per update of a villager at worship
  ActionTicks,     \* VillagerAction.duration in updates
  SummonTicks,     \* delay between a summons and its strike, in updates
  Local,           \* the player of this client
  None             \* no villager, no player

Player == {1, 2}

Other(p) == 3 - p

Letter == {LetterOf[n] : n \in VillagerName}

Work == {"festival", "worship"}

\* There are names for more letters than villagers; no damage is an odd number
\* of units, so that its half (DEFENSE_STRENGTH) is a number of units too.
ASSUME NamesAssumption ==
  /\ None \notin VillagerName \cup Player /\ None \notin Work
  /\ IsFiniteSet(VillagerName)
  /\ NumVillagers \in Nat /\ NumVillagers <= Cardinality(Letter)
ASSUME GodAssumption ==
  /\ godHearts \in [God -> 1..MAX_HEARTS]
  /\ godDamage \in [God -> Nat]
  /\ \A g \in God : godDamage[g] % 2 = 0
ASSUME NumberAssumption ==
  /\ MAX_HEARTS \in Nat \ {0} /\ Full \in Nat \ {0}
  /\ initialDefense \in 0..Full
  /\ sacrificeLoss \in Nat /\ festivalGain \in Nat /\ worshipGain \in Nat
  /\ ActionTicks \in Nat \ {0} /\ SummonTicks \in Nat \ {0}
  /\ Local \in Player

VARIABLES
  templeHealth, templeDefense, villagerAffinity, hearts,  \* of each Player
  selectedVillager,     \* the living villager each Player has selected
  villagers,            \* the names of the living villagers
  claimedLetters,       \* VillagerGenerator._claimedLetters
  curAction,            \* Villager._curAction
  performingActionFor,  \* Villager._performingActionFor
  won,                  \* this client has sent an IWonMessage
  phase,                \* what the client is doing with the current tick
  done,                 \* objects and tasks, in the order they were added: the
  todo                  \* ones this update has reached, and the rest of them

numbers == <<templeHealth, templeDefense, villagerAffinity, hearts>>
people == <<selectedVillager, villagers, claimedLetters, curAction, performingActionFor>>
vars == <<numbers, people, won, phase, done, todo>>

Clamp(x) == IF x < 0 THEN 0 ELSE IF x > Full THEN Full ELSE x

\* What is updated, besides the generator, which is always first.
VillagerEntry(n) == [kind |-> "villager", name |-> n]
ActionTask(n, ticks) == [kind |-> "action", name |-> n, ticks |-> ticks]
SummonTask(p, g, ticks) == [kind |-> "summon", target |-> p, god |-> g, ticks |-> ticks]

\* tasks whose time has not come are between 1 and their length
Entry ==
  [kind : {"villager"}, name : VillagerName]
    \cup [kind : {"action"}, name : VillagerName, ticks : 1..ActionTicks]
    \cup [kind : {"summon"}, target : Player, god : God, ticks : 1..SummonTicks]

StateOK ==
  /\ templeHealth \in [Player -> 0..Full]
  /\ templeDefense \in [Player -> 0..Full]
  /\ villagerAffinity \in [Player -> 0..Full]
  /\ hearts \in [Player -> 0..MAX_HEARTS]
  /\ selectedVillager \in [Player -> VillagerName \cup {None}]
  /\ villagers \in SUBSET VillagerName
  /\ claimedLetters \in SUBSET Letter
  /\ curAction \in [VillagerName -> Work \cup {None}]
  /\ performingActionFor \in [VillagerName -> Player \cup {None}]
  /\ won \in BOOLEAN
  /\ phase \in {"messages", "generate", "update"}

TypeOK ==
  /\ StateOK
  /\ done \in Seq(Entry)
  /\ todo \in Seq(Entry)

Init ==
  /\ templeHealth = [p \in Player |-> Full]
  /\ templeDefense = [p \in Player |-> initialDefense]
  /\ villagerAffinity = [p \in Player |-> Full]
  /\ hearts = [p \in Player |-> 0]
  /\ selectedVillager = [p \in Player |-> None]
  /\ villagers = {}
  /\ claimedLetters = {}
  /\ curAction = [n \in VillagerName |-> None]
  /\ performingActionFor = [n \in VillagerName |-> None]
  /\ won = FALSE
  /\ phase = "messages"
  /\ done = <<>>
  /\ todo = <<>>

-----------------------------------------------------------------------------
(* The objects *)

NeverSelected(n) == FALSE

\* isSelected
Selected(n) == \E p \in Player : selectedVillager[p] = n

\* The action task of a villager
Tasks(n) == {e \in Entry : e.kind = "action" /\ e.name = n}

KeepEntries(seq, names) == seq

WithoutAnyTask(seq, names) ==
  Kept(seq, {e \in Entry : e.kind = "villager" /\ e.name \notin names})

KeepAction(seq, n) == seq

\* Entries of villagers that are gone, and of actions that are over, are gone.
Without(seq, names) ==
  Kept(seq, {e \in Entry : e.kind = "summon" \/ e.name \notin names})

WithoutAction(seq, n) == Kept(seq, Entry \ Tasks(n))

DestroyKeepsLetters(names, sel) ==
  /\ villagers' = villagers \ names
  /\ selectedVillager' = [p \in Player |-> IF sel[p] \in names THEN None ELSE sel[p]]
  /\ curAction' = [n \in VillagerName |-> IF n \in names THEN None ELSE curAction[n]]
  /\ performingActionFor' =
       [n \in VillagerName |-> IF n \in names THEN None ELSE performingActionFor[n]]
  /\ UNCHANGED claimedLetters

\* destroySelf of each villager of a set: the generator gets their letters back
\* and references to them become null.  sel: the selections to start from.
Destroy(names, sel) ==
  /\ villagers' = villagers \ names
  /\ claimedLetters' = claimedLetters \ {LetterOf[n] : n \in names}
  /\ selectedVillager' = [p \in Player |-> IF sel[p] \in names THEN None ELSE sel[p]]
  /\ curAction' = [n \in VillagerName |-> IF n \in names THEN None ELSE curAction[n]]
  /\ performingActionFor' =
       [n \in VillagerName |-> IF n \in names THEN None ELSE performingActionFor[n]]

-----------------------------------------------------------------------------
(* Messages.  One that names no living villager, or that asks for what its   *)
(* sender may not do any more, is logged and changes nothing.                *)

Handling == phase = "messages"

\* selectVillager first deselects the villager the player had.
HandleSelectVillager(sender, n) ==
  /\ Handling
  /\ n \in villagers
  /\ ~Selected(n)
  /\ selectedVillager' = [selectedVillager EXCEPT ![sender] = n]
  /\ UNCHANGED <<numbers, villagers, claimedLetters, curAction, performingActionFor,
                 won, phase, done, todo>>

HandleDeselectVillager(sender, n) ==
  /\ Handling
  /\ n \in villagers
  /\ selectedVillager[sender] = n
  /\ selectedVillager' = [selectedVillager EXCEPT ![sender] = None]
  /\ UNCHANGED <<numbers, villagers, claimedLetters, curAction, performingActionFor,
                 won, phase, done, todo>>

\* The action ends the selection and what the villager was doing, for whomever.
HandleWork(sender, n, action) ==
  /\ Handling
  /\ n \in villagers
  /\ selectedVillager[sender] = n
  /\ selectedVillager' = [selectedVillager EXCEPT ![sender] = None]
  /\ curAction' = [curAction EXCEPT ![n] = action]
  /\ performingActionFor' = [performingActionFor EXCEPT ![n] = sender]
  /\ done' = Append(WithoutAction(done, n), ActionTask(n, ActionTicks))
  /\ UNCHANGED <<numbers, villagers, claimedLetters, won, phase, todo>>

\* A sacrifice costs affinity even when the player holds all the hearts it can.
HandleSacrifice(sender, n) ==
  /\ Handling
  /\ n \in villagers
  /\ selectedVillager[sender] = n
  /\ hearts' = [hearts EXCEPT ![sender] = IF @ < MAX_HEARTS THEN @ + 1 ELSE @]
  /\ villagerAffinity' = [villagerAffinity EXCEPT ![sender] = Clamp(@ - sacrificeLoss)]
  /\ Destroy({n}, [selectedVillager EXCEPT ![sender] = None])
  /\ done' = Without(done, {n})
  /\ UNCHANGED <<templeHealth, templeDefense, won, phase, todo>>

HandleSummonOnCredit(sender, god) ==
  /\ Handling
  /\ hearts' = [hearts EXCEPT ![sender] = @ - godHearts[god]]
  /\ done' = Append(done, SummonTask(Other(sender), god, SummonTicks))
  /\ UNCHANGED <<templeHealth, templeDefense, villagerAffinity, people, won, phase, todo>>

\* The summoner pays; the strike on the other player is a task.
HandleSummon(sender, god) ==
  /\ Handling
  /\ hearts[sender] >= godHearts[god]
  /\ hearts' = [hearts EXCEPT ![sender] = @ - godHearts[god]]
  /\ done' = Append(done, SummonTask(Other(sender), god, SummonTicks))
  /\ UNCHANGED <<templeHealth, templeDefense, villagerAffinity, people, won, phase, todo>>

-----------------------------------------------------------------------------
(* The update of the networked objects, after the messages of a tick *)

BeginUpdate ==
  /\ Handling
  /\ phase' = "generate"
  /\ UNCHANGED <<numbers, people, won, done, todo>>

\* One round of the generator: any name whose letter nobody has.
Generate ==
  /\ phase = "generate"
  /\ Cardinality(villagers) < NumVillagers
  /\ \E n \in VillagerName :
       /\ LetterOf[n] \notin claimedLetters
       /\ villagers' = villagers \cup {n}
       /\ claimedLetters' = claimedLetters \cup {LetterOf[n]}
       /\ done' = Append(done, VillagerEntry(n))
  /\ UNCHANGED <<numbers, selectedVillager, curAction, performingActionFor, won,
                 phase, todo>>

Generated ==
  /\ phase = "generate"
  /\ Cardinality(villagers) >= NumVillagers
  /\ phase' = "update"
  /\ todo' = done
  /\ done' = <<>>
  /\ UNCHANGED <<numbers, people, won>>

\* The next entry of the update is e, and stays.
Reach(e) ==
  /\ phase = "update"
  /\ todo # <<>>
  /\ Head(todo) = e

\* Villager.update
UpdateVillager(n) ==
  LET p == performingActionFor[n]
  IN /\ Reach(VillagerEntry(n))
     /\ villagerAffinity' = IF curAction[n] = "festival"
          THEN [villagerAffinity EXCEPT ![p] = Clamp(@ + festivalGain)]
          ELSE villagerAffinity
     /\ templeDefense' = IF curAction[n] = "worship"
          THEN [templeDefense EXCEPT ![p] = Clamp(@ + worshipGain)]
          ELSE templeDefense
     /\ done' = Append(done, Head(todo))
     /\ todo' = Tail(todo)
     /\ UNCHANGED <<templeHealth, hearts, people, won, phase>>

UpdateActionForgets(n, ticks) ==
  /\ Reach(ActionTask(n, ticks))
  /\ todo' = Tail(todo)
  /\ done' = IF ticks > 1 THEN Append(done, ActionTask(n, ticks - 1)) ELSE done
  /\ UNCHANGED <<numbers, people, won, phase>>

\* The task of an action counts down and ends the action.
UpdateAction(n, ticks) ==
  /\ Reach(ActionTask(n, ticks))
  /\ todo' = Tail(todo)
  /\ \/ /\ ticks > 1
        /\ done' = Append(done, ActionTask(n, ticks - 1))
        /\ UNCHANGED <<curAction, performingActionFor>>
     \/ /\ ticks = 1
        /\ done' = done
        /\ curAction' = [curAction EXCEPT ![n] = None]
        /\ performingActionFor' = [performingActionFor EXCEPT ![n] = None]
  /\ UNCHANGED <<numbers, selectedVillager, villagers, claimedLetters, won, phase>>

SummonApproaches(p, god, ticks) ==
  /\ Reach(SummonTask(p, god, ticks))
  /\ ticks > 1
  /\ done' = Append(done, SummonTask(p, god, ticks - 1))
  /\ todo' = Tail(todo)
  /\ UNCHANGED <<numbers, people, won, phase>>

Absorbed(p, god) ==
  LET half == godDamage[god] \div 2
  IN IF half < templeDefense[p] THEN half ELSE templeDefense[p]

WorkersOfTheOther(p) == {n \in villagers : performingActionFor[n] = Other(p)}

Workers(p) == {n \in villagers : performingActionFor[n] = p}

WinsOverAnyone(p) == templeHealth'[p] <= 0

Wins(p) == templeHealth'[p] <= 0 /\ p # Local

\* The strike: defense takes up to half of it, health the rest, and the villagers
\* that work for the player die.  The client of the other player claims victory.
SummonStrikes(p, god) ==
  /\ Reach(SummonTask(p, god, 1))
  /\ templeDefense' = [templeDefense EXCEPT ![p] = Clamp(@ - Absorbed(p, god))]
  /\ templeHealth' =
       [templeHealth EXCEPT ![p] = Clamp(@ - (godDamage[god] - Absorbed(p, god)))]
  /\ won' = (won \/ Wins(p))
  /\ Destroy(Workers(p), selectedVillager)
  /\ done' = Without(done, Workers(p))
  /\ todo' = Without(Tail(todo), Workers(p))
  /\ UNCHANGED <<villagerAffinity, hearts, phase>>

EndUpdate ==
  /\ phase = "update"
  /\ todo = <<>>
  /\ phase' = "messages"
  /\ UNCHANGED <<numbers, people, won, done, todo>>

-----------------------------------------------------------------------------
Messages ==
  \E p \in Player :
    \/ \E n \in VillagerName :
         \/ HandleSelectVillager(p, n)
         \/ HandleDeselectVillager(p, n)
         \/ \E a \in Work : HandleWork(p, n, a)
         \/ HandleSacrifice(p, n)
    \/ \E g \in God : HandleSummon(p, g)

Update ==
  \/ Generate
  \/ Generated
  \/ \E n \in VillagerName :
       UpdateVillager(n) \/ \E t \in 1..ActionTicks : UpdateAction(n, t)
  \/ \E p \in Player, g \in God :
       SummonStrikes(p, g) \/ \E t \in 1..SummonTicks : SummonApproaches(p, g, t)
  \/ EndUpdate

Next == Messages \/ BeginUpdate \/ Update

Spec == Init /\ [][Next]_vars

\* The server's batches keep coming, and an update, once begun, is finished.
FairSpec == Spec /\ WF_vars(BeginUpdate) /\ WF_vars(Update)

-----------------------------------------------------------------------------
(* Properties *)

Entries == done \o todo

\* Where such an entry is
Places(entries) == {i \in 1..Len(Entries) : Entries[i] \in entries}

\* A selection is of one player and of a living villager, although selections
\* and deaths cross each other (BattleMessages.handleSelectVillager).
SelectionsExclusive ==
  /\ \A p \in Player : selectedVillager[p] # None => selectedVillager[p] \in villagers
  /\ selectedVillager[1] # None => selectedVillager[1] # selectedVillager[2]

\* "Each Villager must have a name that starts with a unique letter": the letters
\* claimed are exactly those of the living, and no two of them share one, through
\* every way a villager dies (VillagerGenerator.generate).
LettersOfTheLiving ==
  /\ claimedLetters = {LetterOf[n] : n \in villagers}
  /\ \A n, o \in villagers : LetterOf[n] = LetterOf[o] => n = o

\* The generator always finds a name: "Error" never walks the board.
NameToBeFound ==
  Cardinality(villagers) < NumVillagers => \E n \in VillagerName : LetterOf[n] \notin claimedLetters

\* A villager works for somebody exactly when one task is going to end its work;
\* a stolen villager has no task left of the work it was stolen from
\* (Villager.performAction).
TaskPerWork ==
  \A n \in VillagerName :
    /\ curAction[n] # None <=> performingActionFor[n] # None
    /\ curAction[n] # None => n \in villagers
    /\ Cardinality(Places(Tasks(n))) = IF curAction[n] # None THEN 1 ELSE 0

\* A villager lives exactly when it is updated, once per update.
LivingAreUpdated ==
  \A n \in VillagerName :
    Cardinality(Places({VillagerEntry(n)})) = IF n \in villagers THEN 1 ELSE 0

\* The client claims victory exactly when its opponent has no health left, and
\* never because its own temple fell (Player.offsetHealth).
VictoryClaimed == won <=> templeHealth[Other(Local)] = 0

\* A step that takes health has killed every villager that worked for the player
\* and has used no more defense than health's loss allows: defense absorbs half
\* of the damage at the most (Player.handleSummon).
StrikesInFull ==
  [][\A p \in Player : templeHealth'[p] # templeHealth[p] =>
       /\ \A n \in villagers' : performingActionFor'[n] # p
       /\ templeDefense'[p] <= templeDefense[p]
       /\ templeHealth'[p] > 0 => templeDefense[p] - templeDefense'[p]
                                    <= templeHealth[p] - templeHealth'[p]]_vars

\* A summons is never lost: the strike on a temple still whole lands, whatever
\* happens to the villagers and the tasks around it (Player.handleSummon).
SummonsStrike ==
  \A p \in Player :
    (templeHealth[p] = Full /\ \E i \in 1..Len(Entries) :
                                  Entries[i].kind = "summon" /\ Entries[i].target = p)
      ~> templeHealth[p] < Full

\* Nobody works for ever: a villager is idle again and again, or put to work
\* again and again (Villager.performAction, endCurAction).
WorkEnds ==
  \A n \in VillagerName :
    \/ []<>(curAction[n] = None)
    \/ []<><<\E p \in Player, a \in Work : HandleWork(p, n, a)>>_vars
=============================================================================
