----------------------------- MODULE BattleProofs -----------------------------
(***************************************************************************)
(* Proofs about Battle.tla, for any number of villagers, names and gods.   *)
(*                                                                         *)
(* IInv is inductive and says nothing of the two queues of an update: what *)
(* follows from it holds whatever the order objects are updated in.        *)
(* QueueInv is about the queues, done and todo.                            *)
(***************************************************************************)
EXTENDS Battle, ListLemmas, FiniteSetTheorems, SequenceTheorems, TLAPS

IInv == StateOK /\ SelectionsExclusive /\ LettersOfTheLiving /\ VictoryClaimed

\* Clamping gives a fraction of 1 (MathUtil.clamp).
LEMMA ClampRange ==
  ASSUME NEW x \in Int
  PROVE  Clamp(x) \in 0..Full
BY NumberAssumption DEF Clamp

\* The damage defense takes away and the rest of it are numbers (Player.handleSummon).
LEMMA DamageTypes ==
  ASSUME StateOK, NEW p \in Player, NEW g \in God
  PROVE  /\ godDamage[g] \in Nat
         /\ Absorbed(p, g) \in Nat
         /\ Absorbed(p, g) <= templeDefense[p]
         /\ 2 * Absorbed(p, g) <= godDamage[g]
<1>1. godDamage[g] \in Nat
  BY GodAssumption
<1>2. templeDefense[p] \in 0..Full
  BY DEF StateOK
<1> QED
  BY <1>1, <1>2, NumberAssumption DEF Absorbed

\* There is no third player (Player.handleSummon strikes everyone but the summoner).
LEMMA TwoPlayers ==
  ASSUME NEW p \in Player
  PROVE  Other(p) \in Player /\ Other(p) # p /\ \A q \in Player : q = p \/ q = Other(p)
BY DEF Player, Other

-----------------------------------------------------------------------------
\* The dead leave the state well formed (destroySelf).
LEMMA DestroyTypes ==
  ASSUME StateOK, NEW names \in SUBSET VillagerName,
         NEW sel \in [Player -> VillagerName \cup {None}], Destroy(names, sel)
  PROVE  /\ villagers' \in SUBSET VillagerName
         /\ claimedLetters' \in SUBSET Letter
         /\ selectedVillager' \in [Player -> VillagerName \cup {None}]
         /\ curAction' \in [VillagerName -> Work \cup {None}]
         /\ performingActionFor' \in [VillagerName -> Player \cup {None}]
BY DEF StateOK, Destroy

\* Who dies is nobody's selection any more (destroySelf, GameObjectRef).
LEMMA DestroySelections ==
  ASSUME NEW names \in SUBSET VillagerName,
         NEW sel \in [Player -> VillagerName \cup {None}], Destroy(names, sel),
         \A p \in Player : sel[p] # None => sel[p] \in villagers,
         sel[1] # None => sel[1] # sel[2]
  PROVE  SelectionsExclusive'
BY DEF Destroy, SelectionsExclusive, Player

\* Who dies gives back its letter, and nobody else's (VillagerGenerator.generate).
LEMMA DestroyLetters ==
  ASSUME LettersOfTheLiving, NEW names \in SUBSET villagers,
         NEW sel, Destroy(names, sel)
  PROVE  LettersOfTheLiving'
BY DEF Destroy, LettersOfTheLiving

-----------------------------------------------------------------------------
\* The battle starts in a state of the invariant (the fields of Player).
LEMMA Begin == Init => IInv
<1> SUFFICES ASSUME Init PROVE IInv
  OBVIOUS
<1>1. StateOK
  <2>1. Full \in 0..Full /\ initialDefense \in 0..Full /\ 0 \in 0..MAX_HEARTS
    BY NumberAssumption
  <2>2. /\ templeHealth \in [Player -> 0..Full]
        /\ templeDefense \in [Player -> 0..Full]
        /\ villagerAffinity \in [Player -> 0..Full]
        /\ hearts \in [Player -> 0..MAX_HEARTS]
    BY <2>1 DEF Init
  <2> QED
    BY <2>2 DEF Init, StateOK
<1>2. SelectionsExclusive /\ LettersOfTheLiving
  BY DEF Init, SelectionsExclusive, LettersOfTheLiving, Player
<1>3. VictoryClaimed
  BY NumberAssumption DEF Init, VictoryClaimed, Other, Player
<1> QED
  BY <1>1, <1>2, <1>3 DEF IInv

\* Each message preserves the invariant (BattleMessages.handleMessage).
LEMMA MessageStep ==
  ASSUME IInv, Messages
  PROVE  IInv'
<1> USE DEF IInv
<1>1. ASSUME NEW p \in Player, NEW n \in VillagerName, HandleSelectVillager(p, n)
      PROVE  IInv'
  <2>1. StateOK'
    BY <1>1 DEF HandleSelectVillager, StateOK, numbers
  <2>2. SelectionsExclusive'
    BY <1>1 DEF HandleSelectVillager, SelectionsExclusive, StateOK, Selected, Player
  <2>3. LettersOfTheLiving' /\ VictoryClaimed'
    BY <1>1 DEF HandleSelectVillager, LettersOfTheLiving, VictoryClaimed, numbers
  <2> QED
    BY <2>1, <2>2, <2>3
<1>2. ASSUME NEW p \in Player, NEW n \in VillagerName, HandleDeselectVillager(p, n)
      PROVE  IInv'
  <2>1. StateOK'
    BY <1>2 DEF HandleDeselectVillager, StateOK, numbers
  <2>2. SelectionsExclusive'
    BY <1>2 DEF HandleDeselectVillager, SelectionsExclusive, StateOK, Player
  <2>3. LettersOfTheLiving' /\ VictoryClaimed'
    BY <1>2 DEF HandleDeselectVillager, LettersOfTheLiving, VictoryClaimed, numbers
  <2> QED
    BY <2>1, <2>2, <2>3
<1>3. ASSUME NEW p \in Player, NEW n \in VillagerName, NEW a \in Work, HandleWork(p, n, a)
      PROVE  IInv'
  <2>1. StateOK'
    BY <1>3 DEF HandleWork, StateOK, numbers, Handling
  <2>2. SelectionsExclusive'
    BY <1>3 DEF HandleWork, SelectionsExclusive, StateOK, Player
  <2>3. LettersOfTheLiving' /\ VictoryClaimed'
    BY <1>3 DEF HandleWork, LettersOfTheLiving, VictoryClaimed, numbers
  <2> QED
    BY <2>1, <2>2, <2>3
<1>4. ASSUME NEW p \in Player, NEW n \in VillagerName, HandleSacrifice(p, n)
      PROVE  IInv'
  <2> DEFINE sel == [selectedVillager EXCEPT ![p] = None]
  <2>1. /\ Destroy({n}, sel)
        /\ sel \in [Player -> VillagerName \cup {None}]
        /\ \A q \in Player : sel[q] # None => sel[q] \in villagers
        /\ sel[1] # None => sel[1] # sel[2]
    BY <1>4 DEF HandleSacrifice, StateOK, SelectionsExclusive, Player
  <2>2. villagerAffinity[p] - sacrificeLoss \in Int
    BY NumberAssumption DEF StateOK
  <2>3. /\ villagerAffinity' \in [Player -> 0..Full]
        /\ hearts' \in [Player -> 0..MAX_HEARTS]
    BY <1>4, <2>2, ClampRange, NumberAssumption DEF HandleSacrifice, StateOK
  <2>4. StateOK'
    BY <1>4, <2>1, <2>3, DestroyTypes DEF HandleSacrifice, StateOK
  <2>5. SelectionsExclusive'
    BY <2>1, DestroySelections
  <2>6. LettersOfTheLiving'
    BY <1>4, <2>1, DestroyLetters DEF HandleSacrifice
  <2>7. VictoryClaimed'
    BY <1>4 DEF HandleSacrifice, VictoryClaimed
  <2> QED
    BY <2>4, <2>5, <2>6, <2>7
<1>5. ASSUME NEW p \in Player, NEW g \in God, HandleSummon(p, g)
      PROVE  IInv'
  <2>1. hearts[p] - godHearts[g] \in 0..MAX_HEARTS
    BY <1>5, GodAssumption, NumberAssumption DEF HandleSummon, StateOK
  <2>2. StateOK'
    BY <1>5, <2>1 DEF HandleSummon, StateOK, people
  <2>3. SelectionsExclusive' /\ LettersOfTheLiving' /\ VictoryClaimed'
    BY <1>5 DEF HandleSummon, SelectionsExclusive, LettersOfTheLiving, VictoryClaimed, people
  <2> QED
    BY <2>2, <2>3
<1> QED
  BY <1>1, <1>2, <1>3, <1>4, <1>5 DEF Messages

\* Each step of an update preserves the invariant (NetObjectDB.doUpdate).
LEMMA UpdateStep ==
  ASSUME IInv, Update
  PROVE  IInv'
<1> USE DEF IInv
<1>1. CASE Generate
  <2>1. PICK n \in VillagerName :
          /\ LetterOf[n] \notin claimedLetters
          /\ villagers' = villagers \cup {n}
          /\ claimedLetters' = claimedLetters \cup {LetterOf[n]}
    BY <1>1 DEF Generate
  <2>2. UNCHANGED <<numbers, selectedVillager, curAction, performingActionFor, won, phase>>
    BY <1>1 DEF Generate
  <2>3. LetterOf[n] \in Letter
    BY DEF Letter
  <2>4. StateOK'
    BY <2>1, <2>2, <2>3 DEF StateOK, numbers
  <2>5. SelectionsExclusive' /\ VictoryClaimed'
    BY <2>1, <2>2 DEF SelectionsExclusive, VictoryClaimed, numbers
  <2>6. LettersOfTheLiving'
    BY <2>1 DEF LettersOfTheLiving
  <2> QED
    BY <2>4, <2>5, <2>6
<1>2. CASE Generated
  BY <1>2 DEF Generated, StateOK, SelectionsExclusive, LettersOfTheLiving, VictoryClaimed,
              numbers, people
<1>3. ASSUME NEW n \in VillagerName, UpdateVillager(n)
      PROVE  IInv'
  <2> DEFINE p == performingActionFor[n]
  <2>1. /\ villagerAffinity' \in [Player -> 0..Full]
        /\ templeDefense' \in [Player -> 0..Full]
    <3>1. \A q \in Player : Clamp(villagerAffinity[q] + festivalGain) \in 0..Full
      BY ClampRange, NumberAssumption DEF StateOK
    <3>2. \A q \in Player : Clamp(templeDefense[q] + worshipGain) \in 0..Full
      BY ClampRange, NumberAssumption DEF StateOK
    <3> QED
      BY <1>3, <3>1, <3>2 DEF UpdateVillager, StateOK
  <2>2. UNCHANGED <<templeHealth, hearts, people, won, phase>>
    BY <1>3 DEF UpdateVillager
  <2> QED
    BY <2>1, <2>2 DEF StateOK, SelectionsExclusive, LettersOfTheLiving, VictoryClaimed, people
<1>4. ASSUME NEW n \in VillagerName, NEW t \in 1..ActionTicks, UpdateAction(n, t)
      PROVE  IInv'
  <2>1. UNCHANGED <<numbers, selectedVillager, villagers, claimedLetters, won, phase>>
    BY <1>4 DEF UpdateAction
  <2>2. /\ curAction' \in [VillagerName -> Work \cup {None}]
        /\ performingActionFor' \in [VillagerName -> Player \cup {None}]
    BY <1>4 DEF UpdateAction, StateOK
  <2> QED
    BY <2>1, <2>2 DEF StateOK, SelectionsExclusive, LettersOfTheLiving, VictoryClaimed, numbers
<1>5. ASSUME NEW p \in Player, NEW g \in God, SummonStrikes(p, g)
      PROVE  IInv'
  <2> DEFINE dead == Workers(p)
             loss == godDamage[g] - Absorbed(p, g)
  <2>1. Absorbed(p, g) \in Nat /\ loss \in Nat
    BY DamageTypes
  <2>2. /\ Clamp(templeDefense[p] - Absorbed(p, g)) \in 0..Full
        /\ Clamp(templeHealth[p] - loss) \in 0..Full
    BY <2>1, ClampRange DEF StateOK
  <2>3. /\ templeDefense' = [templeDefense EXCEPT ![p] = Clamp(@ - Absorbed(p, g))]
        /\ templeHealth' = [templeHealth EXCEPT ![p] = Clamp(@ - loss)]
        /\ won' = (won \/ (templeHealth'[p] <= 0 /\ p # Local))
        /\ Destroy(dead, selectedVillager)
        /\ UNCHANGED <<villagerAffinity, hearts, phase>>
    BY <1>5 DEF SummonStrikes, Wins
  <2> HIDE DEF dead, loss
  <2>4. /\ templeDefense' \in [Player -> 0..Full]
        /\ templeHealth' \in [Player -> 0..Full]
    BY <2>2, <2>3 DEF StateOK
  <2>5. dead \in SUBSET villagers /\ dead \in SUBSET VillagerName
    BY DEF StateOK, dead, Workers
  <2>6. won' \in BOOLEAN
    BY <2>3 DEF StateOK
  <2>7. StateOK'
    <3>1. selectedVillager \in [Player -> VillagerName \cup {None}]
      BY DEF StateOK
    <3>2. /\ villagers' \in SUBSET VillagerName
          /\ claimedLetters' \in SUBSET Letter
          /\ selectedVillager' \in [Player -> VillagerName \cup {None}]
          /\ curAction' \in [VillagerName -> Work \cup {None}]
          /\ performingActionFor' \in [VillagerName -> Player \cup {None}]
      BY <2>3, <2>5, <3>1, DestroyTypes
    <3> QED
      BY <2>3, <2>4, <2>6, <3>2 DEF StateOK
  <2>8. SelectionsExclusive'
    BY <2>3, <2>5, DestroySelections DEF StateOK, SelectionsExclusive
  <2>9. LettersOfTheLiving'
    BY <2>3, <2>5, DestroyLetters
  <2>10. VictoryClaimed'
    <3>1. Local \in Player /\ Other(Local) \in Player /\ Other(Local) # Local
      BY NumberAssumption, TwoPlayers
    <3>2. CASE p = Local
      BY <2>3, <3>1, <3>2 DEF VictoryClaimed, StateOK
    <3>3. CASE p # Local
      <4>1. p = Other(Local)
        BY <3>1, <3>3, TwoPlayers
      <4>2. templeHealth'[p] = Clamp(templeHealth[p] - loss)
        BY <2>3 DEF StateOK
      <4>3. templeHealth'[p] \in Nat
        BY <2>2, <4>2
      <4>4. templeHealth[p] = 0 => templeHealth'[p] = 0
        BY <2>1, <4>2, NumberAssumption DEF Clamp, loss
      <4>5. (templeHealth'[p] <= 0) = (templeHealth'[p] = 0)
        BY <4>3
      <4>6. won' = (won \/ templeHealth'[p] = 0)
        BY <2>3, <3>3, <4>5, Zenon
      <4> QED
        BY <4>1, <4>4, <4>6 DEF VictoryClaimed
    <3> QED
      BY <3>2, <3>3
  <2> QED
    BY <2>7, <2>8, <2>9, <2>10
<1>6. ASSUME NEW p \in Player, NEW g \in God, NEW t \in 1..SummonTicks,
             SummonApproaches(p, g, t)
      PROVE  IInv'
  BY <1>6 DEF SummonApproaches, StateOK, SelectionsExclusive, LettersOfTheLiving,
              VictoryClaimed, numbers, people
<1>7. CASE EndUpdate
  BY <1>7 DEF EndUpdate, StateOK, SelectionsExclusive, LettersOfTheLiving, VictoryClaimed,
              numbers, people
<1> QED
  BY <1>1, <1>2, <1>3, <1>4, <1>5, <1>6, <1>7 DEF Update

\* The invariant is inductive.
LEMMA Step == IInv /\ [Next]_vars => IInv'
<1> SUFFICES ASSUME IInv, [Next]_vars PROVE IInv'
  OBVIOUS
<1>1. CASE BeginUpdate
  BY <1>1 DEF BeginUpdate, IInv, StateOK, SelectionsExclusive, LettersOfTheLiving,
              VictoryClaimed, numbers, people
<1>2. CASE UNCHANGED vars
  BY <1>2 DEF vars, IInv, StateOK, SelectionsExclusive, LettersOfTheLiving, VictoryClaimed,
              numbers, people
<1> QED
  BY <1>1, <1>2, MessageStep, UpdateStep DEF Next

\* Every reachable state satisfies the invariant.
THEOREM BattleInvariant == Spec => []IInv
BY Begin, Step, PTL DEF Spec

\* A selection is of one player and of a living villager
\* (BattleMessages.handleSelectVillager, Villager.isSelected).
THEOREM SelectionsAreExclusive == Spec => []SelectionsExclusive
BY BattleInvariant, PTL DEF IInv

\* The letters claimed are those of the living, one each
\* (VillagerGenerator.generate).
THEOREM LettersAreOfTheLiving == Spec => []LettersOfTheLiving
BY BattleInvariant, PTL DEF IInv

\* A client claims victory exactly over a fallen opponent (Player.offsetHealth).
THEOREM VictoryIsClaimed == Spec => []VictoryClaimed
BY BattleInvariant, PTL DEF IInv

-----------------------------------------------------------------------------
\* With fewer villagers than letters some letter is free
\* (VillagerGenerator.generateName).
LEMMA LetterLeft ==
  ASSUME IInv
  PROVE  NameToBeFound
<1> SUFFICES ASSUME Cardinality(villagers) < NumVillagers
             PROVE  \E n \in VillagerName : LetterOf[n] \notin claimedLetters
  BY DEF NameToBeFound
<1> DEFINE letterOfVillager == [n \in villagers |-> LetterOf[n]]
<1>1. IsFiniteSet(villagers)
  BY NamesAssumption, FS_Subset DEF IInv, StateOK
<1>2. /\ claimedLetters = {LetterOf[n] : n \in villagers}
      /\ claimedLetters \in SUBSET Letter
  BY DEF IInv, StateOK, LettersOfTheLiving
<1>3. letterOfVillager \in Surjection(villagers, claimedLetters)
  BY <1>2 DEF Surjection
<1>4. /\ IsFiniteSet(claimedLetters)
      /\ Cardinality(claimedLetters) <= Cardinality(villagers)
  BY <1>1, <1>3, FS_Surjection
<1>5. Cardinality(claimedLetters) < NumVillagers
  BY <1>1, <1>4, FS_CardinalityType, NamesAssumption
<1>6. claimedLetters # Letter
  BY <1>1, <1>4, <1>5, FS_CardinalityType, NamesAssumption
<1> QED
  BY <1>2, <1>6 DEF Letter

\* The generator always finds a name (VillagerGenerator.generateName).
THEOREM NameIsToBeFound == Spec => []NameToBeFound
BY BattleInvariant, LetterLeft, PTL

-----------------------------------------------------------------------------
\* What a strike does, in numbers (Player.handleSummon).
LEMMA StrikeInFull ==
  ASSUME IInv, NEW p \in Player, NEW g \in God, SummonStrikes(p, g)
  PROVE  /\ \A q \in Player \ {p} : templeHealth'[q] = templeHealth[q]
         /\ \A n \in villagers' : performingActionFor'[n] # p
         /\ templeDefense'[p] <= templeDefense[p]
         /\ templeHealth'[p] > 0 => templeDefense[p] - templeDefense'[p]
                                      <= templeHealth[p] - templeHealth'[p]
<1> DEFINE dead == Workers(p)
<1>1. /\ godDamage[g] \in Nat
      /\ Absorbed(p, g) \in Nat
      /\ Absorbed(p, g) <= templeDefense[p]
      /\ 2 * Absorbed(p, g) <= godDamage[g]
  BY DamageTypes DEF IInv
<1>2. templeHealth[p] \in 0..Full /\ templeDefense[p] \in 0..Full
  BY DEF IInv, StateOK
<1>3. /\ templeDefense'[p] = Clamp(templeDefense[p] - Absorbed(p, g))
      /\ templeHealth'[p] = Clamp(templeHealth[p] - (godDamage[g] - Absorbed(p, g)))
      /\ \A q \in Player \ {p} : templeHealth'[q] = templeHealth[q]
      /\ Destroy(dead, selectedVillager)
  BY DEF SummonStrikes, IInv, StateOK
<1>4. \A n \in villagers' : performingActionFor'[n] # p
  <2> SUFFICES ASSUME NEW n \in villagers' PROVE performingActionFor'[n] # p
    OBVIOUS
  <2>1. n \in villagers /\ n \notin dead /\ n \in VillagerName
    BY <1>3 DEF Destroy, IInv, StateOK
  <2>2. performingActionFor'[n] = performingActionFor[n]
    BY <1>3, <2>1 DEF Destroy
  <2> QED
    BY <2>1, <2>2 DEF Workers
<1>5. templeDefense'[p] = templeDefense[p] - Absorbed(p, g)
  BY <1>1, <1>2, <1>3, NumberAssumption DEF Clamp
<1>6. templeHealth'[p] > 0 =>
        templeHealth'[p] = templeHealth[p] - (godDamage[g] - Absorbed(p, g))
  BY <1>1, <1>2, <1>3, NumberAssumption DEF Clamp
<1>7. templeHealth'[p] > 0 => templeDefense[p] - templeDefense'[p]
                                <= templeHealth[p] - templeHealth'[p]
  BY <1>1, <1>2, <1>5, <1>6, NumberAssumption
<1> QED
  BY <1>1, <1>2, <1>3, <1>4, <1>5, <1>7, NumberAssumption

\* Only strikes take health.
LEMMA HealthKept ==
  ASSUME IInv, [Next]_vars
  PROVE  \/ UNCHANGED templeHealth
         \/ \E p \in Player, g \in God : SummonStrikes(p, g)
BY DEF Next, Messages, Update, vars, numbers, people, BeginUpdate, HandleSelectVillager,
       HandleDeselectVillager, HandleWork, HandleSacrifice, HandleSummon, Generate,
       Generated, UpdateVillager, UpdateAction, SummonApproaches, EndUpdate

\* A step that takes health spares no worker and no more health than defense
\* allows (Player.handleSummon).
THEOREM StrikesAreInFull == Spec => StrikesInFull
<1> DEFINE InFull == \A p \in Player : templeHealth'[p] # templeHealth[p] =>
                       /\ \A n \in villagers' : performingActionFor'[n] # p
                       /\ templeDefense'[p] <= templeDefense[p]
                       /\ templeHealth'[p] > 0 => templeDefense[p] - templeDefense'[p]
                                                    <= templeHealth[p] - templeHealth'[p]
<1>1. IInv /\ [Next]_vars => [InFull]_vars
  <2> SUFFICES ASSUME IInv, [Next]_vars PROVE InFull
    OBVIOUS
  <2>1. CASE UNCHANGED templeHealth
    BY <2>1
  <2>2. ASSUME NEW p \in Player, NEW g \in God, SummonStrikes(p, g)
        PROVE  InFull
    BY <2>2, StrikeInFull
  <2> QED
    BY <2>1, <2>2, HealthKept
<1> QED
  BY <1>1, BattleInvariant, PTL DEF Spec, StrikesInFull

-----------------------------------------------------------------------------
(* The two lists of an update *)

\* Some entries are taken out of both lists.
LEMMA KeepSome ==
  ASSUME NEW S, NEW d \in Seq(S), NEW t \in Seq(S), NEW entries, NEW K, Single(d, t, K)
  PROVE  /\ Single(Kept(d, entries), Kept(t, entries), K)
         /\ K \subseteq entries =>
              (Listed(Kept(d, entries), Kept(t, entries), K) <=> Listed(d, t, K))
         /\ K \cap entries = {} => ~Listed(Kept(d, entries), Kept(t, entries), K)
<1>1. /\ Occurs(Kept(d, entries), K) <=> Occurs(d, K \cap entries)
      /\ Once(d, K) => Once(Kept(d, entries), K)
      /\ Occurs(Kept(t, entries), K) <=> Occurs(t, K \cap entries)
      /\ Once(t, K) => Once(Kept(t, entries), K)
  BY KeptProperties
<1>2. /\ ~Occurs(d, {}) /\ ~Occurs(t, {})
      /\ Occurs(d, K \cap entries) => Occurs(d, K)
      /\ Occurs(t, K \cap entries) => Occurs(t, K)
  BY DEF Occurs
<1>3. K \subseteq entries => K \cap entries = K
  OBVIOUS
<1> QED
  BY <1>1, <1>2, <1>3 DEF Single, Listed

-----------------------------------------------------------------------------
(* Villagers and tasks among the entries *)

Working == {n \in VillagerName : curAction[n] # None}

\* A villager that lives has one entry, and one that works one task.
BookOf(n, d, t, living, working) ==
  /\ Single(d, t, {VillagerEntry(n)}) /\ Single(d, t, Tasks(n))
  /\ Listed(d, t, {VillagerEntry(n)}) <=> n \in living
  /\ Listed(d, t, Tasks(n)) <=> n \in working

Books(d, t, living, working) == \A n \in VillagerName : BookOf(n, d, t, living, working)

\* An entry is of one kind and of one villager.
LEMMA EntryKinds ==
  ASSUME NEW n \in VillagerName
  PROVE  /\ \A m \in VillagerName :
              /\ VillagerEntry(m) \in Entry
              /\ VillagerEntry(m) \in {VillagerEntry(n)} <=> m = n
              /\ VillagerEntry(m) \notin Tasks(n)
         /\ \A m \in VillagerName, i \in 1..ActionTicks :
              /\ ActionTask(m, i) \in Entry
              /\ ActionTask(m, i) \notin {VillagerEntry(n)}
              /\ ActionTask(m, i) \in Tasks(n) <=> m = n
         /\ \A p \in Player, g \in God, i \in 1..SummonTicks :
              /\ SummonTask(p, g, i) \in Entry
              /\ SummonTask(p, g, i) \notin {VillagerEntry(n)}
              /\ SummonTask(p, g, i) \notin Tasks(n)
BY DEF VillagerEntry, ActionTask, SummonTask, Entry, Tasks

\* A villager is born (VillagerGenerator.generate).
LEMMA BooksBorn ==
  ASSUME NEW d \in Seq(Entry), NEW t, NEW living, NEW working, Books(d, t, living, working),
         NEW m \in VillagerName, m \notin living
  PROVE  Books(Append(d, VillagerEntry(m)), t, living \cup {m}, working)
<1> SUFFICES ASSUME NEW n \in VillagerName
             PROVE  BookOf(n, Append(d, VillagerEntry(m)), t, living \cup {m}, working)
  BY DEF Books
<1> DEFINE K == {VillagerEntry(n)}
           e == VillagerEntry(m)
<1>1. e \in Entry /\ (e \in K <=> m = n) /\ e \notin Tasks(n)
  BY EntryKinds
<1>k. /\ Single(d, t, K) /\ Single(d, t, Tasks(n))
      /\ Listed(d, t, K) <=> n \in living
      /\ Listed(d, t, Tasks(n)) <=> n \in working
  BY DEF Books, BookOf
<1> HIDE DEF e, K
<1>2. Single(Append(d, e), t, K) /\ (Listed(Append(d, e), t, K) <=> Listed(d, t, K) \/ e \in K)
  BY <1>1, <1>k, AddOne
<1>3. /\ Single(Append(d, e), t, Tasks(n))
      /\ Listed(Append(d, e), t, Tasks(n)) <=> Listed(d, t, Tasks(n)) \/ e \in Tasks(n)
  BY <1>1, <1>k, AddOne
<1> QED
  BY <1>1, <1>k, <1>2, <1>3 DEF BookOf, e, K

\* A god is summoned (BattleMessages.handleSummon).
LEMMA BooksSummoned ==
  ASSUME NEW d \in Seq(Entry), NEW t, NEW living, NEW working, Books(d, t, living, working),
         NEW p \in Player, NEW g \in God, NEW i \in 1..SummonTicks
  PROVE  Books(Append(d, SummonTask(p, g, i)), t, living, working)
<1> SUFFICES ASSUME NEW n \in VillagerName
             PROVE  BookOf(n, Append(d, SummonTask(p, g, i)), t, living, working)
  BY DEF Books
<1> DEFINE K == {VillagerEntry(n)}
           e == SummonTask(p, g, i)
<1>1. e \in Entry /\ e \notin K /\ e \notin Tasks(n)
  BY EntryKinds
<1>k. /\ Single(d, t, K) /\ Single(d, t, Tasks(n))
      /\ Listed(d, t, K) <=> n \in living
      /\ Listed(d, t, Tasks(n)) <=> n \in working
  BY DEF Books, BookOf
<1> HIDE DEF e, K
<1>2. Single(Append(d, e), t, K) /\ (Listed(Append(d, e), t, K) <=> Listed(d, t, K) \/ e \in K)
  BY <1>1, <1>k, AddOne
<1>3. /\ Single(Append(d, e), t, Tasks(n))
      /\ Listed(Append(d, e), t, Tasks(n)) <=> Listed(d, t, Tasks(n)) \/ e \in Tasks(n)
  BY <1>1, <1>k, AddOne
<1> QED
  BY <1>1, <1>k, <1>2, <1>3 DEF BookOf, e, K

\* An entry is updated, and stays (NetObjectDB.doUpdate).
LEMMA BooksMoved ==
  ASSUME NEW d \in Seq(Entry), NEW t \in Seq(Entry), t # <<>>, NEW living, NEW working,
         Books(d, t, living, working), NEW e \in Entry,
         \A n \in VillagerName : /\ e \in {VillagerEntry(n)} <=> Head(t) \in {VillagerEntry(n)}
                                 /\ e \in Tasks(n) <=> Head(t) \in Tasks(n)
  PROVE  Books(Append(d, e), Tail(t), living, working)
<1> SUFFICES ASSUME NEW n \in VillagerName
             PROVE  BookOf(n, Append(d, e), Tail(t), living, working)
  BY DEF Books
<1> DEFINE K == {VillagerEntry(n)}
<1>1. (e \in K <=> Head(t) \in K) /\ (e \in Tasks(n) <=> Head(t) \in Tasks(n))
  OBVIOUS
<1>k. /\ Single(d, t, K) /\ Single(d, t, Tasks(n))
      /\ Listed(d, t, K) <=> n \in living
      /\ Listed(d, t, Tasks(n)) <=> n \in working
  BY DEF Books, BookOf
<1> HIDE DEF K
<1>2. Single(Append(d, e), Tail(t), K) /\ (Listed(Append(d, e), Tail(t), K) <=> Listed(d, t, K))
  BY <1>1, <1>k, MoveOne
<1>3. /\ Single(Append(d, e), Tail(t), Tasks(n))
      /\ Listed(Append(d, e), Tail(t), Tasks(n)) <=> Listed(d, t, Tasks(n))
  BY <1>1, <1>k, MoveOne
<1> QED
  BY <1>k, <1>2, <1>3 DEF BookOf, K

\* A task ends (Villager.endCurAction), or a strike is done with.
LEMMA BooksGone ==
  ASSUME NEW d, NEW t \in Seq(Entry), t # <<>>, NEW living, NEW working, NEW left,
         Books(d, t, living, working),
         \A n \in VillagerName : /\ Head(t) \notin {VillagerEntry(n)}
                                 /\ n \in left <=> n \in working /\ Head(t) \notin Tasks(n)
  PROVE  Books(d, Tail(t), living, left)
<1> SUFFICES ASSUME NEW n \in VillagerName
             PROVE  BookOf(n, d, Tail(t), living, left)
  BY DEF Books
<1> DEFINE K == {VillagerEntry(n)}
<1>1. Head(t) \notin K /\ (n \in left <=> n \in working /\ Head(t) \notin Tasks(n))
  OBVIOUS
<1>k. /\ Single(d, t, K) /\ Single(d, t, Tasks(n))
      /\ Listed(d, t, K) <=> n \in living
      /\ Listed(d, t, Tasks(n)) <=> n \in working
  BY DEF Books, BookOf
<1> HIDE DEF K
<1>2. Single(d, Tail(t), K) /\ (Listed(d, Tail(t), K) <=> Listed(d, t, K) /\ Head(t) \notin K)
  BY <1>k, LoseOne
<1>3. /\ Single(d, Tail(t), Tasks(n))
      /\ Listed(d, Tail(t), Tasks(n)) <=> Listed(d, t, Tasks(n)) /\ Head(t) \notin Tasks(n)
  BY <1>k, LoseOne
<1> QED
  BY <1>1, <1>k, <1>2, <1>3 DEF BookOf, K

\* Villagers die in the middle of an update (Player.handleSummon).
LEMMA BooksWithout ==
  ASSUME NEW d \in Seq(Entry), NEW t \in Seq(Entry), NEW living, NEW working,
         Books(d, t, living, working), NEW names
  PROVE  Books(Without(d, names), Without(t, names), (living \ names), (working \ names))
<1> SUFFICES ASSUME NEW n \in VillagerName
             PROVE  BookOf(n, Without(d, names), Without(t, names), (living \ names), (working \ names))
  BY DEF Books
<1> DEFINE K == {VillagerEntry(n)}
           entries == {e \in Entry : e.kind = "summon" \/ e.name \notin names}
<1>1. VillagerEntry(n) \in Entry /\ VillagerEntry(n).kind # "summon" /\ VillagerEntry(n).name = n
  BY EntryKinds DEF VillagerEntry
<1>2. /\ n \in names => K \cap entries = {} /\ Tasks(n) \cap entries = {}
      /\ n \notin names => K \subseteq entries /\ Tasks(n) \subseteq entries
  BY <1>1 DEF Tasks
<1>3. Without(d, names) = Kept(d, entries) /\ Without(t, names) = Kept(t, entries)
  BY DEF Without
<1>k. /\ Single(d, t, K) /\ Single(d, t, Tasks(n))
      /\ Listed(d, t, K) <=> n \in living
      /\ Listed(d, t, Tasks(n)) <=> n \in working
  BY DEF Books, BookOf
<1> DEFINE d2 == Kept(d, entries)
           t2 == Kept(t, entries)
<1> HIDE DEF entries, K
<1>4. /\ Single(d2, t2, K)
      /\ K \subseteq entries => (Listed(d2, t2, K) <=> Listed(d, t, K))
      /\ K \cap entries = {} => ~Listed(d2, t2, K)
  BY <1>k, KeepSome
<1>5. /\ Single(d2, t2, Tasks(n))
      /\ Tasks(n) \subseteq entries => (Listed(d2, t2, Tasks(n)) <=> Listed(d, t, Tasks(n)))
      /\ Tasks(n) \cap entries = {} => ~Listed(d2, t2, Tasks(n))
  BY <1>k, KeepSome
<1> HIDE DEF d2, t2
<1>6. /\ Single(d2, t2, K) /\ Single(d2, t2, Tasks(n))
      /\ Listed(d2, t2, K) <=> n \in living \ names
      /\ Listed(d2, t2, Tasks(n)) <=> n \in working \ names
  BY <1>k, <1>2, <1>4, <1>5
<1> QED
  BY <1>3, <1>6 DEF BookOf, d2, t2, K

\* A villager is put to work, for the first time or anew (Villager.performAction).
LEMMA BooksWork ==
  ASSUME NEW d \in Seq(Entry), NEW living, NEW working, Books(d, <<>>, living, working),
         NEW m \in VillagerName, NEW i \in 1..ActionTicks
  PROVE  Books(Append(WithoutAction(d, m), ActionTask(m, i)), <<>>, living, (working \cup {m}))
<1> SUFFICES ASSUME NEW n \in VillagerName
             PROVE  BookOf(n, Append(WithoutAction(d, m), ActionTask(m, i)), <<>>, living, (working \cup {m}))
  BY DEF Books
<1> DEFINE K == {VillagerEntry(n)}
           entries == Entry \ Tasks(m)
           e == ActionTask(m, i)
           kept == Kept(d, entries)
<1>1. e \in Entry /\ e \notin K /\ (e \in Tasks(n) <=> m = n)
  BY EntryKinds
<1>2. /\ K \subseteq entries
      /\ m = n => Tasks(n) \cap entries = {}
      /\ m # n => Tasks(n) \subseteq entries
  BY EntryKinds DEF Tasks
<1>3. WithoutAction(d, m) = kept /\ Kept(<<>>, entries) = <<>> /\ <<>> \in Seq(Entry)
  BY KeptNothing, EmptySeq DEF WithoutAction
<1>k. /\ Single(d, <<>>, K) /\ Single(d, <<>>, Tasks(n))
      /\ Listed(d, <<>>, K) <=> n \in living
      /\ Listed(d, <<>>, Tasks(n)) <=> n \in working
  BY DEF Books, BookOf
<1> HIDE DEF entries, K, e
<1>4. kept \in Seq(Entry)
  BY KeptProperties
<1>5. Single(kept, <<>>, K) /\ (Listed(kept, <<>>, K) <=> Listed(d, <<>>, K))
  <2>1. /\ Single(kept, Kept(<<>>, entries), K)
        /\ Listed(kept, Kept(<<>>, entries), K) <=> Listed(d, <<>>, K)
    BY <1>k, <1>2, <1>3, KeepSome
  <2> QED
    BY <1>3, <2>1
<1>6. /\ Single(kept, <<>>, Tasks(n))
      /\ m # n => (Listed(kept, <<>>, Tasks(n)) <=> Listed(d, <<>>, Tasks(n)))
      /\ m = n => ~Listed(kept, <<>>, Tasks(n))
  <2>1. /\ Single(kept, Kept(<<>>, entries), Tasks(n))
        /\ m # n => (Listed(kept, Kept(<<>>, entries), Tasks(n)) <=> Listed(d, <<>>, Tasks(n)))
        /\ m = n => ~Listed(kept, Kept(<<>>, entries), Tasks(n))
    BY <1>k, <1>2, <1>3, KeepSome
  <2> QED
    BY <1>3, <2>1
<1> HIDE DEF kept
<1>7. Single(Append(kept, e), <<>>, K)
      /\ (Listed(Append(kept, e), <<>>, K) <=> Listed(kept, <<>>, K) \/ e \in K)
  BY <1>1, <1>4, <1>5, AddOne
<1>8. /\ Single(Append(kept, e), <<>>, Tasks(n))
      /\ Listed(Append(kept, e), <<>>, Tasks(n)) <=> Listed(kept, <<>>, Tasks(n)) \/ e \in Tasks(n)
  BY <1>1, <1>4, <1>6, AddOne
<1>9. /\ Single(Append(kept, e), <<>>, K) /\ Single(Append(kept, e), <<>>, Tasks(n))
      /\ Listed(Append(kept, e), <<>>, K) <=> n \in living
      /\ Listed(Append(kept, e), <<>>, Tasks(n)) <=> n \in working \cup {m}
  BY <1>k, <1>1, <1>5, <1>6, <1>7, <1>8
<1> QED
  BY <1>3, <1>9 DEF BookOf, e, K

-----------------------------------------------------------------------------
(* The invariant of the two lists *)

\* Between updates all entries are in done; a villager has its entry while it lives,
\* and its task while it works for somebody.
QueueInv ==
  /\ done \in Seq(Entry) /\ todo \in Seq(Entry)
  /\ phase # "update" => todo = <<>>
  /\ Working \subseteq villagers
  /\ \A n \in VillagerName : n \in Working <=> performingActionFor[n] # None
  /\ Books(done, todo, villagers, Working)

\* The battle starts without villagers.
LEMMA QueueBegin == Init => QueueInv
<1> SUFFICES ASSUME Init PROVE QueueInv
  OBVIOUS
<1>1. /\ done = <<>> /\ todo = <<>> /\ villagers = {} /\ Working = {}
      /\ \A n \in VillagerName : curAction[n] = None /\ performingActionFor[n] = None
  BY DEF Init, Working
<1>2. /\ <<>> \in Seq(Entry) /\ Len(<<>>) = 0
      /\ \A K : ~Occurs(<<>>, K) /\ Once(<<>>, K)
  BY EmptySeq DEF Occurs, Once
<1>3. Books(<<>>, <<>>, {}, {})
  BY <1>2 DEF Books, BookOf, Single, Listed
<1> QED
  BY <1>1, <1>2, <1>3 DEF QueueInv

\* What touches neither the lists nor who lives and works.
LEMMA QueueKept ==
  ASSUME QueueInv, UNCHANGED <<villagers, curAction, performingActionFor, done, todo>>,
         phase' # "update" => todo = <<>>
  PROVE  QueueInv'
<1>1. Working' = Working
  BY DEF Working
<1> QED
  BY <1>1 DEF QueueInv

\* A message (BattleMessages.handleMessage)
LEMMA QueueMessage ==
  ASSUME StateOK, QueueInv, Messages
  PROVE  QueueInv'
<1>1. ASSUME NEW p \in Player, NEW n \in VillagerName,
             HandleSelectVillager(p, n) \/ HandleDeselectVillager(p, n)
      PROVE  QueueInv'
  BY <1>1, QueueKept DEF HandleSelectVillager, HandleDeselectVillager, QueueInv
<1>2. ASSUME NEW p \in Player, NEW n \in VillagerName, NEW a \in Work, HandleWork(p, n, a)
      PROVE  QueueInv'
  <2>1. /\ phase = "messages" /\ phase' = phase /\ todo = <<>> /\ todo' = todo
        /\ n \in villagers /\ villagers' = villagers
        /\ done' = Append(WithoutAction(done, n), ActionTask(n, ActionTicks))
    BY <1>2 DEF HandleWork, Handling, QueueInv
  <2>2. a # None /\ p # None
    BY NamesAssumption
  <2>3. /\ curAction' = [curAction EXCEPT ![n] = a]
        /\ performingActionFor' = [performingActionFor EXCEPT ![n] = p]
    BY <1>2 DEF HandleWork
  <2>4. Working' = Working \cup {n}
    BY <2>2, <2>3 DEF Working, StateOK
  <2>5. \A m \in VillagerName : m \in Working' <=> performingActionFor'[m] # None
    BY <2>2, <2>3, <2>4 DEF StateOK, QueueInv
  <2>6. ActionTicks \in 1..ActionTicks
    BY NumberAssumption
  <2>7. Books(done', <<>>, villagers, Working \cup {n})
    BY <2>1, <2>6, BooksWork DEF QueueInv
  <2>8. done' \in Seq(Entry)
    <3>1. WithoutAction(done, n) \in Seq(Entry)
      BY KeptProperties DEF WithoutAction, QueueInv
    <3>2. ActionTask(n, ActionTicks) \in Entry
      BY <2>6, EntryKinds
    <3> QED
      BY <2>1, <3>1, <3>2, AppendProperties
  <2> QED
    BY <2>1, <2>4, <2>5, <2>7, <2>8 DEF QueueInv
<1>3. ASSUME NEW p \in Player, NEW n \in VillagerName, HandleSacrifice(p, n)
      PROVE  QueueInv'
  <2>1. /\ phase = "messages" /\ phase' = phase /\ todo = <<>> /\ todo' = todo
        /\ done' = Without(done, {n})
        /\ Destroy({n}, [selectedVillager EXCEPT ![p] = None])
    BY <1>3 DEF HandleSacrifice, Handling, QueueInv
  <2>2. Working' = Working \ {n} /\ villagers' = villagers \ {n}
    BY <2>1 DEF Destroy, Working
  <2>3. \A m \in VillagerName : m \in Working' <=> performingActionFor'[m] # None
    BY <2>1, <2>2 DEF Destroy, QueueInv
  <2>4. Without(<<>>, {n}) = <<>>
    BY KeptNothing DEF Without
  <2>5. Books(Without(done, {n}), Without(todo, {n}), villagers \ {n}, Working \ {n})
    BY BooksWithout DEF QueueInv
  <2>6. done' \in Seq(Entry)
    BY <2>1, KeptProperties DEF Without, QueueInv
  <2> QED
    BY <2>1, <2>2, <2>3, <2>4, <2>5, <2>6 DEF QueueInv
<1>4. ASSUME NEW p \in Player, NEW g \in God, HandleSummon(p, g)
      PROVE  QueueInv'
  <2>1. /\ phase' = phase /\ todo' = todo
        /\ UNCHANGED <<villagers, curAction, performingActionFor>>
        /\ done' = Append(done, SummonTask(Other(p), g, SummonTicks))
    BY <1>4 DEF HandleSummon, people
  <2>2. SummonTicks \in 1..SummonTicks /\ Other(p) \in Player
    BY NumberAssumption, TwoPlayers
  <2>3. Books(done', todo, villagers, Working)
    BY <2>1, <2>2, BooksSummoned DEF QueueInv
  <2>4. done' \in Seq(Entry)
    <3>1. SummonTask(Other(p), g, SummonTicks) \in Entry
      BY <2>2 DEF SummonTask, Entry
    <3> QED
      BY <2>1, <3>1, AppendProperties DEF QueueInv
  <2>5. Working' = Working
    BY <2>1 DEF Working
  <2> QED
    BY <2>1, <2>3, <2>4, <2>5 DEF QueueInv
<1> QED
  BY <1>1, <1>2, <1>3, <1>4 DEF Messages

\* A step of an update (NetObjectDB.doUpdate)
LEMMA QueueUpdate ==
  ASSUME IInv, QueueInv, Update
  PROVE  QueueInv'
<1> USE DEF IInv
<1>h. todo # <<>> => Head(todo) \in Entry /\ Tail(todo) \in Seq(Entry)
  BY HeadTailProperties DEF QueueInv
<1>1. CASE Generate
  <2>1. PICK n \in VillagerName : /\ LetterOf[n] \notin claimedLetters
                                  /\ villagers' = villagers \cup {n}
                                  /\ done' = Append(done, VillagerEntry(n))
    BY <1>1 DEF Generate
  <2>2. UNCHANGED <<curAction, performingActionFor, phase, todo>>
    BY <1>1 DEF Generate
  <2>3. n \notin villagers
    BY <2>1 DEF LettersOfTheLiving
  <2>4. Books(done', todo, villagers \cup {n}, Working)
    BY <2>1, <2>3, BooksBorn DEF QueueInv
  <2>5. done' \in Seq(Entry)
    BY <2>1, EntryKinds, AppendProperties DEF QueueInv
  <2>6. Working' = Working
    BY <2>2 DEF Working
  <2> QED
    BY <2>1, <2>2, <2>4, <2>5, <2>6 DEF QueueInv
<1>2. CASE Generated
  <2>1. /\ todo = <<>> /\ todo' = done /\ done' = <<>> /\ phase' = "update"
        /\ UNCHANGED <<villagers, curAction, performingActionFor>>
    BY <1>2 DEF Generated, QueueInv, people
  <2>2. Books(<<>>, done, villagers, Working)
    BY <2>1 DEF QueueInv, Books, BookOf, Single, Listed
  <2>3. Working' = Working
    BY <2>1 DEF Working
  <2>4. <<>> \in Seq(Entry)
    BY EmptySeq
  <2> QED
    BY <2>1, <2>2, <2>3, <2>4 DEF QueueInv
<1>3. ASSUME NEW n \in VillagerName, UpdateVillager(n)
      PROVE  QueueInv'
  <2>1. /\ phase = "update" /\ phase' = phase /\ todo # <<>>
        /\ done' = Append(done, Head(todo)) /\ todo' = Tail(todo)
        /\ UNCHANGED <<villagers, curAction, performingActionFor>>
    BY <1>3 DEF UpdateVillager, Reach, people
  <2>2. Books(Append(done, Head(todo)), Tail(todo), villagers, Working)
    BY <1>h, <2>1, BooksMoved DEF QueueInv
  <2>3. Working' = Working
    BY <2>1 DEF Working
  <2>4. done' \in Seq(Entry)
    BY <1>h, <2>1, AppendProperties DEF QueueInv
  <2> QED
    BY <1>h, <2>1, <2>2, <2>3, <2>4 DEF QueueInv
<1>4. ASSUME NEW n \in VillagerName, NEW t \in 1..ActionTicks, UpdateAction(n, t)
      PROVE  QueueInv'
  <2>1. /\ phase = "update" /\ phase' = phase /\ villagers' = villagers
        /\ todo # <<>> /\ Head(todo) = ActionTask(n, t) /\ todo' = Tail(todo)
    BY <1>4 DEF UpdateAction, Reach
  <2>2. /\ ActionTask(n, t) \in Entry
        /\ \A m \in VillagerName : /\ ActionTask(n, t) \notin {VillagerEntry(m)}
                                   /\ ActionTask(n, t) \in Tasks(m) <=> n = m
    BY EntryKinds
  <2>3. CASE /\ t > 1
             /\ done' = Append(done, ActionTask(n, t - 1))
             /\ UNCHANGED <<curAction, performingActionFor>>
    <3>1. t - 1 \in 1..ActionTicks
      BY <2>3, NumberAssumption
    <3>2. /\ ActionTask(n, t - 1) \in Entry
          /\ \A m \in VillagerName : /\ ActionTask(n, t - 1) \notin {VillagerEntry(m)}
                                     /\ ActionTask(n, t - 1) \in Tasks(m) <=> n = m
      BY <3>1, EntryKinds
    <3>3. Books(Append(done, ActionTask(n, t - 1)), Tail(todo), villagers, Working)
      BY <2>1, <2>2, <3>2, BooksMoved DEF QueueInv
    <3>4. Working' = Working
      BY <2>3 DEF Working
    <3>5. done' \in Seq(Entry)
      BY <2>3, <3>2, AppendProperties DEF QueueInv
    <3> QED
      BY <1>h, <2>1, <2>3, <3>3, <3>4, <3>5 DEF QueueInv
  <2>4. CASE /\ done' = done
             /\ curAction' = [curAction EXCEPT ![n] = None]
             /\ performingActionFor' = [performingActionFor EXCEPT ![n] = None]
    <3>1. Working' = Working \ {n}
      BY <2>4 DEF Working, StateOK
    <3>2. \A m \in VillagerName : m \in Working' <=> performingActionFor'[m] # None
      BY <2>4, <3>1 DEF StateOK, QueueInv
    <3>3. \A m \in VillagerName : /\ Head(todo) \notin {VillagerEntry(m)}
                                  /\ m \in Working' <=> m \in Working /\ Head(todo) \notin Tasks(m)
      BY <2>1, <2>2, <3>1
    <3>4. Books(done, Tail(todo), villagers, Working')
      BY <2>1, <3>3, BooksGone DEF QueueInv
    <3> QED
      BY <1>h, <2>1, <2>4, <3>1, <3>2, <3>4 DEF QueueInv
  <2> QED
    BY <1>4, <2>3, <2>4 DEF UpdateAction
<1>5. ASSUME NEW p \in Player, NEW g \in God, SummonStrikes(p, g)
      PROVE  QueueInv'
  <2> DEFINE dead == Workers(p)
  <2>1. /\ phase = "update" /\ phase' = phase
        /\ todo # <<>> /\ Head(todo) = SummonTask(p, g, 1)
        /\ done' = Without(done, dead) /\ todo' = Without(Tail(todo), dead)
        /\ Destroy(dead, selectedVillager)
    BY <1>5 DEF SummonStrikes, Reach
  <2> HIDE DEF dead
  <2>2. 1 \in 1..SummonTicks
    BY NumberAssumption
  <2>3. \A m \in VillagerName : /\ Head(todo) \notin {VillagerEntry(m)}
                                /\ Head(todo) \notin Tasks(m)
    BY <2>1, <2>2, EntryKinds
  <2>4. Books(done, Tail(todo), villagers, Working)
    BY <2>1, <2>3, BooksGone DEF QueueInv
  <2>5. Books(Without(done, dead), Without(Tail(todo), dead), villagers \ dead, Working \ dead)
    BY <1>h, <2>1, <2>4, BooksWithout DEF QueueInv
  <2>6. Working' = Working \ dead /\ villagers' = villagers \ dead
    BY <2>1 DEF Destroy, Working
  <2>7. \A m \in VillagerName : m \in Working' <=> performingActionFor'[m] # None
    BY <2>1, <2>6 DEF Destroy, QueueInv
  <2>8. done' \in Seq(Entry) /\ todo' \in Seq(Entry)
    BY <1>h, <2>1, KeptProperties DEF Without, QueueInv
  <2> QED
    BY <2>1, <2>5, <2>6, <2>7, <2>8 DEF QueueInv
<1>6. ASSUME NEW p \in Player, NEW g \in God, NEW t \in 1..SummonTicks,
             SummonApproaches(p, g, t)
      PROVE  QueueInv'
  <2>1. /\ phase = "update" /\ phase' = phase
        /\ todo # <<>> /\ Head(todo) = SummonTask(p, g, t) /\ todo' = Tail(todo)
        /\ done' = Append(done, SummonTask(p, g, t - 1))
        /\ UNCHANGED <<villagers, curAction, performingActionFor>>
    BY <1>6 DEF SummonApproaches, Reach, people
  <2>2. t - 1 \in 1..SummonTicks
    BY <1>6, NumberAssumption DEF SummonApproaches
  <2>3. SummonTask(p, g, t - 1) \in Entry
    BY <2>2 DEF SummonTask, Entry
  <2>4. \A m \in VillagerName :
          /\ Head(todo) \notin {VillagerEntry(m)} /\ Head(todo) \notin Tasks(m)
          /\ SummonTask(p, g, t - 1) \notin {VillagerEntry(m)}
          /\ SummonTask(p, g, t - 1) \notin Tasks(m)
    BY <2>1, <2>2, EntryKinds
  <2>5. Books(done', Tail(todo), villagers, Working)
    BY <2>1, <2>3, <2>4, BooksMoved DEF QueueInv
  <2>6. Working' = Working
    BY <2>1 DEF Working
  <2>7. done' \in Seq(Entry)
    BY <2>1, <2>3, AppendProperties DEF QueueInv
  <2> QED
    BY <1>h, <2>1, <2>5, <2>6, <2>7 DEF QueueInv
<1>7. CASE EndUpdate
  BY <1>7, QueueKept DEF EndUpdate, people
<1> QED
  BY <1>1, <1>2, <1>3, <1>4, <1>5, <1>6, <1>7 DEF Update

\* Every reachable state has its books in order.
THEOREM QueueInvariant == Spec => []QueueInv
<1>1. IInv /\ QueueInv /\ [Next]_vars => QueueInv'
  <2> SUFFICES ASSUME IInv, QueueInv, [Next]_vars PROVE QueueInv'
    OBVIOUS
  <2>1. CASE Messages
    BY <2>1, QueueMessage DEF IInv
  <2>2. CASE BeginUpdate
    BY <2>2, QueueKept DEF BeginUpdate, people, QueueInv, Handling
  <2>3. CASE Update
    BY <2>3, QueueUpdate
  <2>4. CASE UNCHANGED vars
    BY <2>4, QueueKept DEF vars, people, QueueInv
  <2> QED
    BY <2>1, <2>2, <2>3, <2>4 DEF Next
<1> QED
  BY <1>1, QueueBegin, BattleInvariant, PTL DEF Spec

-----------------------------------------------------------------------------
\* The books say where the entries of a set are in the two lists together.
LEMMA PlacesOfOne ==
  ASSUME done \in Seq(Entry), todo \in Seq(Entry), NEW K, Single(done, todo, K)
  PROVE  Cardinality(Places(K)) = IF Listed(done, todo, K) THEN 1 ELSE 0
<1>1. /\ Len(done) \in Nat /\ Len(todo) \in Nat
      /\ Len(Entries) = Len(done) + Len(todo)
      /\ \A i \in 1..Len(done) : Entries[i] = done[i]
      /\ \A i \in 1..Len(todo) : Entries[Len(done) + i] = todo[i]
  BY ConcatProperties, LenProperties DEF Entries
<1>2. \A i \in 1..Len(Entries) : i \in 1..Len(done) \/ i - Len(done) \in 1..Len(todo)
  BY <1>1
<1>3. \A i \in 1..Len(Entries) : i - Len(done) \in 1..Len(todo) =>
        Entries[i] = todo[i - Len(done)]
  BY <1>1
<1>4. Places(K) # {} <=> Listed(done, todo, K)
  <2>1. ASSUME NEW i \in Places(K) PROVE Listed(done, todo, K)
    BY <1>1, <1>2, <1>3 DEF Places, Listed, Occurs
  <2>2. ASSUME NEW i \in 1..Len(done), done[i] \in K PROVE Places(K) # {}
    BY <1>1, <2>2 DEF Places
  <2>3. ASSUME NEW i \in 1..Len(todo), todo[i] \in K PROVE Places(K) # {}
    <3>1. Len(done) + i \in 1..Len(Entries) /\ Entries[Len(done) + i] \in K
      BY <1>1, <2>3
    <3> QED
      BY <3>1 DEF Places
  <2> QED
    BY <2>1, <2>2, <2>3 DEF Listed, Occurs
<1>5. ASSUME NEW i \in Places(K), NEW j \in Places(K) PROVE i = j
  <2>1. i \in 1..Len(Entries) /\ j \in 1..Len(Entries) /\ Entries[i] \in K /\ Entries[j] \in K
    BY DEF Places
  <2>2. CASE i \in 1..Len(done) /\ j \in 1..Len(done)
    BY <1>1, <2>1, <2>2 DEF Single, Once
  <2>3. CASE i - Len(done) \in 1..Len(todo) /\ j - Len(done) \in 1..Len(todo)
    <3>1. i - Len(done) = j - Len(done)
      BY <1>3, <2>1, <2>3 DEF Single, Once
    <3> QED
      BY <1>1, <2>1, <3>1
  <2>4. ASSUME NEW k \in Places(K), k \in 1..Len(done) PROVE Occurs(done, K)
    BY <1>1, <2>4 DEF Places, Occurs
  <2>5. ASSUME NEW k \in Places(K), k - Len(done) \in 1..Len(todo) PROVE Occurs(todo, K)
    BY <1>3, <2>5 DEF Places, Occurs
  <2> QED
    BY <1>2, <2>1, <2>2, <2>3, <2>4, <2>5 DEF Single
<1>6. CASE Places(K) = {}
  BY <1>4, <1>6, FS_EmptySet
<1>7. CASE Places(K) # {}
  <2>1. PICK i : Places(K) = {i}
    BY <1>5, <1>7
  <2> QED
    BY <1>4, <1>7, <2>1, FS_Singleton
<1> QED
  BY <1>6, <1>7

\* The state of a battle has its types, with what is in the lists of an update
\* (NetObjectDB).
THEOREM BattleTypeCorrect == Spec => []TypeOK
<1>1. IInv /\ QueueInv => TypeOK
  BY DEF IInv, QueueInv, TypeOK
<1> QED
  BY <1>1, BattleInvariant, QueueInvariant, PTL

\* A villager works for somebody exactly when one task is going to end its work
\* (Villager.performAction, endCurAction).
THEOREM OneTaskPerWork == Spec => []TaskPerWork
<1>1. IInv /\ QueueInv => TaskPerWork
  <2> SUFFICES ASSUME IInv, QueueInv, NEW n \in VillagerName
               PROVE  /\ curAction[n] # None <=> performingActionFor[n] # None
                      /\ curAction[n] # None => n \in villagers
                      /\ Cardinality(Places(Tasks(n))) = IF curAction[n] # None THEN 1 ELSE 0
    BY DEF TaskPerWork
  <2>1. n \in Working <=> curAction[n] # None
    BY DEF Working
  <2>2. Single(done, todo, Tasks(n)) /\ (Listed(done, todo, Tasks(n)) <=> n \in Working)
    BY DEF QueueInv, Books, BookOf
  <2>3. Cardinality(Places(Tasks(n))) = IF Listed(done, todo, Tasks(n)) THEN 1 ELSE 0
    BY <2>2, PlacesOfOne DEF QueueInv
  <2> QED
    BY <2>1, <2>2, <2>3 DEF QueueInv
<1> QED
  BY <1>1, BattleInvariant, QueueInvariant, PTL

\* A villager lives exactly when it is updated, once per update, whoever dies in the
\* middle of it (NetObjectDB.doUpdate, Player.handleSummon).
THEOREM TheLivingAreUpdated == Spec => []LivingAreUpdated
<1>1. QueueInv => LivingAreUpdated
  <2> SUFFICES ASSUME QueueInv, NEW n \in VillagerName
               PROVE  Cardinality(Places({VillagerEntry(n)})) = IF n \in villagers THEN 1 ELSE 0
    BY DEF LivingAreUpdated
  <2> DEFINE K == {VillagerEntry(n)}
  <2>1. Single(done, todo, K) /\ (Listed(done, todo, K) <=> n \in villagers)
    BY DEF QueueInv, Books, BookOf
  <2> HIDE DEF K
  <2>2. Cardinality(Places(K)) = IF Listed(done, todo, K) THEN 1 ELSE 0
    BY <2>1, PlacesOfOne DEF QueueInv
  <2> QED
    BY <2>1, <2>2 DEF K
<1> QED
  BY <1>1, QueueInvariant, PTL
=============================================================================
