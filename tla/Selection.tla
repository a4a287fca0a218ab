------------------------------ MODULE Selection ------------------------------
(***************************************************************************)
(* What one player can type while the battle goes on: TextSelector (one    *)
(* text is being typed at a time), VillagerCommandMenu (opened when the    *)
(* selection of a villager comes back from the server), the part of Player *)
(* that opens it, VillagerSelectionMgr (the name that is drawn larger) and *)
(* HeartView (the gods the player can pay for).                            *)
(*                                                                         *)
(* Everything a player does is a message to the server, and takes effect   *)
(* when the message is handled, on both sides.  In between the player goes *)
(* on typing, the other player's messages are handled and villagers die,   *)
(* so what is on the screen is always a little behind.                     *)
(*                                                                         *)
(* No two texts offered together begin with the same letter (see Battle,   *)
(* and the greetings of VillagerCommandGenerator), so a first letter is    *)
(* the choice of a text.  A key that fits nowhere only looks whether the   *)
(* text being typed is still there.                                        *)
(***************************************************************************)
EXTENDS Naturals, Sequences, SequencesExt, FiniteSets, FiniteSetsExt, Functions

CONSTANTS
  Villager,       \* villagers, each born once; a name can be used again
  NameOf,         \* the name of each
  Action,         \* what can be commanded
  Sacrifice,      \* the action that kills
  NoVillager,     \* GameObjectRef.Null, null
  Gods,           \* God.values(), a sequence
  godHearts,      \* what each costs
  MAX_HEARTS,
  MaxSelections,  \* bound: selections between two cancellations
  MaxSent         \* bound: the player waits when so many messages are on their way

ASSUME ActionAssumption == Sacrifice \in Action
ASSUME NoVillagerAssumption == NoVillager \notin Villager
\* The gods are declared in the order of what they cost.
ASSUME GodsAssumption ==
  /\ Gods \in Seq(ToSet(Gods))
  /\ MAX_HEARTS \in Nat /\ godHearts \in [ToSet(Gods) -> 1..MAX_HEARTS]
  /\ \A i, j \in 1..Len(Gods) : i <= j => godHearts[Gods[i]] <= godHearts[Gods[j]]
ASSUME BoundAssumption == MaxSelections \in Nat /\ MaxSent \in Nat

VARIABLES
  life,        \* of each villager
  selected,    \* Player._selectedVillager
  cur,         \* TextSelector._curSelectable
  menus,       \* open command menus, numbered in the order they were opened
  onCancel,    \* how many handlers of selector.canceled a villager has
  emphasized,  \* VillagerSelectionMgr._emphasizedVillager
  hearts,      \* Player._hearts and HeartView._numHearts
  gods,        \* HeartView._selectables
  sent         \* messages of this player that have not been handled yet

store == <<hearts, gods>>
vars == <<life, selected, cur, menus, onCancel, emphasized, store, sent>>

God == ToSet(Gods)

Player == {"local", "other"}

Menu == [n : Nat \ {0}, v : Villager]

\* A command of a menu; the menu may be gone.
Command == [n : Nat \ {0}, v : Villager, action : Action]

NoSelectable == [type |-> "none"]
TheVillager(v) == [type |-> "villager", v |-> v]
TheCommand(c) == [type |-> "command", c |-> c]
TheGod(g) == [type |-> "god", god |-> g]

Selectable == [type : {"villager"}, v : Villager] \cup [type : {"command"}, c : Command]
                \cup [type : {"god"}, god : God]

\* The receiver sees the name of the villager a message is about, and nothing else.
Message == [kind : {"select", "deselect"}, about : Villager]
             \cup [kind : {"act"}, about : Villager, action : Action]
             \cup [kind : {"summon"}, about : God]

TypeOK ==
  /\ life \in [Villager -> {"unborn", "alive", "dead"}]
  /\ selected \in [Player -> Villager \cup {NoVillager}]
  /\ cur \in Selectable \cup {NoSelectable}
  /\ menus \in SUBSET Menu
  /\ \A j, k \in menus : j.n = k.n => j = k
  /\ onCancel \in [Villager -> Nat]
  /\ emphasized \in Villager \cup {NoVillager}
  /\ hearts \in 0..MAX_HEARTS
  /\ gods \in Seq(God)
  /\ sent \in Seq(Message)

Init ==
  /\ life = [v \in Villager |-> "unborn"]
  /\ selected = [p \in Player |-> NoVillager]
  /\ cur = NoSelectable
  /\ menus = {}
  /\ onCancel = [v \in Villager |-> 0]
  /\ emphasized = NoVillager
  /\ hearts = 0
  /\ gods = <<>>
  /\ sent = <<>>

Living == {v \in Villager : life[v] = "alive"}

\* selectedVillager: the reference, while its villager lives
SelectedVillager(p) == IF selected[p] \in Living THEN selected[p] ELSE NoVillager

\* Only this player looked at
SelectedHere(v) == SelectedVillager("local") = v

IsSelected(v) == \E p \in Player : SelectedVillager(p) = v

\* isSelectable: a villager's text can be typed while it lives and nobody has it;
\* a command's, and that even when its menu is gone; a god's, even unaffordable.
IsSelectable(s) ==
  s.type = "villager" => s.v \in Living /\ ~IsSelected(s.v)

-----------------------------------------------------------------------------
(* The world: villagers are born and die (Battle says when and how).       *)

Born(v) ==
  /\ life[v] = "unborn"
  /\ \A w \in Living : NameOf[w] # NameOf[v]
  /\ life' = [life EXCEPT ![v] = "alive"]
  /\ UNCHANGED <<selected, cur, menus, onCancel, emphasized, store, sent>>

\* The handler not bound
StillEmphasized(v) == emphasized

\* onSelectionEnded, bound to the emphasized villager's deselected and destroyed,
\* and to selectionCanceled
Unemphasized(v) == IF emphasized = v THEN NoVillager ELSE emphasized

\* deselectVillager: nothing happens when the villager is gone.
Deselect(p) ==
  /\ selected' = [selected EXCEPT ![p] = IF @ \in Living THEN NoVillager ELSE @]
  /\ emphasized' = Unemphasized(SelectedVillager(p))

\* destroySelf of a villager closes its menus and ends its emphasis.
Destroyed(v) ==
  /\ life' = [life EXCEPT ![v] = "dead"]
  /\ menus' = {k \in menus : k.v # v}
  /\ emphasized' = Unemphasized(v)

\* A strike
Die(v) ==
  /\ v \in Living
  /\ Destroyed(v)
  /\ UNCHANGED <<selected, cur, onCancel, store, sent>>

-----------------------------------------------------------------------------
(* Keys *)

\* onKeyboardEvent first drops a text that cannot be typed any more.
Current == IF cur # NoSelectable /\ ~IsSelectable(cur) THEN NoSelectable ELSE cur

\* getSelectables: the commands of the latest menu shut out everything else.
Selectables ==
  IF menus = {}
  THEN {TheVillager(v) : v \in Living} \cup {TheGod(g) : g \in ToSet(gods)}
  ELSE LET top == CHOOSE k \in menus : \A j \in menus : j.n <= k.n
       IN {TheCommand([n |-> top.n, v |-> top.v, action |-> a]) : a \in Action}

\* onSelectionBegan: a villager that is typed is emphasized.
Emphasis(s) == IF s.type = "villager" THEN s.v ELSE emphasized

\* The first letter of a text
BeginSelection(s) ==
  /\ Current = NoSelectable
  /\ s \in Selectables
  /\ IsSelectable(s)
  /\ cur' = s
  /\ emphasized' = Emphasis(s)
  /\ UNCHANGED <<life, selected, menus, onCancel, store, sent>>

Pending == Cardinality({i \in 1..Len(sent) : sent[i].kind = "select"})

\* The last letter of a villager's name: markSelected.
TypeVillager ==
  /\ Current # NoSelectable
  /\ Current.type = "villager"
  /\ Len(sent) < MaxSent
  /\ Pending + SumFunction(onCancel) < MaxSelections
  /\ sent' = Append(sent, [kind |-> "select", about |-> Current.v])
  /\ cur' = NoSelectable
  /\ UNCHANGED <<life, selected, menus, onCancel, emphasized, store>>

\* The handler of actionSelected: the action is sent if the menu's villager is
\* still the one this player has.
Chosen(c) ==
  IF selected["local"] = c.v
  THEN <<[kind |-> "act", about |-> c.v, action |-> c.action]>>
  ELSE <<>>

\* The last letter of a command: the menu closes.
TypeCommand ==
  /\ cur.type = "command"
  /\ Len(sent) < MaxSent
  /\ sent' = sent \o Chosen(cur.c)
  /\ menus' = {k \in menus : k.n # cur.c.n}
  /\ cur' = NoSelectable
  /\ UNCHANGED <<life, selected, onCancel, emphasized, store>>

\* The last letter of a god's name
TypeGod ==
  /\ cur.type = "god"
  /\ Len(sent) < MaxSent
  /\ sent' = Append(sent, [kind |-> "summon", about |-> cur.god])
  /\ cur' = NoSelectable
  /\ UNCHANGED <<life, selected, menus, onCancel, emphasized, store>>

\* A key that fits nowhere
TypeNothing ==
  /\ Current # cur
  /\ cur' = Current
  /\ UNCHANGED <<life, selected, menus, onCancel, emphasized, store, sent>>

\* Escape while a text is being typed
EndCurSelection ==
  /\ Current # NoSelectable
  /\ cur' = NoSelectable
  /\ emphasized' = IF Current.type = "villager" THEN Unemphasized(Current.v)
                                                ELSE emphasized
  /\ UNCHANGED <<life, selected, menus, onCancel, store, sent>>

\* The handlers after the menus, and lost with them
CancelAfterClosing ==
  /\ Current = NoSelectable
  /\ cur' = NoSelectable
  /\ menus' = {}
  /\ onCancel' = [v \in Villager |-> 0]
  /\ UNCHANGED <<life, selected, emphasized, store, sent>>

\* Escape otherwise: canceled closes every menu, and the handlers, each used
\* once, of the villager this player has send that it is given up.  Those of
\* villagers selected and commanded before are still among them.
Cancel ==
  /\ Current = NoSelectable
  /\ cur' = NoSelectable
  /\ menus' = {}
  /\ onCancel' = [v \in Villager |-> 0]
  /\ sent' = IF selected["local"] = NoVillager THEN sent
             ELSE sent \o [i \in 1..onCancel[selected["local"]] |->
                             [kind |-> "deselect", about |-> selected["local"]]]
  /\ UNCHANGED <<life, selected, emphasized, store>>

Keys ==
  \/ \E s \in Selectables : BeginSelection(s)
  \/ TypeVillager \/ TypeCommand \/ TypeGod \/ TypeNothing \/ EndCurSelection \/ Cancel

-----------------------------------------------------------------------------
(* This player's messages come back.                                       *)

\* Villager.withName: the living villager a message is taken to be about
WithName(msg) == {v \in Living : NameOf[v] = NameOf[msg.about]}

Receive(kind) ==
  /\ sent # <<>>
  /\ Head(sent).kind = kind
  /\ sent' = Tail(sent)

Max0(S) == Max(S \cup {0})

\* One more than the number of any menu that is open or has a command being typed
NextNumber ==
  1 + Max0({k.n : k \in menus} \cup (IF cur.type = "command" THEN {cur.c.n} ELSE {}))

\* handleSelectVillager, selectVillager: an earlier selection of this player ends
\* but its menu, if it is open, stays.
HandleSelect ==
  /\ Receive("select")
  /\ \E v \in WithName(Head(sent)) :
       /\ ~IsSelected(v)
       /\ selected' = [selected EXCEPT !["local"] = v]
       /\ emphasized' = Unemphasized(SelectedVillager("local"))
       /\ menus' = menus \cup {[n |-> NextNumber, v |-> v]}
       /\ onCancel' = [onCancel EXCEPT ![v] = @ + 1]
  /\ UNCHANGED <<life, cur, store>>

HandleDeselect ==
  /\ Receive("deselect")
  /\ SelectedVillager("local") \in WithName(Head(sent))
  /\ Deselect("local")
  /\ UNCHANGED <<life, cur, menus, onCancel, store>>

\* shift for pop
Shift(list) == Tail(list)

Pop(list) == Front(list)

\* The hearts shown change: one god after the other becomes affordable and is added,
\* or no longer is and the last of the list goes.
SetHearts(val) ==
  LET Affordable(n, i) == n >= godHearts[Gods[i]]
      list[i \in 0..Len(Gods)] ==
        IF i = 0 THEN gods
        ELSE IF Affordable(val, i) /\ ~Affordable(hearts, i) THEN Append(list[i - 1], Gods[i])
        ELSE IF ~Affordable(val, i) /\ Affordable(hearts, i) THEN Pop(list[i - 1])
        ELSE list[i - 1]
  IN /\ hearts' = val
     /\ gods' = list[Len(Gods)]

\* Performing an action deselects the villager; a sacrificed one dies.
PerformAction(v, a) ==
  IF a = Sacrifice THEN Destroyed(v)
  ELSE /\ emphasized' = Unemphasized(v)
       /\ UNCHANGED <<life, menus>>

HandleAct ==
  /\ Receive("act")
  /\ SelectedVillager("local") \in WithName(Head(sent))
  /\ selected' = [selected EXCEPT !["local"] = NoVillager]
  /\ IF Head(sent).action = Sacrifice /\ hearts < MAX_HEARTS
     THEN SetHearts(hearts + 1)
     ELSE UNCHANGED store
  /\ PerformAction(SelectedVillager("local"), Head(sent).action)
  /\ UNCHANGED <<cur, onCancel>>

\* Without the look at the hearts, which were enough when the summons was sent
HandleSummonOnCredit ==
  /\ Receive("summon")
  /\ SetHearts(hearts - godHearts[Head(sent).about])
  /\ UNCHANGED <<life, selected, cur, menus, onCancel, emphasized>>

\* The god strikes later (Die).
HandleSummon ==
  /\ Receive("summon")
  /\ hearts >= godHearts[Head(sent).about]
  /\ SetHearts(hearts - godHearts[Head(sent).about])
  /\ UNCHANGED <<life, selected, cur, menus, onCancel, emphasized>>

\* Everything else is refused with a warning.
Refuse ==
  /\ \/ Receive("select") /\ \A v \in WithName(Head(sent)) : IsSelected(v)
     \/ Receive("deselect") /\ SelectedVillager("local") \notin WithName(Head(sent))
     \/ Receive("act") /\ SelectedVillager("local") \notin WithName(Head(sent))
     \/ Receive("summon") /\ hearts < godHearts[Head(sent).about]
  /\ UNCHANGED <<life, selected, cur, menus, onCancel, emphasized, store>>

Handle == HandleSelect \/ HandleDeselect \/ HandleAct \/ HandleSummon \/ Refuse

-----------------------------------------------------------------------------
(* The other player's messages that are not refused                        *)

OtherSelects(v) ==
  /\ v \in Living /\ ~IsSelected(v)
  /\ selected' = [selected EXCEPT !["other"] = v]
  /\ emphasized' = Unemphasized(SelectedVillager("other"))
  /\ UNCHANGED <<life, cur, menus, onCancel, store, sent>>

OtherDeselects ==
  /\ SelectedVillager("other") # NoVillager
  /\ Deselect("other")
  /\ UNCHANGED <<life, cur, menus, onCancel, store, sent>>

OtherActs(a) ==
  /\ SelectedVillager("other") # NoVillager
  /\ selected' = [selected EXCEPT !["other"] = NoVillager]
  /\ PerformAction(SelectedVillager("other"), a)
  /\ UNCHANGED <<cur, onCancel, store, sent>>

-----------------------------------------------------------------------------
Next ==
  \/ Keys
  \/ Handle
  \/ \E v \in Villager : Born(v) \/ Die(v) \/ OtherSelects(v)
  \/ OtherDeselects
  \/ \E a \in Action : OtherActs(a)

Spec == Init /\ [][Next]_vars

-----------------------------------------------------------------------------
(* Properties *)

\* A player who has a villager is never stuck with it: either a message that
\* gives it up is on its way, or the villager's menu is open and Escape would
\* send one (Player.selectVillager, its handlers of actionSelected and canceled;
\* nobody else can select the villager, and no other key gives it up).
SelectedCanBeReleased ==
  LET v == SelectedVillager("local")
  IN v # NoVillager =>
       \/ \E i \in 1..Len(sent) : sent[i].kind # "select" /\ sent[i].about = v
       \/ onCancel[v] > 0 /\ \E k \in menus : k.v = v

\* The other names stay small only for a reason: the emphasized villager lives,
\* and it is being typed, or about to be selected, or selected
\* (VillagerSelectionMgr, which TextSelector does not tell of a text it drops or
\* of one that is complete).
EmphasisJustified ==
  emphasized # NoVillager =>
    /\ emphasized \in Living
    /\ \/ cur = TheVillager(emphasized)
       \/ IsSelected(emphasized)
       \/ \E i \in 1..Len(sent) : sent[i] = [kind |-> "select", about |-> emphasized]

\* What this player does never takes from the other one a villager the other one
\* has: neither the selection, nor, by a sacrifice, its life (handleSelectVillager
\* and handleVillagerAction, whose messages were sent on an older state).
OtherKeepsVillager ==
  [][Handle => SelectedVillager("other")' = SelectedVillager("other")]_vars

\* A player can type the gods it can pay for and no others, in the order of God,
\* however many gods an offering or a summons lets in or out at once (HeartView's
\* setter of hearts pops its list without looking at what it pops).
GodsOffered ==
  \E n \in 0..Len(Gods) :
    /\ gods = SubSeq(Gods, 1, n)
    /\ \A i \in 1..Len(Gods) : i <= n <=> godHearts[Gods[i]] <= hearts

\* "More than one exclusive provider?" (TextSelector): at most one menu is open.
OneExclusiveProvider == \A j, k \in menus : j = k
=============================================================================
