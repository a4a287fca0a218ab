--------------------------- MODULE SelectionProofs ---------------------------
(***************************************************************************)
(* Proofs about Selection.tla, for any villagers, names, actions and gods. *)
(***************************************************************************)
EXTENDS Selection, ListLemmas, SequenceTheorems, TLAPS

-----------------------------------------------------------------------------
(* The gods that are offered (HeartView)                                   *)

\* The gods are a list of gods (God.values()).
LEMMA GodTypes ==
  /\ Gods \in Seq(God)
  /\ Len(Gods) \in Nat
  /\ \A i \in 1..Len(Gods) : Gods[i] \in God /\ godHearts[Gods[i]] \in 1..MAX_HEARTS
<1>1. Gods \in Seq(God) /\ godHearts \in [God -> 1..MAX_HEARTS]
  BY GodsAssumption DEF God
<1> QED
  BY <1>1, LenProperties, ElementOfSeq

\* The gods one can pay for are the first so many, gods being in the order of cost.
LEMMA FirstGods ==
  ASSUME NEW n \in 0..MAX_HEARTS
  PROVE  \E b \in 0..Len(Gods) : \A i \in 1..Len(Gods) : i <= b <=> godHearts[Gods[i]] <= n
<1> DEFINE N == Len(Gods)
           cost(i) == godHearts[Gods[i]]
           T == {m \in 0..N : \A i \in 1..N : cost(i) <= n => i <= m}
<1>1. N \in Nat /\ MAX_HEARTS \in Nat /\ \A i \in 1..N : cost(i) \in 1..MAX_HEARTS
  BY GodTypes, GodsAssumption
<1>2. \A i, j \in 1..N : i <= j => cost(i) <= cost(j)
  BY GodsAssumption
<1> HIDE DEF N, cost
<1>3. N \in T /\ T \subseteq Nat /\ T # {}
  BY <1>1
<1>4. PICK b \in T : \A m \in T : b <= m
  <2> HIDE DEF T
  <2> QED
    BY <1>3, Least
<1>5. ASSUME NEW i \in 1..N, i <= b PROVE cost(i) <= n
  <2> SUFFICES ASSUME ~(cost(i) <= n) PROVE FALSE
    OBVIOUS
  <2>1. \A j \in 1..N : i <= j => ~(cost(j) <= n)
    BY <1>1, <1>2
  <2>2. \A j \in 1..N : cost(j) <= n => j <= i - 1
    BY <1>1, <2>1
  <2>3. i - 1 \in 0..N
    BY <1>1
  <2>4. i - 1 \in T
    BY <2>2, <2>3
  <2> QED
    BY <1>1, <1>4, <1>5, <2>4
<1> QED
  BY <1>1, <1>4, <1>5 DEF N, cost

\* One god more at the end of the list (selectables.push)
LEMMA OneMore ==
  ASSUME NEW m \in Nat, m + 1 <= Len(Gods)
  PROVE  Append(SubSeq(Gods, 1, m), Gods[m + 1]) = SubSeq(Gods, 1, m + 1)
<1>1. /\ SubSeq(Gods, 1, m) \in Seq(God)
      /\ Gods[m + 1] \in God
      /\ 1 \in 1..Len(Gods) /\ m + 1 \in 1..Len(Gods)
      /\ (m + 1) - 1 = m
  <2>1. \A i \in 1..m : Gods[i] \in God
    BY GodTypes
  <2> QED
    BY <2>1, GodTypes, SubSeqProperties
<1>2. Append(SubSeq(Gods, 1, m), Gods[m + 1]) = SubSeq(Gods, 1, m) \o <<Gods[m + 1]>>
  BY <1>1, AppendIsConcat
<1>3. SubSeq(Gods, 1, m + 1) = SubSeq(Gods, 1, (m + 1) - 1) \o <<Gods[m + 1]>>
  BY <1>1, GodTypes, SubSeqRecursiveSecond
<1> QED
  BY <1>1, <1>2, <1>3

\* One god less (selectables.pop)
LEMMA OneLess ==
  ASSUME NEW m \in Nat, m + 1 <= Len(Gods)
  PROVE  Pop(SubSeq(Gods, 1, m + 1)) = SubSeq(Gods, 1, m)
<1> DEFINE s == SubSeq(Gods, 1, m + 1)
<1>1. \A i \in 1..(m + 1) : Gods[i] \in God
  BY GodTypes
<1>2. /\ s \in Seq(God) /\ Len(s) = m + 1
      /\ \A i \in 1..(m + 1) : s[i] = Gods[i]
  <2>1. /\ s \in Seq(God)
        /\ Len(s) = IF 1 <= m + 1 THEN (m + 1) - 1 + 1 ELSE 0
        /\ \A i \in 1..((m + 1) - 1 + 1) : s[i] = Gods[1 + i - 1]
    BY <1>1, SubSeqProperties
  <2> QED
    BY <2>1
<1>3. Pop(s) = SubSeq(s, 1, m)
  BY <1>2 DEF Pop, Front
<1> HIDE DEF s
<1>4. \A i \in 1..m : s[i] = Gods[i] /\ s[i] \in God /\ Gods[i] \in God
  BY <1>1, <1>2
<1>5. SubSeq(s, 1, m) \in Seq(God) /\ SubSeq(Gods, 1, m) \in Seq(God)
  BY <1>4, SubSeqProperties
<1>6. Len(SubSeq(s, 1, m)) = m /\ Len(SubSeq(Gods, 1, m)) = m
  BY <1>4, SubSeqProperties
<1>7. \A i \in 1..m : SubSeq(s, 1, m)[i] = s[i] /\ SubSeq(Gods, 1, m)[i] = Gods[i]
  BY <1>4, SubSeqProperties
<1>8. SubSeq(s, 1, m) = SubSeq(Gods, 1, m)
  BY <1>4, <1>5, <1>6, <1>7, SeqEqual
<1> QED
  BY <1>3, <1>8 DEF s

\* What n turns of the loop of setHearts leave of the first a gods when the first b
\* become those one can pay for.
Offered(a, b, i) ==
  IF a <= b THEN (IF i <= a THEN a ELSE IF i <= b THEN i ELSE b)
            ELSE (IF i <= b THEN a ELSE IF i <= a THEN a - (i - b) ELSE b)

\* One turn of the loop
LEMMA OfferedTurn ==
  ASSUME NEW a \in 0..Len(Gods), NEW b \in 0..Len(Gods), NEW i \in 1..Len(Gods)
  PROVE  SubSeq(Gods, 1, Offered(a, b, i)) =
           LET before == SubSeq(Gods, 1, Offered(a, b, i - 1))
           IN IF i <= b /\ ~(i <= a) THEN Append(before, Gods[i])
              ELSE IF ~(i <= b) /\ i <= a THEN Pop(before)
              ELSE before
<1> DEFINE N == Len(Gods)
           L(k) == Offered(a, b, k)
<1>1. N \in Nat
  BY GodTypes
<1>2. CASE i <= b /\ ~(i <= a)
  <2>1. L(i) = (i - 1) + 1 /\ L(i - 1) = i - 1 /\ i - 1 \in Nat /\ (i - 1) + 1 = i
    BY <1>1, <1>2 DEF Offered
  <2>2. Append(SubSeq(Gods, 1, i - 1), Gods[(i - 1) + 1]) = SubSeq(Gods, 1, (i - 1) + 1)
    BY <1>1, <2>1, OneMore
  <2> HIDE DEF L
  <2> QED
    BY <1>2, <2>1, <2>2 DEF L
<1>3. CASE ~(i <= b) /\ i <= a
  <2>1. L(i - 1) = L(i) + 1 /\ L(i) \in Nat /\ L(i) + 1 <= Len(Gods)
    BY <1>1, <1>3 DEF Offered
  <2>2. Pop(SubSeq(Gods, 1, L(i) + 1)) = SubSeq(Gods, 1, L(i))
    <3> HIDE DEF L
    <3> QED
      BY <2>1, OneLess
  <2> QED
    BY <1>3, <2>1, <2>2
<1>4. CASE (i <= b <=> i <= a)
  <2>1. L(i) = L(i - 1)
    BY <1>1, <1>4 DEF Offered
  <2> QED
    BY <1>4, <2>1
<1> QED
  BY <1>2, <1>3, <1>4

\* Whatever the hearts become, the list of the gods is right again (HeartView's setter
\* of hearts): it pops what it pushed last, as costs grow with the order of the gods.
LEMMA HeartsOffer ==
  ASSUME hearts \in 0..MAX_HEARTS, GodsOffered, NEW val \in 0..MAX_HEARTS, SetHearts(val)
  PROVE  hearts' = val /\ GodsOffered'
<1> DEFINE N == Len(Gods)
           Affordable(n, i) == n >= godHearts[Gods[i]]
           Turn(i, was) ==
             IF Affordable(val, i) /\ ~Affordable(hearts, i) THEN Append(was, Gods[i])
             ELSE IF ~Affordable(val, i) /\ Affordable(hearts, i) THEN Pop(was)
             ELSE was
           Computed(f) == f = [i \in 0..N |-> IF i = 0 THEN gods ELSE Turn(i, f[i - 1])]
           list == CHOOSE f : Computed(f)
<1>1. hearts' = val /\ gods' = list[N]
  BY DEF SetHearts
<1>2. PICK a \in 0..N : /\ gods = SubSeq(Gods, 1, a)
                        /\ \A i \in 1..N : i <= a <=> godHearts[Gods[i]] <= hearts
  BY DEF GodsOffered
<1>3. PICK b \in 0..N : \A i \in 1..N : i <= b <=> godHearts[Gods[i]] <= val
  BY FirstGods
<1>4. /\ N \in Nat
      /\ \A i \in 1..N : /\ Affordable(val, i) <=> i <= b
                         /\ Affordable(hearts, i) <=> i <= a
  BY <1>2, <1>3, GodTypes, GodsAssumption
<1> DEFINE f == [i \in 0..N |-> SubSeq(Gods, 1, Offered(a, b, i))]
<1>5. \A i \in 1..N : i \in 0..N /\ i - 1 \in 0..N /\ i # 0
  BY <1>4
<1>6. \A i \in 1..N : f[i] = Turn(i, f[i - 1])
  <2> TAKE i \in 1..N
  <2>1. f[i] = SubSeq(Gods, 1, Offered(a, b, i))
        /\ f[i - 1] = SubSeq(Gods, 1, Offered(a, b, i - 1))
    BY <1>5
  <2>2. /\ Affordable(val, i) <=> i <= b
        /\ Affordable(hearts, i) <=> i <= a
    BY <1>4
  <2> HIDE DEF Affordable, f
  <2> QED
    BY <2>1, <2>2, OfferedTurn
<1>7. f[0] = gods
  <2>1. Offered(a, b, 0) = a /\ 0 \in 0..N
    BY <1>4 DEF Offered
  <2> QED
    BY <1>2, <2>1
<1>8. Computed(f)
  <2> HIDE DEF Turn
  <2>1. \A i \in 0..N : i = 0 \/ i \in 1..N
    BY <1>4
  <2>2. \A i \in 0..N : f[i] = IF i = 0 THEN gods ELSE Turn(i, f[i - 1])
    BY <1>6, <1>7, <2>1
  <2> QED
    BY <2>2
<1>9. Computed(list)
  <2> HIDE DEF Computed, f
  <2> QED
    BY <1>8
<1>10. list[0] = gods /\ \A i \in 1..N : list[i] = Turn(i, list[i - 1])
  <2> HIDE DEF Turn, list
  <2>1. 0 \in 0..N
    BY <1>4
  <2> HIDE DEF N
  <2> QED
    BY <1>5, <1>9, <2>1
<1>11. list[N] = f[N]
  <2> DEFINE T == {i \in 0..N : list[i] = f[i]}
  <2>1. 0 \in 0..N /\ N \in 0..N
    BY <1>4
  <2> HIDE DEF list, f, Turn, N
  <2>2. 0 \in T
    BY <1>7, <1>10, <2>1
  <2>3. \A i \in 1..N : i - 1 \in T => i \in T
    BY <1>5, <1>6, <1>10
  <2>4. 0..N \subseteq T
    <3> HIDE DEF T
    <3> QED
      BY <1>4, <2>2, <2>3, LoopInduction
  <2> QED
    BY <2>1, <2>4
<1>12. gods' = SubSeq(Gods, 1, b)
  <2>1. Offered(a, b, N) = b /\ N \in 0..N
    BY <1>4 DEF Offered
  <2>2. f[N] = SubSeq(Gods, 1, b)
    BY <2>1
  <2> HIDE DEF list, f
  <2> QED
    BY <1>1, <1>11, <2>2
<1>13. GodsOffered'
  BY <1>1, <1>3, <1>12 DEF GodsOffered
<1> QED
  BY <1>1, <1>13

\* What is offered is gods (HeartView._selectables).
LEMMA FirstAreGods ==
  ASSUME NEW n \in 0..Len(Gods)
  PROVE  SubSeq(Gods, 1, n) \in Seq(God)
<1>1. \A i \in 1..n : Gods[i] \in God
  BY GodTypes
<1> QED
  BY <1>1, SubSeqProperties

-----------------------------------------------------------------------------
(* What the records are                                                    *)

\* The fields of a message that the handlers look at (the classes of messages)
LEMMA MessageFields ==
  /\ \A v \in Villager : /\ [kind |-> "select", about |-> v] \in Message
                         /\ [kind |-> "deselect", about |-> v] \in Message
                         /\ \A a \in Action : [kind |-> "act", about |-> v, action |-> a] \in Message
  /\ \A g \in God : [kind |-> "summon", about |-> g] \in Message
  /\ \A m \in Message : /\ m.kind = "select" => /\ m.about \in Villager
                                                /\ m = [kind |-> "select", about |-> m.about]
                        /\ m.kind = "deselect" => m.about \in Villager
                        /\ m.kind = "act" => m.about \in Villager /\ m.action \in Action
                        /\ m.kind = "summon" => m.about \in God
BY DEF Message

\* The fields of what can be typed (Selectable)
LEMMA SelectableFields ==
  /\ \A v \in Villager : TheVillager(v) \in Selectable /\ TheVillager(v).type = "villager"
                         /\ TheVillager(v).v = v
  /\ \A c \in Command : TheCommand(c) \in Selectable /\ TheCommand(c).type = "command"
                         /\ TheCommand(c).c = c
  /\ \A g \in God : TheGod(g) \in Selectable /\ TheGod(g).type = "god"
                         /\ TheGod(g).god = g
  /\ \A s \in Selectable : /\ s # NoSelectable
                           /\ s.type = "villager" => s.v \in Villager /\ s = TheVillager(s.v)
                           /\ s.type = "command" => s.c \in Command
                           /\ s.type = "god" => s.god \in God
  /\ NoSelectable.type = "none"
BY DEF Selectable, TheVillager, TheCommand, TheGod, NoSelectable

\* The fields of a menu and of its commands (VillagerCommandMenu)
LEMMA MenuFields ==
  /\ \A k \in Menu : k.n \in Nat \ {0} /\ k.v \in Villager
  /\ \A n \in Nat \ {0}, v \in Villager :
       /\ [n |-> n, v |-> v] \in Menu
       /\ [n |-> n, v |-> v].n = n
       /\ [n |-> n, v |-> v].v = v
  /\ \A c \in Command : c.n \in Nat \ {0} /\ c.v \in Villager /\ c.action \in Action
  /\ \A n \in Nat \ {0}, v \in Villager, a \in Action :
       /\ [n |-> n, v |-> v, action |-> a] \in Command
       /\ [n |-> n, v |-> v, action |-> a].n = n
       /\ [n |-> n, v |-> v, action |-> a].v = v
BY DEF Menu, Command

-----------------------------------------------------------------------------
(* The numbers of the menus                                                *)

\* One more than the greatest of some numbers is none of them (NextNumber).
LEMMA Fresh ==
  ASSUME NEW S, S \subseteq Nat, NEW b \in Nat, \A x \in S : x <= b
  PROVE  /\ 1 + Max0(S) \in Nat \ {0}
         /\ \A x \in S : x < 1 + Max0(S)
<1> DEFINE S0 == S \cup {0}
           m == CHOOSE x \in S0 : \A y \in S0 : x >= y
<1>1. S0 \subseteq Nat /\ S0 # {} /\ \A x \in S0 : x <= b
  OBVIOUS
<1>2. \E x \in S0 : \A y \in S0 : x >= y
  <2> HIDE DEF S0
  <2> QED
    BY <1>1, Greatest
<1>3. m \in S0 /\ \A y \in S0 : m >= y
  BY <1>2
<1>4. Max0(S) = m
  BY DEF Max0, Max
<1>5. m \in Nat /\ \A x \in S : x \in Nat /\ m >= x
  BY <1>1, <1>3
<1> HIDE DEF m
<1> QED
  BY <1>4, <1>5

-----------------------------------------------------------------------------
(* The invariant                                                           *)

\* The numbers of the open menus are bounded, so that there is another one.
MenusNumbered == \E b \in Nat : \A k \in menus : k.n <= b

\* A command that is being typed is about the villager of its menu, if it is open.
CommandOfItsMenu == cur.type = "command" => \A k \in menus : k.n = cur.c.n => k.v = cur.c.v

\* Who has been selected was born: no selection waits for a villager to come.
SelectedWereBorn == \A p \in Player : selected[p] # NoVillager => life[selected[p]] # "unborn"

\* No villager is both players'.
SelectionsExclusive == \A v \in Living : ~(selected["local"] = v /\ selected["other"] = v)

\* No two of the living have the same name, so that a message finds one of them.
NamesOfTheLiving == \A v, w \in Living : NameOf[v] = NameOf[w] => v = w

\* The messages that give a villager up
GivingUp(v) == {m \in Message : m.kind \in {"deselect", "act"} /\ m.about = v}

\* SelectedCanBeReleased, knowing that a villager is not given up by a summons
Release ==
  LET v == SelectedVillager("local")
  IN v # NoVillager =>
       \/ Occurs(sent, GivingUp(v))
       \/ onCancel[v] > 0 /\ \E k \in menus : k.v = v

Selecting(v) == {[kind |-> "select", about |-> v]}

\* EmphasisJustified, of one villager
Justified(v) ==
  /\ v \in Living
  /\ cur = TheVillager(v) \/ IsSelected(v) \/ Occurs(sent, Selecting(v))

Emphases == emphasized # NoVillager => Justified(emphasized)

TypeInv == TypeOK /\ MenusNumbered /\ CommandOfItsMenu /\ GodsOffered

WorldInv == SelectedWereBorn /\ SelectionsExclusive /\ NamesOfTheLiving

IInv == TypeInv /\ WorldInv /\ Release /\ Emphases

\* Who is selected is living (GameObjectRef).
LEMMA SelectedLives ==
  ASSUME TypeOK, NEW p \in Player
  PROVE  /\ SelectedVillager(p) \in Living \cup {NoVillager}
         /\ \A v \in Villager : SelectedVillager(p) = v <=> v \in Living /\ selected[p] = v
         /\ NoVillager \notin Living /\ Living \subseteq Villager
BY NoVillagerAssumption DEF TypeOK, SelectedVillager, Living

\* A text that has been dropped is no villager's that could be emphasized for it,
\* and one that has not is the text being typed (onKeyboardEvent).
LEMMA CurrentText ==
  ASSUME TypeOK
  PROVE  /\ Current \in {cur, NoSelectable}
         /\ Current # cur => cur.type = "villager" /\ ~(cur.v \in Living /\ ~IsSelected(cur.v))
BY DEF Current, IsSelectable

\* Losing one's emphasis (onSelectionEnded)
LEMMA UnemphasizedTypes ==
  ASSUME TypeOK, NEW v
  PROVE  /\ Unemphasized(v) \in {emphasized, NoVillager}
         /\ Unemphasized(v) \in Villager \cup {NoVillager}
         /\ Unemphasized(v) # NoVillager => Unemphasized(v) = emphasized /\ emphasized # v
BY DEF TypeOK, Unemphasized

\* A message that comes back (Player's handlers)
LEMMA ReceiveFacts ==
  ASSUME TypeOK, NEW kind, Receive(kind)
  PROVE  /\ Head(sent) \in Message /\ Head(sent).kind = kind
         /\ sent' = Tail(sent) /\ sent' \in Seq(Message)
         /\ \A K : Occurs(sent, K) <=> Occurs(sent', K) \/ Head(sent) \in K
BY OccursTail, HeadTailProperties DEF TypeOK, Receive

\* What is sent is messages, after those on their way.
LEMMA SendFacts ==
  ASSUME TypeOK, NEW more \in Seq(Message), sent' = sent \o more
  PROVE  /\ sent' \in Seq(Message)
         /\ \A K : Occurs(sent', K) <=> Occurs(sent, K) \/ Occurs(more, K)
BY OccursConcat, ConcatProperties DEF TypeOK

\* One message is sent.
LEMMA SendOne ==
  ASSUME TypeOK, NEW m \in Message, sent' = Append(sent, m)
  PROVE  /\ sent' \in Seq(Message)
         /\ \A K : Occurs(sent', K) <=> Occurs(sent, K) \/ m \in K
BY OccursAppend, AppendProperties DEF TypeOK

\* The latest menu (getSelectables)
LEMMA LatestMenu ==
  ASSUME TypeOK, MenusNumbered, menus # {}
  PROVE  \E top \in menus : \A j \in menus : j.n <= top.n
<1> DEFINE S == {k.n : k \in menus}
<1>1. \A k \in menus : k.n \in Nat
  BY MenuFields DEF TypeOK
<1>2. S \subseteq Nat /\ S # {}
  BY <1>1
<1>3. PICK b \in Nat : \A x \in S : x <= b
  BY DEF MenusNumbered
<1>4. \E m \in S : \A x \in S : m >= x
  <2> HIDE DEF S
  <2> QED
    BY <1>2, <1>3, Greatest
<1> QED
  BY <1>1, <1>4

\* What can be typed (the providers of TextSelector)
LEMMA SelectablesTypes ==
  ASSUME TypeInv
  PROVE  /\ Selectables \subseteq Selectable
         /\ \A s \in Selectables : s.type = "command" =>
              \A k \in menus : k.n = s.c.n => k.v = s.c.v
<1> USE DEF TypeInv
<1>1. CASE menus = {}
  <2>1. ToSet(gods) \subseteq God
    <3>1. gods \in Seq(God)
      BY FirstAreGods DEF GodsOffered
    <3>2. DOMAIN gods = 1..Len(gods) /\ \A i \in 1..Len(gods) : gods[i] \in God
      BY <3>1, LenProperties, ElementOfSeq
    <3> QED
      BY <3>2 DEF ToSet
  <2>2. Living \subseteq Villager
    BY DEF Living
  <2>3. Selectables = {TheVillager(v) : v \in Living} \cup {TheGod(g) : g \in ToSet(gods)}
    BY <1>1 DEF Selectables
  <2> QED
    BY <1>1, <2>1, <2>2, <2>3, SelectableFields
<1>2. CASE menus # {}
  <2> DEFINE top == CHOOSE k \in menus : \A j \in menus : j.n <= k.n
             C(a) == [n |-> top.n, v |-> top.v, action |-> a]
  <2>1. top \in menus
    BY <1>2, LatestMenu
  <2>2. Selectables = {TheCommand(C(a)) : a \in Action}
    BY <1>2 DEF Selectables
  <2> HIDE DEF top
  <2>3. top \in Menu /\ \A j, k \in menus : j.n = k.n => j = k
    BY <2>1 DEF TypeOK
  <2>4. \A a \in Action : C(a) \in Command /\ C(a).n = top.n /\ C(a).v = top.v
    BY <2>3, MenuFields
  <2> HIDE DEF C
  <2> QED
    BY <2>1, <2>2, <2>3, <2>4, SelectableFields
<1> QED
  BY <1>1, <1>2

-----------------------------------------------------------------------------
(* The types, the menus and the gods                                       *)

\* The keys leave the state well formed (TextSelector, VillagerCommandMenu).
LEMMA KeysTypes ==
  ASSUME TypeInv, Keys
  PROVE  TypeInv'
<1> USE DEF TypeInv
<1>a. Current \in {cur, NoSelectable}
  BY CurrentText
<1>1. ASSUME NEW s \in Selectables, BeginSelection(s) PROVE TypeInv'
  <2>1. /\ s \in Selectable
        /\ s.type = "villager" => s.v \in Villager
        /\ s.type = "command" => \A k \in menus : k.n = s.c.n => k.v = s.c.v
    BY SelectablesTypes, SelectableFields
  <2>2. emphasized' \in Villager \cup {NoVillager}
    BY <1>1, <2>1 DEF BeginSelection, Emphasis, TypeOK
  <2>3. TypeOK'
    BY <1>1, <2>1, <2>2 DEF BeginSelection, store, TypeOK
  <2>4. MenusNumbered' /\ GodsOffered'
    BY <1>1 DEF BeginSelection, store, MenusNumbered, GodsOffered
  <2>5. CommandOfItsMenu'
    BY <1>1, <2>1 DEF BeginSelection, CommandOfItsMenu
  <2> QED
    BY <2>3, <2>4, <2>5
<1>b. ASSUME menus' \subseteq menus, cur' \in {cur, NoSelectable}
      PROVE  CommandOfItsMenu' /\ MenusNumbered'
  BY <1>b, SelectableFields DEF CommandOfItsMenu, MenusNumbered
<1>2. CASE TypeVillager
  <2>1. Current \in Selectable /\ Current.type = "villager"
    BY <1>2, <1>a DEF TypeVillager, TypeOK
  <2>2. [kind |-> "select", about |-> Current.v] \in Message
    BY <2>1, SelectableFields, MessageFields
  <2>3. sent' \in Seq(Message)
    BY <1>2, <2>2, SendOne DEF TypeVillager
  <2>4. TypeOK'
    BY <1>2, <2>3 DEF TypeVillager, store, TypeOK
  <2>5. GodsOffered'
    BY <1>2 DEF TypeVillager, store, GodsOffered
  <2>6. menus' = menus /\ cur' = NoSelectable
    BY <1>2 DEF TypeVillager
  <2> QED
    BY <1>b, <2>4, <2>5, <2>6
<1>3. CASE TypeCommand
  <2>1. cur \in Selectable /\ cur.c \in Command
    BY <1>3, SelectableFields DEF TypeCommand, TypeOK
  <2>2. [kind |-> "act", about |-> cur.c.v, action |-> cur.c.action] \in Message
    BY <2>1, MenuFields, MessageFields
  <2>3. Chosen(cur.c) \in Seq(Message)
    BY <2>2, EmptySeq DEF Chosen
  <2>4. sent' \in Seq(Message)
    BY <1>3, <2>3, SendFacts DEF TypeCommand
  <2>5. menus' \subseteq menus /\ cur' = NoSelectable
    BY <1>3 DEF TypeCommand
  <2>6. TypeOK'
    BY <1>3, <2>4, <2>5 DEF TypeCommand, store, TypeOK
  <2>7. GodsOffered'
    BY <1>3 DEF TypeCommand, store, GodsOffered
  <2> QED
    BY <1>b, <2>5, <2>6, <2>7
<1>4. CASE TypeGod
  <2>1. cur \in Selectable /\ cur.god \in God
    BY <1>4, SelectableFields DEF TypeGod, TypeOK
  <2>2. [kind |-> "summon", about |-> cur.god] \in Message
    BY <2>1, MessageFields
  <2>3. sent' \in Seq(Message)
    BY <1>4, <2>2, SendOne DEF TypeGod
  <2>4. TypeOK'
    BY <1>4, <2>3 DEF TypeGod, store, TypeOK
  <2>5. GodsOffered'
    BY <1>4 DEF TypeGod, store, GodsOffered
  <2>6. menus' = menus /\ cur' = NoSelectable
    BY <1>4 DEF TypeGod
  <2> QED
    BY <1>b, <2>4, <2>5, <2>6
<1>5. CASE TypeNothing
  <2>1. menus' = menus /\ cur' \in {cur, NoSelectable}
    BY <1>5, <1>a DEF TypeNothing
  <2>2. TypeOK'
    BY <1>5, <2>1 DEF TypeNothing, store, TypeOK
  <2>3. GodsOffered'
    BY <1>5 DEF TypeNothing, store, GodsOffered
  <2> QED
    BY <1>b, <2>1, <2>2, <2>3
<1>6. CASE EndCurSelection
  <2>1. menus' = menus /\ cur' = NoSelectable
    BY <1>6 DEF EndCurSelection
  <2>2. emphasized' \in Villager \cup {NoVillager}
    BY <1>6, UnemphasizedTypes DEF EndCurSelection, TypeOK
  <2>3. TypeOK'
    BY <1>6, <2>1, <2>2 DEF EndCurSelection, store, TypeOK
  <2>4. GodsOffered'
    BY <1>6 DEF EndCurSelection, store, GodsOffered
  <2> QED
    BY <1>b, <2>1, <2>3, <2>4
<1>7. CASE Cancel
  <2>1. menus' = {} /\ cur' = NoSelectable
    BY <1>7 DEF Cancel
  <2>2. sent' \in Seq(Message)
    <3>1. CASE selected["local"] = NoVillager
      BY <1>7, <3>1 DEF Cancel, TypeOK
    <3>2. CASE selected["local"] # NoVillager
      <4> DEFINE v == selected["local"]
                 m == [kind |-> "deselect", about |-> v]
                 more == [i \in 1..onCancel[v] |-> m]
      <4>1. v \in Villager /\ onCancel[v] \in Nat /\ m \in Message
        BY <3>2, MessageFields DEF TypeOK, Player
      <4>2. sent' = sent \o more
        BY <1>7, <3>2 DEF Cancel
      <4>3. more \in Seq(Message)
        <5> HIDE DEF m
        <5> QED
          BY <4>1
      <4> HIDE DEF more
      <4> QED
        BY <4>2, <4>3, SendFacts
    <3> QED
      BY <3>1, <3>2
  <2>3. onCancel' \in [Villager -> Nat]
    BY <1>7 DEF Cancel
  <2>4. TypeOK'
    BY <1>7, <2>1, <2>2, <2>3 DEF Cancel, store, TypeOK
  <2>5. GodsOffered'
    BY <1>7 DEF Cancel, store, GodsOffered
  <2> QED
    BY <1>b, <2>1, <2>4, <2>5
<1> QED
  BY <1>1, <1>2, <1>3, <1>4, <1>5, <1>6, <1>7 DEF Keys

\* A villager that dies leaves the state well formed (destroySelf).
LEMMA DestroyedTypes ==
  ASSUME TypeOK, NEW v \in Villager, Destroyed(v)
  PROVE  /\ life' \in [Villager -> {"unborn", "alive", "dead"}]
         /\ menus' \subseteq menus
         /\ emphasized' \in Villager \cup {NoVillager}
BY UnemphasizedTypes DEF TypeOK, Destroyed

\* So does one that does what it is told (Villager.performAction).
LEMMA PerformTypes ==
  ASSUME TypeOK, NEW v \in Villager, NEW a, PerformAction(v, a)
  PROVE  /\ life' \in [Villager -> {"unborn", "alive", "dead"}]
         /\ menus' \subseteq menus
         /\ emphasized' \in Villager \cup {NoVillager}
<1>1. CASE a = Sacrifice
  BY <1>1, DestroyedTypes DEF PerformAction
<1>2. CASE a # Sacrifice
  BY <1>2, UnemphasizedTypes DEF PerformAction, TypeOK
<1> QED
  BY <1>1, <1>2

\* The handlers of this player's messages leave the state well formed (Player).
LEMMA HandleTypes ==
  ASSUME TypeInv, Handle
  PROVE  TypeInv'
<1> USE DEF TypeInv
<1>a. ASSUME menus' \subseteq menus, cur' = cur
      PROVE  CommandOfItsMenu' /\ MenusNumbered'
  BY <1>a DEF CommandOfItsMenu, MenusNumbered
<1>b. hearts \in Nat /\ MAX_HEARTS \in Nat /\ hearts <= MAX_HEARTS
  BY GodsAssumption DEF TypeOK
<1>1. CASE HandleSelect
  <2>1. PICK v \in WithName(Head(sent)) :
          /\ selected' = [selected EXCEPT !["local"] = v]
          /\ emphasized' = Unemphasized(SelectedVillager("local"))
          /\ menus' = menus \cup {[n |-> NextNumber, v |-> v]}
          /\ onCancel' = [onCancel EXCEPT ![v] = @ + 1]
    BY <1>1 DEF HandleSelect
  <2>2. v \in Villager /\ sent' \in Seq(Message)
    BY <1>1, ReceiveFacts DEF HandleSelect, WithName, Living
  <2> DEFINE S == {k.n : k \in menus} \cup (IF cur.type = "command" THEN {cur.c.n} ELSE {})
  <2>3. /\ NextNumber \in Nat \ {0}
        /\ \A x \in S : x < NextNumber
    <3>1. PICK b \in Nat : \A k \in menus : k.n <= b
      BY DEF MenusNumbered
    <3>2. \A k \in menus : k.n \in Nat
      BY MenuFields DEF TypeOK
    <3>3. cur.type = "command" => cur.c.n \in Nat
      BY SelectableFields, MenuFields DEF TypeOK
    <3>4. S \subseteq Nat /\ \E c \in Nat : \A x \in S : x <= c
      <4>1. CASE cur.type = "command"
        <5>1. b + cur.c.n \in Nat /\ cur.c.n <= b + cur.c.n
          BY <3>3, <4>1
        <5>2. \A k \in menus : k.n <= b + cur.c.n
          BY <3>1, <3>2, <3>3, <4>1
        <5> QED
          BY <3>2, <3>3, <4>1, <5>1, <5>2
      <4>2. CASE cur.type # "command"
        BY <3>1, <3>2, <4>2
      <4> QED
        BY <4>1, <4>2
    <3>5. NextNumber = 1 + Max0(S)
      BY DEF NextNumber
    <3> HIDE DEF S
    <3> QED
      BY <3>4, <3>5, Fresh
  <2> DEFINE new == [n |-> NextNumber, v |-> v]
  <2>4. new \in Menu /\ new.n = NextNumber /\ new.v = v
    BY <2>2, <2>3, MenuFields
  <2>5. /\ \A k \in menus : k.n < NextNumber
        /\ cur.type = "command" => cur.c.n < NextNumber
    BY <2>3
  <2>6. menus' = menus \cup {new}
    BY <2>1
  <2> HIDE DEF new
  <2>7. \A k \in menus : k.n \in Nat /\ k.n # NextNumber
    BY <2>3, <2>5, MenuFields DEF TypeOK
  <2>8. /\ menus' \in SUBSET Menu
        /\ \A j, k \in menus' : j.n = k.n => j = k
    BY <2>4, <2>6, <2>7 DEF TypeOK
  <2>9. /\ selected' \in [Player -> Villager \cup {NoVillager}]
        /\ onCancel' \in [Villager -> Nat]
        /\ emphasized' \in Villager \cup {NoVillager}
    <3>1. selected \in [Player -> Villager \cup {NoVillager}] /\ onCancel \in [Villager -> Nat]
      BY DEF TypeOK
    <3>2. selected' \in [Player -> Villager \cup {NoVillager}]
      BY <2>1, <2>2, <3>1
    <3>3. onCancel' \in [Villager -> Nat]
      BY <2>1, <2>2, <3>1
    <3>4. emphasized' \in Villager \cup {NoVillager}
      BY <2>1, UnemphasizedTypes
    <3> QED
      BY <3>2, <3>3, <3>4
  <2>10. TypeOK'
    BY <1>1, <2>2, <2>8, <2>9 DEF HandleSelect, store, TypeOK
  <2>11. MenusNumbered'
    BY <2>3, <2>4, <2>5, <2>6, <2>7 DEF MenusNumbered
  <2>12. CommandOfItsMenu'
    <3>1. cur' = cur
      BY <1>1 DEF HandleSelect
    <3>2. cur.type = "command" => cur.c.n \in Nat /\ cur.c.n # NextNumber
      BY <2>3, <2>5, SelectableFields, MenuFields DEF TypeOK
    <3> QED
      BY <2>4, <2>6, <3>1, <3>2 DEF CommandOfItsMenu
  <2>13. GodsOffered'
    BY <1>1 DEF HandleSelect, store, GodsOffered
  <2> QED
    BY <2>10, <2>11, <2>12, <2>13
<1>2. CASE HandleDeselect
  <2>1. menus' = menus /\ cur' = cur /\ sent' \in Seq(Message)
    BY <1>2, ReceiveFacts DEF HandleDeselect
  <2>2. /\ selected' \in [Player -> Villager \cup {NoVillager}]
        /\ emphasized' \in Villager \cup {NoVillager}
    BY <1>2, UnemphasizedTypes DEF HandleDeselect, Deselect, TypeOK
  <2>3. TypeOK'
    BY <1>2, <2>1, <2>2 DEF HandleDeselect, store, TypeOK
  <2>4. GodsOffered'
    BY <1>2 DEF HandleDeselect, store, GodsOffered
  <2> QED
    BY <1>a, <2>1, <2>3, <2>4
<1>3. CASE HandleAct
  <2>1. cur' = cur /\ sent' \in Seq(Message) /\ onCancel' = onCancel
    BY <1>3, ReceiveFacts DEF HandleAct
  <2>2. SelectedVillager("local") \in Villager
    BY <1>3 DEF HandleAct, WithName, Living
  <2>3. /\ life' \in [Villager -> {"unborn", "alive", "dead"}]
        /\ menus' \subseteq menus
        /\ emphasized' \in Villager \cup {NoVillager}
    BY <1>3, <2>2, PerformTypes DEF HandleAct
  <2>4. selected' \in [Player -> Villager \cup {NoVillager}]
    BY <1>3 DEF HandleAct, TypeOK
  <2>5. hearts' \in 0..MAX_HEARTS /\ GodsOffered'
    <3>1. CASE Head(sent).action = Sacrifice /\ hearts < MAX_HEARTS
      <4>1. hearts + 1 \in 0..MAX_HEARTS /\ hearts \in 0..MAX_HEARTS
        BY <1>b, <3>1
      <4>2. SetHearts(hearts + 1)
        BY <1>3, <3>1 DEF HandleAct
      <4> QED
        BY <4>1, <4>2, HeartsOffer
    <3>2. CASE ~(Head(sent).action = Sacrifice /\ hearts < MAX_HEARTS)
      BY <1>3, <3>2 DEF HandleAct, store, GodsOffered, TypeOK
    <3> QED
      BY <3>1, <3>2
  <2>6. gods' \in Seq(God)
    BY <2>5, FirstAreGods DEF GodsOffered
  <2>7. TypeOK'
    BY <2>1, <2>3, <2>4, <2>5, <2>6 DEF TypeOK
  <2> QED
    BY <1>a, <2>1, <2>3, <2>5, <2>7
<1>4. CASE HandleSummon
  <2>1. /\ cur' = cur /\ menus' = menus /\ sent' \in Seq(Message) /\ Head(sent) \in Message
        /\ Head(sent).kind = "summon"
    BY <1>4, ReceiveFacts DEF HandleSummon
  <2> DEFINE cost == godHearts[Head(sent).about]
  <2>2. cost \in 1..MAX_HEARTS /\ hearts >= cost /\ SetHearts(hearts - cost)
    <3>1. Head(sent).about \in God
      BY <2>1, MessageFields
    <3> QED
      BY <1>4, <3>1, GodsAssumption DEF HandleSummon, God
  <2>3. hearts - cost \in 0..MAX_HEARTS /\ hearts \in 0..MAX_HEARTS
    BY <1>b, <2>2
  <2>4. hearts' \in 0..MAX_HEARTS /\ GodsOffered'
    <3> HIDE DEF cost
    <3> QED
      BY <2>2, <2>3, HeartsOffer
  <2>5. gods' \in Seq(God)
    BY <2>4, FirstAreGods DEF GodsOffered
  <2>6. TypeOK'
    BY <1>4, <2>1, <2>4, <2>5 DEF HandleSummon, TypeOK
  <2> QED
    BY <1>a, <2>1, <2>4, <2>6
<1>5. CASE Refuse
  <2>1. menus' = menus /\ cur' = cur /\ sent' \in Seq(Message)
    BY <1>5, ReceiveFacts DEF Refuse
  <2>2. TypeOK'
    BY <1>5, <2>1 DEF Refuse, store, TypeOK
  <2>3. GodsOffered'
    BY <1>5 DEF Refuse, store, GodsOffered
  <2> QED
    BY <1>a, <2>1, <2>2, <2>3
<1> QED
  BY <1>1, <1>2, <1>3, <1>4, <1>5 DEF Handle

\* Births, deaths and the other player leave the state well formed.
LEMMA OthersTypes ==
  ASSUME TypeInv,
         \/ \E v \in Villager : Born(v) \/ Die(v) \/ OtherSelects(v)
         \/ OtherDeselects
         \/ \E a \in Action : OtherActs(a)
  PROVE  TypeInv'
<1> USE DEF TypeInv
<1>1. menus' \subseteq menus /\ cur' = cur
  <2>1. ASSUME NEW a \in Action, OtherActs(a) PROVE menus' \subseteq menus /\ cur' = cur
    BY <2>1 DEF OtherActs, PerformAction, Destroyed
  <2>2. ASSUME NEW v \in Villager, Born(v) \/ Die(v) \/ OtherSelects(v)
        PROVE  menus' \subseteq menus /\ cur' = cur
    BY <2>2 DEF Born, Die, OtherSelects, Destroyed
  <2> QED
    BY <2>1, <2>2 DEF OtherDeselects
<1>2. CommandOfItsMenu' /\ MenusNumbered'
  BY <1>1 DEF CommandOfItsMenu, MenusNumbered
<1>3. UNCHANGED <<onCancel, store, sent>>
  BY DEF Born, Die, OtherSelects, OtherDeselects, OtherActs
<1>4. GodsOffered'
  BY <1>3 DEF store, GodsOffered
<1>5. /\ life' \in [Villager -> {"unborn", "alive", "dead"}]
      /\ selected' \in [Player -> Villager \cup {NoVillager}]
      /\ emphasized' \in Villager \cup {NoVillager}
  <2>1. ASSUME NEW v \in Villager, Born(v) PROVE <1>5!:
    BY <2>1 DEF Born, TypeOK
  <2>2. ASSUME NEW v \in Villager, Die(v) PROVE <1>5!:
    BY <2>2, DestroyedTypes DEF Die, TypeOK
  <2>3. ASSUME NEW v \in Villager, OtherSelects(v) PROVE <1>5!:
    BY <2>3, UnemphasizedTypes DEF OtherSelects, TypeOK
  <2>4. CASE OtherDeselects
    BY <2>4, UnemphasizedTypes DEF OtherDeselects, Deselect, TypeOK
  <2>5. ASSUME NEW a \in Action, OtherActs(a) PROVE <1>5!:
    <3>1. SelectedVillager("other") \in Villager
      BY <2>5, SelectedLives DEF OtherActs, Player
    <3>2. selected' \in [Player -> Villager \cup {NoVillager}]
      BY <2>5 DEF OtherActs, TypeOK
    <3> QED
      BY <2>5, <3>1, <3>2, PerformTypes DEF OtherActs
  <2> QED
    BY <2>1, <2>2, <2>3, <2>4, <2>5
<1>6. TypeOK'
  BY <1>1, <1>3, <1>5 DEF store, TypeOK
<1> QED
  BY <1>2, <1>4, <1>6

-----------------------------------------------------------------------------
(* Births, deaths and selections                                           *)

\* Who dies, and what becomes of the selections (destroySelf, deselectVillager,
\* Villager.performAction): a step lets at most one villager be born, lets some die,
\* and gives a player the villager nobody has, or nothing new.
Deaths == \A v \in Villager : life'[v] = life[v] \/ (life[v] = "alive" /\ life'[v] = "dead")

GivesUp(p) == selected'[p] \in {selected[p], NoVillager}

\* A villager that dies, or does what it is told
LEMMA PerformDeaths ==
  ASSUME TypeOK, NEW v \in Living, NEW a, PerformAction(v, a)
  PROVE  Deaths
BY DEF TypeOK, PerformAction, Destroyed, Deaths, Living

\* What a step does to lives and selections
LEMMA WorldSteps ==
  ASSUME TypeOK, Next
  PROVE  \/ Deaths /\ \A p \in Player : GivesUp(p)
         \/ /\ life' = life
            /\ \E p \in Player, v \in Living : /\ ~IsSelected(v)
                                               /\ selected' = [selected EXCEPT ![p] = v]
         \/ \E v \in Villager : Born(v)
<1> USE DEF Player
<1>a. "local" \in Player /\ "other" \in Player
  OBVIOUS
<1>b. selected \in [Player -> Villager \cup {NoVillager}]
  BY DEF TypeOK
<1>1. CASE Keys
  <2>1. UNCHANGED <<life, selected>>
    BY <1>1 DEF Keys, BeginSelection, TypeVillager, TypeCommand, TypeGod, TypeNothing,
                EndCurSelection, Cancel
  <2> QED
    BY <2>1 DEF Deaths, GivesUp
<1>2. CASE HandleSelect
  BY <1>2 DEF HandleSelect, WithName
<1>3. CASE HandleDeselect \/ OtherDeselects
  BY <1>3, <1>b DEF HandleDeselect, OtherDeselects, Deselect, Deaths, GivesUp
<1>4. CASE HandleAct
  <2>1. SelectedVillager("local") \in Living
    BY <1>4 DEF HandleAct, WithName
  <2>2. Deaths
    BY <1>4, <2>1, PerformDeaths DEF HandleAct
  <2>3. selected' = [selected EXCEPT !["local"] = NoVillager]
    BY <1>4 DEF HandleAct
  <2> QED
    BY <1>b, <2>2, <2>3 DEF GivesUp
<1>5. CASE HandleSummon \/ Refuse
  BY <1>5 DEF HandleSummon, Refuse, Deaths, GivesUp
<1>6. ASSUME NEW v \in Villager, Die(v) PROVE Deaths /\ \A p \in Player : GivesUp(p)
  BY <1>6 DEF Die, Destroyed, TypeOK, Living, Deaths, GivesUp
<1>7. ASSUME NEW v \in Villager, OtherSelects(v)
      PROVE  /\ life' = life
             /\ v \in Living /\ ~IsSelected(v) /\ selected' = [selected EXCEPT !["other"] = v]
  BY <1>7 DEF OtherSelects
<1>8. ASSUME NEW a \in Action, OtherActs(a) PROVE Deaths /\ \A p \in Player : GivesUp(p)
  <2>1. SelectedVillager("other") \in Living
    BY <1>8, SelectedLives DEF OtherActs
  <2>2. Deaths
    BY <1>8, <2>1, PerformDeaths DEF OtherActs
  <2>3. selected' = [selected EXCEPT !["other"] = NoVillager]
    BY <1>8 DEF OtherActs
  <2> QED
    BY <1>b, <2>2, <2>3 DEF GivesUp
<1> QED
  BY <1>1, <1>2, <1>3, <1>4, <1>5, <1>6, <1>7, <1>8, <1>a DEF Next, Handle

\* Only the born are selected, by one player at most, and no two of the living are
\* namesakes (handleSelectVillager, VillagerGenerator.generate).
LEMMA WorldKept ==
  ASSUME TypeOK, TypeOK', WorldInv, Next
  PROVE  WorldInv'
<1> USE DEF WorldInv
<1>a. /\ selected \in [Player -> Villager \cup {NoVillager}]
      /\ selected' \in [Player -> Villager \cup {NoVillager}]
      /\ "local" \in Player /\ "other" \in Player /\ \A p \in Player : p = "local" \/ p = "other"
      /\ life \in [Villager -> {"unborn", "alive", "dead"}]
      /\ NoVillager \notin Villager
  BY NoVillagerAssumption DEF TypeOK, Player
<1>1. CASE Deaths /\ \A p \in Player : GivesUp(p)
  <2>1. Living' \subseteq Living
    BY <1>1, <1>a DEF Deaths, Living
  <2>2. SelectedWereBorn'
    <3> SUFFICES ASSUME NEW p \in Player, selected'[p] # NoVillager
                 PROVE  life'[selected'[p]] # "unborn"
      BY DEF SelectedWereBorn
    <3>1. selected'[p] = selected[p] /\ selected[p] \in Villager /\ life[selected[p]] # "unborn"
      BY <1>1, <1>a DEF GivesUp, SelectedWereBorn
    <3> QED
      BY <1>1, <3>1 DEF Deaths
  <2>3. SelectionsExclusive'
    BY <1>1, <1>a, <2>1 DEF GivesUp, SelectionsExclusive, Living
  <2>4. NamesOfTheLiving'
    BY <2>1 DEF NamesOfTheLiving
  <2> QED
    BY <2>2, <2>3, <2>4
<1>2. ASSUME life' = life,
             NEW p \in Player, NEW v \in Living, ~IsSelected(v),
             selected' = [selected EXCEPT ![p] = v]
      PROVE  WorldInv'
  <2>1. Living' = Living /\ v \in Villager
    BY <1>2 DEF Living
  <2>2. \A q \in Player : selected[q] # v
    BY <1>2, <2>1, SelectedLives DEF IsSelected
  <2>3. SelectedWereBorn'
    BY <1>2, <1>a DEF SelectedWereBorn, Living
  <2>4. SelectionsExclusive'
    BY <1>2, <1>a, <2>1, <2>2 DEF SelectionsExclusive
  <2>5. NamesOfTheLiving'
    BY <2>1 DEF NamesOfTheLiving
  <2> QED
    BY <2>3, <2>4, <2>5
<1>3. ASSUME NEW v \in Villager, Born(v) PROVE WorldInv'
  <2>1. /\ life' = [life EXCEPT ![v] = "alive"] /\ life[v] = "unborn"
        /\ selected' = selected
        /\ \A w \in Living : NameOf[w] # NameOf[v]
    BY <1>3 DEF Born
  <2>2. Living' = Living \cup {v}
    BY <2>1, <1>a DEF Living
  <2>3. \A p \in Player : selected[p] # v
    BY <1>a, <2>1 DEF SelectedWereBorn
  <2>4. SelectedWereBorn'
    BY <1>a, <2>1 DEF SelectedWereBorn
  <2>5. SelectionsExclusive'
    BY <1>a, <2>1, <2>2, <2>3 DEF SelectionsExclusive
  <2>6. NamesOfTheLiving'
    BY <2>1, <2>2 DEF NamesOfTheLiving
  <2> QED
    BY <2>4, <2>5, <2>6
<1> QED
  BY <1>1, <1>2, <1>3, WorldSteps

-----------------------------------------------------------------------------
(* A selected villager can be given up                                     *)

\* What releases a villager still does if nothing that does is lost.
LEMMA ReleaseFrame ==
  ASSUME Release,
         LET v == SelectedVillager("local")
         IN  /\ SelectedVillager("local")' \in {v, NoVillager}
             /\ v # NoVillager =>
                  /\ Occurs(sent, GivingUp(v)) => Occurs(sent', GivingUp(v))
                  /\ onCancel'[v] = onCancel[v]
                  /\ \A k \in menus : k.v = v => k \in menus' \/ Occurs(sent', GivingUp(v))
                                                 \/ SelectedVillager("local")' = NoVillager
  PROVE  Release'
BY DEF Release, GivingUp

\* The keys: a command that does not give the villager up closes another's menu,
\* and Escape sends that it is given up before the menu is closed.
LEMMA KeysRelease ==
  ASSUME TypeInv, Release, Keys
  PROVE  Release'
<1> DEFINE v == SelectedVillager("local")
<1> USE DEF TypeInv
<1>a. /\ v # NoVillager => v \in Villager /\ selected["local"] = v
      /\ SelectedVillager("local")' = v
  <2>1. UNCHANGED <<life, selected>>
    BY DEF Keys, BeginSelection, TypeVillager, TypeCommand, TypeGod, TypeNothing,
           EndCurSelection, Cancel
  <2> QED
    BY <2>1, SelectedLives DEF SelectedVillager, Living, Player
<1> HIDE DEF v
<1>b. ASSUME UNCHANGED <<onCancel, menus, sent>> PROVE Release'
  BY <1>a, <1>b, ReleaseFrame DEF v
<1>1. ASSUME NEW s \in Selectables, BeginSelection(s) PROVE Release'
  BY <1>1, <1>b DEF BeginSelection
<1>2. CASE TypeNothing \/ EndCurSelection
  BY <1>2, <1>b DEF TypeNothing, EndCurSelection
<1>c. ASSUME UNCHANGED <<onCancel, menus>>, NEW m \in Message, sent' = Append(sent, m)
      PROVE  Release'
  BY <1>a, <1>c, SendOne, ReleaseFrame DEF v
<1>3. CASE TypeVillager
  <2>1. Current \in Selectable /\ Current.type = "villager"
    BY <1>3, CurrentText DEF TypeVillager, TypeOK
  <2>2. [kind |-> "select", about |-> Current.v] \in Message
    BY <2>1, SelectableFields, MessageFields
  <2> QED
    BY <1>3, <1>c, <2>2 DEF TypeVillager
<1>4. CASE TypeGod
  <2>1. cur \in Selectable /\ cur.god \in God
    BY <1>4, SelectableFields DEF TypeGod, TypeOK
  <2>2. [kind |-> "summon", about |-> cur.god] \in Message
    BY <2>1, MessageFields
  <2> QED
    BY <1>4, <1>c, <2>2 DEF TypeGod
<1>5. CASE TypeCommand
  <2>1. cur.c \in Command /\ onCancel' = onCancel
        /\ sent' = sent \o Chosen(cur.c) /\ menus' = {k \in menus : k.n # cur.c.n}
    BY <1>5, SelectableFields DEF TypeCommand, TypeOK
  <2> DEFINE act == [kind |-> "act", about |-> cur.c.v, action |-> cur.c.action]
  <2>2. act \in Message /\ act.kind = "act" /\ act.about = cur.c.v
    BY <2>1, MenuFields, MessageFields
  <2>3. Chosen(cur.c) = IF selected["local"] = cur.c.v THEN <<act>> ELSE <<>>
    BY DEF Chosen
  <2> HIDE DEF act
  <2>4. Chosen(cur.c) \in Seq(Message)
    BY <2>2, <2>3, EmptySeq
  <2>5. \A K : Occurs(sent', K) <=> Occurs(sent, K) \/ Occurs(Chosen(cur.c), K)
    BY <2>1, <2>4, SendFacts
  <2>6. ASSUME v # NoVillager, NEW k \in menus, k.v = v, k \notin menus'
        PROVE  Occurs(sent', GivingUp(v))
    <3>1. cur.c.v = v
      BY <1>5, <2>1, <2>6 DEF TypeCommand, CommandOfItsMenu
    <3>2. Chosen(cur.c) = <<act>>
      BY <1>a, <2>3, <2>6, <3>1
    <3>3. act \in GivingUp(v)
      BY <2>2, <3>1 DEF GivingUp
    <3>4. Occurs(<<act>>, GivingUp(v))
      BY <3>3 DEF Occurs
    <3> QED
      BY <2>5, <3>2, <3>4
  <2> QED
    BY <1>a, <2>1, <2>5, <2>6, ReleaseFrame DEF v
<1>6. CASE Cancel
  <2> SUFFICES ASSUME v # NoVillager PROVE Occurs(sent', GivingUp(v))
    BY <1>a DEF Release
  <2> DEFINE m == [kind |-> "deselect", about |-> v]
             more == [i \in 1..onCancel[v] |-> m]
  <2>1. v \in Villager /\ onCancel[v] \in Nat /\ v = selected["local"]
    BY <1>a DEF TypeOK
  <2>2. sent' = sent \o more
    BY <1>6, <2>1, NoVillagerAssumption DEF Cancel
  <2>3. m \in Message /\ m \in GivingUp(v)
    BY <2>1, MessageFields DEF GivingUp
  <2>4. more \in Seq(Message) /\ (onCancel[v] > 0 => Occurs(more, GivingUp(v)))
    <3>1. more \in Seq(Message) /\ Len(more) = onCancel[v]
          /\ \A i \in 1..onCancel[v] : more[i] = m
      <4> HIDE DEF m
      <4> QED
        BY <2>1, <2>3
    <3> HIDE DEF more, m
    <3>2. onCancel[v] > 0 => 1 \in 1..onCancel[v]
      BY <2>1
    <3> QED
      BY <2>3, <3>1, <3>2 DEF Occurs
  <2>5. Occurs(sent', GivingUp(v)) <=>
          Occurs(sent, GivingUp(v)) \/ Occurs(more, GivingUp(v))
    <3> HIDE DEF more, m
    <3> QED
      BY <2>2, <2>4, SendFacts
  <2>6. Occurs(sent, GivingUp(v)) \/ onCancel[v] > 0
    BY DEF Release, v
  <2> QED
    BY <2>4, <2>5, <2>6
<1> QED
  BY <1>1, <1>2, <1>3, <1>4, <1>5, <1>6 DEF Keys

\* A message that gives the villager up, when it is handled, does so: a message that
\* is refused was not about it (handleDeselectVillager, handleVillagerAction).
LEMMA HandleRelease ==
  ASSUME TypeInv, Release, Handle
  PROVE  Release'
<1> DEFINE v == SelectedVillager("local")
<1> USE DEF TypeInv
<1>a. /\ v # NoVillager => v \in Villager /\ v \in Living /\ selected["local"] = v
      /\ v \in Living => v # NoVillager
      /\ Living \subseteq Villager
      /\ selected \in [Player -> Villager \cup {NoVillager}]
      /\ "local" \in Player
  BY SelectedLives DEF v, Player, TypeOK
<1> HIDE DEF v
<1>1. CASE HandleSelect
  <2>1. PICK w \in WithName(Head(sent)) :
          /\ selected' = [selected EXCEPT !["local"] = w]
          /\ menus' = menus \cup {[n |-> NextNumber, v |-> w]}
          /\ onCancel' = [onCancel EXCEPT ![w] = @ + 1]
    BY <1>1 DEF HandleSelect
  <2>2. w \in Living /\ w \in Villager /\ life' = life
    BY <1>1, <2>1 DEF HandleSelect, WithName, Living
  <2>3. SelectedVillager("local")' = w
    BY <1>a, <2>1, <2>2 DEF SelectedVillager, Living
  <2>4. onCancel'[w] > 0
    BY <2>1, <2>2 DEF TypeOK
  <2>5. \E k \in menus' : k.v = w
    <3> DEFINE new == [n |-> NextNumber, v |-> w]
    <3>1. new \in menus' /\ new.v = w
      BY <2>1
    <3> HIDE DEF new
    <3> QED
      BY <3>1
  <2> QED
    BY <2>3, <2>4, <2>5 DEF Release
<1>2. CASE HandleDeselect \/ HandleAct
  <2>1. v \in Living
    BY <1>2 DEF HandleDeselect, HandleAct, WithName, v
  <2>2. selected'["local"] = NoVillager
    BY <1>2, <1>a, <2>1 DEF HandleDeselect, HandleAct, Deselect
  <2>3. SelectedVillager("local")' = NoVillager
    BY <2>2 DEF SelectedVillager
  <2> QED
    BY <2>3 DEF Release
<1>3. CASE HandleSummon
  <2>1. UNCHANGED <<life, selected, menus, onCancel>> /\ Receive("summon")
    BY <1>3 DEF HandleSummon
  <2>2. SelectedVillager("local")' = v
    BY <2>1 DEF v, SelectedVillager, Living
  <2>3. Occurs(sent, GivingUp(v)) => Occurs(sent', GivingUp(v))
    BY <2>1, ReceiveFacts DEF GivingUp
  <2> QED
    BY <2>1, <2>2, <2>3, ReleaseFrame DEF v
<1>4. CASE Refuse
  <2>1. UNCHANGED <<life, selected, menus, onCancel>>
    BY <1>4 DEF Refuse
  <2>2. SelectedVillager("local")' = v
    BY <2>1 DEF v, SelectedVillager, Living
  <2>3. v # NoVillager => Head(sent) \notin GivingUp(v)
    <3> SUFFICES ASSUME v # NoVillager, Head(sent) \in GivingUp(v) PROVE FALSE
      OBVIOUS
    <3>1. Head(sent).kind \in {"deselect", "act"} /\ Head(sent).about = v
      BY DEF GivingUp
    <3>2. v \in WithName(Head(sent))
      BY <1>a, <3>1 DEF WithName
    <3> QED
      BY <1>4, <3>1, <3>2 DEF Refuse, Receive, v
  <2>4. \A K : Occurs(sent, K) <=> Occurs(sent', K) \/ Head(sent) \in K
    BY <1>4, ReceiveFacts DEF Refuse
  <2> QED
    BY <2>1, <2>2, <2>3, <2>4, ReleaseFrame DEF v
<1> QED
  BY <1>1, <1>2, <1>3, <1>4 DEF Handle

\* The world and the other player close no menu of a villager that goes on living,
\* and nobody is born into a selection.
LEMMA OthersRelease ==
  ASSUME TypeInv, SelectedWereBorn, Release,
         \/ \E v \in Villager : Born(v) \/ Die(v) \/ OtherSelects(v)
         \/ OtherDeselects
         \/ \E a \in Action : OtherActs(a)
  PROVE  Release'
<1> USE DEF TypeInv
<1>a. /\ selected \in [Player -> Villager \cup {NoVillager}]
      /\ "local" \in Player /\ "other" \in Player
      /\ life \in [Villager -> {"unborn", "alive", "dead"}]
      /\ SelectedVillager("local") # NoVillager =>
           SelectedVillager("local") \in Living /\ selected["local"] = SelectedVillager("local")
      /\ NoVillager \notin Living /\ NoVillager \notin Villager /\ Living \subseteq Villager
      /\ selected["local"] \in Living => SelectedVillager("local") = selected["local"]
  BY SelectedLives, NoVillagerAssumption DEF Player, TypeOK, SelectedVillager
<1>1. UNCHANGED <<onCancel, sent>>
  BY DEF Born, Die, OtherSelects, OtherDeselects, OtherActs
<1>b. ASSUME selected'["local"] = selected["local"],
             selected["local"] # NoVillager /\ selected["local"] \in Living'
               => selected["local"] \in Living,
             \A k \in menus : k.v \in Living' => k \in menus'
      PROVE  Release'
  <2>1. SelectedVillager("local")' \in {SelectedVillager("local"), NoVillager}
    BY <1>a, <1>b DEF SelectedVillager
  <2>2. SelectedVillager("local")' # NoVillager => SelectedVillager("local")' \in Living'
    BY <1>b DEF SelectedVillager
  <2> QED
    BY <1>1, <1>b, <2>1, <2>2, ReleaseFrame
<1>2. ASSUME NEW v \in Villager, Born(v) PROVE Release'
  <2>1. selected["local"] # v
    BY <1>2, <1>a DEF Born, SelectedWereBorn
  <2> QED
    BY <1>2, <1>a, <1>b, <2>1 DEF Born, Living
<1>c. ASSUME NEW v \in Living, Destroyed(v)
      PROVE  Living' \subseteq Living /\ \A k \in menus : k.v \in Living' => k \in menus'
  BY <1>a, <1>c DEF Destroyed, Living
<1>3. ASSUME NEW v \in Villager, Die(v) PROVE Release'
  BY <1>3, <1>b, <1>c DEF Die
<1>4. ASSUME NEW v \in Villager, OtherSelects(v) PROVE Release'
  BY <1>4, <1>a, <1>b DEF OtherSelects, Living
<1>5. CASE OtherDeselects
  BY <1>5, <1>a, <1>b DEF OtherDeselects, Deselect, Living
<1>6. ASSUME NEW a \in Action, OtherActs(a) PROVE Release'
  <2>1. SelectedVillager("other") \in Living
    BY <1>6, SelectedLives DEF OtherActs, Player
  <2>2. selected'["local"] = selected["local"]
    BY <1>6, <1>a DEF OtherActs
  <2>3. CASE a = Sacrifice
    BY <1>6, <1>b, <1>c, <2>1, <2>2, <2>3 DEF OtherActs, PerformAction
  <2>4. CASE a # Sacrifice
    BY <1>6, <1>b, <2>2, <2>4 DEF OtherActs, PerformAction, Living
  <2> QED
    BY <2>3, <2>4
<1> QED
  BY <1>2, <1>3, <1>4, <1>5, <1>6

-----------------------------------------------------------------------------
(* Why the other names stay small                                          *)

\* Emphasis is lost, or is justified as it was.
LEMMA JustifiedFrame ==
  ASSUME emphasized' \in {emphasized, NoVillager},
         Emphases, emphasized' # NoVillager => (Justified(emphasized) => Justified(emphasized)')
  PROVE  Emphases'
BY DEF Emphases, Justified, IsSelected, Selecting

\* The keys: the name that has been typed is about to be selected, and one that
\* cannot be typed any more is selected.
LEMMA KeysEmphasis ==
  ASSUME TypeInv, Emphases, Keys
  PROVE  Emphases'
<1> DEFINE e == emphasized
<1> USE DEF TypeInv
<1>a. /\ Living' = Living /\ \A v : IsSelected(v)' <=> IsSelected(v)
      /\ Living \subseteq Villager
  <2>1. UNCHANGED <<life, selected>>
    BY DEF Keys, BeginSelection, TypeVillager, TypeCommand, TypeGod, TypeNothing,
           EndCurSelection, Cancel
  <2> QED
    BY <2>1 DEF Living, IsSelected, SelectedVillager
<1>b. ASSUME Current = NoSelectable, cur = TheVillager(e), e \in Living
      PROVE  IsSelected(e)
  <2>1. e \in Villager /\ cur # NoSelectable /\ cur.type = "villager" /\ cur.v = e
    BY <1>a, <1>b, SelectableFields
  <2> QED
    BY <1>b, <2>1, CurrentText
<1>c. ASSUME e # NoVillager
      PROVE  /\ e \in Living
             /\ cur = TheVillager(e) \/ IsSelected(e) \/ Occurs(sent, Selecting(e))
  BY <1>c DEF Emphases, Justified
<1>d. ASSUME emphasized' = e,
             e # NoVillager /\ cur = TheVillager(e) /\ ~IsSelected(e) =>
               cur' = cur \/ Occurs(sent', Selecting(e)),
             Occurs(sent, Selecting(e)) => Occurs(sent', Selecting(e))
      PROVE  Emphases'
  <2>1. SUFFICES ASSUME e # NoVillager PROVE Justified(e)'
    BY <1>d DEF Emphases, Justified, Selecting, IsSelected
  <2> QED
    BY <1>a, <1>c, <1>d, <2>1 DEF Justified, Selecting
<1>1. ASSUME NEW s \in Selectables, BeginSelection(s) PROVE Emphases'
  <2>1. CASE s.type = "villager"
    <3>1. s \in Selectable /\ s.v \in Villager /\ s = TheVillager(s.v)
      BY <2>1, SelectablesTypes, SelectableFields
    <3>2. s.v \in Living
      BY <1>1, <2>1 DEF BeginSelection, IsSelectable
    <3>3. emphasized' = s.v /\ cur' = TheVillager(s.v)
      BY <1>1, <2>1, <3>1 DEF BeginSelection, Emphasis
    <3> QED
      BY <1>a, <3>2, <3>3 DEF Emphases, Justified
  <2>2. CASE s.type # "villager"
    <3>1. emphasized' = e /\ sent' = sent /\ Current = NoSelectable
      BY <1>1, <2>2 DEF BeginSelection, Emphasis
    <3> QED
      BY <1>b, <1>c, <1>d, <3>1
  <2> QED
    BY <2>1, <2>2
<1>2. CASE TypeVillager
  <2>1. /\ Current = cur /\ cur \in Selectable /\ cur.type = "villager"
        /\ sent' = Append(sent, [kind |-> "select", about |-> cur.v])
        /\ emphasized' = e
    BY <1>2, CurrentText DEF TypeVillager, TypeOK
  <2>2. [kind |-> "select", about |-> cur.v] \in Message
    BY <2>1, SelectableFields, MessageFields
  <2>3. \A K : Occurs(sent', K) <=>
          Occurs(sent, K) \/ [kind |-> "select", about |-> cur.v] \in K
    BY <2>1, <2>2, SendOne
  <2>4. e # NoVillager /\ cur = TheVillager(e) => cur.v = e
    BY <1>a, <1>c, SelectableFields
  <2>5. e # NoVillager /\ cur = TheVillager(e) => Occurs(sent', Selecting(e))
    BY <2>3, <2>4 DEF Selecting
  <2> QED
    BY <1>d, <2>1, <2>3, <2>5
<1>3. CASE TypeCommand
  <2>1. cur.c \in Command
    BY <1>3, SelectableFields DEF TypeCommand, TypeOK
  <2>2. [kind |-> "act", about |-> cur.c.v, action |-> cur.c.action] \in Message
    BY <2>1, MenuFields, MessageFields
  <2>3. Chosen(cur.c) \in Seq(Message)
    BY <2>2, EmptySeq DEF Chosen
  <2>4. Occurs(sent, Selecting(e)) => Occurs(sent', Selecting(e))
    BY <1>3, <2>3, SendFacts DEF TypeCommand
  <2>5. e # NoVillager => cur # TheVillager(e)
    BY <1>3, <1>a, <1>c, SelectableFields DEF TypeCommand
  <2> QED
    BY <1>3, <1>d, <2>4, <2>5 DEF TypeCommand
<1>4. CASE TypeGod
  <2>1. cur \in Selectable /\ cur.god \in God
    BY <1>4, SelectableFields DEF TypeGod, TypeOK
  <2>2. [kind |-> "summon", about |-> cur.god] \in Message
    BY <2>1, MessageFields
  <2>3. Occurs(sent, Selecting(e)) => Occurs(sent', Selecting(e))
    BY <1>4, <2>2, SendOne DEF TypeGod
  <2>4. e # NoVillager => cur # TheVillager(e)
    BY <1>4, <1>a, <1>c, SelectableFields DEF TypeGod
  <2> QED
    BY <1>4, <1>d, <2>3, <2>4 DEF TypeGod
<1>5. CASE TypeNothing
  <2>1. Current = NoSelectable
    BY <1>5, CurrentText DEF TypeNothing
  <2> QED
    BY <1>5, <1>b, <1>c, <1>d, <2>1 DEF TypeNothing
<1>6. CASE EndCurSelection
  <2>1. Current = cur /\ sent' = sent
    BY <1>6, CurrentText DEF EndCurSelection
  <2>2. CASE cur.type = "villager"
    <3>1. emphasized' = Unemphasized(cur.v)
      BY <1>6, <2>1, <2>2 DEF EndCurSelection
    <3>2. emphasized' # NoVillager => emphasized' = e /\ e # cur.v
      BY <3>1, UnemphasizedTypes
    <3>3. SUFFICES ASSUME emphasized' # NoVillager PROVE Emphases'
      BY DEF Emphases
    <3>4. e # NoVillager /\ e # cur.v
      BY <3>2, <3>3
    <3>5. cur # TheVillager(e)
      BY <1>a, <1>c, <3>4, SelectableFields
    <3> QED
      BY <1>d, <2>1, <3>2, <3>3, <3>5
  <2>3. CASE cur.type # "villager"
    <3>1. emphasized' = e
      BY <1>6, <2>1, <2>3 DEF EndCurSelection
    <3>2. e # NoVillager => cur # TheVillager(e)
      BY <1>a, <1>c, <2>3, SelectableFields
    <3> QED
      BY <1>d, <2>1, <3>1, <3>2
  <2> QED
    BY <2>2, <2>3
<1>7. CASE Cancel
  <2>1. Current = NoSelectable /\ emphasized' = e
    BY <1>7 DEF Cancel
  <2>2. Occurs(sent, Selecting(e)) => Occurs(sent', Selecting(e))
    <3>1. CASE selected["local"] = NoVillager
      BY <1>7, <3>1 DEF Cancel
    <3>2. CASE selected["local"] # NoVillager
      <4> DEFINE v == selected["local"]
                 m == [kind |-> "deselect", about |-> v]
                 more == [i \in 1..onCancel[v] |-> m]
      <4>1. v \in Villager /\ onCancel[v] \in Nat /\ m \in Message
        BY <3>2, MessageFields DEF TypeOK, Player
      <4>2. sent' = sent \o more
        BY <1>7, <3>2 DEF Cancel
      <4>3. more \in Seq(Message)
        <5> HIDE DEF m
        <5> QED
          BY <4>1
      <4> HIDE DEF more
      <4> QED
        BY <4>2, <4>3, SendFacts
    <3> QED
      BY <3>1, <3>2
  <2> QED
    BY <1>b, <1>c, <1>d, <2>1, <2>2
<1> QED
  BY <1>1, <1>2, <1>3, <1>4, <1>5, <1>6, <1>7 DEF Keys

\* Who is emphasized stays so unless it dies or a player gives it up or goes over to
\* another one, and then the emphasis ends with it (onSelectionEnded).
LEMMA SelectionEnds ==
  ASSUME TypeOK, NEW v \in Living, v \in Living',
         IsSelected(v), ~IsSelected(v)'
  PROVE  \E p \in Player : SelectedVillager(p) = v /\ selected'[p] # selected[p]
<1>1. PICK p \in Player : SelectedVillager(p) = v
  BY DEF IsSelected
<1>2. selected[p] = v
  BY <1>1, SelectedLives
<1>3. SelectedVillager(p)' # v
  BY DEF IsSelected
<1> QED
  BY <1>1, <1>2, <1>3 DEF SelectedVillager

\* The handlers: a selection that is on its way finds the villager it was made for,
\* as no other of the living has its name, and is refused only if it is selected.
LEMMA HandleEmphasis ==
  ASSUME TypeInv, NamesOfTheLiving, Emphases, Handle
  PROVE  Emphases'
<1> DEFINE e == emphasized
           here == SelectedVillager("local")
<1> USE DEF TypeInv
<1>a. cur' = cur
  BY DEF Handle, HandleSelect, HandleDeselect, HandleAct, HandleSummon, Refuse
<1>b. /\ selected \in [Player -> Villager \cup {NoVillager}]
      /\ "local" \in Player /\ \A p \in Player : p = "local" \/ p = "other"
      /\ Living \subseteq Villager /\ life \in [Villager -> {"unborn", "alive", "dead"}]
      /\ e # NoVillager => e \in Living /\ Justified(e)
  BY SelectedLives DEF Player, TypeOK, Emphases, Justified
\* The emphasized villager lives on, is deselected only if it is not emphasized any
\* more, and a message that selects it leads to its selection.
<1>c. ASSUME emphasized' = e, e \in Living,
             e \in Living', IsSelected(e) => IsSelected(e)',
             Occurs(sent, Selecting(e)) => Occurs(sent', Selecting(e)) \/ IsSelected(e)'
      PROVE  Emphases'
  <2>1. Justified(e)
    BY <1>b, <1>c, NoVillagerAssumption
  <2>2. Justified(e)'
    BY <1>a, <1>c, <2>1 DEF Justified, Selecting
  <2> QED
    BY <1>c, <2>2 DEF Emphases
<1>d. \A m : emphasized' = Unemphasized(m) /\ emphasized' # NoVillager => emphasized' = e /\ e # m
  BY UnemphasizedTypes
<1>e. ASSUME emphasized' # NoVillager => Emphases' PROVE Emphases'
  BY <1>e DEF Emphases
<1>1. CASE HandleSelect
  <2>1. PICK v \in WithName(Head(sent)) :
          /\ selected' = [selected EXCEPT !["local"] = v]
          /\ emphasized' = Unemphasized(here)
    BY <1>1 DEF HandleSelect
  <2>2. /\ life' = life /\ Living' = Living /\ v \in Living
        /\ NameOf[v] = NameOf[Head(sent).about]
    BY <1>1, <2>1 DEF HandleSelect, WithName, Living
  <2> SUFFICES ASSUME emphasized' # NoVillager PROVE Emphases'
    BY <1>e
  <2>3. emphasized' = e /\ e # here /\ e \in Living /\ e \in Living'
    BY <1>b, <1>d, <2>1, <2>2
  <2>4. IsSelected(e) => IsSelected(e)'
    <3>1. \A p \in Player : SelectedVillager(p) = e => selected'[p] = selected[p]
      BY <1>b, <2>1, <2>3
    <3> QED
      BY <2>3, <3>1, SelectionEnds
  <2>5. Occurs(sent, Selecting(e)) => Occurs(sent', Selecting(e)) \/ IsSelected(e)'
    <3> SUFFICES ASSUME Head(sent) \in Selecting(e) PROVE IsSelected(e)'
      BY <1>1, ReceiveFacts DEF HandleSelect
    <3>1. Head(sent).about = e
      BY DEF Selecting
    <3>2. v = e
      BY <2>2, <2>3, <3>1 DEF NamesOfTheLiving
    <3>3. selected'["local"] = e
      BY <1>b, <2>1, <3>2
    <3> QED
      BY <1>b, <2>3, <3>3 DEF IsSelected, SelectedVillager
  <2> QED
    BY <1>c, <2>3, <2>4, <2>5
<1>f. ASSUME NEW kind, Receive(kind), kind # "select"
      PROVE  Occurs(sent, Selecting(e)) => Occurs(sent', Selecting(e))
  BY <1>f, ReceiveFacts DEF Selecting
<1>2. CASE HandleDeselect
  <2>1. /\ selected' = [selected EXCEPT !["local"] = IF @ \in Living THEN NoVillager ELSE @]
        /\ emphasized' = Unemphasized(here) /\ Living' = Living /\ Receive("deselect")
    BY <1>2 DEF HandleDeselect, Deselect, Living
  <2> SUFFICES ASSUME emphasized' # NoVillager PROVE Emphases'
    BY <1>e
  <2>2. emphasized' = e /\ e # here /\ e \in Living /\ e \in Living'
    BY <1>b, <1>d, <2>1
  <2>3. \A p \in Player : SelectedVillager(p) = e => selected'[p] = selected[p]
    BY <1>b, <2>1, <2>2
  <2>4. IsSelected(e) => IsSelected(e)'
    BY <2>2, <2>3, SelectionEnds
  <2> QED
    BY <1>c, <1>f, <2>1, <2>2, <2>4
<1>3. CASE HandleAct
  <2>1. /\ selected' = [selected EXCEPT !["local"] = NoVillager]
        /\ PerformAction(here, Head(sent).action) /\ Receive("act") /\ here \in Living
    BY <1>3 DEF HandleAct, WithName
  <2>2. /\ emphasized' = Unemphasized(here)
        /\ \A v \in Living : v # here => v \in Living'
    BY <1>b, <2>1 DEF PerformAction, Destroyed, Living
  <2> SUFFICES ASSUME emphasized' # NoVillager PROVE Emphases'
    BY <1>e
  <2>3. emphasized' = e /\ e # here /\ e \in Living /\ e \in Living'
    BY <1>b, <1>d, <2>2
  <2>4. \A p \in Player : SelectedVillager(p) = e => selected'[p] = selected[p]
    BY <1>b, <2>1, <2>3
  <2>5. IsSelected(e) => IsSelected(e)'
    BY <2>3, <2>4, SelectionEnds
  <2> QED
    BY <1>c, <1>f, <2>1, <2>3, <2>5
<1>4. CASE HandleSummon
  <2>1. UNCHANGED <<life, selected, emphasized>> /\ Receive("summon")
    BY <1>4 DEF HandleSummon
  <2>2. Living' = Living /\ (IsSelected(e) => IsSelected(e)')
    BY <2>1 DEF Living, IsSelected, SelectedVillager
  <2> SUFFICES ASSUME emphasized' # NoVillager PROVE Emphases'
    BY <1>e
  <2> QED
    BY <1>b, <1>c, <1>f, <2>1, <2>2
<1>5. CASE Refuse
  <2>1. UNCHANGED <<life, selected, emphasized>>
    BY <1>5 DEF Refuse
  <2>2. Living' = Living /\ (IsSelected(e) <=> IsSelected(e)')
    BY <2>1 DEF Living, IsSelected, SelectedVillager
  <2> SUFFICES ASSUME emphasized' # NoVillager PROVE Emphases'
    BY <1>e
  <2>3. e \in Living
    BY <1>b, <2>1
  <2>4. Head(sent) \in Selecting(e) => IsSelected(e)
    <3> SUFFICES ASSUME Head(sent) \in Selecting(e) PROVE IsSelected(e)
      OBVIOUS
    <3>1. Head(sent).kind = "select" /\ Head(sent).about = e
      BY DEF Selecting
    <3>2. e \in WithName(Head(sent))
      BY <2>3, <3>1 DEF WithName
    <3> QED
      BY <1>5, <3>1, <3>2 DEF Refuse, Receive
  <2>5. Occurs(sent, Selecting(e)) => Occurs(sent', Selecting(e)) \/ Head(sent) \in Selecting(e)
    BY <1>5, ReceiveFacts DEF Refuse
  <2> QED
    BY <1>c, <2>1, <2>2, <2>3, <2>4, <2>5
<1> QED
  BY <1>1, <1>2, <1>3, <1>4, <1>5 DEF Handle

\* Births, deaths and the other player
LEMMA OthersEmphasis ==
  ASSUME TypeInv, Emphases,
         \/ \E v \in Villager : Born(v) \/ Die(v) \/ OtherSelects(v)
         \/ OtherDeselects
         \/ \E a \in Action : OtherActs(a)
  PROVE  Emphases'
<1> DEFINE e == emphasized
           there == SelectedVillager("other")
<1> USE DEF TypeInv
<1>a. UNCHANGED <<cur, sent>>
  BY DEF Born, Die, OtherSelects, OtherDeselects, OtherActs
<1>b. /\ selected \in [Player -> Villager \cup {NoVillager}]
      /\ "other" \in Player /\ \A p \in Player : p = "local" \/ p = "other"
      /\ Living \subseteq Villager /\ life \in [Villager -> {"unborn", "alive", "dead"}]
      /\ e # NoVillager => e \in Living /\ Justified(e)
  BY SelectedLives DEF Player, TypeOK, Emphases, Justified
<1>c. ASSUME emphasized' # NoVillager =>
               /\ emphasized' = e /\ e \in Living'
               /\ \A p \in Player : SelectedVillager(p) = e => selected'[p] = selected[p]
      PROVE  Emphases'
  <2> SUFFICES ASSUME emphasized' # NoVillager PROVE Justified(e)'
    BY <1>c DEF Emphases, Justified, Selecting, IsSelected
  <2>1. Justified(e) /\ e \in Living
    BY <1>b, <1>c
  <2>2. IsSelected(e) => IsSelected(e)'
    BY <1>c, <2>1, SelectionEnds
  <2> QED
    BY <1>a, <1>c, <2>1, <2>2 DEF Justified, Selecting
<1>d. \A m : emphasized' = Unemphasized(m) /\ emphasized' # NoVillager => emphasized' = e /\ e # m
  BY UnemphasizedTypes
<1>1. ASSUME NEW v \in Villager, Born(v) PROVE Emphases'
  BY <1>1, <1>b, <1>c DEF Born, Living
<1>2. ASSUME NEW v \in Villager, Die(v) PROVE Emphases'
  BY <1>2, <1>b, <1>c, <1>d DEF Die, Destroyed, Living
<1>3. ASSUME NEW v \in Villager, OtherSelects(v) PROVE Emphases'
  <2>1. /\ Living' = Living /\ emphasized' = Unemphasized(there)
        /\ selected' = [selected EXCEPT !["other"] = v]
    BY <1>3 DEF OtherSelects, Living
  <2> QED
    BY <1>b, <1>c, <1>d, <2>1
<1>4. CASE OtherDeselects
  <2>1. /\ Living' = Living /\ emphasized' = Unemphasized(there)
        /\ selected' = [selected EXCEPT !["other"] = IF @ \in Living THEN NoVillager ELSE @]
    BY <1>4 DEF OtherDeselects, Deselect, Living
  <2> QED
    BY <1>b, <1>c, <1>d, <2>1
<1>5. ASSUME NEW a \in Action, OtherActs(a) PROVE Emphases'
  <2>1. /\ selected' = [selected EXCEPT !["other"] = NoVillager]
        /\ PerformAction(there, a)
    BY <1>5 DEF OtherActs
  <2>2. /\ emphasized' = Unemphasized(there)
        /\ \A v \in Living : v # there => v \in Living'
    BY <1>b, <2>1 DEF PerformAction, Destroyed, Living
  <2> QED
    BY <1>b, <1>c, <1>d, <2>1, <2>2
<1> QED
  BY <1>1, <1>2, <1>3, <1>4, <1>5

-----------------------------------------------------------------------------
(* The theorems                                                            *)

\* Nothing is selected or sent when the battle starts.
LEMMA Begin == Init => IInv
<1> SUFFICES ASSUME Init PROVE IInv
  OBVIOUS
<1>1. GodsOffered
  <2>1. SubSeq(Gods, 1, 0) = <<>>
    BY SubSeqEmpty
  <2>2. \A i \in 1..Len(Gods) : ~(i <= 0) /\ ~(godHearts[Gods[i]] <= 0)
    BY GodTypes, GodsAssumption
  <2>3. 0 \in 0..Len(Gods) /\ gods = <<>> /\ hearts = 0
    BY GodTypes DEF Init
  <2> QED
    BY <2>1, <2>2, <2>3 DEF GodsOffered
<1>2. TypeOK
  BY EmptySeq, GodsAssumption DEF Init, TypeOK
<1>3. MenusNumbered /\ CommandOfItsMenu
  BY DEF Init, MenusNumbered, CommandOfItsMenu
<1>4. Living = {}
  BY DEF Init, Living
<1>5. WorldInv
  BY <1>4 DEF Init, WorldInv, SelectedWereBorn, SelectionsExclusive, NamesOfTheLiving
<1>6. SelectedVillager("local") = NoVillager
  BY <1>4 DEF SelectedVillager
<1>7. Release /\ Emphases
  BY <1>6 DEF Init, Release, Emphases
<1> QED
  BY <1>1, <1>2, <1>3, <1>5, <1>7 DEF IInv, TypeInv

\* Every step keeps the invariant.
LEMMA Step ==
  ASSUME IInv, [Next]_vars
  PROVE  IInv'
<1> USE DEF IInv
<1>1. CASE UNCHANGED vars
  BY <1>1 DEF vars, store, TypeInv, WorldInv, TypeOK, MenusNumbered, CommandOfItsMenu,
              GodsOffered, SelectedWereBorn, SelectionsExclusive, NamesOfTheLiving, Release,
              GivingUp, Emphases, Justified, Selecting, SelectedVillager, IsSelected, Living
<1>2. CASE Next
  <2>1. TypeInv'
    BY <1>2, KeysTypes, HandleTypes, OthersTypes DEF Next
  <2>2. WorldInv'
    BY <1>2, <2>1, WorldKept DEF TypeInv
  <2>3. Release'
    BY <1>2, KeysRelease, HandleRelease, OthersRelease DEF Next, WorldInv
  <2>4. Emphases'
    BY <1>2, KeysEmphasis, HandleEmphasis, OthersEmphasis DEF Next, WorldInv
  <2> QED
    BY <2>1, <2>2, <2>3, <2>4
<1> QED
  BY <1>1, <1>2

\* The invariant holds in every state.
THEOREM Invariant == Spec => []IInv
BY Begin, Step, PTL DEF Spec

\* Every variable keeps its type, and every open menu has a number of its own
\* (TextSelector, VillagerCommandMenu, HeartView).
THEOREM SelectionTypeCorrect == Spec => []TypeOK
<1>1. IInv => TypeOK
  BY DEF IInv, TypeInv
<1> QED
  BY <1>1, Invariant, PTL

\* A player who has a villager can always give it up (Player.selectVillager and its
\* handlers of actionSelected and canceled).
THEOREM Releasable == Spec => []SelectedCanBeReleased
<1>1. IInv => SelectedCanBeReleased
  <2> SUFFICES ASSUME IInv PROVE SelectedCanBeReleased
    OBVIOUS
  <2> DEFINE v == SelectedVillager("local")
  <2>1. \A m \in GivingUp(v) : m.kind # "select" /\ m.about = v
    BY DEF GivingUp
  <2> HIDE DEF v
  <2>2. Occurs(sent, GivingUp(v)) =>
          \E i \in 1..Len(sent) : sent[i].kind # "select" /\ sent[i].about = v
    BY <2>1 DEF Occurs
  <2> QED
    BY <2>2 DEF IInv, Release, SelectedCanBeReleased, v
<1> QED
  BY <1>1, Invariant, PTL

\* The emphasized villager is being typed, about to be selected, or selected
\* (VillagerSelectionMgr).
THEOREM EmphasisIsJustified == Spec => []EmphasisJustified
<1>1. IInv => EmphasisJustified
  BY DEF IInv, Emphases, Justified, EmphasisJustified, Occurs, Selecting
<1> QED
  BY <1>1, Invariant, PTL

\* A player can type the gods it can pay for and no others (HeartView).
THEOREM GodsAreOffered == Spec => []GodsOffered
<1>1. IInv => GodsOffered
  BY DEF IInv, TypeInv
<1> QED
  BY <1>1, Invariant, PTL

\* No message of this player takes from the other one its villager
\* (handleSelectVillager, handleVillagerAction).
THEOREM NobodyTakesTheOthers == Spec => OtherKeepsVillager
<1>1. ASSUME IInv, Handle PROVE SelectedVillager("other")' = SelectedVillager("other")
  <2> USE DEF IInv, TypeInv, WorldInv
  <2>1. /\ selected \in [Player -> Villager \cup {NoVillager}] /\ "local" # "other"
        /\ life \in [Villager -> {"unborn", "alive", "dead"}]
        /\ NoVillager \notin Villager
        /\ Living \subseteq Villager
        /\ SelectedVillager("local") \in Villager =>
             SelectedVillager("local") \in Living /\ selected["local"] = SelectedVillager("local")
    BY <1>1, SelectedLives, NoVillagerAssumption DEF TypeOK, Player
  <2>2. selected'["other"] = selected["other"]
    BY <1>1, <2>1 DEF Handle, HandleSelect, HandleDeselect, HandleAct, HandleSummon, Refuse,
                      Deselect, Player
  <2>3. CASE life' = life
    BY <2>2, <2>3 DEF SelectedVillager, Living
  <2>4. CASE life' # life
    <3>1. HandleAct
      BY <1>1, <2>4 DEF Handle, HandleSelect, HandleDeselect, HandleSummon, Refuse
    <3> DEFINE here == SelectedVillager("local")
    <3>2. here \in Living /\ selected["local"] = here /\ life' = [life EXCEPT ![here] = "dead"]
      BY <2>1, <2>4, <3>1 DEF HandleAct, WithName, PerformAction, Destroyed
    <3>3. selected["other"] # here
      BY <1>1, <3>2 DEF SelectionsExclusive
    <3>4. selected["other"] \in Living' <=> selected["other"] \in Living
      BY <2>1, <3>2, <3>3 DEF Living
    <3> QED
      BY <2>2, <3>4 DEF SelectedVillager
  <2> QED
    BY <2>3, <2>4
<1>2. ASSUME IInv, UNCHANGED vars PROVE SelectedVillager("other")' = SelectedVillager("other")
  BY <1>2 DEF vars, SelectedVillager, Living
<1> QED
  BY <1>1, <1>2, Invariant, PTL DEF Spec, OtherKeepsVillager
=============================================================================
