------------------------------ MODULE Loopback ------------------------------
(***************************************************************************)
(* A battle on one computer (Aztec.MULTIPLAYER is false): both players'    *)
(* messages go to a LoopbackMessageMgr, which closes a tick every          *)
(* TickInterval of the time the frames take, and every frame the battle    *)
(* handles the ticks closed in it (BattleMessages.processTicks).           *)
(*                                                                         *)
(* The whole of a frame happens on one thread.  It is modelled by the      *)
(* iterations of its loop, so that each closes one tick; no message is     *)
(* sent in between.  What a frame sends while it handles ticks is sent     *)
(* right after it here: it goes to the same, open tick.                    *)
(***************************************************************************)
EXTENDS Integers, Sequences

CONSTANTS
  TickInterval,   \* Aztec.NETWORK_UPDATE_RATE, in units of time
  Message,
  MaxFrame,       \* bound on the time of a frame
  MaxTicks,       \* bound on the ticks of a battle
  MaxFilling      \* bound on the messages of a tick

ASSUME TickAssumption == TickInterval \in Nat \ {0}
ASSUME FrameAssumption == MaxFrame \in Nat

VARIABLES
  nextTickTime,   \* time until the open tick is closed
  filling,        \* messages of the open tick
  filled,         \* closed ticks nobody has taken
  dt,             \* what is left of the time of the frame
  updating,       \* a frame is on its way
  handled,        \* ticks in the order the battle handled them
  log             \* ticks in the order they were closed

loopbackVars == <<nextTickTime, filling, filled, dt, updating, handled, log>>

LoopbackTypeOK ==
  /\ nextTickTime \in 1..TickInterval
  /\ filling \in Seq(Message)
  /\ filled \in Seq(Seq(Message)) /\ log \in Seq(Seq(Message)) /\ handled \in Seq(Seq(Message))
  /\ dt \in Nat
  /\ updating \in BOOLEAN

LoopbackInit ==
  /\ nextTickTime = TickInterval
  /\ filling = <<>> /\ filled = <<>> /\ handled = <<>> /\ log = <<>>
  /\ dt = 0
  /\ updating = FALSE

-----------------------------------------------------------------------------
SendMessage(msg) ==
  /\ ~updating
  /\ Len(filling) < MaxFilling
  /\ filling' = Append(filling, msg)
  /\ UNCHANGED <<nextTickTime, filled, dt, updating, handled, log>>

\* processTicks(d) calls update(d).
Frame(d) ==
  /\ ~updating
  /\ Len(log) + 1 + d \div TickInterval <= MaxTicks
  /\ dt' = d
  /\ updating' = TRUE
  /\ UNCHANGED <<nextTickTime, filling, filled, handled, log>>

LeaveOpen ==
  /\ updating /\ 0 < dt /\ dt < nextTickTime
  /\ nextTickTime' = nextTickTime - dt
  /\ dt' = 0
  /\ UNCHANGED <<filling, filled, updating, handled, log>>

FillTick ==
  /\ updating /\ 0 < dt /\ dt >= nextTickTime
  /\ dt' = dt - nextTickTime
  /\ nextTickTime' = TickInterval
  /\ filled' = <<filling>> \o filled
  /\ filling' = <<>>
  /\ log' = Append(log, filling)
  /\ UNCHANGED <<updating, handled>>

\* ticks without the assignment of a new _filled
HandleTicksAgain ==
  /\ updating /\ dt = 0
  /\ handled' = handled \o filled
  /\ updating' = FALSE
  /\ UNCHANGED <<nextTickTime, filling, filled, dt, log>>

\* get ticks, and the loop of processTicks over them
HandleTicks ==
  /\ updating /\ dt = 0
  /\ handled' = handled \o filled
  /\ filled' = <<>>
  /\ updating' = FALSE
  /\ UNCHANGED <<nextTickTime, filling, dt, log>>

LoopbackNext ==
  \/ \E msg \in Message : SendMessage(msg)
  \/ \E d \in 0..MaxFrame : Frame(d)
  \/ LeaveOpen
  \/ FillTick
  \/ HandleTicks

LoopbackSpec == LoopbackInit /\ [][LoopbackNext]_loopbackVars

-----------------------------------------------------------------------------
(* Properties *)

\* The orders in which n ticks can be handled
Orders(n) == {p \in [1..n -> 1..n] : \A i, j \in 1..n : i # j => p[i] # p[j]}

\* A frame handles the ticks that were closed in it, all of them, each once, and
\* none of an earlier frame again, though the vector they wait in is handed over by
\* reference (LoopbackMessageMgr.ticks); what is sent meanwhile goes to the open tick.
\* So frames that close one tick handle the log in order.  A frame that closes several
\* handles the latest first (unshift), which this leaves open.
TicksHandledOnce ==
  [][IF updating /\ ~updating'
     THEN LET closed == Len(log) - Len(handled)
          IN \E order \in Orders(closed) :
               handled' = handled \o [i \in 1..closed |-> log[Len(handled) + order[i]]]
     ELSE handled' = handled]_loopbackVars
=============================================================================
