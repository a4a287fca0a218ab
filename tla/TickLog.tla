------------------------------- MODULE TickLog -------------------------------
(***************************************************************************)
(* What lockstep play rests on: one log of ticks, written by the server,   *)
(* and readers who handle it in order from the point where they joined,    *)
(* each tick once.  Lockstep.tla implements it.                            *)
(***************************************************************************)
EXTENDS Integers, Sequences

CONSTANTS Client, Tick

VARIABLES
  log,      \* all ticks
  start,    \* how many there were when a client joined, -1 before that
  handled   \* the ticks each client has handled

vars == <<log, start, handled>>

Init ==
  /\ log = <<>>
  /\ start = [c \in Client |-> -1]
  /\ handled = [c \in Client |-> <<>>]

Publish ==
  /\ Len(log') = Len(log) + 1
  /\ SubSeq(log', 1, Len(log)) = log
  /\ log'[Len(log) + 1] \in Tick
  /\ UNCHANGED <<start, handled>>

Join(c) ==
  /\ start[c] = -1
  /\ start' = [start EXCEPT ![c] = Len(log)]
  /\ UNCHANGED <<log, handled>>

\* A client catches up by one tick or by several.
Handle(c) ==
  /\ start[c] # -1
  /\ \E n \in 1..Len(log) :
       /\ n > start[c] + Len(handled[c])
       /\ handled' = [handled EXCEPT ![c] = SubSeq(log, start[c] + 1, n)]
  /\ UNCHANGED <<log, start>>

Next == Publish \/ \E c \in Client : Join(c) \/ Handle(c)

Spec == Init /\ [][Next]_vars
=============================================================================
