----------------------------- MODULE Matchmaking -----------------------------
(***************************************************************************)
(* What the matchmaker promises its players, without events, objects or    *)
(* listeners: at most one player waits; whoever searches next is put       *)
(* together with it; a game gets two different players and keeps them; and *)
(* nobody stops waiting without an opponent unless it has left.            *)
(* MatchServer.tla implements it.                                          *)
(***************************************************************************)
EXTENDS Naturals, Sequences

CONSTANTS Player, Game, NoGame

VARIABLES
  waiting,  \* the game somebody waits in, or NoGame
  players,  \* of each game, in the order they came
  left      \* players who have left for good

vars == <<waiting, players, left>>

Init ==
  /\ waiting = NoGame
  /\ players = [g \in Game |-> <<>>]
  /\ left = {}

\* Nobody waits: the player waits in a game nobody has played.
Open(p) ==
  /\ waiting = NoGame
  /\ \E g \in Game : /\ players[g] = <<>>
                     /\ players' = [players EXCEPT ![g] = <<p>>]
                     /\ waiting' = g
  /\ UNCHANGED left

\* Somebody else waits.
Meet(p) ==
  /\ waiting # NoGame
  /\ \E q \in Player : /\ players[waiting] = <<q>>
                       /\ q # p
  /\ players' = [players EXCEPT ![waiting] = Append(@, p)]
  /\ waiting' = NoGame
  /\ UNCHANGED left

Leave(p) ==
  /\ left' = left \cup {p}
  /\ UNCHANGED <<waiting, players>>

\* The game of a player who has left is given up.
GiveUp ==
  /\ waiting # NoGame
  /\ \E p \in left : players[waiting] = <<p>>
  /\ waiting' = NoGame
  /\ UNCHANGED <<players, left>>

Next == GiveUp \/ \E p \in Player : Open(p) \/ Meet(p) \/ Leave(p)

Spec == Init /\ [][Next]_vars
=============================================================================
