----------------------------- MODULE CommandLog -----------------------------
(***************************************************************************)
(* What the command service promises for one game: its accepted commands   *)
(* form one log, each was decided on the game with everything before it in *)
(* the log, and what a client means once (one idempotency key) is in the   *)
(* log at most once.                                                       *)
(***************************************************************************)
EXTENDS Naturals, Sequences

CONSTANTS
  Commands,   \* command ids
  Key,        \* Key[c]: the idempotency key sent with command c
  Created,    \* the command id of the event that starts the game
  MaxEvents   \* events of one command: the move, and the completion it may cause

VARIABLE log  \* the events, each as [command, decided_on]

\* A game is identified by the commands of its events.
GameOf(events) == [i \in 1..Len(events) |-> events[i].command]

Event(c, game) == [command |-> c, decided_on |-> game]

Init == log = <<Event(Created, <<>>)>>

IsNew(c) == \A i \in 2..Len(log) : log[i].command # c /\ Key[log[i].command] # Key[c]

Accept(c) ==
  /\ IsNew(c)
  /\ \E n \in 1..MaxEvents : log' = log \o [i \in 1..n |-> Event(c, GameOf(log))]

Next == \E c \in Commands : Accept(c)

Spec == Init /\ [][Next]_log
=============================================================================
