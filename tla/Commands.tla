------------------------------ MODULE Commands ------------------------------
(***************************************************************************)
(* The command service of one game: submit_game_command (game_service.rs), *)
(* append_events, store_snapshot and recover_game (journal.rs).  Requests  *)
(* overlap, are sent twice, are sent again after a lost answer, and fail   *)
(* at any step.  What a move does is left to Game and Engine; here a game  *)
(* is the sequence of the commands its events came from.                   *)
(*                                                                         *)
(* Of the database only this is assumed: what a transaction writes becomes *)
(* visible at once when it commits, an update where canonical_revision is  *)
(* the expected one takes effect only if that still holds, and the unique  *)
(* indexes refuse a second row.  Reads see the latest commit, so two reads *)
(* of one transaction may see two different games.                         *)
(***************************************************************************)
EXTENDS Naturals, Sequences, FiniteSets

CONSTANTS
  Commands, Key, Created, MaxEvents,  \* as in CommandLog
  Requests,      \* requests that may be in flight at once
  Idle,          \* a slot without a request
  LastRevision    \* bound: no request is received from this revision on

ASSUME CommandsAssumption == Created \notin Commands
ASSUME EventsAssumption == MaxEvents \in Nat \ {0}
ASSUME RevisionAssumption == LastRevision \in Nat

VARIABLES
  game_journal,  \* its rows by revision
  revision,      \* games.canonical_revision
  accepted,      \* game_commands
  snapshots,     \* game_snapshots: the games stored
  requests       \* what each request in flight has read

rows == <<game_journal, revision, accepted, snapshots>>
commands_vars == <<rows, requests>>

\* The revision of a game is the number of its events.
Games == Seq(Commands \cup {Created})

Event(c, game) == [command |-> c, decided_on |-> game]

\* create_game_for_users_with_rules_in_transaction stores no snapshot.
CommandsInit ==
  /\ game_journal = [r \in {1} |-> Event(Created, <<>>)]
  /\ revision = 1
  /\ accepted = {}
  /\ snapshots = {}
  /\ requests = [q \in Requests |-> Idle]

-----------------------------------------------------------------------------
Goes(q, step) == requests[q] # Idle /\ requests[q].step = step

End(q) == requests' = [requests EXCEPT ![q] = Idle]

\* A client sends what its page was made for: a revision the game has had.
\* Sending again, for the same or a newer revision, is receiving again.
Receive(q, c, expected) ==
  /\ requests[q] = Idle /\ revision < LastRevision
  /\ requests' = [requests EXCEPT ![q] =
       [step |-> "Received", command |-> c, expected |-> expected, game |-> <<>>]]
  /\ UNCHANGED rows

\* load_latest_snapshot: the one of the highest revision, if there is any.
ReadSnapshot(q) ==
  /\ Goes(q, "Received")
  /\ \E game \in (IF snapshots = {} THEN {<<>>} ELSE snapshots) :
       /\ \A other \in snapshots : Len(other) <= Len(game)
       /\ requests' = [requests EXCEPT ![q].step = "Snapshot", ![q].game = game]
  /\ UNCHANGED rows

\* load_events: the rows after the snapshot, in the order of their revisions.
TailAfter(game) == [i \in 1..(revision - Len(game)) |-> game_journal[Len(game) + i].command]

\* recover_game, the comparison with the expected revision, decide_command
ReadTail(q) ==
  /\ Goes(q, "Snapshot")
  /\ LET game == requests[q].game \o TailAfter(requests[q].game)
     IN  \/ /\ Len(game) = requests[q].expected
            /\ requests' = [requests EXCEPT ![q].step = "Decided", ![q].game = game]
         \/ End(q)
  /\ UNCHANGED rows

\* Faulty: only the command ids are compared.
IsDuplicateId(c) == \E row \in accepted : row.command = c

\* The two unique identities of a command: its id and its idempotency key.
IsDuplicate(c) == \E row \in accepted : row.command = c \/ Key[row.command] = Key[c]

\* append_events reads the revision again, then looks for duplicates.
Check(q) ==
  /\ Goes(q, "Decided")
  /\ revision = requests[q].expected /\ ~IsDuplicate(requests[q].command)
  /\ requests' = [requests EXCEPT ![q].step = "Checked"]
  /\ UNCHANGED rows

\* Faulty: every command has one event.
ResultingOne(expected, n) == expected + 1

ResultingRevision(expected, n) == expected + n

\* Faulty: the events are applied to a game recovered after they were appended.
AppliedTwice(game, c, n) == game \o [i \in 1..(2 * n) |-> c]

\* The n events of command c are applied to the game they were decided on.
GameAfter(game, c, n) == game \o [i \in 1..n |-> c]

\* The writes of append_events and store_snapshot take effect together, n
\* events being what decide_command returned.
Commit(q, n) ==
  /\ Goes(q, "Checked")
  /\ LET c         == requests[q].command
         expected  == requests[q].expected
         game      == requests[q].game
         after     == GameAfter(game, c, n)
         resulting == ResultingRevision(expected, n)
         added     == (expected + 1)..(expected + n)
     IN  /\ revision = expected             \* the conditional update
         /\ added \cap DOMAIN game_journal = {}  \* idx_game_journal_game_revision
         /\ ~IsDuplicate(c)                 \* idx_game_commands_game_...
         /\ game_journal' = [r \in DOMAIN game_journal \cup added |->
                               IF r \in added THEN Event(c, game) ELSE game_journal[r]]
         /\ accepted' = accepted \cup
              {[command |-> c, expected |-> expected, resulting |-> resulting]}
         /\ revision' = resulting
         /\ snapshots' = {other \in snapshots : Len(other) # Len(after)} \cup {after}
  /\ End(q)

\* A conflict, a duplicate, a unique index, an error of the database, a lost
\* connection or a crash: the transaction is rolled back.
RollBack(q) == requests[q] # Idle /\ End(q) /\ UNCHANGED rows

CommandsNext ==
  \E q \in Requests :
    \/ \E c \in Commands, expected \in 1..revision : Receive(q, c, expected)
    \/ ReadSnapshot(q) \/ ReadTail(q) \/ Check(q) \/ RollBack(q)
    \/ \E n \in 1..MaxEvents : Commit(q, n)

CommandsSpec == CommandsInit /\ [][CommandsNext]_commands_vars

-----------------------------------------------------------------------------
(* Properties *)

Request ==
  [step : {"Received", "Snapshot", "Decided", "Checked"}, command : Commands,
   expected : Nat, game : Games]

\* Types of the rows and the requests; an accepted command has led to a later
\* revision.
TypeOK ==
  /\ revision \in Nat \ {0}
  /\ DOMAIN game_journal \subseteq Nat \ {0}
  /\ \A r \in DOMAIN game_journal :
       game_journal[r] \in [command : Commands \cup {Created}, decided_on : Games]
  /\ accepted \subseteq [command : Commands, expected : Nat, resulting : Nat]
  /\ \A row \in accepted : row.expected < row.resulting
  /\ snapshots \subseteq Games
  /\ requests \in [Requests -> {Idle} \cup Request]

\* The journal has no gap and no row too many: its revisions are those up to
\* the one of the games row, and each after the first belongs to exactly one
\* row of game_commands, the one of its command.
JournalIsContiguous ==
  /\ DOMAIN game_journal = 1..revision
  /\ \A r \in 2..revision :
       \E row \in accepted :
         /\ row.expected < r /\ r <= row.resulting /\ row.command = game_journal[r].command
         /\ \A other \in accepted \ {row} : ~(other.expected < r /\ r <= other.resulting)

\* The game the journal leads to at revision r
GameAt(r) == [i \in 1..r |-> game_journal[i].command]

\* What is recovered is the game: every snapshot, and every game a command is
\* decided on, is the replay of the journal up to its revision, although the
\* snapshot and the tail are read at different times (recover_game).
RecoveredIsJournal ==
  /\ \A game \in snapshots : Len(game) <= revision /\ game = GameAt(Len(game))
  /\ \A q \in Requests :
       requests[q] # Idle => /\ Len(requests[q].game) <= revision
                             /\ requests[q].game = GameAt(Len(requests[q].game))

\* Overlapping, repeated and failing requests amount to commands accepted one
\* at a time, each decided on the current game and none taken twice.
Log == [r \in 1..revision |-> game_journal[r]]
CommandLogOfGame == INSTANCE CommandLog WITH log <- Log
ImplementsCommandLog == CommandLogOfGame!Spec
=============================================================================
