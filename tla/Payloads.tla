------------------------------ MODULE Payloads ------------------------------
(***************************************************************************)
(* The versions of the stored rows (journal.rs).  A game between two       *)
(* players may have been started, and partly played, under an older        *)
(* release: its rows have payload version 1 or 2 and stay as they are.     *)
(* This release decodes every version into the current events and states,  *)
(* and writes version 3.                                                   *)
(*                                                                         *)
(* The older release itself is not in the repository.  Its rows are taken  *)
(* to be what the conversion of events to version 2 can hold (a winner for *)
(* every resignation, the reason Legacy), decided by the same rules.       *)
(***************************************************************************)
EXTENDS Engine

CONSTANTS
  Classic,       \* initial_rule_profile()
  Generated,     \* a profile a lobby generated
  Unsupported    \* a row this release refuses to decode

\* journal holds the stored rows, snapshot the latest snapshot row.
VARIABLE release    \* payload version the deployed release writes: 2 or 3

payload_vars == <<journal, snapshot, release>>

\* Version 2 has two players, and what is refused is no game.
VersionsAssumption ==
  /\ NumPlayers = 2 /\ Classic # Generated
  /\ Unsupported \notin [rules : {Classic, Generated}, state : State]

NoPlayer == 0
Opponent(p) == 3 - p
Outright(leaders) == IF Cardinality(leaders) = 1 THEN CHOOSE p \in leaders : TRUE ELSE NoPlayer

Row(version, payload) == [version |-> version, payload |-> payload]
Without(record, fields) == [f \in DOMAIN record \ fields |-> record[f]]
With(record, fields) ==
  [f \in DOMAIN record \cup DOMAIN fields |-> IF f \in DOMAIN fields THEN fields[f] ELSE record[f]]

\* A recovered game: its rules, which no event changes, and its state.
Recovery(rules, state) == [rules |-> rules, state |-> state]

-----------------------------------------------------------------------------
(* Rules of a game: RuleProfileV3 *)

GeneratorVersion == 1

\* resolved_rules_checksum: a digest of everything in the profile.  Profiles are
\* valid ones (RuleProfiles); TryFrom validates them once more.
Checksum(profile) == <<"sha256", profile>>

StoredRules(profile) ==
  [profile |-> profile, generator |-> GeneratorVersion, checksum |-> Checksum(profile)]

ReadableRules(stored) ==
  stored.generator = GeneratorVersion /\ stored.checksum = Checksum(stored.profile)

-----------------------------------------------------------------------------
(* Events *)

\* GameEventV2 of a current event: no rules, no leaders, no reason.
EventV2(e) ==
  CASE e.type = "GameStarted"   -> Without(e, {"rules"})
    [] e.type = "GameResigned"  -> With(e, [winner |-> Opponent(e.player)])
    [] e.type = "GameCompleted" ->
         [type |-> e.type, scores |-> e.scores, winner |-> Outright(e.leaders)]
    [] OTHER -> e

EventV3(e) ==
  IF e.type = "GameStarted" THEN [e EXCEPT !.rules = StoredRules(@)] ELSE e

LegacyLeaders(scores) == {p \in DOMAIN scores : \A q \in DOMAIN scores : scores[q] <= scores[p]}

\* The current event of a GameEventV2.
EventFromV2(e) ==
  CASE e.type = "GameStarted"   -> With(e, [rules |-> Classic])
    [] e.type = "GameCompleted" ->
         With(e, [leaders |-> IF e.winner = NoPlayer THEN LegacyLeaders(e.scores) ELSE {e.winner},
                  reason |-> "Legacy"])
    [] OTHER -> e

EventFromV3(e) == IF e.type = "GameStarted" THEN [e EXCEPT !.rules = @.profile] ELSE e

\* decode_game_event refuses other versions, and rules it cannot read.
Readable(row) ==
  /\ row.version \in 1..3
  /\ row.version = 3 /\ row.payload.type = "GameStarted" => ReadableRules(row.payload.rules)

DecodedEvent(row) ==
  CASE row.version = 1 -> row.payload
    [] row.version = 2 -> EventFromV2(row.payload)
    [] row.version = 3 -> EventFromV3(row.payload)

\* load_events; one row that is refused refuses them all.
Loads(after) == \A i \in (after + 1)..Len(journal) : Readable(journal[i])
Loaded(after) == [i \in 1..(Len(journal) - after) |-> DecodedEvent(journal[after + i])]

-----------------------------------------------------------------------------
(* Snapshots *)

StateV2(g) ==
  With(Without(g, {"active_players", "consecutive_passes", "leaders", "completion_reason"}),
       [winner |-> Outright(g.leaders)])

StateV3(rules, g) == [rules |-> StoredRules(rules), state |-> EncodedState(g)]

\* Faulty: the count of passes starts afresh.
StateFromV2WithoutPasses(s) ==
  With(Without(s, {"winner"}),
       [active_players |-> Players, consecutive_passes |-> 0,
        leaders |-> IF s.winner = NoPlayer THEN {} ELSE {s.winner},
        completion_reason |-> IF s.status = "Completed" THEN "Legacy" ELSE "None"])

StateFromV2(s) ==
  With(Without(s, {"winner"}),
       [active_players |-> Players, consecutive_passes |-> s.scoreless_turns,
        leaders |-> IF s.winner = NoPlayer THEN {} ELSE {s.winner},
        completion_reason |-> IF s.status = "Completed" THEN "Legacy" ELSE "None"])

\* load_latest_snapshot: version 2 implies the classic rules.
DecodedSnapshot(row) ==
  IF row.version = 2 THEN Recovery(Classic, StateFromV2(row.payload))
  ELSE Recovery(row.payload.rules.profile, DecodedState(row.payload.state))

SnapshotReadable(row) == row.version = 2 \/ ReadableRules(row.payload.rules)

\* replay of the whole journal.
FullReplay == Recovery(Loaded(0)[1].rules, Replay(Loaded(0)))

\* recover_game
RecoveredGame ==
  IF snapshot = NoSnapshot THEN IF Loads(0) THEN FullReplay ELSE Unsupported
  ELSE LET stored == DecodedSnapshot(snapshot)
           after  == stored.state.revision
       IN  IF SnapshotReadable(snapshot) /\ Loads(after)
           THEN [stored EXCEPT !.state = ApplyAll(@, Loaded(after))]
           ELSE Unsupported

-----------------------------------------------------------------------------
\* A game another release started: the first player is seat 1.
StartRows(s) ==
  LET e == With(Started(s, 1), [rules |-> Classic])
      g == With(Started(s, 1), [rules |-> Generated])
  IN  {Row(1, e), Row(2, EventV2(e)), Row(3, EventV3(g)),
       Row(3, [EventV3(g) EXCEPT !.rules.generator = GeneratorVersion + 1]),
       Row(3, [EventV3(g) EXCEPT !.rules.profile = Classic]),
       Row(4, e)}

PayloadsInit ==
  /\ \E s \in Shuffles : \E row \in StartRows(s) : journal = <<row>>
  /\ snapshot = NoSnapshot
  /\ release \in {2, 3}
  /\ release = 2 => journal[1].version <= 2

\* What the older release decides: its games end for the reason Legacy.
LegacyEvents(events) ==
  [i \in DOMAIN events |->
     IF events[i].type = "GameCompleted" THEN [events[i] EXCEPT !.reason = "Legacy"] ELSE events[i]]

RowsOf(version, events) ==
  [i \in DOMAIN events |->
     Row(version, IF version = 2 THEN EventV2(events[i]) ELSE EventV3(events[i]))]

SnapshotOf(version, rules, g) ==
  Row(version, IF version = 2 THEN StateV2(g) ELSE StateV3(rules, g))

\* One command under the deployed release; whether the older one stored a
\* snapshot with every command is not known.
SubmitCommand(p, cmd) ==
  LET current == RecoveredGame.state
      decided == Decide(current, p, cmd)
      events  == IF release = 2 THEN LegacyEvents(decided) ELSE decided
      after   == ApplyAll(current, events)
  IN  /\ current.revision < MaxRevision
      /\ Legal(current, p, cmd)
      /\ after # ReplayError
      /\ journal' = journal \o RowsOf(release, events)
      /\ \/ snapshot' = SnapshotOf(release, RecoveredGame.rules, after)
         \/ release = 2 /\ UNCHANGED snapshot
      /\ UNCHANGED release

\* This release is deployed; nothing that is stored changes.
Upgrade == release = 2 /\ release' = 3 /\ UNCHANGED <<journal, snapshot>>

PayloadsNext ==
  \/ Upgrade
  \/ /\ RecoveredGame # Unsupported
     /\ \E p \in Players : \E cmd \in GameCommands(RecoveredGame.state, p) : SubmitCommand(p, cmd)

PayloadsSpec == PayloadsInit /\ [][PayloadsNext]_payload_vars

-----------------------------------------------------------------------------
\* Fields of a completed game that a version 2 snapshot does not keep: who
\* was still playing, how many passes in a row were counted and, after a
\* tie, who leads.
LostWhenCompleted(g) ==
  {"active_players", "consecutive_passes"}
  \cup IF Cardinality(g.leaders) > 1 THEN {"leaders"} ELSE {}

\* Old games recover: whatever the releases and versions its rows are from,
\* replaying the whole journal and applying the tail to the snapshot give
\* the same running game under the same rules, and the same result of a
\* completed one; a game whose rules or version this release does not know
\* is refused, and never read as something else.
OldGamesRecover ==
  LET full    == FullReplay.state
      rules   == IF journal[1].version = 3 THEN Generated ELSE Classic
      unknown == \/ journal[1].version > 3
                 \/ /\ journal[1].version = 3
                    /\ journal[1].payload.rules # StoredRules(Generated)
      lost    == IF snapshot # NoSnapshot /\ snapshot.version = 2 /\ full.status = "Completed"
                 THEN LostWhenCompleted(full) ELSE {}
  IN  IF unknown THEN ~Loads(0) /\ RecoveredGame = Unsupported /\ Len(journal) = 1
      ELSE /\ Loads(0) /\ full # ReplayError /\ full.revision = Len(journal)
           /\ FullReplay.rules = rules /\ RecoveredGame.rules = rules
           /\ RecoveredGame.state # ReplayError
           /\ Without(full, lost \cup {"scoreless_turns"})
                = Without(RecoveredGame.state, lost \cup {"scoreless_turns"})

=============================================================================
