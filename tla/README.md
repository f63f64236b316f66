# A formal model of wwmtf

wwmtf is a multiplayer word game: a Rust domain crate (`packages/game_domain`)
with the rules as a pure event-sourced aggregate, and an application crate
(`packages/app`) with accounts, lobbies, persistence, projections and live
updates around it. This directory holds TLA+ modules that model both, TLC
configurations that check them on small instances, and TLAPS proofs of most of
what is checked for every instance. Source paths below are relative to `src/`.

## 1. The system

```
 browser ──HTTP──> routes.rs ──┬─> lobbies / challenges / invitations ─┐ create game
   ▲                           ├─> oidc_attempts, external_identities, │
   │                           │   google_accounts, sessions, profiles │
   │                           └─> shared_state_security (dispatcher) ─┤
   │ events                        │  ▲                                ▼
   └───────────────────────────────┘  │ views         game_service ─> journal ─> game_domain
                                      └── presentation <── projections ◄──┘ (same transaction)
```

Every HTTP request is an asynchronous task; every database call is an await.
Tasks interleave at the awaits. State that is shared is in the database, and
in the dispatcher's registry of subscribers behind a lock.

| Component (source) | State | Operations | What is hard | What makes it correct |
|---|---|---|---|---|
| Rules of the game (`game_domain/src/{engine,gameplay,model}.rs`) | status, active players, turn, board, racks, bag, scores, pass counter, leaders, revision | play, exchange, pass, resign | rack refills from a bag that runs short; resignations change turn order and the number of passes that ends the game; settlement of scores | no tile is lost or doubled; the turn is on someone who can act; endings are neither missed nor early; scores settle once |
| Event-sourced aggregate (`engine.rs`, `gameplay.rs`, `journal.rs` encoding) | journal of events, snapshot | decide a command into events, apply, encode, recover, replay | the decision predicts draws that the application insists on; a command may be two events | what is accepted applies; journal alone and snapshot plus tail give the same game; the stored game behaves as the rules say |
| Command service (`game_service.rs`, `journal.rs`) | `games`, `game_journal`, `game_commands`, `game_snapshots` | submit a command in one transaction | overlapping submissions, retries after a lost answer, failures between any two statements | accepted commands form one log, each decided on everything before it and none taken twice |
| Lobbies (`lobbies.rs`) | lobby row with a revision, members with seats, invitations | create, join, invite, accept, decline, update, leave, cancel, start | each request reads, checks, then writes under a conditional update | seats stay compact and ordered; the lobby starts once, with its members |
| Challenges, shareable invitations (`challenges.rs`, `invitations.rs`) | their rows | create, accept, decline, cancel; create, redeem, revoke, expiry | answers that cross | one game per offer that was taken up, of the right two |
| Projections (`projections.rs`) | summaries, checkpoints, history, participants, scores, totals | rebuild with every command, repair of missing rows by a dashboard | the repair reads before its transaction | rows describe one revision, and the current one |
| Live updates (`shared_state_security.rs`) | registry, dashboard counter; queues and pages outside | command, publish, refresh, subscribe | publications overtake each other and race with subscriptions | an open page comes to show the committed state |
| Sign-in (`routes.rs`, `oidc_attempts.rs`, `external_identities.rs`, `google_accounts.rs`, `sessions.rs`) | attempts, identities, users, passwords, sessions | start, callback, migrate, resolve, log out, cleanup | a callback is some ten awaits, and callbacks overlap with themselves and with migrations | one account and one way to sign in for everybody; sessions are for the identity Google verified |
| Profiles (`profiles.rs`) | owner and value of name and picture | settings, synchronisation at sign-in | read, then written later | what the user owns is what the user gave |
| Placement (`gameplay.rs`) | board and rack | analyse a draft, play it, guide the next tile | the same words and score must come out of the form, the command and the history | a play is accepted exactly when it is legal, for its score; the board stays a crossword |
| Rule profiles (`rules.rs`, policy in `lobbies.rs`) | settings of a lobby | configure, generate a profile, validate | other board sizes scale the premiums; u8 quantities, u32 scores | accepted settings make playable rules whose scores stay in range |
| Stored versions (`journal.rs`) | journal and snapshot rows of payload versions 1 to 3, pinned rules | decode, deploy a release | a game lives across releases | old games recover as the same game, unknown rows are refused |
| Turn drafts, move plans, rack order (`routes.rs`, `move_plans.rs`, `rack_preferences.rs`) | a draft in each page, one stored plan, one stored order of the rack | compose, rearrange, submit, reload | each request reads game, order and plan one after the other, in two tabs | a page shows the whole rack and plans what is possible; a turn is what its page showed |
| Word definitions (`definitions.rs`) | cached rows with a lifetime, a lock per word | look up | requests that wait for the lock and for the provider | a stored answer is kept for its lifetime |
| Rendering, startup, migrations, metrics, deployment | | | | not modelled (section 8) |

`PROJECT.json` lists the same components with their status, the hazards of the
code at their lines with the properties that watch them, and for every
definition the lines it is translated from.

## 2. Modules

| Module | Models | Extends / uses |
|---|---|---|
| `GameRules` | the pure helpers of the rules: turn order, draws, settlement | |
| `Game` | one game, one step per accepted command | `GameRules` |
| `Engine` | decision, events, storage, recovery | `GameRules` |
| `EngineProperties` | its properties, and the refinement of `Game` | `Engine`, `Game` (instance) |
| `Payloads` | rows of several versions and the change of release | `Engine` |
| `Placement` | drafts, words, scores, guidance on a board | |
| `RuleProfiles` | classic and generated profiles, validation, policy | |
| `CommandLog` | abstract: one log of commands, each accepted once | |
| `Commands` | the command service under overlapping requests | `CommandLog` (instance) |
| `Lobby` | one lobby under overlapping requests | |
| `Offers` | challenges and invitations under overlapping requests | |
| `Projections` | rebuild and repair of the derived rows | |
| `LiveUpdates` | dispatcher, publications, subscriptions | |
| `TurnPage` | pages, plans and rack orders of one player in several tabs | |
| `Definitions` | the cache of definitions and its locks | |
| `Profiles` | operations on a profile | |
| `SignIn` | attempts, callbacks, accounts, sessions | `Profiles` |
| `RulesProofs` | lemmas about turn order, draws and settlement | `GameRules` |
| `GameProofs` | theorems about `Game` | `RulesProofs`, `Game` |
| `EngineProofs` | theorems about `Engine`, its refinement of `Game`, and `Payloads` | `RulesProofs`, `EngineProperties`, `Payloads` |
| `CommandsProofs`, `LobbyProofs`, `SignInProofs` | theorems about the module they are named for | that module |
| `OffersProofs` | theorems about `Offers`, `Placement` and `RuleProfiles` | these |
| `PagesProofs` | theorems about `LiveUpdates`, `Projections`, `Definitions` and `TurnPage` | these |
| `MC*` | constants, symmetry, bounds and parts for TLC | |

Some MC modules put components side by side that share no state: `MCCommands`
(`Commands`, `Payloads`), `MCOffers` (`Offers`, `Placement`, `RuleProfiles`),
`MCPages` (`LiveUpdates`, `Projections`), `MCGame` (`Game`, `TurnPage`, `Definitions`).
A variable `part`, chosen at the start and never changed, says which of them a
behaviour is about; the others stay in one state. Such a run explores the sum
of its parts, not their product.

Definitions marked *Faulty* are not part of any model. Each is a plausible bug
(a dropped guard, an off-by-one, a missing reset) that replaces the definition
after it to see that a property notices; the pairs are the mutants in
`PROJECT.json`.

### How state and actions correspond to the code

**Game.** The variables are the fields of `GameState`. A tile is its id (the
code compares ids only). A rack is a set, its order is a private preference; a
bag is a sequence drawn from its end, as the `Vec` is. `Play`, `Exchange`,
`Pass` and `Resign` are the four arms of `decide_command`, each with the
application of the events it decides, the completion event included: one
command takes effect in one transaction. `prepare_play` (geometry, dictionary
and scoring) is abstracted to "some tiles of the rack are laid for some score
of `MoveScores`"; it reads neither bag nor turn nor another rack, and is the
subject of `Placement`. A resigned player keeps their rack, as in the code.

**Placement.** A word is the sequence of its letters, a draft a sequence of
placements as a form sends it. `PreparePlay` is `prepare_play` with the tests of
`candidate_tiles` in their order, `AnalyzePlay` the rejection of unknown words,
`AnalyzeCommittedPlay` what the move history is made with, `PlacementGuidance`
what the page highlights. `PlaysAreJudged` compares them, for every draft in
every reachable position, with the rules put declaratively: the stretches of
tiles a reader sees, connectedness, and a score summed over those stretches.
The board is reached by playing, not enumerated.

**RuleProfiles.** The classic layout and distribution are the data of
`initial_rule_profile`; generated profiles scale it as the code does, and
`Validates` has the score bounds. `Configure` and `StartGame` are what a lobby
does with them.

**Engine.** `Decide*` return the events, `ApplyEvent` is `apply_event` with its
checks (`ReplayError` when one fails), `EncodedState` and `DecodedState` are
the version 3 snapshot, `Recovered` is `recover_game`. The refinement of `Game`
reads every variable off the recovered state. The snapshot does not keep the
legacy field `scoreless_turns`, which no rule reads: replay and recovery may
differ in it after a resignation, and `ReplayGivesTheGame` compares the rest
(PERSISTENCE.md:27 asks for identical states).

**Payloads.** Rows carry their version. `EventFromV2`, `EventFromV3`,
`StateFromV2` and `DecodedState` are the decoders; `Readable`, `SnapshotReadable`
and `ReadableRules` (the pinned rules and their checksum) say what they refuse. A
recovered game is its rules and its state (`Recovery`). Snapshots of version 1,
which neither of the two releases writes, are left out. A version 2 snapshot does not keep who was active, the
pass counter of a completed game or who leads after a tie;
`LostWhenCompleted` names what recovery may therefore lose once a game is over,
and `OldGamesRecover` compares all the rest.

**Commands.** A game is identified by the commands of its events, so its
revision is the length. A request is five steps: received; snapshot read; tail
read, compared with the expected revision and decided; revision and duplicates
checked; committed. In between anything may happen, and at every step the
request may be rolled back (an error, a lost connection, a crash). A retry is
another request with the same command or the same idempotency key. Writes of
one transaction become visible at the commit, where the conditional update and
the unique indexes are evaluated.

**Lobby, Offers.** An operation is `Begin...` (reads and checks) and
`Commit...` (the conditional update and the writes behind it). What
the code does in one statement is one action (`Close`, `Revoke`, `Decline`).
`Compacted` has both renumbering passes of `leave_lobby`. `create_challenge`
is not a transaction and has two independent steps.

**Projections.** `Submit` has the rebuild, being in the same transaction; a
repair is `BeginRepair`, `ReadState`, `ReadEvents`, `Write`.

**LiveUpdates.** A handler is a command (`Commit`, `ReadDashboard` for each
member, `Publish`) or a refresh (`Refresh`, `ReadForRefresh`, `SendRefresh`);
a subscription is `Register`, `Load`, `SendInitial`. The client, outside
the repository, keeps the event of the highest revision.

**TurnPage.** `Open`, `Compose` and `SubmitTurn` post a form; the request then
reads the game, the rack order and the plan in steps of their own (`ReadGame`,
`ReadOrder`, `ShowStored`; a plan that fails to load counts as none, so that an
empty draft is shown, and may be stored), edits the draft (`Handle`, with `ReconcileDraft` and
`Edited`), stores the order or the plan (`SaveOrder`, `PersistDraft`), or commits
(`CommitTurn`, `RejectTurn`, `ClearPlan`). An answer may be lost at any of them
(`Lose`); the opponent's turns (`OthersMove`) fall between any two.

**Definitions.** A lookup looks into the cache, waits for the lock of its word,
looks again, calls the provider and stores the answer; it carries the time of
its arrival all the way. Requests may be dropped at every await (`Abandon`).

**SignIn, Profiles.** A callback is claimed, exchanged, and then goes through
`FindAccount`, `SynchronizeProfile` or `CreateAccount` or `AdoptWinner`,
`CreateSession` (or `Migrate`), `ResolveSession`, the avatar and `Consume`, and
may fail or crash at each. Google is external and answers with any identity or
an error. Cleanup removes what is expired or consumed when a login starts. A
migration needs a password proved before (`ProvePassword`), and sessions expire
(`ExpireSession`).

## 3. Runs

All runs are complete searches of their instances.

| Run | Instance | Shows |
|---|---|---|
| `game` | 3 players, 8 tiles, racks of 2, two shuffles, 7 revisions; turn pages with racks of 2 from 3 tiles with a blank, 2 squares, 4 clicks in one tab or up to 2 in two, 4 revisions; and one word, 3 requests, 4 lookups, times to 5 | Tiles are conserved, racks stay full while the bag lasts, the turn is on a player who can act, endings are not missed, resigned players stay out, exchanges really exchange; current pages show the rack whole and plan what is possible, drafts are coherent, a turn is what its page showed; definitions live out their time. |
| `engine` | 3 players, 5 tiles, racks of 1, 7 revisions | What is accepted applies; journal and snapshot agree; play is round robin; a pass ending has the full rounds of everybody active; final scores settle what was earned; the stored game implements `Game`. |
| `commands` | 3 requests, 3 commands, two of them one intention, commands of 1 or 2 events; and a game of 2 players with rows of every version, 5 revisions | The journal is contiguous and each event belongs to one accepted command; every recovered game is a prefix of the journal; the service implements `CommandLog`; old games recover. |
| `lobby` | 5 users, a deployment limit of 4, 2 requests in flight | Seats compact, one start with the members in order, nobody member and invited, the limit kept, order kept. |
| `lobby_capacity` | the same | Violation: more members than `max_players`. |
| `offers` | 3 users, 2 challenges, 1 invitation, 2 requests; a board of 3 by 3 with 4 tiles (a blank among them) and 4 words; settings of every size to 65, with 5 numbers of tile sets and 3 of players | One game per offer taken up, of the right two, and outcomes are final; the board stays a crossword, every draft is judged as the rules say, guidance is exact; accepted settings are playable. |
| `pages` | 1 game, a page and a dashboard, 2 handlers; and 2 games with 2 repairs | A live game page shows the committed game when nothing is in flight, and catches up again and again; rows of a game describe one revision it has had. |
| `projections_stale` | 2 games, 2 repairs | Violation: a repair puts an older revision back. |
| `live_dashboard` | 2 games, a dashboard, 1 handler | Violation: a dashboard keeps an older view. |
| `signin` | a legacy and 2 new users, 2 identities, 2 attempts, 2 callbacks | One way to sign in per account, sessions earned, migration ends old sessions. |
| `custom_name` | 1 user, 2 attempts, 1 callback | Violation: a custom name is overwritten. |
| `own_picture` | the same | Violation: Google's picture is put over one the user set or removed. |

A run whose properties are few and strong does not list its type invariant
separately: `TypeOK` (`RowsTyped` in `Projections`) is the first conjunct of
`SeatsAreCompact`, `GamesMatchOffers`, `GamePagesConverge`,
`RowsDescribeOneRevision`, `OneWayToSignIn` and `ReplayGivesTheGame`. Types of
`Commands` are proved (`RowsHaveTypes`).

### Why the bounds are enough to meet the cases

- `game`: two tiles stay in the bag after the deal, so exactly one exchange is
  possible and refills run short within three plays; three players are the
  fewest for which a resignation leaves a game running; seven revisions reach
  pass endings after resignations. `engine` has racks of one tile, so that a
  rack-out, an exchange, a pass ending and resignations fit in seven events.
- `commands`: three requests allow two that overlap and a third that commits
  between their reads; two commands with one key are a retry under a new id.
  Revision 5 leaves room for two commands of two events.
- `lobby`: one user more than the limit, two requests that overlap, and
  settings with each kind of first player. `offers`: two answers to one offer
  cross, and a second challenge of the same pair exists.
- `commands`, versions: classic, generated, tampered and unknown start rows; a
  release that may change between any two commands; racks of one tile, so that
  rack-outs, passes to the end and resignations happen under both releases.
- `offers`, board: three squares in a row hold main words, words across, gaps,
  extensions at both ends and a full rack; premiums of both kinds; a score bound
  low enough that some plays overflow it. Profiles: every size the
  default policy accepts, for one tile set, for 21, the most whose quantities stay
  in a `u8`, and for 22, which a wider policy would accept; the two numbers of
  players between which one set stops filling the racks, and the values just
  outside the policy.
- `game`, turn pages: a rack of two with a third tile to draw makes every order
  and every stale tile; two tabs need only two clicks between them (one when the
  opponent is to move at the start), on top of a plan from an earlier visit,
  because one tab explores the longer sequences. Definitions: lifetimes of 2 and
  3 in 5 units let a row expire while requests wait.
- `pages`, rows: two repairs and a command suffice for every order of reads
  and writes of one game; the second game shows that they do not touch.
- `pages`, events: two handlers publish out of order. A second game changes nothing for
  a game page; the dashboard run has two.
- `signin`: two callbacks are the fewest that race for one identity; the second
  identity and the legacy user let a migration race with a first login. Of two
  attempts, one can give its user a session and settings to change, and the
  other race with them.

Bounds are constants that appear in a guard (`MaxRevision`, `LastRevision`,
`MaxDashboard`) or finite sets of ids (`Requests`, `Slots`, `Attempts`, ...).
Symmetry is used where the ids are interchangeable, and never in the run that
checks liveness.
Deadlock is not checked where the system may stop: a completed game takes no
command, a closed lobby no request. In `game` the end of a game is a step of its
own (`GameOver`), so that there a deadlock would be a game or a page that is stuck.

## 4. Assumptions about the environment

- `Lobby`, `Offers`, `Commands`: of the database, only that a commit is atomic,
  that an update with a condition takes effect only where the condition holds,
  and that unique indexes (`migrations.rs`) refuse a second row. Transactions
  are not assumed to be serialised. `Commands` does not even assume that a
  transaction reads one snapshot, but `Lobby` does: an operation reads the row of
  the lobby and its members in one step (`Begin`), where `lobbies.rs` has two
  queries of one transaction. SQLite and Turso give a transaction such a snapshot.
- `Projections`: writing transactions are serialised (SQLite has one writer).
- `SignIn`: a statement or transaction is atomic, and the unique indexes on
  `(issuer, subject)` and `(user, issuer)`. A request is taken to come when its
  attempt is claimed, for the comparison with the expiry.
- `Payloads`: the older release is not in the repository. Its rows are taken to
  be what the conversion to version 2 can hold, decided by the same rules; whether
  it stored a snapshot with every command is left open. `VersionsAssumption` (two
  players, which is all version 2 has; the classic rules are not generated ones;
  a refusal is not a game) is evaluated by TLC in `MCCommands`.
- `RuleProfiles`: the bound of a score is set to 2^31 - 1, where TLC's integers
  end; a profile within it is within u32. `ScoreAssumption` asks for no more than
  that, and `PolicyAssumption` for what `GameCreationPolicy::new` lets through.
- `TurnPage`: the rules of a play are `Placement`'s; here a play that fits may
  still be refused for its words. One player composes, and everybody else is one
  opponent whose turns take squares and pass the turn.
- `LiveUpdates`: queues keep their order, `next_dashboard_revision` and the send
  behind it are one step, every user plays every game, and subscribers are
  authorised.

**Fairness** is assumed in `LiveUpdates` only. Each handler in flight and each
subscription that loads is weakly fair: the runtime polls every task that can
go on, and these tasks wait for nothing but the database. Failures,
disconnections and new commands are not fair. Strong fairness is not needed. The
liveness property therefore excuses exactly the case in which the publication
of the latest revision failed.

## 5. Findings

1. **Capacity** (`lobby_capacity`). `update_lobby_settings` accepts a
   `max_players` below the number of members (`lobbies.rs:512`), and
   `start_lobby` does not look: a lobby "for two, including you" seats three.
2. **Stale repair** (`projections_stale`). The repair reads state and events
   before its transaction (`projections.rs:681`). A command in between is undone
   in the derived rows; if it completed the game, its scores are gone and no
   later command brings them back.
3. **Dashboards** (`live_dashboard`). Events of one dashboard carry revisions of
   different games and of a counter (`shared_state_security.rs:338` and `:166`),
   so the highest revision is not the newest view. (The comment that
   revision-aware clients converge stands in the game branch of
   `subscribe_channel`; the dashboard branch sends with the same rule.)
4. **Custom name** (`custom_name`). `synchronize_google_profile` decides on a
   profile it read earlier (`profiles.rs:300`) and overwrites a name set in
   between.
5. **Own picture** (`own_picture`). `set_google_avatar` (`profiles.rs:518`) looks
   at the source, normalises the image and stores it unconditionally. A picture the
   user sets in between is replaced, one the user removes comes back, and the
   source is Google's again, so that later sign-ins go on. `profiles.rs:507`
   promises to store "only while the avatar remains Google-owned", and
   `profiles.rs:417` that a removal is remembered "so provider login cannot
   restore it". The property looks at the source in the state before each step.

Behaviours that the models contain and that no document settles: a
`create_challenge` pair can exist twice; a declined lobby invitation can never be
renewed; a lobby whose chosen first player has left cannot start until its
settings change; after an error behind the commit the page says that the turn
could not be persisted; a page whose game changed while its rack was rearranged
is shown with an unreconciled draft (the exception in `PlansFitTheGame`).
Presentation explains the end of a game by "Resignation" whenever anybody
resigned, although others played on to another ending (`presentation.rs:454`);
it only reads, and no module has it. The comment of `complete_legacy_google_migration` says
that the Google link survives a failing credential transition, whereas the code
rolls all of it back; the model follows the code.

## 6. Proofs

TLAPS checks the eight proof modules to the last leaf. TLC checks the same
formulas on the instances above; the theorems hold for every value of the
constants that satisfies the named assumptions, and none uses a bound of the
exploration.

### The game (`GameProofs`)

Proved, for any number of players from two, any finite set of tiles, any rack
size, exchange threshold, pass rounds and points: `TypeCorrect`,
`TilesAreConserved`, `RacksStayFull`, `TurnStaysPlayable`,
`EndingsAreNotMissed` as invariants; `ResignedStayOut` and `ExchangesAreReal` as
properties of every step. The assumptions on the constants, named in
`GameRules` and `Game`, are what `initialize_game` and
`RuleProfile::validate` refuse to violate; a shuffle is any order of the tiles
that deals every rack.

The inductive invariant `IInv` is `TypeOK`, `TilesConserved`, `TurnIsPlayable`,
`RacksFit`, `RacksFullWhileBagLasts` and `EndIsNotMissed`. None of them is
inductive alone:

- a play refills the rack from the bag, and that this keeps the tiles apart
  needs `TilesConserved` and the distinctness of the bag;
- that a rack is empty only in a completed game needs racks that are full while
  the bag lasts, and racks that are never over-full (`RacksFit`, the one part
  that no run checks by itself);
- that the next turn is on somebody else who is active needs two active
  players, which a running game has because the resignation of the last but one
  ends it (`TurnIsPlayable`).

`TurnPassesOn` says by itself what `advance_turn` does: the next turn is on an
active player, nobody active is skipped, and it comes back to the same player
only when nobody else is active.

The lemmas carry the invariant in this order: `FirstSeat` and `NextTurnIsActive`
(the turn, by the least seat that is active), `DrawSplitsBag`, `PutBack` and `DealSplitsShuffle` (what
drawing, returning and dealing do to the bag), all of `RulesProofs`, then one
lemma per action (`PlayKeepsInv`, `ExchangeKeepsInv`, `PassKeepsInv`,
`ResignKeepsInv`).

### The event-sourced game (`EngineProofs`)

Proved, for the same constants: `JournalIsEnough` (replaying the journal and
applying the tail to the snapshot give the same game), `DecisionsApply` (what
`decide_command` accepts, `apply_event` accepts), `JournalImplementsGame` (the
refinement of `Game`, with the recovered state as the mapping),
`FinalScoresSettle`, and, as facts about the whole journal, `GameIsRoundRobin`
and `PassEndingsAreComplete`.

A replay is a recursive function over the journal. That such a function exists,
and what it is on one event more, is proved from its definition by the least
index at which it would fail (`ReplayOfNothing`, `ReplayOfOneMore`): no induction
rule is used. The rest is organised as:

- what a decision appends is one event, or one event and the completion, and
  applying it to a sound game gives a sound game: one lemma per event;
- the invariant `Stored`: the journal replays to a game of its revision, and the
  snapshot is that game but for `scoreless_turns` (`SameGame`), which no decision
  and no check reads (`SameGameGoesOn`);
- soundness of the recovered game (`Sound`: its tiles are apart, no rack is too
  large, and a running game has a playable turn), kept by every command;
- `Settled` for the scores: what is left on the racks and what was earned, at
  the last event before the completion;
- `InTurn` for the histories: rounds end where the seat numbers wrap around
  (`Rounds`), turns within a round ascend (`InOrder`), and the counter of passes
  is the length of the run of passes that ends the journal (`PassRun`), so that
  an ending by passes is preceded by that run (`PassEndingIn`).

### Stored versions (`EngineProofs`)

Proved, for any tiles, shuffles, rack sizes, pass rounds and lengths of the
journal, and for two players: `OldGamesAreRecovered`. The games are those that
began under either release and were continued under both, in any mixture of
rows; `VersionsAssumption` is a hypothesis of this theorem only, the others of
the module are for any number of players. The argument compares the stored rows
with a journal of current events that is never stored:

- the rows say such a journal (`RowsOfGame`): each can be read, and decodes to an
  event that is applied alike (`Alike`), although version 2 keeps one winner for
  the leaders and no reason; hence the replay of the rows is the replay of the
  journal (`RowDecodes`, `AlikeReplay`, `RowsReplay`);
- another readable row applies to what is recovered, with or without a snapshot
  (`RecoveryGrows`, `ToldGrows`), so a command of either release goes through
  (`DecidedByRelease`, `CommandTold`);
- a snapshot decodes to the game it was taken of (`SnapshotDecodes`,
  `StateV2Decodes`). Version 2 does not store the counter of passes: it is read
  back from `scoreless_turns`, and that these two agree in a running game of two
  is an invariant of its own (`Even`), because the only step that parts them
  ends the game.

The invariant `OldGames` is then that the stored rows are of a game that is read
(`ReadGame`: it is recovered under its rules, a running game being exactly the
replay, a completed one but for what its snapshot does not keep) or of a game
that is refused as a whole (`RefusedGame`).

### The command service (`CommandsProofs`)

Proved, for any number of requests, commands, keys and events of a command:
`RowsHaveTypes`, `JournalStaysContiguous`, `RecoveryIsReplay`, and
`ServiceImplementsLog`, the refinement of `CommandLog` by the committed journal.
The bound `LastRevision` is not used. The invariant adds two facts to the checked
properties: a request that has decided did so on a game of the revision it
expects (`DecidedOnExpected`), and no row of `game_commands` leads beyond the
game (`AcceptedInThePast`). At the commit the conditional update finds the
revision the request expects, so the game it has read is the whole journal
(`CommitEffect`); its events continue it (`CommitKeepsTypes`, `Continued`), the
duplicate check makes the command new, and the step is `Accept` of `CommandLog`
(`CommitAccepts`). All other steps touch one request (`OneRequest`) and stutter.

### Lobbies (`LobbyProofs`)

Proved, for any users, limits and requests in flight: `SeatsStayCompact`,
`StartSeatsTheMembers`, `JoiningEndsInvitations`, `PolicyIsKept`,
`MembersKeepTheirOrder`. The argument is optimistic concurrency control: a
request that is to commit has read a revision, and as long as the row still
carries it, everything the request checked is still so (`ReadsAreCurrent`).
Every commit advances the revision, so the other requests lose that claim and
will not write. The rest is about numberings from 0: those who stay after a
leave, each moved up by the number of leavers before, are numbered from 0 again,
in the same order.

### Challenges and invitations (`OffersProofs`)

`OneGamePerOffer` and `AnswersAreFinal`. The invariant adds what a request in
flight has read of its offer (`ReadsAreTrue`: the two users never change), and
counts: the games are as many as the offers taken up, so a step that adds a game
must take up exactly one offer that was not taken up before.

### Placement (`OffersProofs`)

Proved, for any board, premiums, tiles, rack and dictionary within the
assumptions: `BoardInvariant` and `BoardsAreCrosswords` (the board that playing
reaches is a crossword), `DraftsAreJudged` (for every draft, `PreparePlay`
accepts exactly what is legal as a reader would put it, for the score a reader
would sum up, and the form, the command and the history agree), `GuidanceHelps`.
The inductive invariant is only that squares and tiles are typed and the board
is a crossword; the work is in the equivalence of the two descriptions of a play:

- words. What `read_word` walks from a square is the maximal run through it
  (`WordIsRun`), runs through one square coincide (`OneRun`), and the words the
  code collects are the runs that hold a new tile (`WordsAreNewRuns`);
- connection. A stretch of tiles lies in one connected part
  (`StretchStaysInPart`), so a play that touches keeps one piece
  (`PlayKeepsOnePiece`);
- the tests of `candidate_tiles`, `validate_geometry` and the dictionary are
  legality (`ShapeIsLegal`, `WordsAreLegal`, `TestsAreLegality`,
  `DraftsAccepted`);
- scores. The code multiplies and adds along a line and rejects an overflow at
  any step; the reader sums over squares. Sums and products over finite sets are
  characterised by a least set at which they would fail (`FoldExists`,
  `FoldTakesAny`, `FoldByMembers`, `SumOfSums`, `SumIsAbove`,
  `ProductIsPositive`), letters and multipliers agree (`LettersAgree`,
  `MultipliersAgree`), and so do a word (`WordScores`) and the play
  (`ScoresAgree`).

The proof attempt found what the agreement rests on, and these became assumptions
of `Placement` that TLC evaluates: no word of one letter
(`DictionaryAssumption`, true of `data/enable1.txt`; otherwise a single tile
would be a word for the dictionary, and none for the geometry), and multipliers
of two and more whose product along a line stays in range (`PremiumAssumption`,
which `RuleProfile::validate` and `validate_score_bounds` enforce; otherwise the
code's product could overflow where the sum does not).

### Rule profiles (`OffersProofs`)

`SettingsArePlayable`: for every policy and every number of players, sizes of 1 to
255 and 1 to 255 tile sets, a start makes a valid profile or is refused for one of
two reasons (too few tiles, or a quantity beyond `u8`, from 22 tile sets on). The
invariant is only that `started` is what `Outcome` says of the settings; the work
is in bounding what the generated layouts can score, since no enumeration of sizes
is left to do it:

- the layout. `ScaleRange` and `ScaleSpreads` say where scaling puts the classic
  coordinates (on the board, the ends on the ends, from 8 squares on no three on
  one, from 15 on no two), `GeneratedFromClassic` that every generated premium is
  a classic one moved, or the centre, whichever premium wins where several meet;
- a line. `FactorsOfLine` says in which places of a line word and letter premiums
  can be: triple words at the ends and the middle of a line that is itself an end
  or a middle, double words where a diagonal crosses it. `FewFactors` turns this
  into `WordsOfLine` (multipliers of at most 432 up to 7 squares, 128 from 8 on,
  32 from 15 on), `SumIsAtMost` into `LettersOfLine` (the tiles, plus at most
  fifteen letter premiums);
- the bag. `TilesCounted`: a hundred tiles to a set.

Together no line scores above 91 200 (`LineScoreIs`), so a play of one full line
and seven more across it stays within a score divided by the number of tiles, up
to the 21 sets whose quantities fit (`BestPlayFits`).

### Turn pages (`PagesProofs`)

`PagesShowTheRack`, `PlansFit`, `DraftsStayCoherent` as invariants and
`CommittedTurnsWereSeen`, a property of every step; for any racks, squares and
tabs. The invariant `TurnInv` has a part for each thing that lives on its own: the games
that were, the stored plan, the stored order, the pages, the requests in flight
and the turns on their way. Each says what its holder knew when it read, which is why
later commits of another tab cannot break it. The lemmas are about the edits of
one draft: `ReconciledLists`, `SwapLists`, `ShuffleLists` for the order of the
rack, `ReconciledDraft` and `EditedDraft` for the placements, and `TabStep` for
a step of one tab.

The proof corrected the model's property: `DraftsAreCoherent` used to say that a
placed tile has a chosen letter exactly when it is a blank. Longer behaviours
than the run has refute one half of it: one tab picks the blank and shuffles,
the other tab plays the blank before the first reloads its game, the
rearranged page is then not reconciled, and placing the tile plans the blank
without a letter, because `game_compose_route` looks for `is_blank` in the rack
of the game it read. The property now says the other half, that only a blank has
a chosen letter; the server rejects the plan when it is submitted.

### Projections (`PagesProofs`)

`RowsStayOfOneRevision`. `RowsDescribeOneRevision` is not inductive alone: a
repair writes rows from a state and from events that it read at two times.
`ReadsAreOrdered` says that the state is not ahead of the game and that the events
reach at least as far as the state. That the rows are of the *current* revision
is false (finding 2).

### Live updates (`PagesProofs`)

`PagesConverge`, for any games, subscriptions and handlers. The invariant
(`PagesHold`) says of each game page that is loaded or live that it is told of
the committed revision (`IsTold`): it shows it, or has loaded it and will send
it, or a handler holds it and is yet to publish it, or that publication failed.
Registering before loading is what makes this inductive: a page in one of these
phases is in the registry, so whoever publishes reaches it. It needs that nothing
in flight is ahead of the game (`NothingIsAhead`), and that on a game page an
event's revision is the revision it shows, which is exactly what dashboards lack
(finding 3).

### Definitions (`PagesProofs`)

`RowsLiveOutTheirTime`, a property of every step. A request that is calling or
storing holds the lock of its word (`LockIsHeld`) and has seen under it that the
row had expired at the time it carries (`StaleUnderLock`); nobody else can write
the row before it does.

### Sign-in (`SignInProofs`)

`EverybodySignsInOneWay`, `SessionsStayEarned`, `MigrationRevokes`, for any
users, identities, attempts and overlapping callbacks. The invariant has three
parts besides types: how tables agree (`Linking`: an identity belongs to one
account, a linked account has no password), what each callback knows at the point
it has reached (`CallbacksHold`) and what every session was opened for
(`SessionsHold`). Steps are grouped by what they touch: those that move one callback only, those that change tables so
that what other callbacks know stays true, and the few that do both (creating an
account, migrating, opening a session), each with a lemma.

### Model-checked only

Of the properties of passing runs, one is left to TLC: `GamePagesCatchUp`,
because liveness under fairness is out of the prover's reach. The violations of
section 5 are TLC's as well.

## 7. Abstractions

- Scores are unbounded naturals. The code adds with `checked_add` and subtracts
  with saturation; `RuleProfile::validate_score_bounds` keeps a word far below
  the limits of `u32`, which `AcceptedSettingsArePlayable` confirms for a whole game.
  Saturation at zero is modelled, and overflow in `Placement` only.
- Shuffling is a choice of orders; `RackPoints` sums printed points.
- Names, handles, tokens, hashes, timestamps and pictures are abstracted to who
  owns them, whether they exist and whether they are expired.
- Payload encoding is modelled by what each version keeps; a checksum is the
  thing it is a digest of.
- The dictionary is a small set of words, a definition is found, missing or a
  failure of some kind.

## 8. Not modelled

- Rendering, form parsing, read-only pages and queries of dashboards and
  profiles (`components.rs`, most of `routes.rs` and of `presentation.rs`): they
  change no state. What they read at different times is a hazard only where a
  request writes afterwards, and those requests are modelled.
- Authorisation: every user of a model is a member of the game or lobby it acts
  on, and events are not redacted per participant.
- The OpenID Connect exchange behind `exchange_callback`, password hashing, token
  and handle formats, image normalisation, and visibility of profiles.
- Registration with a password (no page calls it) and the development login:
  password accounts exist at the start only.
- `redeem_invitation`, which starts no game and has no caller.
- Migrations as such (the unique indexes they make are assumed where used),
  configuration, metrics, deployment.

## 9. What could follow

1. A composition of `Game` with `Placement`, so that the plays of a game are the
   legal ones. The two meet in `MoveScores` and the tiles laid only, and no
   property of either depends on the other.
2. The dashboard of several games under corrected revisions, as a second
   `LiveUpdates` to compare with, and a repair that reads inside its transaction.
