-------------------------------- MODULE Lobby --------------------------------
(***************************************************************************)
(* One private lobby (packages/app/src/lobbies.rs) under concurrent        *)
(* requests.  Every operation is a transaction that reads the lobby row    *)
(* and its members, checks them, and then writes under a conditional       *)
(* update of the row: status still OPEN and revision still the one read.   *)
(* A request is therefore two steps, Begin... (reads and checks) and       *)
(* Commit... (writes), with the other requests in between.  Of the         *)
(* database only atomic commit and the unique indexes (lobby, user) and    *)
(* (lobby, seat) are assumed, not that it serialises the transactions.     *)
(***************************************************************************)
EXTENDS Integers, FiniteSets, Sequences, TLC

CONSTANTS
  Users,        \* registered users
  Creator,      \* the one who created the lobby
  Slots,        \* requests that may be in flight at once
  Idle,         \* a slot without a request
  PolicyMax,    \* GameCreationPolicy.max_players
  Settings,     \* the settings the creator's forms submit
  MaxRevision   \* bound: no request begins from this revision on

ASSUME CreatorAssumption == Creator \in Users /\ Idle \notin Users
ASSUME NamesAssumption == "Random" \notin Users /\ "Creator" \notin Users
ASSUME PolicyAssumption == PolicyMax \in Nat /\ PolicyMax >= 2
ASSUME BoundAssumption == MaxRevision \in Nat

\* GameCreationPolicy::validate, and the three first-player policies; a user
\* stands for Chosen(user).
Capacities == 2..PolicyMax
Policies == {"Random", "Creator"} \cup Users
ASSUME SettingsAssumption ==
  Settings \subseteq [max_players : Capacities, first_player : Policies]

VARIABLES
  status, revision, max_players, first_player,  \* the game_lobbies row
  expired,       \* invitation_expires_at_ms has passed
  seats,         \* game_lobby_members: seats[u], for the members u only
  invitations,   \* lobby_invitations: its status, "None" without a row
  games,         \* games created by starting this lobby
  requests       \* what each request in flight has read

row == <<status, revision, max_players, first_player>>
vars == <<row, expired, seats, invitations, games, requests>>

Members == DOMAIN seats

\* Members in the order of their seats.
InSeatOrder(places) ==
  CHOOSE order \in [1..Cardinality(DOMAIN places) -> DOMAIN places] :
    \A i, j \in 1..Cardinality(DOMAIN places) : i < j => places[order[i]] < places[order[j]]

\* create_lobby: only the creator can be chosen, there is nobody else yet.
Init ==
  /\ status = "OPEN" /\ revision = 1
  /\ \E settings \in Settings :
       /\ settings.first_player \in Users => settings.first_player = Creator
       /\ max_players = settings.max_players
       /\ first_player = settings.first_player
  /\ expired = FALSE
  /\ seats = [u \in {Creator} |-> 0]
  /\ invitations = [u \in Users |-> "None"]
  /\ games = <<>>
  /\ requests = [s \in Slots |-> Idle]

-----------------------------------------------------------------------------
(* Reading and checking *)

\* A request of `user` read the row as it is now, and the checks let it go on.
Begin(s, op, user, arg) ==
  /\ requests[s] = Idle
  /\ status = "OPEN" /\ revision < MaxRevision
  /\ requests' = [requests EXCEPT ![s] =
       [op |-> op, user |-> user, arg |-> arg, revision |-> revision, seats |-> seats,
        first_player |-> first_player]]
  /\ UNCHANGED <<row, expired, seats, invitations, games>>

\* Faulty: a full lobby takes one more.
HasRoomForOneMore(u) == ~expired /\ Cardinality(Members) <= max_players /\ u \notin Members

HasRoomFor(u) == ~expired /\ Cardinality(Members) < max_players /\ u \notin Members

\* join_lobby, join_lobby_by_id, and respond_lobby_invitation with `accept`
BeginJoin(s, u) == HasRoomFor(u) /\ Begin(s, "Join", u, Idle)
BeginAccept(s, u) == invitations[u] = "Pending" /\ HasRoomFor(u) /\ Begin(s, "Accept", u, Idle)

\* invite_lobby_username
BeginInvite(s, u) == HasRoomFor(u) /\ Begin(s, "Invite", u, Idle)

\* update_lobby_settings: the number of members is not compared with the new
\* capacity.
BeginUpdate(s, settings) ==
  /\ settings.first_player \in Users => settings.first_player \in Members
  /\ Begin(s, "Update", Creator, settings)

\* leave_lobby
BeginLeave(s, u) == u # Creator /\ u \in Members /\ Begin(s, "Leave", u, Idle)

\* cancel_lobby
BeginCancel(s) == Begin(s, "Cancel", Creator, Idle)

\* start_lobby: neither the expiry nor the capacity is looked at.
BeginStart(s) ==
  /\ Cardinality(Members) >= 2
  /\ first_player \in Users => first_player \in Members
  /\ Begin(s, "Start", Creator, Idle)

-----------------------------------------------------------------------------
(* Writing and committing *)

\* Faulty: the conditional update forgets the revision.
StillOpen(r) == status = "OPEN"

\* The conditional update of the row finds it as it was read.
Unchanged(r) == status = "OPEN" /\ revision = r.revision

\* Request r of slot s passes its conditional update and is answered.
Commits(s, op, r) ==
  /\ requests[s] # Idle /\ r = requests[s] /\ r.op = op
  /\ Unchanged(r)
  /\ revision' = revision + 1
  /\ requests' = [requests EXCEPT ![s] = Idle]
  /\ UNCHANGED expired

\* The unique index (lobby, seat).
SeatsDiffer(places) == \A u, v \in DOMAIN places : places[u] = places[v] => u = v

\* A member more, in the given seat.
Seated(places, u, seat) ==
  [v \in DOMAIN places \cup {u} |-> IF v \in DOMAIN places THEN places[v] ELSE seat]

\* Faulty: a pending invitation of the new member is left pending.
AddMemberOnly(r) ==
  /\ r.user \notin Members
  /\ seats' = Seated(seats, r.user, Cardinality(DOMAIN r.seats))
  /\ SeatsDiffer(seats')
  /\ UNCHANGED invitations

\* insert_member takes the seat after the members that were read.
AddMember(r) ==
  /\ r.user \notin Members
  /\ seats' = Seated(seats, r.user, Cardinality(DOMAIN r.seats))
  /\ SeatsDiffer(seats')
  /\ invitations' = [invitations EXCEPT ![r.user] = IF @ = "Pending" THEN "Accepted" ELSE @]

CommitJoin(s) ==
  \E r \in {requests[s]} :
    /\ Commits(s, "Join", r)
    /\ AddMember(r)
    /\ UNCHANGED <<status, max_players, first_player, games>>

CommitAccept(s) ==
  \E r \in {requests[s]} :
    /\ Commits(s, "Accept", r)
    /\ invitations[r.user] = "Pending"
    /\ AddMember(r)
    /\ UNCHANGED <<status, max_players, first_player, games>>

\* A row in whatever status makes this AlreadyInvited.
CommitInvite(s) ==
  \E r \in {requests[s]} :
    /\ Commits(s, "Invite", r)
    /\ invitations[r.user] = "None"
    /\ invitations' = [invitations EXCEPT ![r.user] = "Pending"]
    /\ UNCHANGED <<status, max_players, first_player, seats, games>>

CommitUpdate(s) ==
  \E r \in {requests[s]} :
    /\ Commits(s, "Update", r)
    /\ max_players' = r.arg.max_players
    /\ first_player' = r.arg.first_player
    /\ UNCHANGED <<status, seats, invitations, games>>

\* Faulty: the negative seats of the first pass stay; the last member is
\* moved to the seat given up.
CompactedNegative(places, u) ==
  [v \in DOMAIN places \ {u} |->
     0 - 1 - Cardinality({w \in DOMAIN places \ {u} : places[w] < places[v]})]
MovedLast(places, u) ==
  [v \in DOMAIN places \ {u} |->
     IF places[v] = Cardinality(DOMAIN places) - 1 THEN places[u] ELSE places[v]]

\* The members left are numbered from 0 in the order of their seats.
Compacted(places, u) ==
  [v \in DOMAIN places \ {u} |->
     Cardinality({w \in DOMAIN places \ {u} : places[w] < places[v]})]

CommitLeave(s) ==
  \E r \in {requests[s]} :
    /\ Commits(s, "Leave", r)
    /\ r.user \in Members
    /\ seats' = Compacted(seats, r.user)
    /\ UNCHANGED <<status, max_players, first_player, invitations, games>>

CommitCancel(s) ==
  \E r \in {requests[s]} :
    /\ Commits(s, "Cancel", r)
    /\ status' = "CANCELLED"
    /\ UNCHANGED <<max_players, first_player, seats, invitations, games>>

\* The first player of the game: the member the policy names, or any.
FirstPlayers(r) ==
  CASE r.first_player = "Random"  -> DOMAIN r.seats
    [] r.first_player = "Creator" -> {Creator}
    [] OTHER -> {r.first_player} \cap DOMAIN r.seats

\* Faulty: the lobby is left open once its game exists.
StartsAgain(s) ==
  \E r \in {requests[s]} :
    /\ Commits(s, "Start", r)
    /\ \E first \in FirstPlayers(r) :
         games' = Append(games, [players |-> InSeatOrder(r.seats), first_player |-> first])
    /\ UNCHANGED <<status, max_players, first_player, seats, invitations>>

\* The game is created in the same transaction.
CommitStart(s) ==
  \E r \in {requests[s]} :
    /\ Commits(s, "Start", r)
    /\ \E first \in FirstPlayers(r) :
         games' = Append(games, [players |-> InSeatOrder(r.seats), first_player |-> first])
    /\ status' = "STARTED"
    /\ UNCHANGED <<max_players, first_player, seats, invitations>>

\* respond_lobby_invitation without `accept`: one conditional update, whatever
\* the status of the lobby.
Decline(u) ==
  /\ invitations[u] = "Pending"
  /\ invitations' = [invitations EXCEPT ![u] = "Declined"]
  /\ UNCHANGED <<row, expired, seats, games, requests>>

\* A conflict, a unique index, an error of the database or a crash of the
\* process drops the transaction.
RollBack(s) ==
  /\ requests[s] # Idle
  /\ requests' = [requests EXCEPT ![s] = Idle]
  /\ UNCHANGED <<row, expired, seats, invitations, games>>

\* Time passes the expiry of the invitation link; nothing is written, and every
\* request compares the time for itself.
Expire ==
  /\ ~expired
  /\ expired' = TRUE
  /\ UNCHANGED <<row, seats, invitations, games, requests>>

Next ==
  \/ \E s \in Slots, u \in Users :
       BeginJoin(s, u) \/ BeginAccept(s, u) \/ BeginInvite(s, u) \/ BeginLeave(s, u)
  \/ \E s \in Slots, settings \in Settings : BeginUpdate(s, settings)
  \/ \E s \in Slots :
       \/ BeginCancel(s) \/ BeginStart(s)
       \/ CommitJoin(s) \/ CommitAccept(s) \/ CommitInvite(s) \/ CommitUpdate(s)
       \/ CommitLeave(s) \/ CommitCancel(s) \/ CommitStart(s)
       \/ RollBack(s)
  \/ \E u \in Users : Decline(u)
  \/ Expire

Spec == Init /\ [][Next]_vars

-----------------------------------------------------------------------------
(* Properties *)

Statuses == {"OPEN", "STARTED", "CANCELLED"}

\* Types of the rows of a lobby.
TypeOK ==
  /\ status \in Statuses /\ revision \in Nat /\ expired \in BOOLEAN
  /\ max_players \in Capacities /\ first_player \in Policies
  /\ Members \subseteq Users /\ seats \in [Members -> Nat]
  /\ invitations \in [Users -> {"None", "Pending", "Accepted", "Declined"}]
  /\ \A s \in Slots : requests[s] = Idle \/ requests[s].revision \in 1..revision

\* Seats are numbered from 0 without a gap or a double, whatever joins and
\* leaves overlap, and the creator never loses the first one.
SeatsAreCompact ==
  /\ TypeOK
  /\ {seats[u] : u \in Members} = 0..(Cardinality(Members) - 1)
  /\ Creator \in Members /\ seats[Creator] = 0

\* Starting happens once, and the game seats the members of the lobby in
\* their order: nobody joins or leaves between the read of the members and
\* the close of the lobby, and nobody afterwards.
StartedGameSeatsTheLobby ==
  /\ status = "STARTED" <=> Len(games) = 1
  /\ Len(games) <= 1
  /\ \A i \in 1..Len(games) :
       /\ games[i].players = InSeatOrder(seats)
       /\ games[i].first_player \in Members
       /\ first_player = "Creator" => games[i].first_player = Creator
       /\ first_player \in Users => games[i].first_player = first_player

\* Nobody is both a member and still invited, even when an invitation and a
\* join through the link overlap.
MembersAreNotInvited == \A u \in Members : invitations[u] # "Pending"

\* Members who stay keep their order: a leave never lets one overtake another,
\* so the turn order of the game is the order of joining.
OrderIsKept ==
  [][\A u, v \in Members \cap DOMAIN seats' : seats[u] < seats[v] => seats'[u] < seats'[v]]_vars

\* The deployment limit on players is never exceeded by the members.
WithinPolicy == Cardinality(Members) <= PolicyMax

\* The settings page calls max_players "Total lobby capacity, including you."
WithinCapacity == Cardinality(Members) <= max_players
=============================================================================
