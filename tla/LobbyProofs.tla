----------------------------- MODULE LobbyProofs -----------------------------
(***************************************************************************)
(* Proofs about the module Lobby, for any number of users, of requests in  *)
(* flight and of settings, and without its bound on revisions.             *)
(***************************************************************************)
EXTENDS Lobby, FiniteSetTheorems, TLAPS

\* What a request in flight has read.  While its revision is the one of the
\* row, what it has read is what is there, and its checks hold still: this is
\* what the conditional update of a commit relies on.
ReadsAreCurrent ==
  \A s \in Slots : requests[s] # Idle =>
    /\ requests[s].revision \in 1..revision
    /\ requests[s].user \in Users
    /\ requests[s].op = "Leave" => requests[s].user # Creator
    /\ requests[s].op = "Update" => requests[s].arg \in Settings
    /\ requests[s].revision = revision =>
         /\ requests[s].seats = seats
         /\ requests[s].first_player = first_player
         /\ requests[s].op = "Invite" => requests[s].user \notin Members
         /\ requests[s].op \in {"Join", "Accept"} => Cardinality(Members) < max_players
         /\ requests[s].op = "Start" /\ first_player \in Users => first_player \in Members

\* One game at most, and none before the start.
GamesOfStart ==
  /\ status # "STARTED" => games = <<>>
  /\ status = "STARTED" =>
       \E first \in Members :
         /\ games = <<[players |-> InSeatOrder(seats), first_player |-> first]>>
         /\ first_player = "Creator" => first = Creator
         /\ first_player \in Users => first = first_player

IInv ==
  /\ SeatsAreCompact
  /\ IsFiniteSet(Members)
  /\ DOMAIN requests = Slots
  /\ revision >= 1
  /\ ReadsAreCurrent
  /\ MembersAreNotInvited
  /\ WithinPolicy
  /\ GamesOfStart

-----------------------------------------------------------------------------
(* Numberings from 0 *)

Numbers(D, f) == f \in [D -> Nat] /\ {f[x] : x \in D} = 0..(Cardinality(D) - 1)

\* Two members have two seats.
LEMMA NumbersDiffer ==
  ASSUME NEW D, IsFiniteSet(D), NEW f, Numbers(D, f), NEW x \in D, NEW y \in D, x # y
  PROVE  f[x] # f[y]
<1> DEFINE n == Cardinality(D)
<1>1. n \in Nat
  BY FS_CardinalityType
<1>2. IsFiniteSet(0..(n - 1)) /\ Cardinality(0..(n - 1)) = n
  BY <1>1, FS_Interval
<1>3. f \in Surjection(D, 0..(n - 1))
  BY DEF Numbers, Surjection
<1>4. f \in Injection(D, 0..(n - 1))
  BY <1>2, <1>3, FS_Surjection
<1> QED
  BY <1>4 DEF Injection, IsInjective

\* There are i members below seat i.
LEMMA NumberBelow ==
  ASSUME NEW D, IsFiniteSet(D), NEW f, Numbers(D, f), NEW i \in 0..Cardinality(D)
  PROVE  LET below == {x \in D : f[x] < i}
         IN  IsFiniteSet(below) /\ Cardinality(below) = i
<1> DEFINE below == {x \in D : f[x] < i}
           g == [x \in below |-> f[x]]
<1>1. Cardinality(D) \in Nat /\ i \in Nat /\ i <= Cardinality(D)
  BY FS_CardinalityType
<1>2. IsFiniteSet(below)
  BY FS_Subset
<1>3. IsFiniteSet(0..(i - 1)) /\ Cardinality(0..(i - 1)) = i
  <2>1. i - 1 \in Int /\ (i - 1) - 0 + 1 = i /\ (0 > i - 1 <=> i = 0)
    BY <1>1
  <2> QED
    BY <2>1, FS_Interval
<1>4. g \in [below -> 0..(i - 1)]
  BY <1>1 DEF Numbers
<1>5. \A k \in 0..(i - 1) : \E x \in below : g[x] = k
  <2> SUFFICES ASSUME NEW k \in 0..(i - 1) PROVE \E x \in below : g[x] = k
    OBVIOUS
  <2>1. k \in 0..(Cardinality(D) - 1) /\ k < i
    BY <1>1
  <2>2. PICK x \in D : f[x] = k
    BY <2>1 DEF Numbers
  <2> QED
    BY <2>1, <2>2
<1>6. g \in Surjection(below, 0..(i - 1))
  BY <1>4, <1>5 DEF Surjection
<1>7. \A x, y \in below : g[x] = g[y] => x = y
  BY NumbersDiffer
<1>8. g \in Injection(below, 0..(i - 1))
  BY <1>4, <1>7 DEF Injection, IsInjective
<1>9. Cardinality(below) = Cardinality(0..(i - 1))
  <2> HIDE DEF g, below
  <2> QED
    BY <1>2, <1>6, <1>8, FS_Surjection
<1> QED
  BY <1>2, <1>3, <1>9

\* Compacted moves everybody behind the one who leaves forward by one seat.
LEMMA CompactedSeats ==
  ASSUME NEW D, IsFiniteSet(D), NEW f, Numbers(D, f), NEW u \in D, NEW v \in D \ {u}
  PROVE  /\ f[v] \in 0..(Cardinality(D) - 1) /\ f[u] \in 0..(Cardinality(D) - 1)
         /\ DOMAIN f = D
         /\ Compacted(f, u)[v] = IF f[u] < f[v] THEN f[v] - 1 ELSE f[v]
<1> DEFINE below == {x \in D : f[x] < f[v]}
<1>1. Cardinality(D) \in Nat
  BY FS_CardinalityType
<1>2. DOMAIN f = D /\ f[u] \in Nat /\ f[v] \in Nat
  BY DEF Numbers
<1>3. f[v] \in 0..(Cardinality(D) - 1) /\ f[u] \in 0..(Cardinality(D) - 1)
  BY DEF Numbers
<1>4. IsFiniteSet(below) /\ Cardinality(below) = f[v]
  BY <1>1, <1>3, NumberBelow
<1>5. {w \in DOMAIN f \ {u} : f[w] < f[v]} = below \ {u}
  BY <1>2
<1>6. Cardinality(below \ {u}) = IF u \in below THEN f[v] - 1 ELSE f[v]
  BY <1>4, FS_RemoveElement
<1>7. Compacted(f, u)[v] = Cardinality(below \ {u})
  BY <1>2, <1>5 DEF Compacted
<1> QED
  BY <1>2, <1>3, <1>6, <1>7

\* The seats stay compact when one is given up.
LEMMA CompactedNumbers ==
  ASSUME NEW D, IsFiniteSet(D), NEW f, Numbers(D, f), NEW u \in D
  PROVE  Numbers(D \ {u}, Compacted(f, u))
<1> DEFINE n == Cardinality(D)
           g == Compacted(f, u)
<1>1. n \in Nat /\ DOMAIN f = D /\ Cardinality(D \ {u}) = n - 1
  BY FS_CardinalityType, FS_RemoveElement DEF Numbers
<1>2. ASSUME NEW v \in D \ {u}
      PROVE  /\ f[v] \in 0..(n - 1) /\ f[u] \in 0..(n - 1)
             /\ g[v] = (IF f[u] < f[v] THEN f[v] - 1 ELSE f[v])
             /\ f[u] # f[v]
  BY <1>2, CompactedSeats, NumbersDiffer
<1>3. f[u] \in 0..(n - 1)
  BY DEF Numbers
<1>4. DOMAIN g = D \ {u} /\ g = [v \in D \ {u} |-> g[v]]
  BY <1>1 DEF Compacted
<1> HIDE DEF g, n
<1>5. \A v \in D \ {u} : g[v] \in 0..(n - 2)
  BY <1>1, <1>2
<1>6. ASSUME NEW k \in 0..(n - 2)
      PROVE  \E v \in D \ {u} : g[v] = k
  <2>1. CASE k < f[u]
    <3>1. k \in 0..(n - 1)
      BY <1>1
    <3>2. PICK v \in D : f[v] = k
      BY <3>1 DEF Numbers, n
    <3> QED
      BY <3>2, <2>1, <1>2, <1>3, <1>1
  <2>2. CASE ~(k < f[u])
    <3>1. k + 1 \in 0..(n - 1)
      BY <1>1
    <3>2. PICK v \in D : f[v] = k + 1
      BY <3>1 DEF Numbers, n
    <3>3. v # u /\ f[u] < f[v]
      BY <3>2, <2>2, <1>1, <1>3
    <3> QED
      BY <3>2, <3>3, <1>2, <1>1
  <2> QED
    BY <2>1, <2>2
<1>7. {g[v] : v \in D \ {u}} = 0..((n - 1) - 1)
  BY <1>1, <1>5, <1>6
<1>8. g \in [D \ {u} -> Nat]
  BY <1>4, <1>5, <1>1
<1> QED
  BY <1>7, <1>8, <1>1 DEF Numbers, g, n

\* Whoever joins takes the next seat.
LEMMA JoinedNumbers ==
  ASSUME NEW D, IsFiniteSet(D), NEW f, Numbers(D, f), NEW u, u \notin D
  PROVE  LET g == Seated(f, u, Cardinality(D))
         IN  /\ Numbers(D \cup {u}, g) /\ DOMAIN g = D \cup {u}
             /\ g[u] = Cardinality(D) /\ \A v \in D : g[v] = f[v]
<1> DEFINE n == Cardinality(D)
           g == Seated(f, u, n)
<1>1. n \in Nat /\ DOMAIN f = D /\ Cardinality(D \cup {u}) = n + 1
  BY FS_CardinalityType, FS_AddElement DEF Numbers
<1>2. /\ g = [v \in D \cup {u} |-> IF v \in D THEN f[v] ELSE n]
      /\ DOMAIN g = D \cup {u}
  BY <1>1 DEF Seated
<1> HIDE DEF g
<1>3. g[u] = n /\ \A v \in D : g[v] = f[v]
  BY <1>2
<1>4. \A v \in D : f[v] \in 0..(n - 1)
  BY DEF Numbers
<1>5. \A k \in 0..(n - 1) : \E v \in D : f[v] = k
  BY DEF Numbers
<1>6. g \in [D \cup {u} -> Nat]
  BY <1>1, <1>2, <1>3, <1>4
<1>7. {g[v] : v \in D \cup {u}} = 0..((n + 1) - 1)
  <2>1. \A v \in D \cup {u} : g[v] \in 0..n
    BY <1>1, <1>3, <1>4
  <2>2. ASSUME NEW k \in 0..n PROVE \E v \in D \cup {u} : g[v] = k
    <3>1. CASE k = n
      BY <3>1, <1>3
    <3>2. CASE k # n
      BY <3>2, <1>1, <1>3, <1>5
    <3> QED
      BY <3>1, <3>2
  <2> QED
    BY <2>1, <2>2, <1>1
<1> QED
  BY <1>1, <1>2, <1>3, <1>6, <1>7 DEF Numbers, g

-----------------------------------------------------------------------------
\* The invariant holds at the start.
LEMMA InitIInv == Init => IInv
<1> SUFFICES ASSUME Init PROVE IInv
  OBVIOUS
<1>1. Members = {Creator} /\ seats = [u \in {Creator} |-> 0]
  BY DEF Init, Members
<1>2. IsFiniteSet(Members) /\ Cardinality(Members) = 1
  BY <1>1, FS_Singleton
<1>3. TypeOK
  <2>1. max_players \in Capacities /\ first_player \in Policies
    BY SettingsAssumption DEF Init
  <2>2. Members \subseteq Users /\ seats \in [Members -> Nat]
    BY <1>1, CreatorAssumption
  <2> QED
    BY <2>1, <2>2 DEF Init, TypeOK, Statuses
<1>4. {seats[u] : u \in Members} = 0..(Cardinality(Members) - 1)
  BY <1>1, <1>2
<1>5. SeatsAreCompact
  BY <1>1, <1>3, <1>4 DEF SeatsAreCompact
<1> QED
  BY <1>1, <1>2, <1>5, CreatorAssumption, PolicyAssumption
  DEF Init, IInv, ReadsAreCurrent, MembersAreNotInvited, WithinPolicy, GamesOfStart

\* The members of a lobby and their seats are numbered from zero.
LEMMA MembersNumbers ==
  ASSUME IInv
  PROVE  /\ IsFiniteSet(Members) /\ Numbers(Members, seats)
         /\ Creator \in Members /\ seats[Creator] = 0
         /\ Cardinality(Members) \in Nat
BY FS_CardinalityType DEF IInv, SeatsAreCompact, TypeOK, Numbers

\* A request that begins reads the lobby as it is.
LEMMA BeginKeepsInv ==
  ASSUME IInv, NEW s \in Slots, NEW op, NEW u \in Users, NEW arg, Begin(s, op, u, arg),
         op = "Leave" => u # Creator,
         op = "Update" => arg \in Settings,
         op = "Invite" => u \notin Members,
         op \in {"Join", "Accept"} => Cardinality(Members) < max_players,
         op = "Start" /\ first_player \in Users => first_player \in Members
  PROVE  IInv'
<1> DEFINE r == [op |-> op, user |-> u, arg |-> arg, revision |-> revision,
                 seats |-> seats, first_player |-> first_player]
<1>1. /\ DOMAIN requests' = Slots /\ requests'[s] = r
      /\ \A t \in Slots : t # s => requests'[t] = requests[t]
      /\ UNCHANGED <<row, expired, seats, invitations, games>>
  BY DEF Begin, IInv
<1>2. UNCHANGED <<status, revision, max_players, first_player, Members>>
  BY <1>1 DEF row, Members
<1>3. revision \in 1..revision
  BY DEF IInv, SeatsAreCompact, TypeOK
<1>4. ReadsAreCurrent'
  BY <1>1, <1>2, <1>3 DEF IInv, ReadsAreCurrent
<1>5. \A t \in Slots : requests'[t] = Idle \/ requests'[t].revision \in 1..revision
  BY <1>1, <1>3 DEF IInv, SeatsAreCompact, TypeOK
<1>6. SeatsAreCompact'
  BY <1>1, <1>2, <1>5 DEF IInv, SeatsAreCompact, TypeOK
<1> QED
  BY <1>1, <1>2, <1>4, <1>6
  DEF IInv, MembersAreNotInvited, WithinPolicy, GamesOfStart

\* A commit makes every read that is in flight an old one, and what its own
\* request has read is there.
LEMMA CommitEndsReads ==
  ASSUME IInv, NEW s \in Slots, NEW op, NEW r, Commits(s, op, r)
  PROVE  /\ ReadsAreCurrent' /\ DOMAIN requests' = Slots
         /\ revision' \in Nat /\ revision' >= 1 /\ expired' \in BOOLEAN
         /\ \A t \in Slots : requests'[t] = Idle \/ requests'[t].revision \in 1..revision'
         /\ status = "OPEN" /\ games = <<>>
         /\ r.seats = seats /\ r.first_player = first_player /\ r.user \in Users
         /\ op = "Leave" => r.user # Creator
         /\ op = "Update" => r.arg \in Settings
         /\ op = "Invite" => r.user \notin Members
         /\ op \in {"Join", "Accept"} => Cardinality(Members) < max_players
         /\ op = "Start" /\ first_player \in Users => first_player \in Members
<1>1. revision \in Nat /\ revision >= 1 /\ revision' = revision + 1
  BY DEF Commits, IInv, SeatsAreCompact, TypeOK
<1>2. /\ DOMAIN requests' = Slots /\ requests'[s] = Idle
      /\ \A t \in Slots : t # s => requests'[t] = requests[t]
  BY DEF Commits, IInv
<1>3. \A t \in Slots : requests'[t] # Idle =>
        /\ requests[t] # Idle /\ requests'[t] = requests[t]
        /\ requests[t].revision \in 1..revision'
        /\ requests[t].revision # revision'
  BY <1>1, <1>2 DEF IInv, ReadsAreCurrent
<1>4. ReadsAreCurrent'
  BY <1>3 DEF IInv, ReadsAreCurrent
<1>5. requests[s] # Idle /\ r = requests[s] /\ r.op = op /\ r.revision = revision
      /\ status = "OPEN"
  BY DEF Commits, Unchanged
<1>6. games = <<>>
  BY <1>5 DEF IInv, GamesOfStart
<1>7. /\ r.seats = seats /\ r.first_player = first_player /\ r.user \in Users
      /\ op = "Leave" => r.user # Creator
      /\ op = "Update" => r.arg \in Settings
      /\ op = "Invite" => r.user \notin Members
      /\ op \in {"Join", "Accept"} => Cardinality(Members) < max_players
      /\ op = "Start" /\ first_player \in Users => first_player \in Members
  BY <1>5 DEF IInv, ReadsAreCurrent
<1>8. expired' \in BOOLEAN
  BY DEF Commits, IInv, SeatsAreCompact, TypeOK
<1> QED
  BY <1>1, <1>2, <1>3, <1>4, <1>5, <1>6, <1>7, <1>8

\* A member joins: there was room, and no invitation is left behind.
LEMMA JoinKeepsInv ==
  ASSUME IInv, NEW s \in Slots, NEW op \in {"Join", "Accept"}, NEW r,
         Commits(s, op, r), AddMember(r),
         UNCHANGED <<status, max_players, first_player, games>>
  PROVE  IInv'
<1> DEFINE n == Cardinality(Members)
<1>1. /\ r.user \in Users \ Members /\ r.seats = seats
      /\ seats' = Seated(seats, r.user, n)
      /\ n < max_players
  BY CommitEndsReads DEF AddMember, Members
<1>2. /\ Numbers(Members \cup {r.user}, seats')
      /\ Members' = Members \cup {r.user}
      /\ seats'[r.user] = n /\ \A v \in Members : seats'[v] = seats[v]
  BY <1>1, MembersNumbers, JoinedNumbers DEF Members
<1>3. IsFiniteSet(Members') /\ Cardinality(Members') = n + 1 /\ n \in Nat
  BY <1>1, <1>2, MembersNumbers, FS_AddElement
<1>4. invitations' \in [Users -> {"None", "Pending", "Accepted", "Declined"}]
  BY DEF AddMember, IInv, SeatsAreCompact, TypeOK
<1>5. Members' \subseteq Users
  BY <1>1, <1>2 DEF IInv, SeatsAreCompact, TypeOK
<1>6. /\ status' \in Statuses /\ max_players' \in Capacities /\ first_player' \in Policies
  BY DEF IInv, SeatsAreCompact, TypeOK
<1>7. TypeOK'
  BY <1>2, <1>4, <1>5, <1>6, CommitEndsReads DEF TypeOK, Numbers
<1>8. SeatsAreCompact'
  BY <1>2, <1>7, MembersNumbers DEF SeatsAreCompact, Numbers
<1>9. MembersAreNotInvited'
  BY <1>1, <1>2 DEF AddMember, IInv, SeatsAreCompact, TypeOK, MembersAreNotInvited
<1>10. WithinPolicy'
  BY <1>1, <1>3, PolicyAssumption
  DEF IInv, SeatsAreCompact, TypeOK, Capacities, WithinPolicy
<1>11. GamesOfStart'
  BY CommitEndsReads DEF GamesOfStart
<1> QED
  BY <1>3, <1>8, <1>9, <1>10, <1>11, CommitEndsReads DEF IInv

\* A member leaves: the creator cannot, and the seats close up.
LEMMA LeaveKeepsInv ==
  ASSUME IInv, NEW s \in Slots, CommitLeave(s)
  PROVE  IInv'
<1> PICK r \in {requests[s]} :
      /\ Commits(s, "Leave", r)
      /\ r.user \in Members
      /\ seats' = Compacted(seats, r.user)
      /\ UNCHANGED <<status, max_players, first_player, invitations, games>>
  BY DEF CommitLeave
<1>1. r.user # Creator
  BY CommitEndsReads
<1>2. DOMAIN seats' = Members \ {r.user}
  BY DEF Compacted, Members
<1>3. Members' = Members \ {r.user}
  BY <1>2 DEF Members
<1>4. Numbers(Members', seats')
  BY <1>3, MembersNumbers, CompactedNumbers
<1>5. IsFiniteSet(Members') /\ Cardinality(Members') = Cardinality(Members) - 1
  BY <1>3, MembersNumbers, FS_RemoveElement
<1>6. Creator \in Members' /\ seats'[Creator] = 0
  <2>1. Creator \in Members \ {r.user}
    BY <1>1, MembersNumbers
  <2>2. /\ seats[r.user] \in Nat /\ seats[Creator] = 0
        /\ seats'[Creator] = IF seats[r.user] < seats[Creator] THEN seats[Creator] - 1
                                                               ELSE seats[Creator]
    BY <2>1, MembersNumbers, CompactedSeats DEF Numbers
  <2> QED
    BY <1>3, <2>1, <2>2
<1>7. TypeOK'
  BY <1>3, <1>4, CommitEndsReads DEF IInv, SeatsAreCompact, TypeOK, Numbers
<1>8. SeatsAreCompact'
  BY <1>4, <1>6, <1>7 DEF SeatsAreCompact, Numbers
<1>9. MembersAreNotInvited' /\ WithinPolicy'
  BY <1>3, <1>5, MembersNumbers, PolicyAssumption DEF IInv, MembersAreNotInvited, WithinPolicy
<1>10. GamesOfStart'
  BY CommitEndsReads DEF GamesOfStart
<1> QED
  BY <1>5, <1>8, <1>9, <1>10, CommitEndsReads DEF IInv

\* The lobby starts: the game has the members as they were read, which is as
\* they are.
LEMMA StartKeepsInv ==
  ASSUME IInv, NEW s \in Slots, CommitStart(s)
  PROVE  IInv'
<1> PICK r \in {requests[s]} :
      /\ Commits(s, "Start", r)
      /\ \E first \in FirstPlayers(r) :
           games' = Append(games, [players |-> InSeatOrder(r.seats), first_player |-> first])
      /\ status' = "STARTED"
      /\ UNCHANGED <<max_players, first_player, seats, invitations>>
  BY DEF CommitStart
<1>1. UNCHANGED Members
  BY DEF Members
<1>2. PICK first \in FirstPlayers(r) :
        games' = Append(games, [players |-> InSeatOrder(r.seats), first_player |-> first])
  OBVIOUS
<1>3. games' = <<[players |-> InSeatOrder(seats), first_player |-> first]>>
  <2>1. r.seats = seats /\ games = <<>>
    BY CommitEndsReads
  <2> DEFINE game == [players |-> InSeatOrder(seats), first_player |-> first]
  <2>2. games' = Append(<<>>, game)
    BY <1>2, <2>1
  <2> HIDE DEF game
  <2>3. Append(<<>>, game) = <<game>>
    OBVIOUS
  <2> QED
    BY <2>2, <2>3 DEF game
<1>4. InSeatOrder(seats)' = InSeatOrder(seats)
  BY DEF InSeatOrder
<1>5. /\ r.seats = seats /\ r.first_player = first_player
      /\ first_player \in Users => first_player \in Members
      /\ Creator \in Members
      /\ first_player \in {"Random", "Creator"} \cup Users
  BY CommitEndsReads, MembersNumbers DEF IInv, SeatsAreCompact, TypeOK, Policies
<1>6. /\ first \in Members
      /\ first_player = "Creator" => first = Creator
      /\ first_player \in Users => first = first_player
  <2>1. CASE first_player = "Random"
    BY <1>5, <2>1, NamesAssumption DEF FirstPlayers, Members
  <2>2. CASE first_player = "Creator"
    BY <1>5, <2>2, NamesAssumption DEF FirstPlayers, Members
  <2>3. CASE first_player \in Users
    BY <1>5, <2>3, NamesAssumption DEF FirstPlayers, Members
  <2> QED
    BY <1>5, <2>1, <2>2, <2>3
<1>7. GamesOfStart'
  <2> SUFFICES /\ first \in Members' /\ games' = <<[players |-> InSeatOrder(seats)',
                                                    first_player |-> first]>>
               /\ first_player' = "Creator" => first = Creator
               /\ first_player' \in Users => first = first_player'
    BY DEF GamesOfStart
  <2> QED
    BY <1>1, <1>3, <1>4, <1>6
<1>8. SeatsAreCompact'
  BY <1>1, CommitEndsReads DEF IInv, SeatsAreCompact, TypeOK, Statuses
<1> QED
  BY <1>1, <1>7, <1>8, CommitEndsReads DEF IInv, MembersAreNotInvited, WithinPolicy

\* A commit that touches neither the members nor the games.
LEMMA RowCommitKeepsInv ==
  ASSUME IInv, NEW s \in Slots, NEW op, NEW r, Commits(s, op, r),
         status' \in {"OPEN", "CANCELLED"}, max_players' \in Capacities,
         first_player' \in Policies, UNCHANGED <<seats, games>>,
         invitations' \in [Users -> {"None", "Pending", "Accepted", "Declined"}],
         \A u \in Members : invitations'[u] # "Pending"
  PROVE  IInv'
<1>1. UNCHANGED Members
  BY DEF Members
<1>2. SeatsAreCompact'
  BY <1>1, CommitEndsReads DEF IInv, SeatsAreCompact, TypeOK, Statuses
<1>3. GamesOfStart'
  BY CommitEndsReads DEF GamesOfStart
<1> QED
  BY <1>1, <1>2, <1>3, CommitEndsReads DEF IInv, MembersAreNotInvited, WithinPolicy

\* Every step keeps it.
LEMMA NextIInv == IInv /\ [Next]_vars => IInv'
<1> SUFFICES ASSUME IInv, [Next]_vars PROVE IInv'
  OBVIOUS
<1> USE CreatorAssumption
<1>1. ASSUME NEW s \in Slots, NEW u \in Users, BeginJoin(s, u) \/ BeginAccept(s, u)
      PROVE  IInv'
  BY <1>1, BeginKeepsInv DEF BeginJoin, BeginAccept, HasRoomFor
<1>2. ASSUME NEW s \in Slots, NEW u \in Users, BeginInvite(s, u)
      PROVE  IInv'
  BY <1>2, BeginKeepsInv DEF BeginInvite, HasRoomFor
<1>3. ASSUME NEW s \in Slots, NEW u \in Users, BeginLeave(s, u)
      PROVE  IInv'
  BY <1>3, BeginKeepsInv DEF BeginLeave
<1>4. ASSUME NEW s \in Slots, NEW settings \in Settings, BeginUpdate(s, settings)
      PROVE  IInv'
  BY <1>4, BeginKeepsInv DEF BeginUpdate
<1>5. ASSUME NEW s \in Slots, BeginCancel(s)
      PROVE  IInv'
  BY <1>5, BeginKeepsInv DEF BeginCancel
<1>6. ASSUME NEW s \in Slots, BeginStart(s)
      PROVE  IInv'
  BY <1>6, BeginKeepsInv DEF BeginStart
<1>7. ASSUME NEW s \in Slots, CommitJoin(s) \/ CommitAccept(s)
      PROVE  IInv'
  BY <1>7, JoinKeepsInv DEF CommitJoin, CommitAccept
<1>8. ASSUME NEW s \in Slots, CommitInvite(s)
      PROVE  IInv'
  <2> PICK r \in {requests[s]} :
        /\ Commits(s, "Invite", r)
        /\ invitations' = [invitations EXCEPT ![r.user] = "Pending"]
        /\ UNCHANGED <<status, max_players, first_player, seats, games>>
    BY <1>8 DEF CommitInvite
  <2>1. r.user \notin Members /\ status = "OPEN"
    BY CommitEndsReads
  <2>2. /\ invitations' \in [Users -> {"None", "Pending", "Accepted", "Declined"}]
        /\ \A u \in Members : invitations'[u] # "Pending"
    BY <2>1 DEF IInv, SeatsAreCompact, TypeOK, MembersAreNotInvited
  <2> QED
    BY <2>1, <2>2, RowCommitKeepsInv DEF IInv, SeatsAreCompact, TypeOK
<1>9. ASSUME NEW s \in Slots, CommitUpdate(s)
      PROVE  IInv'
  <2> PICK r \in {requests[s]} :
        /\ Commits(s, "Update", r)
        /\ max_players' = r.arg.max_players
        /\ first_player' = r.arg.first_player
        /\ UNCHANGED <<status, seats, invitations, games>>
    BY <1>9 DEF CommitUpdate
  <2>1. r.arg \in Settings /\ status = "OPEN"
    BY CommitEndsReads
  <2>2. max_players' \in Capacities /\ first_player' \in Policies
    BY <2>1, SettingsAssumption
  <2> QED
    BY <2>1, <2>2, RowCommitKeepsInv
    DEF IInv, SeatsAreCompact, TypeOK, MembersAreNotInvited
<1>10. ASSUME NEW s \in Slots, CommitLeave(s)
       PROVE  IInv'
  BY <1>10, LeaveKeepsInv
<1>11. ASSUME NEW s \in Slots, CommitCancel(s)
       PROVE  IInv'
  BY <1>11, RowCommitKeepsInv
  DEF CommitCancel, IInv, SeatsAreCompact, TypeOK, MembersAreNotInvited
<1>12. ASSUME NEW s \in Slots, CommitStart(s)
       PROVE  IInv'
  BY <1>12, StartKeepsInv
<1>13. ASSUME UNCHANGED <<row, seats, games>>, expired' \in BOOLEAN,
              invitations' \in [Users -> {"None", "Pending", "Accepted", "Declined"}],
              \A u \in Members : invitations'[u] # "Pending",
              DOMAIN requests' = Slots,
              \A s \in Slots : requests'[s] = Idle \/ requests'[s] = requests[s]
       PROVE  IInv'
  <2>1. UNCHANGED <<status, revision, max_players, first_player, Members>>
    BY <1>13 DEF row, Members
  <2>2. ReadsAreCurrent'
    BY <1>13, <2>1 DEF IInv, ReadsAreCurrent
  <2>3. SeatsAreCompact'
    BY <1>13, <2>1 DEF IInv, SeatsAreCompact, TypeOK
  <2> QED
    BY <1>13, <2>1, <2>2, <2>3 DEF IInv, MembersAreNotInvited, WithinPolicy, GamesOfStart
<1>14. ASSUME NEW s \in Slots, RollBack(s)
       PROVE  IInv'
  BY <1>13, <1>14 DEF RollBack, IInv, SeatsAreCompact, TypeOK, MembersAreNotInvited
<1>15. ASSUME NEW u \in Users, Decline(u)
       PROVE  IInv'
  BY <1>13, <1>15 DEF Decline, IInv, SeatsAreCompact, TypeOK, MembersAreNotInvited
<1>16. CASE Expire
  BY <1>13, <1>16 DEF Expire, IInv, SeatsAreCompact, TypeOK, MembersAreNotInvited
<1>17. CASE UNCHANGED vars
  BY <1>13, <1>17 DEF vars, IInv, SeatsAreCompact, TypeOK, MembersAreNotInvited
<1> QED
  BY <1>1, <1>2, <1>3, <1>4, <1>5, <1>6, <1>7, <1>8, <1>9, <1>10, <1>11, <1>12, <1>14,
     <1>15, <1>16, <1>17 DEF Next

\* The invariant of a lobby holds in every reachable state.
LEMMA LobbyInvariance == Spec => []IInv
BY InitIInv, NextIInv, PTL DEF Spec

-----------------------------------------------------------------------------
(* Theorems *)

\* The rows of a lobby have their types, and its seats are numbered from 0
\* without a gap or a double, the creator first, however requests overlap.
THEOREM SeatsStayCompact == Spec => []SeatsAreCompact
BY LobbyInvariance, PTL DEF IInv

\* A lobby starts once, with its members in the order of their seats, and the
\* member its settings ask for plays first.
THEOREM StartSeatsTheMembers == Spec => []StartedGameSeatsTheLobby
<1>1. IInv => StartedGameSeatsTheLobby
  <2> SUFFICES ASSUME IInv PROVE StartedGameSeatsTheLobby
    OBVIOUS
  <2>1. CASE status = "STARTED"
    <3>1. PICK first \in Members :
            /\ games = <<[players |-> InSeatOrder(seats), first_player |-> first]>>
            /\ first_player = "Creator" => first = Creator
            /\ first_player \in Users => first = first_player
      BY <2>1 DEF IInv, GamesOfStart
    <3>2. /\ Len(games) = 1
          /\ \A i \in 1..Len(games) :
               games[i] = [players |-> InSeatOrder(seats), first_player |-> first]
      BY <3>1
    <3> QED
      BY <2>1, <3>1, <3>2 DEF StartedGameSeatsTheLobby
  <2>2. CASE status # "STARTED"
    <3>1. games = <<>> /\ Len(games) = 0
      BY <2>2 DEF IInv, GamesOfStart
    <3> QED
      BY <2>2, <3>1 DEF StartedGameSeatsTheLobby
  <2> QED
    BY <2>1, <2>2
<1> QED
  BY <1>1, LobbyInvariance, PTL

\* Whoever joins leaves no pending invitation behind, whichever way they came.
THEOREM JoiningEndsInvitations == Spec => []MembersAreNotInvited
BY LobbyInvariance, PTL DEF IInv

\* Members never outnumber what the deployment allows, although every request
\* that adds one checks the room before it commits.
THEOREM PolicyIsKept == Spec => []WithinPolicy
BY LobbyInvariance, PTL DEF IInv

\* Members keep the order in which they joined, whoever leaves.
THEOREM MembersKeepTheirOrder == Spec => OrderIsKept
<1>1. IInv /\ [Next]_vars =>
        [\A u, v \in Members \cap DOMAIN seats' :
           seats[u] < seats[v] => seats'[u] < seats'[v]]_vars
  <2> SUFFICES ASSUME IInv, Next, NEW u \in Members \cap DOMAIN seats',
                      NEW v \in Members \cap DOMAIN seats', seats[u] < seats[v]
               PROVE  seats'[u] < seats'[v]
    OBVIOUS
  <2>1. ASSUME NEW s \in Slots, CommitLeave(s)
        PROVE  seats'[u] < seats'[v]
    <3>1. PICK w \in Members : seats' = Compacted(seats, w)
      BY <2>1 DEF CommitLeave
    <3>2. u \in Members \ {w} /\ v \in Members \ {w}
      BY <3>1 DEF Compacted, Members
    <3>3. /\ seats[u] \in Nat /\ seats[v] \in Nat /\ seats[w] \in Nat
          /\ seats[u] # seats[w]
      BY <3>1, <3>2, MembersNumbers, NumbersDiffer DEF Numbers
    <3>4. /\ seats'[u] = IF seats[w] < seats[u] THEN seats[u] - 1 ELSE seats[u]
          /\ seats'[v] = IF seats[w] < seats[v] THEN seats[v] - 1 ELSE seats[v]
      BY <3>1, <3>2, MembersNumbers, CompactedSeats
    <3> QED
      BY <3>3, <3>4
  <2>2. ASSUME NEW s \in Slots, CommitJoin(s) \/ CommitAccept(s)
        PROVE  seats'[u] < seats'[v]
    <3>1. PICK r : AddMember(r)
      BY <2>2 DEF CommitJoin, CommitAccept
    <3>2. seats'[u] = seats[u] /\ seats'[v] = seats[v]
      BY <3>1 DEF AddMember, Seated, Members
    <3> QED
      BY <3>2
  <2>3. CASE UNCHANGED seats
    BY <2>3
  <2> QED
    BY <2>1, <2>2, <2>3
    DEF Next, Begin, BeginJoin, BeginAccept, BeginInvite, BeginLeave, BeginUpdate,
        BeginCancel, BeginStart, CommitInvite, CommitUpdate, CommitCancel, CommitStart,
        RollBack, Decline, Expire
<1> QED
  BY <1>1, LobbyInvariance, PTL DEF Spec, OrderIsKept
=============================================================================
