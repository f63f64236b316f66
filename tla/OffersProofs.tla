---------------------------- MODULE OffersProofs ----------------------------
(***************************************************************************)
(* Proofs about the module Offers, for any number of users, challenges,    *)
(* invitations and requests in flight; about the module Placement, for a   *)
(* board of any size with any premiums, tiles and dictionary; and about    *)
(* the module RuleProfiles, for any policy of a deployment.                *)
(***************************************************************************)
EXTENDS Offers, Placement, RuleProfiles, SequenceTheorems, FiniteSetTheorems, TLAPS

\* The game that comes of a challenge or of an invitation.
GameOfChallenge(c) == [offer |-> c, players |-> <<challenges[c].from, challenges[c].to>>]
GameOfInvitation(i) ==
  [offer |-> i, players |-> <<invitations[i].creator, invitations[i].redeemer>>]

\* What a request has read of its offer never changes: an offer is between the
\* same users from the first to the last.
ReadsAreTrue ==
  \A q \in Requests : requests[q] # Idle =>
    /\ requests[q].op = "Challenge" =>
         /\ requests[q].from \in Users /\ requests[q].to \in Users
         /\ requests[q].from # requests[q].to
    /\ requests[q].op = "Accept" =>
         /\ requests[q].challenge \in DOMAIN challenges
         /\ requests[q].from = challenges[requests[q].challenge].from
         /\ requests[q].to = challenges[requests[q].challenge].to
    /\ requests[q].op = "Redeem" =>
         /\ requests[q].invitation \in DOMAIN invitations
         /\ requests[q].creator = invitations[requests[q].invitation].creator
         /\ requests[q].redeemer \in Users
         /\ requests[q].redeemer # requests[q].creator

IInv ==
  /\ GamesMatchOffers
  /\ IsFiniteSet(TakenUp)
  /\ DOMAIN requests = Requests
  /\ ReadsAreTrue

\* The offers that were taken up.
LEMMA TakenUpMembers ==
  ASSUME NEW g
  PROVE  g \in TakenUp <=>
           \/ \E c \in DOMAIN challenges :
                challenges[c].status = "ACCEPTED" /\ g = GameOfChallenge(c)
           \/ \E i \in DOMAIN invitations :
                invitations[i].status = "REDEEMED" /\ g = GameOfInvitation(i)
BY DEF TakenUp, GameOfChallenge, GameOfInvitation

\* The same of the next state.
LEMMA TakenUpMembersNext ==
  ASSUME NEW g
  PROVE  g \in TakenUp' <=>
           \/ \E c \in DOMAIN challenges' :
                challenges'[c].status = "ACCEPTED" /\ g = GameOfChallenge(c)'
           \/ \E i \in DOMAIN invitations' :
                invitations'[i].status = "REDEEMED" /\ g = GameOfInvitation(i)'
BY DEF TakenUp, GameOfChallenge, GameOfInvitation

-----------------------------------------------------------------------------
\* The invariant holds at the start.
LEMMA InitIInv == Init => IInv
<1> SUFFICES ASSUME Init PROVE IInv
  OBVIOUS
<1>1. DOMAIN challenges = {} /\ DOMAIN invitations = {} /\ games = <<>>
  BY DEF Init
<1>2. TakenUp = {}
  BY <1>1, TakenUpMembers
<1>3. IsFiniteSet(TakenUp) /\ Cardinality(TakenUp) = 0
  BY <1>2, FS_EmptySet
<1>4. TypeOK
  BY <1>1 DEF Init, TypeOK
<1>5. GamesMatchOffers
  BY <1>1, <1>2, <1>3, <1>4 DEF GamesMatchOffers
<1> QED
  BY <1>3, <1>5 DEF IInv, Init, ReadsAreTrue

\* A step that takes no offer up and makes no game.
LEMMA QuietKeepsInv ==
  ASSUME IInv, TypeOK', ReadsAreTrue', DOMAIN requests' = Requests, UNCHANGED games,
         TakenUp' = TakenUp
  PROVE  IInv'
BY DEF IInv, GamesMatchOffers

\* A step that takes one offer up and makes the game of it.
LEMMA OneMoreGame ==
  ASSUME IInv, TypeOK', ReadsAreTrue', DOMAIN requests' = Requests,
         NEW g \in [offer : Challenges \cup Invitations, players : Users \X Users],
         g \notin TakenUp, games' = Append(games, g), TakenUp' = TakenUp \cup {g}
  PROVE  IInv'
<1> DEFINE S == [offer : Challenges \cup Invitations, players : Users \X Users]
<1>1. games \in Seq(S) /\ Len(games) \in Nat
  BY LenProperties DEF IInv, GamesMatchOffers, TypeOK
<1>2. /\ Len(games') = Len(games) + 1 /\ DOMAIN games' = 1..(Len(games) + 1)
      /\ games'[Len(games) + 1] = g
      /\ \A n \in 1..Len(games) : games'[n] = games[n]
      /\ DOMAIN games = 1..Len(games)
  BY <1>1, AppendProperties, LenProperties
<1>3. {games'[n] : n \in DOMAIN games'} = {games[n] : n \in DOMAIN games} \cup {g}
  <2>1. \A n \in 1..(Len(games) + 1) : n \in 1..Len(games) \/ n = Len(games) + 1
    BY <1>1
  <2>2. \A n \in 1..Len(games) : n \in 1..(Len(games) + 1)
    BY <1>1
  <2>3. Len(games) + 1 \in 1..(Len(games) + 1)
    BY <1>1
  <2> QED
    BY <1>2, <2>1, <2>2, <2>3
<1>4. IsFiniteSet(TakenUp') /\ Cardinality(TakenUp') = Cardinality(TakenUp) + 1
  BY FS_AddElement DEF IInv
<1>5. GamesMatchOffers'
  BY <1>2, <1>3, <1>4 DEF IInv, GamesMatchOffers
<1> QED
  BY <1>4, <1>5 DEF IInv

\* A request ends: what the others have read is untouched as long as no offer
\* changes its users.
LEMMA EndKeepsReads ==
  ASSUME IInv, NEW q \in Requests, End(q),
         \A c \in DOMAIN challenges : /\ c \in DOMAIN challenges'
                                      /\ challenges'[c].from = challenges[c].from
                                      /\ challenges'[c].to = challenges[c].to,
         \A i \in DOMAIN invitations : /\ i \in DOMAIN invitations'
                                       /\ invitations'[i].creator = invitations[i].creator
  PROVE  ReadsAreTrue' /\ DOMAIN requests' = Requests
<1>1. /\ DOMAIN requests' = Requests /\ requests'[q] = Idle
      /\ \A p \in Requests : p # q => requests'[p] = requests[p]
  BY DEF End, IInv
<1> QED
  BY <1>1 DEF IInv, ReadsAreTrue

\* Accept keeps the invariant.
LEMMA AcceptKeepsInv ==
  ASSUME IInv, NEW q \in Requests, CommitAccept(q)
  PROVE  IInv'
<1> DEFINE r == requests[q]
           c == r.challenge
           g == GameOfChallenge(c)
<1>1. /\ r # Idle /\ r.op = "Accept" /\ c \in DOMAIN challenges
      /\ challenges[c].status = "PENDING"
      /\ challenges' = [challenges EXCEPT ![c].status = "ACCEPTED"]
      /\ games' = Append(games, [offer |-> c, players |-> <<r.from, r.to>>])
      /\ End(q) /\ UNCHANGED <<invitations, expired>>
  BY DEF CommitAccept, Goes, IsPending, CreateGame
<1>2. r.from = challenges[c].from /\ r.to = challenges[c].to
  BY <1>1 DEF IInv, ReadsAreTrue
<1>3. c \in Challenges /\ challenges[c].from \in Users /\ challenges[c].to \in Users
  BY <1>1 DEF IInv, GamesMatchOffers, TypeOK
<1> HIDE DEF r, c
<1>4. games' = Append(games, g)
  BY <1>1, <1>2 DEF GameOfChallenge
<1>5. /\ DOMAIN challenges' = DOMAIN challenges
      /\ \A d \in DOMAIN challenges : d # c => challenges'[d] = challenges[d]
      /\ challenges'[c] = [challenges[c] EXCEPT !.status = "ACCEPTED"]
  BY <1>1
<1>6. /\ challenges'[c].from = challenges[c].from /\ challenges'[c].to = challenges[c].to
      /\ challenges'[c].status = "ACCEPTED"
      /\ challenges'[c] \in [from : Users, to : Users,
                             status : {"PENDING", "ACCEPTED", "DECLINED", "CANCELLED"}]
  BY <1>1, <1>5 DEF IInv, GamesMatchOffers, TypeOK
<1>7. g \in [offer : Challenges \cup Invitations, players : Users \X Users]
  BY <1>3 DEF GameOfChallenge
<1>8. g \notin TakenUp
  <2>1. ASSUME NEW d \in DOMAIN challenges, challenges[d].status = "ACCEPTED",
               g = GameOfChallenge(d)
        PROVE  FALSE
    BY <2>1, <1>1 DEF GameOfChallenge
  <2>2. ASSUME NEW i \in DOMAIN invitations, g = GameOfInvitation(i)
        PROVE  FALSE
    BY <2>2, <1>3, IdsAssumption
    DEF GameOfChallenge, GameOfInvitation, IInv, GamesMatchOffers, TypeOK
  <2> QED
    BY <2>1, <2>2, TakenUpMembers
<1>9. TakenUp' = TakenUp \cup {g}
  <2>1. ASSUME NEW d \in DOMAIN challenges
        PROVE  GameOfChallenge(d)' = GameOfChallenge(d)
    BY <1>5, <1>6 DEF GameOfChallenge
  <2>2. ASSUME NEW i
        PROVE  GameOfInvitation(i)' = GameOfInvitation(i)
    BY <1>1 DEF GameOfInvitation
  <2>3. ASSUME NEW x PROVE x \in TakenUp' <=> (x \in TakenUp \/ x = g)
    BY <2>1, <2>2, <1>1, <1>5, <1>6, TakenUpMembers, TakenUpMembersNext
  <2> QED
    BY <2>3
<1>10. TypeOK'
  <2>1. games' \in Seq([offer : Challenges \cup Invitations, players : Users \X Users])
    BY <1>4, <1>7, AppendProperties DEF IInv, GamesMatchOffers, TypeOK
  <2> QED
    BY <2>1, <1>1, <1>5, <1>6 DEF IInv, GamesMatchOffers, TypeOK
<1>11. ReadsAreTrue' /\ DOMAIN requests' = Requests
  <2>1. \A d \in DOMAIN challenges : /\ d \in DOMAIN challenges'
                                     /\ challenges'[d].from = challenges[d].from
                                     /\ challenges'[d].to = challenges[d].to
    BY <1>5, <1>6
  <2> QED
    BY <2>1, <1>1, EndKeepsReads
<1> HIDE DEF g
<1> QED
  BY <1>4, <1>7, <1>8, <1>9, <1>10, <1>11, OneMoreGame

\* Redeem keeps the invariant.
LEMMA RedeemKeepsInv ==
  ASSUME IInv, NEW q \in Requests, CommitRedeem(q)
  PROVE  IInv'
<1> DEFINE r == requests[q]
<1> PICK i : i = r.invitation
  OBVIOUS
<1> DEFINE g == [offer |-> i, players |-> <<r.creator, r.redeemer>>]
<1>1. /\ r # Idle /\ r.op = "Redeem" /\ i \in DOMAIN invitations
      /\ invitations[i].status = "ACTIVE"
      /\ invitations' = [invitations EXCEPT ![i].status = "REDEEMED",
                                            ![i].redeemer = r.redeemer]
      /\ games' = Append(games, g)
      /\ End(q) /\ UNCHANGED <<challenges, expired>>
  BY DEF CommitRedeem, Goes, IsActive, CreateGame
<1>2. /\ r.creator = invitations[i].creator /\ r.redeemer \in Users
      /\ r.redeemer # r.creator
  BY <1>1 DEF IInv, ReadsAreTrue
<1>3. i \in Invitations /\ r.creator \in Users
  BY <1>1, <1>2 DEF IInv, GamesMatchOffers, TypeOK
<1>4. /\ DOMAIN invitations' = DOMAIN invitations
      /\ \A j \in DOMAIN invitations : j # i => invitations'[j] = invitations[j]
      /\ invitations'[i] = [invitations[i] EXCEPT !.status = "REDEEMED",
                                                  !.redeemer = r.redeemer]
  BY <1>1
<1>5. invitations[i] \in [creator : Users, redeemer : Users \cup {Nobody},
                          status : {"ACTIVE", "REDEEMED", "REVOKED"}]
  BY <1>1 DEF IInv, GamesMatchOffers, TypeOK
<1> HIDE DEF r
<1>6. /\ invitations'[i].creator = r.creator /\ invitations'[i].redeemer = r.redeemer
      /\ invitations'[i].status = "REDEEMED"
      /\ invitations'[i] \in [creator : Users, redeemer : Users \cup {Nobody},
                              status : {"ACTIVE", "REDEEMED", "REVOKED"}]
  BY <1>2, <1>4, <1>5
<1>7. g \in [offer : Challenges \cup Invitations, players : Users \X Users]
  BY <1>2, <1>3
<1>8. g \notin TakenUp
  <2>1. ASSUME NEW c \in DOMAIN challenges, g = GameOfChallenge(c)
        PROVE  FALSE
    BY <2>1, <1>3, IdsAssumption DEF GameOfChallenge, IInv, GamesMatchOffers, TypeOK
  <2>2. ASSUME NEW j \in DOMAIN invitations, invitations[j].status = "REDEEMED",
               g = GameOfInvitation(j)
        PROVE  FALSE
    BY <2>2, <1>1 DEF GameOfInvitation
  <2> QED
    BY <2>1, <2>2, TakenUpMembers
<1>9. TakenUp' = TakenUp \cup {g}
  <2>1. ASSUME NEW c
        PROVE  GameOfChallenge(c)' = GameOfChallenge(c)
    BY <1>1 DEF GameOfChallenge
  <2>2. ASSUME NEW j \in DOMAIN invitations, j # i
        PROVE  GameOfInvitation(j)' = GameOfInvitation(j)
    BY <2>2, <1>4 DEF GameOfInvitation
  <2>3. GameOfInvitation(i)' = g
    BY <1>6, <1>1 DEF GameOfInvitation
  <2> HIDE DEF g
  <2>4. ASSUME NEW x PROVE x \in TakenUp' <=> (x \in TakenUp \/ x = g)
    BY <2>1, <2>2, <2>3, <1>1, <1>4, <1>6, TakenUpMembers, TakenUpMembersNext
  <2> QED
    BY <2>4
<1>10. TypeOK'
  <2>1. games' \in Seq([offer : Challenges \cup Invitations, players : Users \X Users])
    BY <1>1, <1>7, AppendProperties DEF IInv, GamesMatchOffers, TypeOK
  <2>2. \A j \in DOMAIN invitations' :
          /\ invitations'[j] \in [creator : Users, redeemer : Users \cup {Nobody},
                                  status : {"ACTIVE", "REDEEMED", "REVOKED"}]
          /\ invitations'[j].creator # invitations'[j].redeemer
    <3> SUFFICES ASSUME NEW j \in DOMAIN invitations'
                 PROVE  /\ invitations'[j] \in [creator : Users, redeemer : Users \cup {Nobody},
                                               status : {"ACTIVE", "REDEEMED", "REVOKED"}]
                        /\ invitations'[j].creator # invitations'[j].redeemer
      OBVIOUS
    <3>1. CASE j = i
      BY <3>1, <1>2, <1>6
    <3>2. CASE j # i
      BY <3>2, <1>4 DEF IInv, GamesMatchOffers, TypeOK
    <3> QED
      BY <3>1, <3>2
  <2> QED
    BY <2>1, <2>2, <1>1, <1>4 DEF IInv, GamesMatchOffers, TypeOK
<1>11. ReadsAreTrue' /\ DOMAIN requests' = Requests
  <2>1. \A j \in DOMAIN invitations : /\ j \in DOMAIN invitations'
                                      /\ invitations'[j].creator = invitations[j].creator
    BY <1>2, <1>4, <1>6
  <2> QED
    BY <2>1, <1>1, EndKeepsReads
<1> HIDE DEF g
<1> QED
  BY <1>1, <1>7, <1>8, <1>9, <1>10, <1>11, OneMoreGame

\* An offer that is made, or closed while it is open, is not one that is taken up.
LEMMA OpenOffersDoNotCount ==
  ASSUME DOMAIN challenges \subseteq DOMAIN challenges',
         DOMAIN invitations \subseteq DOMAIN invitations',
         \A c \in DOMAIN challenges' :
           \/ c \in DOMAIN challenges /\ challenges'[c] = challenges[c]
           \/ /\ challenges'[c].status # "ACCEPTED"
              /\ c \in DOMAIN challenges => challenges[c].status # "ACCEPTED",
         \A i \in DOMAIN invitations' :
           \/ i \in DOMAIN invitations /\ invitations'[i] = invitations[i]
           \/ /\ invitations'[i].status # "REDEEMED"
              /\ i \in DOMAIN invitations => invitations[i].status # "REDEEMED"
  PROVE  TakenUp' = TakenUp
<1>1. ASSUME NEW c, challenges'[c] = challenges[c]
      PROVE  GameOfChallenge(c)' = GameOfChallenge(c)
  BY <1>1 DEF GameOfChallenge
<1>2. ASSUME NEW i, invitations'[i] = invitations[i]
      PROVE  GameOfInvitation(i)' = GameOfInvitation(i)
  BY <1>2 DEF GameOfInvitation
<1>3. ASSUME NEW x PROVE x \in TakenUp' <=> x \in TakenUp
  BY <1>1, <1>2, TakenUpMembers, TakenUpMembersNext
<1> QED
  BY <1>3

\* Every step keeps it.
LEMMA NextIInv == IInv /\ [Next]_vars => IInv'
<1> SUFFICES ASSUME IInv, [Next]_vars PROVE IInv'
  OBVIOUS
<1> DEFINE ChallengeRow == [from : Users, to : Users,
                            status : {"PENDING", "ACCEPTED", "DECLINED", "CANCELLED"}]
           InvitationRow == [creator : Users, redeemer : Users \cup {Nobody},
                             status : {"ACTIVE", "REDEEMED", "REVOKED"}]
<1>1. /\ \A c \in DOMAIN challenges : challenges[c] \in ChallengeRow
      /\ \A i \in DOMAIN invitations : invitations[i] \in InvitationRow
  BY DEF IInv, GamesMatchOffers, TypeOK
<1>2. ASSUME NEW q \in Requests, NEW request, Begin(q, request),
             UNCHANGED <<challenges, invitations, expired, games>>,
             request.op = "Challenge" =>
               request.from \in Users /\ request.to \in Users /\ request.from # request.to,
             request.op = "Accept" =>
               /\ request.challenge \in DOMAIN challenges
               /\ request.from = challenges[request.challenge].from
               /\ request.to = challenges[request.challenge].to,
             request.op = "Redeem" =>
               /\ request.invitation \in DOMAIN invitations
               /\ request.creator = invitations[request.invitation].creator
               /\ request.redeemer \in Users /\ request.redeemer # request.creator
      PROVE  IInv'
  <2>1. /\ DOMAIN requests' = Requests /\ requests'[q] = request
        /\ \A p \in Requests : p # q => requests'[p] = requests[p]
    BY <1>2 DEF Begin, IInv
  <2>2. ReadsAreTrue'
    BY <1>2, <2>1 DEF IInv, ReadsAreTrue
  <2>3. TypeOK' /\ TakenUp' = TakenUp
    BY <1>2 DEF IInv, GamesMatchOffers, TypeOK, TakenUp
  <2> QED
    BY <1>2, <2>1, <2>2, <2>3, QuietKeepsInv
<1>3. ASSUME NEW q \in Requests, NEW from \in Users, NEW to \in Users,
             BeginChallenge(q, from, to)
      PROVE  IInv'
  BY <1>2, <1>3 DEF BeginChallenge
<1>4. ASSUME NEW q \in Requests, NEW c \in Challenges, InsertChallenge(q, c)
      PROVE  IInv'
  <2> DEFINE new == [from |-> requests[q].from, to |-> requests[q].to, status |-> "PENDING"]
  <2>1. /\ c \notin DOMAIN challenges
        /\ challenges' = With(challenges, c, new)
        /\ End(q) /\ UNCHANGED <<invitations, expired, games>>
        /\ new.status = "PENDING" /\ new \in ChallengeRow /\ new.from # new.to
    BY <1>4 DEF InsertChallenge, Goes, IInv, ReadsAreTrue
  <2> HIDE DEF new
  <2>2. /\ DOMAIN challenges' = DOMAIN challenges \cup {c} /\ challenges'[c] = new
        /\ \A d \in DOMAIN challenges : challenges'[d] = challenges[d]
    BY <2>1 DEF With
  <2>3. TakenUp' = TakenUp
    BY <2>1, <2>2, OpenOffersDoNotCount
  <2>4. TypeOK'
    BY <2>1, <2>2 DEF IInv, GamesMatchOffers, TypeOK
  <2>5. ReadsAreTrue' /\ DOMAIN requests' = Requests
    BY <2>1, <2>2, EndKeepsReads
  <2> QED
    BY <2>1, <2>3, <2>4, <2>5, QuietKeepsInv
<1>5. ASSUME NEW q \in Requests, NEW c \in Challenges, BeginAccept(q, c)
      PROVE  IInv'
  BY <1>2, <1>5 DEF BeginAccept, IsPending
<1>6. ASSUME NEW q \in Requests, NEW i \in Invitations, NEW u \in Users, BeginRedeem(q, i, u)
      PROVE  IInv'
  BY <1>2, <1>6 DEF BeginRedeem, MayRedeem, IsActive
<1>7. ASSUME NEW q \in Requests, CommitAccept(q) \/ CommitRedeem(q)
      PROVE  IInv'
  BY <1>7, AcceptKeepsInv, RedeemKeepsInv
<1>8. ASSUME NEW q \in Requests, RollBack(q)
      PROVE  IInv'
  <2>1. ReadsAreTrue' /\ DOMAIN requests' = Requests
    BY <1>8, EndKeepsReads DEF RollBack
  <2>2. TypeOK' /\ TakenUp' = TakenUp
    BY <1>8 DEF RollBack, IInv, GamesMatchOffers, TypeOK, TakenUp
  <2> QED
    BY <1>8, <2>1, <2>2, QuietKeepsInv DEF RollBack
<1>9. ASSUME NEW c \in Challenges, NEW s \in {"DECLINED", "CANCELLED"}, Close(c, s)
      PROVE  IInv'
  <2>1. /\ c \in DOMAIN challenges /\ challenges[c].status = "PENDING"
        /\ DOMAIN challenges' = DOMAIN challenges
        /\ challenges'[c] = [challenges[c] EXCEPT !.status = s]
        /\ \A d \in DOMAIN challenges : d # c => challenges'[d] = challenges[d]
        /\ UNCHANGED <<invitations, expired, games, requests>>
    BY <1>9 DEF Close, IsPending
  <2>2. /\ challenges'[c] \in ChallengeRow /\ challenges'[c].status = s
        /\ challenges'[c].from = challenges[c].from /\ challenges'[c].to = challenges[c].to
    BY <1>1, <2>1
  <2>3. TakenUp' = TakenUp
    BY <2>1, <2>2, OpenOffersDoNotCount
  <2>4. TypeOK'
    BY <2>1, <2>2 DEF IInv, GamesMatchOffers, TypeOK
  <2>5. ReadsAreTrue' /\ DOMAIN requests' = Requests
    BY <2>1, <2>2 DEF IInv, ReadsAreTrue
  <2> QED
    BY <2>1, <2>3, <2>4, <2>5, QuietKeepsInv
<1>10. ASSUME NEW i \in Invitations, NEW u \in Users, CreateInvitation(i, u)
       PROVE  IInv'
  <2> DEFINE new == [creator |-> u, redeemer |-> Nobody, status |-> "ACTIVE"]
  <2>1. /\ i \notin DOMAIN invitations
        /\ invitations' = With(invitations, i, new)
        /\ UNCHANGED <<challenges, expired, games, requests>>
        /\ new.status = "ACTIVE" /\ new \in InvitationRow /\ new.creator # new.redeemer
    BY <1>10, UsersAssumption DEF CreateInvitation, Nobody
  <2> HIDE DEF new
  <2>2. /\ DOMAIN invitations' = DOMAIN invitations \cup {i} /\ invitations'[i] = new
        /\ \A j \in DOMAIN invitations : invitations'[j] = invitations[j]
    BY <2>1 DEF With
  <2>3. TakenUp' = TakenUp
    BY <2>1, <2>2, OpenOffersDoNotCount
  <2>4. TypeOK'
    BY <2>1, <2>2 DEF IInv, GamesMatchOffers, TypeOK
  <2>5. ReadsAreTrue' /\ DOMAIN requests' = Requests
    BY <2>1, <2>2 DEF IInv, ReadsAreTrue
  <2> QED
    BY <2>1, <2>3, <2>4, <2>5, QuietKeepsInv
<1>11. ASSUME NEW i \in Invitations, Expire(i)
       PROVE  IInv'
  BY <1>11, QuietKeepsInv
  DEF Expire, IInv, GamesMatchOffers, TypeOK, TakenUp, ReadsAreTrue
<1>12. ASSUME NEW i \in Invitations, Revoke(i)
       PROVE  IInv'
  <2>1. /\ i \in DOMAIN invitations /\ invitations[i].status = "ACTIVE"
        /\ DOMAIN invitations' = DOMAIN invitations
        /\ invitations'[i] = [invitations[i] EXCEPT !.status = "REVOKED"]
        /\ \A j \in DOMAIN invitations : j # i => invitations'[j] = invitations[j]
        /\ UNCHANGED <<challenges, expired, games, requests>>
    BY <1>12 DEF Revoke, IsActive
  <2>2. /\ invitations'[i] \in InvitationRow /\ invitations'[i].status = "REVOKED"
        /\ invitations'[i].creator = invitations[i].creator
        /\ invitations'[i].redeemer = invitations[i].redeemer
    BY <1>1, <2>1
  <2>3. TakenUp' = TakenUp
    BY <2>1, <2>2, OpenOffersDoNotCount
  <2>4. TypeOK'
    BY <2>1, <2>2 DEF IInv, GamesMatchOffers, TypeOK
  <2>5. ReadsAreTrue' /\ DOMAIN requests' = Requests
    BY <2>1, <2>2 DEF IInv, ReadsAreTrue
  <2> QED
    BY <2>1, <2>3, <2>4, <2>5, QuietKeepsInv
<1>13. CASE UNCHANGED vars
  BY <1>13, QuietKeepsInv
  DEF vars, IInv, GamesMatchOffers, TypeOK, TakenUp, ReadsAreTrue
<1> QED
  BY <1>3, <1>4, <1>5, <1>6, <1>7, <1>8, <1>9, <1>10, <1>11, <1>12, <1>13 DEF Next

-----------------------------------------------------------------------------
(* Theorems *)

\* Every challenge that was accepted and every invitation that was redeemed has
\* one game, of the two it was between, and there are no other games, whatever
\* requests overlap, cross or fail.
THEOREM OneGamePerOffer == Spec => []GamesMatchOffers
<1>1. IInv => GamesMatchOffers
  BY DEF IInv
<1> QED
  BY <1>1, InitIInv, NextIInv, PTL DEF Spec

\* An offer that has been answered stays as it was answered.
THEOREM AnswersAreFinal == Spec => OutcomeIsFinal
<1>1. [Next]_vars =>
        [/\ \A c \in DOMAIN challenges :
              challenges[c].status # "PENDING" => challenges'[c] = challenges[c]
         /\ \A i \in DOMAIN invitations :
              invitations[i].status # "ACTIVE" => invitations'[i] = invitations[i]]_vars
  <2> SUFFICES ASSUME Next
               PROVE  /\ \A c \in DOMAIN challenges :
                           challenges[c].status # "PENDING" => challenges'[c] = challenges[c]
                      /\ \A i \in DOMAIN invitations :
                           invitations[i].status # "ACTIVE" => invitations'[i] = invitations[i]
    OBVIOUS
  <2>1. CASE UNCHANGED <<challenges, invitations>>
    BY <2>1
  <2>2. ASSUME NEW q \in Requests, NEW c \in Challenges, InsertChallenge(q, c)
        PROVE  /\ \A d \in DOMAIN challenges : challenges'[d] = challenges[d]
               /\ UNCHANGED invitations
    BY <2>2 DEF InsertChallenge, With
  <2>3. ASSUME NEW i \in Invitations, NEW u \in Users, CreateInvitation(i, u)
        PROVE  /\ \A j \in DOMAIN invitations : invitations'[j] = invitations[j]
               /\ UNCHANGED challenges
    BY <2>3 DEF CreateInvitation, With
  <2>4. ASSUME NEW q \in Requests, CommitAccept(q)
        PROVE  /\ \A d \in DOMAIN challenges :
                    challenges[d].status # "PENDING" => challenges'[d] = challenges[d]
               /\ UNCHANGED invitations
    BY <2>4 DEF CommitAccept, IsPending
  <2>5. ASSUME NEW q \in Requests, CommitRedeem(q)
        PROVE  /\ \A j \in DOMAIN invitations :
                    invitations[j].status # "ACTIVE" => invitations'[j] = invitations[j]
               /\ UNCHANGED challenges
    BY <2>5 DEF CommitRedeem, IsActive
  <2>6. ASSUME NEW c \in Challenges, NEW s \in {"DECLINED", "CANCELLED"}, Close(c, s)
        PROVE  /\ \A d \in DOMAIN challenges :
                    challenges[d].status # "PENDING" => challenges'[d] = challenges[d]
               /\ UNCHANGED invitations
    BY <2>6 DEF Close, IsPending
  <2>7. ASSUME NEW i \in Invitations, Revoke(i)
        PROVE  /\ \A j \in DOMAIN invitations :
                    invitations[j].status # "ACTIVE" => invitations'[j] = invitations[j]
               /\ UNCHANGED challenges
    BY <2>7 DEF Revoke, IsActive
  <2> QED
    BY <2>1, <2>2, <2>3, <2>4, <2>5, <2>6, <2>7
    DEF Next, BeginChallenge, BeginAccept, BeginRedeem, RollBack, Expire
<1> QED
  BY <1>1, PTL DEF Spec, OutcomeIsFinal

\* A set of numbers has a least member.
LEMMA LeastMember ==
  ASSUME NEW S \in SUBSET Nat, S # {}
  PROVE  \E m \in S : \A k \in S : m <= k
<1> DEFINE Intervals == {1..k : k \in S}
<1>1. Intervals \subseteq FiniteSubsetsOf(Nat) /\ Intervals # {}
  <2>1. \A k \in S : 1..k \in SUBSET Nat /\ IsFiniteSet(1..k)
    BY FS_Interval
  <2>2. \A k \in S : 1..k \in FiniteSubsetsOf(Nat)
    BY <2>1 DEF FiniteSubsetsOf
  <2> QED
    BY <2>2
<1>2. PICK x \in Intervals : \A y \in Intervals : <<y, x>> \notin StrictSubsetOrdering(Nat)
  <2> HIDE DEF Intervals
  <2> QED
    BY <1>1, FS_StrictSubsetOrderingWellFounded, WFMin
<1>3. PICK m \in S : x = 1..m
  BY DEF Intervals
<1>4. ASSUME NEW k \in S, k < m
      PROVE  FALSE
  <2>1. 1..k \subseteq 1..m /\ m \in 1..m /\ m \notin 1..k
    BY <1>4
  <2>2. <<1..k, x>> \in StrictSubsetOrdering(Nat)
    BY <2>1, <1>3 DEF StrictSubsetOrdering
  <2> QED
    BY <2>2, <1>2
<1> QED
  BY <1>4

-----------------------------------------------------------------------------
(* Placement: steps along a line, and the stretches of a line *)

Places == Int \X Int

\* Steps along an axis add up and are one to one.
LEMMA Steps ==
  ASSUME NEW c \in Places, NEW a \in Axes, NEW m \in Int, NEW n \in Int
  PROVE  /\ Step(c, a, n) \in Places
         /\ Step(c, a, 0) = c
         /\ Step(Step(c, a, m), a, n) = Step(c, a, m + n)
         /\ Step(c, a, m) = Step(c, a, n) => m = n
  BY DEF Places, Axes, Step

\* Two squares of a line are less than the size of the board apart.
LEMMA StepsOnBoard ==
  ASSUME NEW c \in Places, NEW a \in Axes, NEW m \in Int, NEW n \in Int,
         Step(c, a, m) \in Squares, Step(c, a, n) \in Squares
  PROVE  n - m < BoardSize
  BY BoardAssumption DEF Places, Axes, Step, Squares

\* The squares of the board are places on the plane of all steps.
LEMMA SquaresArePlaces == Squares \subseteq Places
  BY BoardAssumption DEF Squares, Places

\* Two squares next to each other lie on one line only.
LEMMA SameLine ==
  ASSUME NEW c \in Places, NEW d \in Places, NEW a \in Axes, NEW b \in Axes,
         NEW i \in Int, NEW j \in Int, Step(d, b, i) = c, Step(d, b, j) = Step(c, a, 1)
  PROVE  a = b /\ j = i + 1
  BY DEF Places, Axes, Step

\* The axis of the words across is the other one.
LEMMA AcrossIsTheOther ==
  ASSUME NEW a \in Axes
  PROVE  Across(a) \in Axes /\ Across(a) # a /\ \A b \in Axes : b = a \/ b = Across(a)
  BY DEF Axes, Across

\* From every tile the tiles on one side end within the size of the board.
LEMMA ReachIsFound ==
  ASSUME NEW N \in SUBSET Squares, NEW c \in N, NEW a \in Axes, NEW sign \in {-1, 1}
  PROVE  LET n == Reach(N, c, a, sign)
         IN  /\ n \in 0..BoardSize
             /\ \A k \in 1..n : Step(c, a, sign * k) \in N
             /\ Step(c, a, sign * (n + 1)) \notin N
<1> DEFINE Off == {k \in Nat \ {0} : Step(c, a, sign * k) \notin N}
<1>1. c \in Places /\ Step(c, a, 0) = c /\ BoardSize \in Nat \ {0}
  BY SquaresArePlaces, Steps, BoardAssumption
<1>2. Step(c, a, sign * BoardSize) \notin Squares
  <2>1. CASE sign = 1
    BY <2>1, <1>1, StepsOnBoard
  <2>2. CASE sign = -1
    <3>1. sign * BoardSize \in Int /\ 0 - (sign * BoardSize) = BoardSize
      BY <2>2, <1>1
    <3> QED
      BY <3>1, <1>1, StepsOnBoard
  <2> QED
    BY <2>1, <2>2
<1>3. Off \subseteq Nat /\ BoardSize \in Off
  BY <1>1, <1>2
<1>4. PICK m \in Off : \A k \in Off : m <= k
  <2> HIDE DEF Off
  <2> QED
    BY <1>3, LeastMember
<1>5. /\ m - 1 \in 0..BoardSize
      /\ \A k \in 1..(m - 1) : Step(c, a, sign * k) \in N
      /\ Step(c, a, sign * ((m - 1) + 1)) \notin N
  <2>1. m \in Nat \ {0} /\ m <= BoardSize /\ (m - 1) + 1 = m
    BY <1>3, <1>4, <1>1
  <2>2. ASSUME NEW k \in 1..(m - 1)
        PROVE  Step(c, a, sign * k) \in N
    <3>1. k \in Nat \ {0} /\ ~(m <= k)
      BY <2>1
    <3>2. k \notin Off
      <4> HIDE DEF Off
      <4> QED
        BY <3>1, <1>4
    <3> QED
      BY <3>1, <3>2, Zenon
  <2> QED
    BY <2>1, <2>2, <1>1
<1> QED
  BY <1>5 DEF Reach

\* The n squares of a line from c on.
Stretch(c, a, n) == [i \in 1..n |-> Step(c, a, i - 1)]

\* A stretch of tiles with no tile before and none after it.
IsRun(N, c, a, n) ==
  /\ n \in Nat \ {0} /\ c \in N
  /\ \A i \in 0..(n - 1) : Step(c, a, i) \in N
  /\ Step(c, a, -1) \notin N /\ Step(c, a, n) \notin N

\* collect_word finds the run that a tile is in.
LEMMA WordIsRun ==
  ASSUME NEW N \in SUBSET Squares, NEW c \in N, NEW a \in Axes
  PROVE  \E d \in N, n \in 1..BoardSize :
           /\ IsRun(N, d, a, n) /\ CollectWord(N, c, a) = Stretch(d, a, n)
           /\ \E j \in 0..(n - 1) : c = Step(d, a, j)
<1> DEFINE b == Reach(N, c, a, -1)
           f == Reach(N, c, a, 1)
           d == Step(c, a, -b)
           n == b + 1 + f
<1>1. /\ b \in Nat /\ f \in Nat
      /\ \A k \in 1..b : Step(c, a, -k) \in N
      /\ Step(c, a, -(b + 1)) \notin N
      /\ \A k \in 1..f : Step(c, a, k) \in N
      /\ Step(c, a, f + 1) \notin N
  <2>1. /\ b \in 0..BoardSize
        /\ \A k \in 1..b : Step(c, a, (-1) * k) \in N
        /\ Step(c, a, (-1) * (b + 1)) \notin N
    BY ReachIsFound
  <2>2. /\ f \in 0..BoardSize
        /\ \A k \in 1..f : Step(c, a, 1 * k) \in N
        /\ Step(c, a, 1 * (f + 1)) \notin N
    BY ReachIsFound
  <2> HIDE DEF b, f
  <2>3. \A k \in Int : (-1) * k = -k /\ 1 * k = k
    OBVIOUS
  <2> QED
    BY <2>1, <2>2, <2>3, BoardAssumption
<1>2. CollectWord(N, c, a) = [i \in 1..n |-> Step(c, a, i - 1 - b)]
  BY DEF CollectWord
<1> HIDE DEF b, f
<1>3. c \in Places /\ \A i \in Int : Step(d, a, i) = Step(c, a, i - b) /\ Step(c, a, 0) = c
  <2>1. c \in Places
    BY SquaresArePlaces
  <2>2. ASSUME NEW i \in Int
        PROVE  Step(d, a, i) = Step(c, a, i - b)
    <3>1. -b \in Int /\ (-b) + i = i - b
      BY <1>1
    <3> QED
      BY <2>1, <3>1, Steps
  <2> QED
    BY <2>1, <2>2, Steps
<1>4. \A i \in 0..(n - 1) : Step(d, a, i) \in N
  <2> SUFFICES ASSUME NEW i \in 0..(n - 1) PROVE Step(d, a, i) \in N
    OBVIOUS
  <2>1. CASE i < b
    <3>1. b - i \in 1..b /\ -(b - i) = i - b
      BY <1>1, <2>1
    <3> QED
      BY <3>1, <1>1, <1>3
  <2>2. CASE i = b
    <3>1. i - b = 0
      BY <1>1, <2>2
    <3> QED
      BY <3>1, <1>3
  <2>3. CASE i > b
    <3>1. i - b \in 1..f
      BY <1>1, <2>3
    <3> QED
      BY <3>1, <1>1, <1>3
  <2> QED
    BY <2>1, <2>2, <2>3, <1>1
<1>5. n \in Nat \ {0} /\ b \in 0..(n - 1) /\ 0 \in 0..(n - 1) /\ b - b = 0 /\ n - 1 \in 0..(n - 1)
      /\ -1 - b = -(b + 1) /\ n - b = f + 1
  BY <1>1
<1>6. c = Step(d, a, b) /\ Step(d, a, 0) = d /\ d \in N
  <2>1. d \in Places
    BY <1>1, <1>3, Steps
  <2> QED
    BY <2>1, <1>3, <1>4, <1>5, <1>1, Steps
<1>7. IsRun(N, d, a, n)
  <2>1. Step(d, a, -1) \notin N /\ Step(d, a, n) \notin N
    BY <1>1, <1>3, <1>5
  <2> QED
    BY <2>1, <1>4, <1>5, <1>6 DEF IsRun
<1>8. n \in 1..BoardSize
  <2>1. Step(d, a, 0) \in Squares /\ Step(d, a, n - 1) \in Squares /\ d \in Places
    BY <1>4, <1>5, <1>6, SquaresArePlaces
  <2>2. (n - 1) - 0 < BoardSize
    BY <2>1, <1>5, StepsOnBoard
  <2> QED
    BY <2>2, <1>5, BoardAssumption
<1>9. CollectWord(N, c, a) = Stretch(d, a, n)
  <2>1. \A i \in 1..n : Step(d, a, i - 1) = Step(c, a, i - 1 - b)
    BY <1>3, <1>5
  <2> HIDE DEF n, d
  <2> QED
    BY <2>1, <1>2 DEF Stretch
<1> QED
  BY <1>5, <1>6, <1>7, <1>8, <1>9

\* No two runs of a line share a square.
LEMMA OneRun ==
  ASSUME NEW N \in SUBSET Squares, NEW a \in Axes, NEW c, NEW d, NEW m, NEW n,
         IsRun(N, c, a, m), IsRun(N, d, a, n), NEW i \in 0..(m - 1), NEW j \in 0..(n - 1),
         Step(c, a, i) = Step(d, a, j)
  PROVE  c = d /\ m = n
<1>1. /\ c \in Places /\ d \in Places /\ m \in Nat \ {0} /\ n \in Nat \ {0}
      /\ i \in Nat /\ j \in Nat /\ i < m /\ j < n
  BY SquaresArePlaces DEF IsRun
<1>2. \A k \in Int : Step(c, a, k) = Step(d, a, k + (j - i))
  <2> SUFFICES ASSUME NEW k \in Int PROVE Step(c, a, k) = Step(d, a, k + (j - i))
    OBVIOUS
  <2>1. k - i \in Int /\ i + (k - i) = k /\ j + (k - i) = k + (j - i)
    BY <1>1
  <2>2. Step(Step(c, a, i), a, k - i) = Step(c, a, k)
    BY <1>1, <2>1, Steps
  <2>3. Step(Step(d, a, j), a, k - i) = Step(d, a, k + (j - i))
    BY <1>1, <2>1, Steps
  <2> QED
    BY <2>2, <2>3
<1>3. i = j
  <2>1. ASSUME j > i PROVE FALSE
    <3>1. (-1) + (j - i) \in 0..(n - 1)
      BY <1>1, <2>1
    <3> QED
      BY <3>1, <1>2 DEF IsRun
  <2>2. ASSUME j < i PROVE FALSE
    <3>1. (i - j) - 1 \in 0..(m - 1) /\ (i - j) - 1 + (j - i) = -1 /\ (i - j) - 1 \in Int
      BY <1>1, <2>2
    <3> QED
      BY <3>1, <1>2 DEF IsRun
  <2> QED
    BY <1>1, <2>1, <2>2
<1>4. \A k \in Int : Step(c, a, k) = Step(d, a, k)
  <2>1. \A k \in Int : k + (j - i) = k
    BY <1>1, <1>3
  <2> QED
    BY <1>2, <2>1
<1>5. c = d
  <2>1. Step(c, a, 0) = c /\ Step(d, a, 0) = d
    BY <1>1, Steps
  <2> QED
    BY <2>1, <1>4
<1>6. m = n
  <2>1. ASSUME m < n PROVE FALSE
    <3>1. m \in 0..(n - 1) /\ m \in Int
      BY <1>1, <2>1
    <3> QED
      BY <3>1, <1>4 DEF IsRun
  <2>2. ASSUME n < m PROVE FALSE
    <3>1. n \in 0..(m - 1) /\ n \in Int
      BY <1>1, <2>2
    <3> QED
      BY <3>1, <1>4 DEF IsRun
  <2> QED
    BY <1>1, <2>1, <2>2
<1> QED
  BY <1>5, <1>6

-----------------------------------------------------------------------------
(* Placement: the runs of a board *)

\* The squares of a stretch.
LEMMA StretchIs ==
  ASSUME NEW c \in Places, NEW a \in Axes, NEW n \in Nat
  PROVE  /\ DOMAIN Stretch(c, a, n) = 1..n /\ Len(Stretch(c, a, n)) = n
         /\ \A i \in 1..n : Stretch(c, a, n)[i] = Step(c, a, i - 1)
         /\ SquaresOf(Stretch(c, a, n)) = {Step(c, a, i) : i \in 0..(n - 1)}
<1>1. Stretch(c, a, n) \in [1..n -> Places]
  BY Steps DEF Stretch
<1>2. Stretch(c, a, n) \in Seq(Places)
  BY <1>1
<1>3. /\ DOMAIN Stretch(c, a, n) = 1..n
      /\ \A i \in 1..n : Stretch(c, a, n)[i] = Step(c, a, i - 1)
  BY DEF Stretch
<1>4. Len(Stretch(c, a, n)) = n
  BY <1>2, <1>3, LenProperties
<1>5. SquaresOf(Stretch(c, a, n)) = {Step(c, a, i - 1) : i \in 1..n}
  BY <1>3 DEF SquaresOf
<1>6. \A x : x \in {Step(c, a, i - 1) : i \in 1..n} <=> x \in {Step(c, a, i) : i \in 0..(n - 1)}
  <2>1. ASSUME NEW i \in 1..n
        PROVE  Step(c, a, i - 1) \in {Step(c, a, k) : k \in 0..(n - 1)}
    <3>1. i - 1 \in 0..(n - 1)
      OBVIOUS
    <3> QED
      BY <3>1
  <2>2. ASSUME NEW i \in 0..(n - 1)
        PROVE  Step(c, a, i) \in {Step(c, a, k - 1) : k \in 1..n}
    <3>1. i + 1 \in 1..n /\ (i + 1) - 1 = i
      OBVIOUS
    <3> QED
      BY <3>1
  <2> QED
    BY <2>1, <2>2
<1> QED
  BY <1>3, <1>4, <1>5, <1>6

\* The segments of the board that are full of tiles.
FullSegments(N) == {s \in Segments : SquaresOf(s) \subseteq N}

\* They are the stretches of two tiles or more.
LEMMA FullStretches ==
  ASSUME NEW N \in SUBSET Squares, NEW s
  PROVE  s \in FullSegments(N) <=>
           \E c \in N, a \in Axes, n \in 2..BoardSize :
             s = Stretch(c, a, n) /\ \A i \in 0..(n - 1) : Step(c, a, i) \in N
<1>1. ASSUME s \in FullSegments(N)
      PROVE  \E c \in N, a \in Axes, n \in 2..BoardSize :
               s = Stretch(c, a, n) /\ \A i \in 0..(n - 1) : Step(c, a, i) \in N
  <2>1. PICK n \in 2..BoardSize, c \in Squares, a \in Axes : s = Stretch(c, a, n)
    BY <1>1 DEF FullSegments, Segments, Stretch
  <2>2. c \in Places /\ n \in Nat /\ 0 \in 0..(n - 1)
    BY <2>1, SquaresArePlaces
  <2>3. \A i \in 0..(n - 1) : Step(c, a, i) \in N
    BY <1>1, <2>1, <2>2, StretchIs DEF FullSegments
  <2>4. c \in N
    BY <2>2, <2>3, Steps
  <2> QED
    BY <2>1, <2>3, <2>4
<1>2. ASSUME NEW c \in N, NEW a \in Axes, NEW n \in 2..BoardSize, s = Stretch(c, a, n),
             \A i \in 0..(n - 1) : Step(c, a, i) \in N
      PROVE  s \in FullSegments(N)
  <2>1. c \in Squares /\ c \in Places /\ n \in Nat
    BY SquaresArePlaces
  <2>2. SquaresOf(s) \subseteq N /\ SquaresOf(s) \subseteq Squares
    BY <1>2, <2>1, StretchIs
  <2>3. s \in {[i \in 1..k |-> Step(d, axis, i - 1)] :
                 k \in 2..BoardSize, d \in Squares, axis \in Axes}
    BY <1>2, <2>1 DEF Stretch
  <2> QED
    BY <2>2, <2>3 DEF FullSegments, Segments
<1> QED
  BY <1>1, <1>2

\* The words that can be read on a board are its runs of two tiles or more.
LEMMA RunsAreRuns ==
  ASSUME NEW N \in SUBSET Squares, NEW s
  PROVE  s \in Runs(N) <=>
           \E c \in N, a \in Axes, n \in 2..BoardSize : s = Stretch(c, a, n) /\ IsRun(N, c, a, n)
<1>0. Runs(N) = {r \in FullSegments(N) : \A t \in FullSegments(N) :
                   ~(SquaresOf(r) \subseteq SquaresOf(t) /\ Len(r) < Len(t))}
  BY DEF Runs, FullSegments
<1>1. ASSUME s \in Runs(N)
      PROVE  \E c \in N, a \in Axes, n \in 2..BoardSize :
               s = Stretch(c, a, n) /\ IsRun(N, c, a, n)
  <2>1. PICK c \in N, a \in Axes, n \in 2..BoardSize :
          s = Stretch(c, a, n) /\ \A i \in 0..(n - 1) : Step(c, a, i) \in N
    BY <1>1, <1>0, FullStretches
  <2>2. /\ c \in Places /\ n \in Nat \ {0} /\ n + 1 \in Nat /\ n - 1 \in 0..(n - 1)
        /\ Step(c, a, 0) = c /\ BoardSize \in Nat
    BY SquaresArePlaces, Steps, BoardAssumption
  <2>3. /\ Len(s) = n /\ SquaresOf(s) = {Step(c, a, i) : i \in 0..(n - 1)}
    BY <2>1, <2>2, StretchIs
  <2>4. ASSUME Step(c, a, n) \in N
        PROVE  FALSE
    <3>1. n - 0 < BoardSize
      BY <2>2, <2>4, StepsOnBoard
    <3>2. n + 1 \in 2..BoardSize
      BY <3>1, <2>2
    <3>3. \A i \in 0..((n + 1) - 1) : Step(c, a, i) \in N
      <4>1. \A i \in 0..((n + 1) - 1) : i = n \/ i \in 0..(n - 1)
        BY <2>2
      <4> QED
        BY <4>1, <2>1, <2>4
    <3>4. Stretch(c, a, n + 1) \in FullSegments(N)
      BY <3>2, <3>3, FullStretches
    <3>5. /\ Len(Stretch(c, a, n + 1)) = n + 1
          /\ SquaresOf(Stretch(c, a, n + 1)) = {Step(c, a, i) : i \in 0..((n + 1) - 1)}
      BY <2>2, StretchIs
    <3>6. SquaresOf(s) \subseteq SquaresOf(Stretch(c, a, n + 1))
      <4>1. \A i \in 0..(n - 1) : i \in 0..((n + 1) - 1)
        BY <2>2
      <4> QED
        BY <4>1, <2>3, <3>5
    <3> QED
      BY <3>4, <3>5, <3>6, <2>3, <1>1, <1>0, <2>2
  <2>5. ASSUME Step(c, a, -1) \in N
        PROVE  FALSE
    <3> DEFINE d == Step(c, a, -1)
    <3>1. (n - 1) - (-1) < BoardSize
      BY <2>1, <2>2, <2>5, StepsOnBoard
    <3>2. n + 1 \in 2..BoardSize
      BY <3>1, <2>2
    <3>3. d \in Places /\ \A i \in Int : Step(d, a, i) = Step(c, a, -1 + i)
      BY <2>2, Steps
    <3>4. ASSUME NEW i \in 0..((n + 1) - 1)
          PROVE  Step(d, a, i) \in N
      <4>1. CASE i = 0
        BY <4>1, <3>3, <2>5
      <4>2. CASE i # 0
        <5>1. -1 + i \in 0..(n - 1)
          BY <4>2, <2>2
        <5> QED
          BY <5>1, <3>3, <2>1
      <4> QED
        BY <4>1, <4>2
    <3> HIDE DEF d
    <3>5. Stretch(d, a, n + 1) \in FullSegments(N)
      BY <3>2, <3>4, <2>5, FullStretches DEF d
    <3>6. /\ Len(Stretch(d, a, n + 1)) = n + 1
          /\ SquaresOf(Stretch(d, a, n + 1)) = {Step(d, a, i) : i \in 0..((n + 1) - 1)}
      BY <3>3, <2>2, StretchIs
    <3>7. SquaresOf(s) \subseteq SquaresOf(Stretch(d, a, n + 1))
      <4>1. ASSUME NEW i \in 0..(n - 1)
            PROVE  Step(c, a, i) \in {Step(d, a, k) : k \in 0..((n + 1) - 1)}
        <5>1. i + 1 \in 0..((n + 1) - 1) /\ -1 + (i + 1) = i
          BY <2>2
        <5> QED
          BY <5>1, <3>3
      <4> QED
        BY <4>1, <2>3, <3>6
    <3> QED
      BY <3>5, <3>6, <3>7, <2>3, <1>1, <1>0, <2>2
  <2> QED
    BY <2>1, <2>2, <2>4, <2>5 DEF IsRun
<1>2. ASSUME NEW c \in N, NEW a \in Axes, NEW n \in 2..BoardSize,
             s = Stretch(c, a, n), IsRun(N, c, a, n)
      PROVE  s \in Runs(N)
  <2>1. /\ c \in Places /\ n \in Nat \ {0} /\ n - 1 \in 0..(n - 1) /\ 0 \in 0..(n - 1)
        /\ 1 \in 0..(n - 1) /\ Step(c, a, 0) = c /\ BoardSize \in Nat
    BY SquaresArePlaces, Steps, BoardAssumption
  <2>2. s \in FullSegments(N)
    BY <1>2, FullStretches DEF IsRun
  <2>3. Len(s) = n /\ SquaresOf(s) = {Step(c, a, i) : i \in 0..(n - 1)}
    BY <1>2, <2>1, StretchIs
  <2>4. ASSUME NEW t \in FullSegments(N), SquaresOf(s) \subseteq SquaresOf(t), Len(s) < Len(t)
        PROVE  FALSE
    <3>1. PICK d \in N, b \in Axes, m \in 2..BoardSize :
            t = Stretch(d, b, m) /\ \A i \in 0..(m - 1) : Step(d, b, i) \in N
      BY FullStretches
    <3>2. d \in Places /\ m \in Nat
      BY SquaresArePlaces
    <3>3. Len(t) = m /\ SquaresOf(t) = {Step(d, b, i) : i \in 0..(m - 1)} /\ n < m
      BY <3>1, <3>2, <2>3, <2>4, StretchIs
    <3>4. PICK i \in 0..(m - 1) : Step(d, b, i) = c
      BY <2>1, <2>3, <2>4, <3>3
    <3>5. PICK j \in 0..(m - 1) : Step(d, b, j) = Step(c, a, 1)
      BY <2>1, <2>3, <2>4, <3>3
    <3>6. a = b
      BY <3>2, <3>4, <3>5, <2>1, SameLine
    <3>7. \A k \in Int : Step(c, a, k) = Step(d, a, i + k)
      BY <3>2, <3>4, <3>6, Steps
    <3>8. CASE i = 0
      <4>1. n \in Int /\ i + n \in 0..(m - 1)
        BY <3>3, <3>8, <2>1, <3>2
      <4> QED
        BY <4>1, <3>1, <3>6, <3>7, <1>2 DEF IsRun
    <3>9. CASE i # 0
      <4>1. -1 \in Int /\ i + (-1) \in 0..(m - 1)
        BY <3>9, <3>2
      <4> QED
        BY <4>1, <3>1, <3>6, <3>7, <1>2 DEF IsRun
    <3> QED
      BY <3>8, <3>9
  <2> QED
    BY <1>0, <2>2, <2>4
<1> QED
  BY <1>1, <1>2

\* The word of a tile that has a neighbour on its line is a run that can be read.
LEMMA WordIsRead ==
  ASSUME NEW N \in SUBSET Squares, NEW c \in N, NEW a \in Axes,
         Len(CollectWord(N, c, a)) > 1
  PROVE  CollectWord(N, c, a) \in Runs(N)
<1>1. PICK d \in N, n \in 1..BoardSize :
        IsRun(N, d, a, n) /\ CollectWord(N, c, a) = Stretch(d, a, n)
  BY WordIsRun
<1>2. d \in Places /\ n \in Nat /\ BoardSize \in Nat
  BY SquaresArePlaces, BoardAssumption
<1>3. n \in 2..BoardSize
  BY <1>1, <1>2, StretchIs
<1> QED
  BY <1>1, <1>3, RunsAreRuns

\* What collect_word finds holds the square it starts from.
LEMMA WordHolds ==
  ASSUME NEW N \in SUBSET Squares, NEW c \in N, NEW a \in Axes
  PROVE  /\ c \in SquaresOf(CollectWord(N, c, a)) /\ SquaresOf(CollectWord(N, c, a)) \subseteq N
         /\ Len(CollectWord(N, c, a)) \in Nat \ {0}
         /\ DOMAIN CollectWord(N, c, a) = 1..Len(CollectWord(N, c, a))
         /\ Len(CollectWord(N, c, a)) = 1 => SquaresOf(CollectWord(N, c, a)) = {c}
<1>1. PICK d \in N, n \in 1..BoardSize :
        /\ IsRun(N, d, a, n) /\ CollectWord(N, c, a) = Stretch(d, a, n)
        /\ \E j \in 0..(n - 1) : c = Step(d, a, j)
  BY WordIsRun
<1>a. PICK j \in 0..(n - 1) : c = Step(d, a, j)
  BY <1>1
<1>2. d \in Places /\ n \in Nat \ {0} /\ BoardSize \in Nat
  BY SquaresArePlaces, BoardAssumption
<1>3. /\ SquaresOf(Stretch(d, a, n)) = {Step(d, a, i) : i \in 0..(n - 1)}
      /\ Len(Stretch(d, a, n)) = n /\ DOMAIN Stretch(d, a, n) = 1..n
  BY <1>2, StretchIs
<1>4. n = 1 => {Step(d, a, i) : i \in 0..(n - 1)} = {c}
  <2> SUFFICES ASSUME n = 1 PROVE {Step(d, a, i) : i \in 0..(n - 1)} = {c}
    OBVIOUS
  <2>1. \A i \in 0..(n - 1) : i = j
    BY <1>2
  <2> QED
    BY <2>1, <1>a
<1> QED
  BY <1>1, <1>a, <1>2, <1>3, <1>4 DEF IsRun

\* Every run through a square is the word that collect_word finds from it.
LEMMA RunIsWord ==
  ASSUME NEW N \in SUBSET Squares, NEW d \in N, NEW a \in Axes, NEW n \in Nat, IsRun(N, d, a, n),
         NEW c \in SquaresOf(Stretch(d, a, n))
  PROVE  c \in N /\ CollectWord(N, c, a) = Stretch(d, a, n)
<1>1. d \in Places
  BY SquaresArePlaces
<1>2. PICK i \in 0..(n - 1) : c = Step(d, a, i)
  BY <1>1, StretchIs
<1>3. c \in N
  BY <1>2 DEF IsRun
<1>4. PICK e \in N, m \in 1..BoardSize :
        /\ IsRun(N, e, a, m) /\ CollectWord(N, c, a) = Stretch(e, a, m)
        /\ \E j \in 0..(m - 1) : c = Step(e, a, j)
  BY <1>3, WordIsRun
<1>5. d = e /\ n = m
  <2>1. PICK j \in 0..(m - 1) : c = Step(e, a, j)
    BY <1>4
  <2>2. Step(d, a, i) = Step(e, a, j) /\ IsRun(N, e, a, m)
    BY <1>2, <1>4, <2>1
  <2> QED
    BY <2>2, OneRun
<1> QED
  BY <1>3, <1>4, <1>5

-----------------------------------------------------------------------------
(* Placement: neighbours, and boards in one piece *)

\* Neighbours are one step away, and each is a neighbour of the other.
LEMMA NeighborsAre ==
  ASSUME NEW c \in Places, NEW d
  PROVE  /\ d \in Neighbors(c) <=> \E a \in Axes : d = Step(c, a, 1) \/ d = Step(c, a, -1)
         /\ d \in Neighbors(c) => d \in Places /\ c \in Neighbors(d)
<1>2. ASSUME NEW x \in Places, NEW y
      PROVE  y \in Neighbors(x) <=> \E a \in Axes : y = Step(x, a, 1) \/ y = Step(x, a, -1)
  BY DEF Neighbors
<1>3. ASSUME d \in Neighbors(c)
      PROVE  d \in Places /\ c \in Neighbors(d)
  <2>1. PICK a \in Axes : d = Step(c, a, 1) \/ d = Step(c, a, -1)
    BY <1>2, <1>3
  <2>2. d \in Places
    BY <2>1, Steps
  <2>3. 1 + (-1) = 0 /\ (-1) + 1 = 0 /\ 1 \in Int /\ -1 \in Int
    OBVIOUS
  <2>4. c = Step(d, a, -1) \/ c = Step(d, a, 1)
    BY <2>1, <2>3, Steps
  <2> QED
    BY <2>2, <2>4, <1>2
<1> QED
  BY <1>2, <1>3

\* What no step leaves holds all of a stretch or nothing of it.
LEMMA StretchStaysInPart ==
  ASSUME NEW N \in SUBSET Squares, NEW P \in SUBSET N,
         \A x \in P : Neighbors(x) \cap (N \ P) = {},
         NEW c \in N, NEW a \in Axes, NEW n \in Nat, \A i \in 0..(n - 1) : Step(c, a, i) \in N,
         NEW i \in 0..(n - 1), NEW j \in 0..(n - 1), Step(c, a, i) \in P
  PROVE  Step(c, a, j) \in P
<1> SUFFICES ASSUME Step(c, a, j) \notin P PROVE FALSE
  OBVIOUS
<1>1. c \in Places /\ i \in Nat /\ j \in Nat /\ i # j
  BY SquaresArePlaces
<1>2. ASSUME NEW k \in 1..(n - 1)
      PROVE  /\ Step(c, a, k) \in N /\ Step(c, a, k - 1) \in N
             /\ Step(c, a, k) \in Neighbors(Step(c, a, k - 1))
             /\ Step(c, a, k - 1) \in Neighbors(Step(c, a, k))
  <2>1. k \in 0..(n - 1) /\ k - 1 \in 0..(n - 1) /\ (k - 1) + 1 = k /\ k + (-1) = k - 1
    OBVIOUS
  <2>2. Step(c, a, k) \in N /\ Step(c, a, k - 1) \in N
    BY <2>1
  <2>3. Step(c, a, k) \in Places /\ Step(c, a, k - 1) \in Places
    BY <2>2, SquaresArePlaces
  <2>4. /\ Step(Step(c, a, k - 1), a, 1) = Step(c, a, k)
        /\ Step(Step(c, a, k), a, -1) = Step(c, a, k - 1)
    BY <1>1, <2>1, Steps
  <2> QED
    BY <2>2, <2>3, <2>4, NeighborsAre
<1>3. CASE i < j
  <2> DEFINE Outside == {k \in Nat : i <= k /\ k <= j /\ Step(c, a, k) \notin P}
  <2>1. Outside \subseteq Nat /\ j \in Outside
    BY <1>1, <1>3
  <2>2. PICK k \in Outside : \A l \in Outside : k <= l
    <3> HIDE DEF Outside
    <3> QED
      BY <2>1, LeastMember
  <2>3. k \in Nat /\ i <= k /\ k <= j /\ Step(c, a, k) \notin P /\ k # i
    OBVIOUS
  <2>4. k \in 1..(n - 1) /\ k - 1 \in Nat /\ i <= k - 1 /\ k - 1 <= j /\ ~(k <= k - 1)
    BY <2>3, <1>1
  <2>5. Step(c, a, k - 1) \in P
    <3>1. k - 1 \notin Outside
      <4> HIDE DEF Outside
      <4> QED
        BY <2>2, <2>4
    <3> QED
      BY <3>1, <2>4
  <2> QED
    BY <2>3, <2>4, <2>5, <1>2
<1>4. CASE j < i
  <2> DEFINE Inside == {k \in Nat : j <= k /\ k <= i /\ Step(c, a, k) \in P}
  <2>1. Inside \subseteq Nat /\ i \in Inside
    BY <1>1, <1>4
  <2>2. PICK k \in Inside : \A l \in Inside : k <= l
    <3> HIDE DEF Inside
    <3> QED
      BY <2>1, LeastMember
  <2>3. k \in Nat /\ j <= k /\ k <= i /\ Step(c, a, k) \in P /\ k # j
    OBVIOUS
  <2>4. k \in 1..(n - 1) /\ k - 1 \in Nat /\ j <= k - 1 /\ k - 1 <= i /\ ~(k <= k - 1)
    BY <2>3, <1>1
  <2>5. Step(c, a, k - 1) \notin P
    <3>1. k - 1 \notin Inside
      <4> HIDE DEF Inside
      <4> QED
        BY <2>2, <2>4
    <3> QED
      BY <3>1, <2>4
  <2> QED
    BY <2>3, <2>4, <2>5, <1>2
<1> QED
  BY <1>1, <1>3, <1>4

\* A word is in one part of a board that no step leaves, or not at all.
LEMMA WordStaysInPart ==
  ASSUME NEW N \in SUBSET Squares, NEW P \in SUBSET N,
         \A x \in P : Neighbors(x) \cap (N \ P) = {},
         NEW f \in N, NEW a \in Axes,
         NEW c \in SquaresOf(CollectWord(N, f, a)), NEW d \in SquaresOf(CollectWord(N, f, a)),
         c \in P
  PROVE  d \in P
<1>1. PICK e \in N, n \in 1..BoardSize :
        IsRun(N, e, a, n) /\ CollectWord(N, f, a) = Stretch(e, a, n)
  BY WordIsRun
<1>2. e \in Places /\ n \in Nat
  BY SquaresArePlaces, BoardAssumption
<1>3. PICK i \in 0..(n - 1) : c = Step(e, a, i)
  BY <1>1, <1>2, StretchIs
<1>4. PICK j \in 0..(n - 1) : d = Step(e, a, j)
  BY <1>1, <1>2, StretchIs
<1>5. \A k \in 0..(n - 1) : Step(e, a, k) \in N
  BY <1>1 DEF IsRun
<1> QED
  BY <1>2, <1>3, <1>4, <1>5, StretchStaysInPart

\* A board in one piece stays in one piece when tiles in one word that touches
\* it are laid.
LEMMA PlayKeepsOnePiece ==
  ASSUME NEW B \in SUBSET Squares, NEW S \in SUBSET Squares, NEW f \in S, NEW a \in Axes,
         IsConnected(B), S \subseteq SquaresOf(CollectWord(S \cup B, f, a)),
         B = {} \/ \E c \in S : Neighbors(c) \cap B # {}
  PROVE  IsConnected(S \cup B)
<1> DEFINE N == S \cup B
<1> SUFFICES ASSUME NEW P \in SUBSET N, P # {}, P # N,
                    \A x \in P : Neighbors(x) \cap (N \ P) = {}
             PROVE  FALSE
  BY DEF IsConnected
<1>1. N \in SUBSET Squares /\ f \in N
  OBVIOUS
<1>2. B \cap P = {} \/ B \subseteq P
  <2> SUFFICES ASSUME B \cap P # {}, ~(B \subseteq P) PROVE FALSE
    OBVIOUS
  <2>1. B \cap P \in (SUBSET B) \ {{}, B}
    OBVIOUS
  <2>2. PICK c \in B \cap P : Neighbors(c) \cap (B \ (B \cap P)) # {}
    BY <2>1 DEF IsConnected
  <2> QED
    BY <2>2
<1>3. S \cap P = {} \/ S \subseteq P
  <2> SUFFICES ASSUME NEW c \in S, c \in P, NEW d \in S PROVE d \in P
    OBVIOUS
  <2> HIDE DEF N
  <2> QED
    BY <1>1, WordStaysInPart DEF N
<1>4. ASSUME B # {}
      PROVE  S \cap P # {} <=> B \cap P # {}
  <2>1. PICK c \in S, d \in B : d \in Neighbors(c)
    BY <1>4
  <2>2. c \in Neighbors(d)
    BY <2>1, SquaresArePlaces, NeighborsAre
  <2>3. c \in P <=> d \in P
    BY <2>1, <2>2
  <2> QED
    BY <2>1, <2>3, <1>2, <1>3
<1> QED
  BY <1>2, <1>3, <1>4

-----------------------------------------------------------------------------
(* Placement: what a draft puts down *)

\* The first square of a play is one of it.
LEMMA FirstIsOne ==
  ASSUME NEW S \in SUBSET Squares, S # {}
  PROVE  FirstOf(S) \in S
<1>1. \A c \in S : c[1] \in Nat /\ c[2] \in Nat
  BY BoardAssumption DEF Squares
<1> DEFINE Columns == {c[1] : c \in S}
<1>2. Columns \subseteq Nat /\ Columns # {}
  BY <1>1
<1>3. PICK x \in Columns : \A y \in Columns : x <= y
  <2> HIDE DEF Columns
  <2> QED
    BY <1>2, LeastMember
<1> DEFINE Rows == {c[2] : c \in {d \in S : d[1] = x}}
<1>4. Rows \subseteq Nat /\ Rows # {}
  BY <1>1
<1>5. PICK y \in Rows : \A z \in Rows : y <= z
  <2> HIDE DEF Rows
  <2> QED
    BY <1>4, LeastMember
<1>6. PICK c \in S : c[1] = x /\ c[2] = y
  OBVIOUS
<1>7. \A d \in S : c[1] < d[1] \/ (c[1] = d[1] /\ c[2] <= d[2])
  <2> SUFFICES ASSUME NEW d \in S PROVE c[1] < d[1] \/ (c[1] = d[1] /\ c[2] <= d[2])
    OBVIOUS
  <2>1. c[1] <= d[1]
    BY <1>3, <1>6
  <2>2. d[1] = x => y <= d[2]
    BY <1>5
  <2> QED
    BY <2>1, <2>2, <1>1, <1>6
<1> QED
  BY <1>6, <1>7 DEF FirstOf

\* A draft is a sequence, whoever sends it.
LEMMA DraftsAreSequences ==
  ASSUME rack \subseteq Tiles, NEW draft \in Drafts
  PROVE  \E n \in Nat : draft = [i \in 1..n |-> draft[i]] /\ Len(draft) = n
<1>1. ASSUME NEW tiles \in SUBSET rack, draft \in DraftsOf(tiles)
      PROVE  \E n \in Nat : draft = [i \in 1..n |-> draft[i]] /\ Len(draft) = n
  <2> DEFINE order == CHOOSE s \in [1..Cardinality(tiles) -> tiles] :
                        \A i, j \in DOMAIN s : s[i] = s[j] => i = j
             n == Cardinality(tiles)
             blanks == {t \in tiles : Face[t] = Blank}
             form(at, named) ==
               [i \in DOMAIN order |->
                  [square |-> at[i], tile |-> order[i],
                   letter |-> IF order[i] \in blanks THEN named[order[i]] ELSE NoLetter]]
  <2>1. IsFiniteSet(tiles)
    BY <1>1, BoardAssumption, FS_Subset
  <2>2. n \in Nat /\ \E s \in [1..n -> tiles] : \A i, j \in DOMAIN s : s[i] = s[j] => i = j
    <3>1. n \in Nat /\ ExistsBijection(1..n, tiles)
      BY <2>1, FS_CardinalityType
    <3>2. PICK s \in Bijection(1..n, tiles) : TRUE
      BY <3>1 DEF ExistsBijection
    <3> QED
      BY <3>1, <3>2 DEF Bijection, Injection, IsInjective
  <2>3. DOMAIN order = 1..n
    BY <2>2
  <2>4. PICK at \in [DOMAIN order -> Squares], named \in [blanks -> Letters] :
          draft = form(at, named)
    <3>1. DraftsOf(tiles) = {form(at, named) : at \in [DOMAIN order -> Squares],
                                               named \in [blanks -> Letters]}
      BY DEF DraftsOf
    <3> HIDE DEF form, order, blanks
    <3> QED
      BY <3>1, <1>1
  <2> HIDE DEF order, n, blanks
  <2>5. draft = [i \in 1..n |-> draft[i]]
    BY <2>3, <2>4
  <2>6. Len(draft) = n
    BY <2>2, <2>5
  <2> QED
    BY <2>2, <2>5, <2>6
<1>2. ASSUME draft \in Careless
      PROVE  \E n \in Nat : draft = [i \in 1..n |-> draft[i]] /\ Len(draft) = n
  <2>1. (\E p : draft = <<p>>) \/ (\E p, q : draft = <<p, q>>)
    BY <1>2 DEF Careless
  <2>2. CASE \E p : draft = <<p>>
    <3>1. draft = [i \in 1..1 |-> draft[i]] /\ Len(draft) = 1
      BY <2>2
    <3> QED
      BY <3>1
  <2>3. CASE \E p, q : draft = <<p, q>>
    <3>1. draft = [i \in 1..2 |-> draft[i]] /\ Len(draft) = 2
      BY <2>3
    <3> QED
      BY <3>1
  <2> QED
    BY <2>1, <2>2, <2>3
<1> QED
  BY <1>1, <1>2 DEF Drafts

\* Without an error, a draft puts tiles on open squares of the board.
LEMMA AcceptedTilesAreOpen ==
  ASSUME rack \subseteq Tiles, NEW draft \in Drafts, DraftError(draft) = "None"
  PROVE  /\ DOMAIN CandidateTiles(draft) \subseteq Squares \ DOMAIN board
         /\ DOMAIN CandidateTiles(draft) # {}
         /\ \A c \in DOMAIN CandidateTiles(draft) : CandidateTiles(draft)[c].tile \in Tiles
<1>0. PICK n \in Nat : draft = [i \in 1..n |-> draft[i]] /\ Len(draft) = n
  BY DraftsAreSequences
<1>1. DOMAIN draft = 1..n /\ (n = 0 => draft = <<>>)
  <2>1. n = 0 => draft \in Seq({})
    BY <1>0
  <2> QED
    BY <1>0, <2>1, EmptySeq
<1> DEFINE bad == {i \in DOMAIN draft : PlacementError(draft, i) # "None"}
<1>2. draft # <<>> /\ (bad # {} => PlacementError(draft, Min(bad)) = "None")
  BY DEF DraftError
<1>3. bad = {}
  <2> SUFFICES ASSUME bad # {} PROVE FALSE
    OBVIOUS
  <2>1. bad \in SUBSET Nat
    BY <1>1
  <2>2. Min(bad) \in bad
    <3> HIDE DEF bad
    <3>1. \E m \in bad : \A k \in bad : m <= k
      BY <2>1, LeastMember
    <3> QED
      BY <3>1 DEF Min
  <2> QED
    BY <1>2, <2>2
<1>4. \A i \in DOMAIN draft : /\ draft[i].square \in Squares /\ draft[i].square \notin DOMAIN board
                             /\ draft[i].tile \in Tiles
  <2> SUFFICES ASSUME NEW i \in DOMAIN draft
               PROVE  /\ draft[i].square \in Squares /\ draft[i].square \notin DOMAIN board
                      /\ draft[i].tile \in Tiles
    OBVIOUS
  <2>1. PlacementError(draft, i) = "None"
    BY <1>3
  <2> QED
    BY <2>1 DEF PlacementError
<1>5. 1 \in DOMAIN draft
  BY <1>1, <1>2
<1>6. DOMAIN CandidateTiles(draft) = {draft[i].square : i \in DOMAIN draft}
  BY DEF CandidateTiles
<1>7. ASSUME NEW c \in DOMAIN CandidateTiles(draft)
      PROVE  CandidateTiles(draft)[c].tile \in Tiles
  <2> DEFINE k == CHOOSE i \in DOMAIN draft : draft[i].square = c
  <2>1. k \in DOMAIN draft
    BY <1>6
  <2>2. CandidateTiles(draft)[c].tile = draft[k].tile
    BY <1>6 DEF CandidateTiles
  <2> QED
    BY <2>1, <2>2, <1>4
<1> QED
  BY <1>4, <1>5, <1>6, <1>7

-----------------------------------------------------------------------------
(* Placement: the shape of a play *)

\* placement_axis names an axis for every play.
LEMMA AxesOfPlays ==
  ASSUME NEW S
  PROVE  PlacementAxis(S) \in Axes
  BY DEF PlacementAxis, Axes

\* A play is well shaped when it lies in a line, the main word holds all of it,
\* and it touches the board or covers the start.
LEMMA ShapeIs ==
  ASSUME NEW S
  PROVE  LET main == CollectWord(S \cup DOMAIN board, FirstOf(S), PlacementAxis(S))
         IN  ShapeError(S) = "None" <=>
               /\ IsLinear(S) /\ S \subseteq SquaresOf(main)
               /\ board = <<>> => Start \in S
               /\ board # <<>> => \E c \in S : Neighbors(c) \cap DOMAIN board # {}
<1> DEFINE main == CollectWord(S \cup DOMAIN board, FirstOf(S), PlacementAxis(S))
<1> HIDE DEF main
<1>1. ConnectionError(S) =
        IF ~(S \subseteq SquaresOf(main)) THEN "Gap"
        ELSE IF board = <<>>
          THEN IF Start \in S THEN "None" ELSE "FirstMoveMustCoverStart"
        ELSE IF \A c \in S : Neighbors(c) \cap DOMAIN board = {} THEN "Disconnected"
        ELSE "None"
  BY DEF ConnectionError, main
<1>2. ShapeError(S) = "None" <=> IsLinear(S) /\ ConnectionError(S) = "None"
  BY DEF ShapeError
<1>3. ConnectionError(S) = "None" <=>
        /\ S \subseteq SquaresOf(main)
        /\ board = <<>> => Start \in S
        /\ board # <<>> => \E c \in S : Neighbors(c) \cap DOMAIN board # {}
  BY <1>1
<1> QED
  BY <1>2, <1>3 DEF main

\* The words of an analysis are those of formed_words.
LEMMA AnalysisWords ==
  ASSUME NEW placed
  PROVE  Analysis(placed).words = FormedWords(placed)
  BY DEF Analysis

\* The tests of prepare_play and analyze_play, and what they lead to.
LEMMA PlayTests ==
  ASSUME NEW draft
  PROVE  LET placed == CandidateTiles(draft)
         IN  /\ AnalyzePlay(draft).ok <=>
                  /\ DraftError(draft) = "None" /\ ShapeError(DOMAIN placed) = "None"
                  /\ Analysis(placed).score # Overflow
                  /\ \A w \in FormedWords(placed) : TextOf(Combined(placed), w) \in Words
             /\ AnalyzePlay(draft).ok => /\ AnalyzePlay(draft).placed = placed
                                        /\ AnalyzePlay(draft).play = Analysis(placed)
<1> DEFINE placed == CandidateTiles(draft)
           words == Analysis(placed).words
           analysis == Analysis(placed)
           invalid == InvalidWords(placed, words)
           good == [ok |-> TRUE, placed |-> placed, play |-> analysis, invalid |-> invalid]
           fails(r) == \E error : r = Failed(error)
<1>1. \A r : fails(r) => r.ok = FALSE
  BY DEF Failed
<1>2. good.ok = TRUE /\ good.play = analysis /\ good.placed = placed /\ good.invalid = invalid
  OBVIOUS
<1>3. invalid = {} <=> \A w \in FormedWords(placed) : TextOf(Combined(placed), w) \in Words
  BY AnalysisWords DEF InvalidWords
<1> DEFINE shaped == /\ DraftError(draft) = "None" /\ ShapeError(DOMAIN placed) = "None"
                     /\ Analysis(placed).score # Overflow
<1> HIDE DEF good, invalid, analysis
<1>4. /\ shaped => PreparePlay(draft) = good
      /\ ~shaped => fails(PreparePlay(draft))
  BY DEF PreparePlay, good, invalid, analysis
<1> HIDE DEF fails, shaped
<1>5. /\ shaped /\ invalid = {} => AnalyzePlay(draft) = good
      /\ ~(shaped /\ invalid = {}) => fails(AnalyzePlay(draft))
  <2>1. AnalyzePlay(draft) = IF PreparePlay(draft).ok /\ PreparePlay(draft).invalid # {}
                             THEN Failed("InvalidWords") ELSE PreparePlay(draft)
    BY DEF AnalyzePlay
  <2>2. fails(Failed("InvalidWords"))
    BY DEF fails
  <2> QED
    BY <2>1, <2>2, <1>1, <1>2, <1>4
<1> QED
  BY <1>1, <1>2, <1>3, <1>5 DEF shaped, analysis

-----------------------------------------------------------------------------
(* Placement: the words of a play are the runs it makes *)

\* combined_board adds squares and keeps what lies on the others.
LEMMA CombinedIs ==
  ASSUME NEW placed
  PROVE  /\ DOMAIN Combined(placed) = DOMAIN placed \cup DOMAIN board
         /\ Combined(placed) = [c \in DOMAIN Combined(placed) |-> Combined(placed)[c]]
         /\ \A c \in DOMAIN board : c \notin DOMAIN placed => Combined(placed)[c] = board[c]
  BY DEF Combined

\* formed_words finds every run with a new tile, and nothing else but a single
\* tile that is part of no word.
LEMMA WordsAreNewRuns ==
  ASSUME DOMAIN board \subseteq Squares, NEW placed, DOMAIN placed \subseteq Squares,
         DOMAIN placed # {}, ShapeError(DOMAIN placed) = "None"
  PROVE  /\ NewRuns(placed) \subseteq FormedWords(placed)
         /\ \A w \in FormedWords(placed) :
              /\ DOMAIN w = 1..Len(w) /\ Len(w) \in Nat \ {0}
              /\ Len(w) > 1 => w \in NewRuns(placed)
<1> DEFINE S == DOMAIN placed
           N == S \cup DOMAIN board
           axis == PlacementAxis(S)
           main == CollectWord(N, FirstOf(S), axis)
           crosses == {w \in {CollectWord(N, c, Across(axis)) : c \in S} : Len(w) > 1}
<1>1. N \in SUBSET Squares /\ S \subseteq N /\ S # {}
  OBVIOUS
<1>2. axis \in Axes /\ Across(axis) \in Axes /\ (\A b \in Axes : b = axis \/ b = Across(axis))
  BY AxesOfPlays, AcrossIsTheOther
<1>3. FirstOf(S) \in S
  BY FirstIsOne
<1>4. S \subseteq SquaresOf(main)
  BY ShapeIs
<1>5. FormedWords(placed) = IF Len(main) = 1 /\ crosses # {} THEN crosses ELSE {main} \cup crosses
  BY DEF FormedWords
<1>6. NewRuns(placed) = {s \in Runs(N) : SquaresOf(s) \cap S # {}}
  BY CombinedIs DEF NewRuns
<1> HIDE DEF N, axis, S
<1>7. NewRuns(placed) \subseteq FormedWords(placed)
  <2> SUFFICES ASSUME NEW s \in NewRuns(placed) PROVE s \in FormedWords(placed)
    OBVIOUS
  <2>1. s \in Runs(N)
    BY <1>6
  <2>2. PICK d \in N, a \in Axes, n \in 2..BoardSize : s = Stretch(d, a, n) /\ IsRun(N, d, a, n)
    BY <2>1, <1>1, RunsAreRuns
  <2>3. n \in Nat /\ n > 1 /\ d \in Places
    BY <1>1, SquaresArePlaces, BoardAssumption
  <2>4. PICK c \in S : c \in SquaresOf(s)
    BY <1>6
  <2>5. c \in N /\ CollectWord(N, c, a) = s
    BY <1>1, <2>2, <2>3, <2>4, RunIsWord
  <2>6. Len(s) = n
    BY <2>2, <2>3, StretchIs
  <2>7. CASE a = Across(axis)
    <3>1. s \in crosses
      BY <2>3, <2>4, <2>5, <2>6, <2>7
    <3> QED
      BY <3>1, <1>5
  <2>8. CASE a = axis
    <3>1. PICK e \in N, m \in 1..BoardSize :
            IsRun(N, e, axis, m) /\ main = Stretch(e, axis, m)
      BY <1>1, <1>2, <1>3, WordIsRun
    <3>2. m \in Nat
      BY BoardAssumption
    <3>3. CollectWord(N, c, axis) = main
      BY <1>1, <1>2, <1>4, <2>4, <3>1, <3>2, RunIsWord
    <3>4. s = main
      BY <2>5, <2>8, <3>3
    <3>5. n # 1
      BY <2>3
    <3> HIDE DEF main
    <3>6. Len(main) # 1
      BY <2>6, <3>4, <3>5
    <3> QED
      BY <3>4, <3>6, <1>5
  <2> QED
    BY <2>7, <2>8, <1>2
<1>8. ASSUME NEW w \in FormedWords(placed)
      PROVE  \E c \in S, a \in Axes : w = CollectWord(N, c, a)
  <2>1. w = main \/ w \in crosses
    BY <1>5
  <2> QED
    BY <2>1, <1>2, <1>3
<1>9. ASSUME NEW w \in FormedWords(placed)
      PROVE  /\ DOMAIN w = 1..Len(w) /\ Len(w) \in Nat \ {0}
             /\ Len(w) > 1 => w \in NewRuns(placed)
  <2>1. PICK c \in S, a \in Axes : w = CollectWord(N, c, a)
    BY <1>8
  <2>2. c \in SquaresOf(w) /\ Len(w) \in Nat \ {0} /\ DOMAIN w = 1..Len(w)
    BY <1>1, <2>1, WordHolds
  <2>3. Len(w) > 1 => w \in Runs(N)
    BY <1>1, <2>1, WordIsRead
  <2> QED
    BY <2>2, <2>3, <1>6
<1> QED
  BY <1>7, <1>9

\* A word of the dictionary has at least two letters.
LEMMA WordsAreLong ==
  ASSUME NEW tiles, NEW w, NEW n \in Nat, DOMAIN w = 1..n, TextOf(tiles, w) \in Words
  PROVE  n > 1
<1>1. TextOf(tiles, w) \in Seq(Letters) /\ Len(TextOf(tiles, w)) > 1
  BY DictionaryAssumption
<1>2. DOMAIN TextOf(tiles, w) = 1..n
  BY DEF TextOf
<1>3. /\ DOMAIN TextOf(tiles, w) = 1..Len(TextOf(tiles, w))
      /\ Len(TextOf(tiles, w)) \in Nat
  BY <1>1, LenProperties
<1>4. \A k \in Nat : 1..k = 1..n => k = n
  OBVIOUS
<1> HIDE DictionaryAssumption
<1> QED
  BY <1>1, <1>2, <1>3, <1>4

\* A play that is judged good makes words only, and all runs with a new tile.
LEMMA GoodWords ==
  ASSUME DOMAIN board \subseteq Squares, NEW placed, DOMAIN placed \subseteq Squares,
         DOMAIN placed # {}, ShapeError(DOMAIN placed) = "None",
         \A w \in FormedWords(placed) : TextOf(Combined(placed), w) \in Words
  PROVE  FormedWords(placed) = NewRuns(placed)
<1>1. ASSUME NEW w \in FormedWords(placed)
      PROVE  w \in NewRuns(placed)
  <2>1. DOMAIN w = 1..Len(w) /\ Len(w) \in Nat \ {0} /\ TextOf(Combined(placed), w) \in Words
    BY WordsAreNewRuns
  <2>2. Len(w) > 1
    BY <2>1, WordsAreLong
  <2> QED
    BY <2>2, WordsAreNewRuns
<1> QED
  BY <1>1, WordsAreNewRuns

-----------------------------------------------------------------------------
(* Placement: the board stays a crossword *)

\* BoardIsCrossword of any board.
Crossword(tiles) ==
  LET squares == DOMAIN tiles
      runs == Runs(squares)
  IN  /\ squares # {} => Start \in squares
      /\ IsConnected(squares)
      /\ squares = UNION {SquaresOf(s) : s \in runs}
      /\ \A s \in runs : TextOf(tiles, s) \in Words

\* The board is a map from squares to tiles, the rack is of tiles, and the board
\* is a crossword.
BoardInv ==
  /\ DOMAIN board \subseteq Squares /\ board = [c \in DOMAIN board |-> board[c]]
  /\ (\A c \in DOMAIN board : board[c].tile \in Tiles) /\ rack \subseteq Tiles
  /\ Crossword(board)

\* A board without squares is the empty function.
LEMMA EmptyBoard ==
  ASSUME board = [c \in DOMAIN board |-> board[c]]
  PROVE  board = <<>> <=> DOMAIN board = {}
<1>1. DOMAIN <<>> = {}
  OBVIOUS
<1>2. ASSUME DOMAIN board = {}
      PROVE  board = <<>>
  <2>1. board \in Seq({}) /\ Len(board) = 0
    <3>1. board = [i \in 1..0 |-> board[i]]
      BY <1>2
    <3> QED
      BY <3>1
  <2> QED
    BY <2>1, EmptySeq
<1> QED
  BY <1>1, <1>2

\* A well shaped play that makes words only keeps a crossword a crossword.
LEMMA PlayKeepsCrossword ==
  ASSUME BoardInv, NEW placed, DOMAIN placed \subseteq Squares \ DOMAIN board,
         DOMAIN placed # {}, ShapeError(DOMAIN placed) = "None",
         \A w \in FormedWords(placed) : TextOf(Combined(placed), w) \in Words
  PROVE  Crossword(Combined(placed))
<1> DEFINE S == DOMAIN placed
           B == DOMAIN board
           N == S \cup B
           axis == PlacementAxis(S)
           main == CollectWord(N, FirstOf(S), axis)
<1>1. /\ N \in SUBSET Squares /\ B \in SUBSET Squares /\ S \in SUBSET Squares
      /\ S # {} /\ S \cap B = {} /\ FirstOf(S) \in S /\ axis \in Axes
  BY FirstIsOne, AxesOfPlays DEF BoardInv
<1>2. DOMAIN Combined(placed) = N
  BY CombinedIs
<1>3. /\ S \subseteq SquaresOf(main)
      /\ board = <<>> => Start \in S
      /\ board # <<>> => \E c \in S : Neighbors(c) \cap B # {}
  BY ShapeIs
<1>4. board = <<>> <=> B = {}
  BY EmptyBoard DEF BoardInv
<1>5. FormedWords(placed) = NewRuns(placed)
  BY <1>1, GoodWords
<1>6. NewRuns(placed) = {s \in Runs(N) : SquaresOf(s) \cap S # {}}
  BY <1>2 DEF NewRuns
<1>7. /\ B # {} => Start \in B
      /\ IsConnected(B) /\ B = UNION {SquaresOf(s) : s \in Runs(B)}
      /\ \A s \in Runs(B) : TextOf(board, s) \in Words
  BY DEF BoardInv, Crossword
<1> HIDE DEF N, B, S, axis
<1>8. Start \in N
  BY <1>3, <1>4, <1>7 DEF N
<1>9. IsConnected(N)
  BY <1>1, <1>3, <1>4, <1>7, PlayKeepsOnePiece DEF N
<1>10. ASSUME NEW s \in Runs(N)
       PROVE  SquaresOf(s) \subseteq N /\ TextOf(Combined(placed), s) \in Words
  <2>1. PICK d \in N, a \in Axes, n \in 2..BoardSize : s = Stretch(d, a, n) /\ IsRun(N, d, a, n)
    BY <1>1, RunsAreRuns
  <2>2. n \in Nat \ {0} /\ d \in Places /\ 0 \in 0..(n - 1) /\ Step(d, a, 0) = d
    BY <1>1, SquaresArePlaces, BoardAssumption, Steps
  <2>3. SquaresOf(s) = {Step(d, a, i) : i \in 0..(n - 1)}
    BY <2>1, <2>2, StretchIs
  <2>4. SquaresOf(s) \subseteq N
    BY <2>1, <2>3 DEF IsRun
  <2>5. CASE SquaresOf(s) \cap S # {}
    BY <1>5, <1>6, <2>4, <2>5
  <2>6. CASE SquaresOf(s) \cap S = {}
    <3>1. \A i \in 0..(n - 1) : Step(d, a, i) \in B
      BY <2>3, <2>4, <2>6 DEF N
    <3>2. d \in B
      BY <3>1, <2>2
    <3>3. IsRun(B, d, a, n)
      BY <2>1, <2>2, <3>1, <3>2 DEF IsRun, N
    <3>4. s \in Runs(B)
      BY <1>1, <2>1, <3>2, <3>3, RunsAreRuns
    <3>5. TextOf(Combined(placed), s) = TextOf(board, s)
      <4>1. \A i \in DOMAIN s : Combined(placed)[s[i]] = board[s[i]]
        <5>1. \A i \in DOMAIN s : s[i] \in SquaresOf(s)
          BY DEF SquaresOf
        <5> QED
          BY <5>1, <2>3, <2>4, <2>6, CombinedIs DEF N, B, S
      <4> QED
        BY <4>1 DEF TextOf
    <3> QED
      BY <3>4, <3>5, <1>7, <2>4
  <2> QED
    BY <2>5, <2>6
<1>11. ASSUME NEW c \in N
       PROVE  \E s \in Runs(N) : c \in SquaresOf(s)
  <2>1. CASE c \in S
    <3>1. PICK w \in FormedWords(placed) : c \in SquaresOf(w)
      <4> DEFINE crosses == {w \in {CollectWord(N, x, Across(axis)) : x \in S} : Len(w) > 1}
      <4>1. FormedWords(placed) =
              IF Len(main) = 1 /\ crosses # {} THEN crosses ELSE {main} \cup crosses
        BY DEF FormedWords, N, S, B, axis
      <4>2. ASSUME Len(main) = 1, crosses # {}
            PROVE  \E w \in crosses : c \in SquaresOf(w)
        <5>1. SquaresOf(main) = {FirstOf(S)}
          BY <1>1, <4>2, WordHolds DEF N
        <5>2. \A x \in S : x = c
          BY <5>1, <1>3, <2>1
        <5>3. PICK x \in S : CollectWord(N, x, Across(axis)) \in crosses
          BY <4>2
        <5>4. CollectWord(N, c, Across(axis)) \in crosses
          BY <5>2, <5>3
        <5>5. Across(axis) \in Axes
          BY <1>1, AcrossIsTheOther
        <5>6. c \in SquaresOf(CollectWord(N, c, Across(axis)))
          BY <1>1, <5>5, WordHolds
        <5> QED
          BY <5>4, <5>6
      <4>3. c \in SquaresOf(main)
        BY <1>3, <2>1
      <4> HIDE DEF crosses, main
      <4> QED
        BY <4>1, <4>2, <4>3
    <3> QED
      BY <3>1, <1>5, <1>6
  <2>2. CASE c \notin S
    <3>1. c \in B
      BY <2>2 DEF N
    <3>2. PICK r \in Runs(B) : c \in SquaresOf(r)
      BY <3>1, <1>7
    <3>3. PICK d \in B, a \in Axes, n \in 2..BoardSize : r = Stretch(d, a, n) /\ IsRun(B, d, a, n)
      BY <1>1, RunsAreRuns
    <3>4. n \in Nat \ {0} /\ d \in Places /\ n > 1 /\ BoardSize \in Nat
      BY <1>1, SquaresArePlaces, BoardAssumption
    <3>5. PICK i \in 0..(n - 1) : c = Step(d, a, i)
      BY <3>2, <3>3, <3>4, StretchIs
    <3>6. PICK e \in N, m \in 1..BoardSize :
            /\ IsRun(N, e, a, m) /\ CollectWord(N, c, a) = Stretch(e, a, m)
            /\ \E j \in 0..(m - 1) : c = Step(e, a, j)
      BY <1>1, WordIsRun
    <3>7. PICK j \in 0..(m - 1) : c = Step(e, a, j)
      BY <3>6
    <3>8. e \in Places /\ m \in Nat /\ CollectWord(N, c, a) = Stretch(e, a, m)
      BY <1>1, <3>6, <3>4, SquaresArePlaces
    <3>9. m # 1
      <4> SUFFICES ASSUME m = 1 PROVE FALSE
        OBVIOUS
      <4>1. j = 0 /\ c = e
        <5>1. j = 0
          OBVIOUS
        <5> QED
          BY <5>1, <3>7, <3>8, Steps
      <4>2. Step(c, a, 1) \notin N /\ Step(c, a, -1) \notin N
        BY <4>1, <3>6 DEF IsRun
      <4>3. /\ i + 1 \in 0..(n - 1) => Step(c, a, 1) \in B
            /\ i - 1 \in 0..(n - 1) => Step(c, a, -1) \in B
        <5>1. /\ Step(c, a, 1) = Step(d, a, i + 1)
              /\ Step(c, a, -1) = Step(d, a, i + (-1)) /\ i + (-1) = i - 1
          BY <3>4, <3>5, Steps
        <5> QED
          BY <5>1, <3>3 DEF IsRun
      <4>4. i + 1 \in 0..(n - 1) \/ i - 1 \in 0..(n - 1)
        BY <3>4
      <4> QED
        BY <4>2, <4>3, <4>4 DEF N
    <3>10. Len(CollectWord(N, c, a)) > 1
      BY <3>8, <3>9, StretchIs
    <3> QED
      BY <1>1, <3>10, WordIsRead, WordHolds
  <2> QED
    BY <2>1, <2>2
<1>12. N = UNION {SquaresOf(s) : s \in Runs(N)}
  BY <1>10, <1>11
<1> QED
  BY <1>2, <1>8, <1>9, <1>10, <1>12 DEF Crossword

\* A hand is of tiles of the game.
LEMMA HandsAreTiles ==
  ASSUME NEW tiles, NEW hand \in Hands(tiles)
  PROVE  hand \subseteq Tiles
  BY DEF Hands, kSubset, Unplaced

\* The empty board is a crossword.
LEMMA EmptyIsCrossword == Crossword(<<>>)
<1>1. DOMAIN <<>> = {}
  OBVIOUS
<1>2. Runs({}) = {}
  BY RunsAreRuns
<1>3. IsConnected({})
  BY DEF IsConnected
<1> QED
  BY <1>1, <1>2, <1>3 DEF Crossword

\* A game starts with a sound board.
LEMMA BoardInitSound ==
  ASSUME BoardInit
  PROVE  BoardInv
<1>1. board = <<>> /\ rack \subseteq Tiles
  BY HandsAreTiles DEF BoardInit
<1>2. DOMAIN board = {} /\ board = [c \in DOMAIN board |-> board[c]]
  BY <1>1
<1> QED
  BY <1>1, <1>2, EmptyIsCrossword DEF BoardInv

\* An accepted draft keeps the board sound.
LEMMA LayTilesSound ==
  ASSUME BoardInv, NEW draft \in Drafts, LayTiles(draft)
  PROVE  BoardInv'
<1> DEFINE placed == CandidateTiles(draft)
<1>1. /\ AnalyzePlay(draft).ok /\ board' = Combined(AnalyzePlay(draft).placed)
      /\ rack' \in Hands(board')
  BY DEF LayTiles
<1>2. /\ DraftError(draft) = "None" /\ ShapeError(DOMAIN placed) = "None"
      /\ AnalyzePlay(draft).placed = placed
      /\ \A w \in FormedWords(placed) : TextOf(Combined(placed), w) \in Words
  BY <1>1, PlayTests
<1>3. /\ DOMAIN placed \subseteq Squares \ DOMAIN board /\ DOMAIN placed # {}
      /\ \A c \in DOMAIN placed : placed[c].tile \in Tiles
  BY <1>2, AcceptedTilesAreOpen DEF BoardInv
<1> HIDE DEF placed
<1>4. Crossword(Combined(placed))
  BY <1>2, <1>3, PlayKeepsCrossword
<1>5. /\ DOMAIN Combined(placed) \subseteq Squares
      /\ Combined(placed) = [c \in DOMAIN Combined(placed) |-> Combined(placed)[c]]
      /\ \A c \in DOMAIN Combined(placed) : Combined(placed)[c].tile \in Tiles
  BY <1>3, CombinedIs DEF BoardInv, Combined
<1>6. board' = Combined(placed) /\ rack' \subseteq Tiles
  BY <1>1, <1>2, HandsAreTiles
<1> QED
  BY <1>4, <1>5, <1>6 DEF BoardInv

\* The inductive invariant of laying tiles (decide_play and the TilesPlayed
\* event) holds on every reachable board.
THEOREM BoardInvariant == BoardSpec => []BoardInv
<1>1. BoardInit => BoardInv
  BY BoardInitSound
<1>2. BoardInv /\ [BoardNext]_boardVars => BoardInv'
  <2> SUFFICES ASSUME BoardInv, [BoardNext]_boardVars PROVE BoardInv'
    OBVIOUS
  <2>1. CASE \E draft \in Drafts : LayTiles(draft)
    BY <2>1, LayTilesSound
  <2>2. CASE ChangeHands
    BY <2>2, HandsAreTiles DEF ChangeHands, BoardInv
  <2>3. CASE UNCHANGED boardVars
    BY <2>3 DEF boardVars, BoardInv
  <2> QED
    BY <2>1, <2>2, <2>3 DEF BoardNext
<1> QED
  BY <1>1, <1>2, PTL DEF BoardSpec

\* Whatever decide_play accepts, in however many turns, the board stays a
\* crossword: one piece through the start, every tile in a word, every word in
\* the dictionary.
THEOREM BoardsAreCrosswords == BoardSpec => []BoardIsCrossword
<1>1. BoardInv => BoardIsCrossword
  BY DEF BoardInv, Crossword, BoardIsCrossword
<1> QED
  BY <1>1, BoardInvariant, PTL

-----------------------------------------------------------------------------
(* Placement: the guidance *)

\* There are finitely many squares.
LEMMA SquaresAreFinite == IsFiniteSet(Squares)
<1>1. IsFiniteSet(0..(BoardSize - 1))
  BY BoardAssumption, FS_Interval
<1> QED
  BY <1>1, FS_Product DEF Squares

\* A single tile is well shaped on the start of an empty board and next to a
\* tile of another.
LEMMA ShapeOfOne ==
  ASSUME BoardInv, NEW c \in Squares
  PROVE  ShapeError({c}) = "None" <=>
           /\ board = <<>> => c = Start
           /\ board # <<>> => Neighbors(c) \cap DOMAIN board # {}
<1>1. IsLinear({c}) /\ PlacementAxis({c}) \in Axes
  <2>1. InLine({c}, "Horizontal")
    BY DEF InLine
  <2> QED
    BY <2>1, AxesOfPlays DEF IsLinear, Axes
<1>2. FirstOf({c}) = c
  BY FirstIsOne
<1>3. {c} \cup DOMAIN board \in SUBSET Squares
  BY DEF BoardInv
<1>4. c \in SquaresOf(CollectWord({c} \cup DOMAIN board, FirstOf({c}), PlacementAxis({c})))
  BY <1>1, <1>2, <1>3, WordHolds
<1> QED
  BY <1>1, <1>4, ShapeIs

\* Two tiles of a play on both sides of a square give the play its axis.
LEMMA AxisAroundSquare ==
  ASSUME NEW S, NEW c \in Places, NEW a \in Axes, NEW m \in Nat \ {0}, NEW n \in Nat \ {0},
         Step(c, a, -m) \in S, Step(c, a, n) \in S, IsLinear(S)
  PROVE  PlacementAxis(S) = a
<1>1. PICK b \in Axes : InLine(S, b)
  BY DEF IsLinear
<1>2. CASE a = "Horizontal"
  <2>1. Step(c, a, -m)[1] # Step(c, a, n)[1]
    BY <1>2 DEF Step, Places
  <2>2. ~InLine(S, "Vertical")
    BY <2>1 DEF InLine
  <2> QED
    BY <1>1, <1>2, <2>2 DEF Axes, PlacementAxis
<1>3. CASE a = "Vertical"
  <2>1. Step(c, a, -m)[2] # Step(c, a, n)[2]
    BY <1>3 DEF Step, Places
  <2>2. ~InLine(S, "Horizontal")
    BY <2>1 DEF InLine
  <2> QED
    BY <1>3, <2>2 DEF PlacementAxis
<1> QED
  BY <1>2, <1>3 DEF Axes

\* A word that reaches both sides of a square holds it.
LEMMA WordHoldsBetween ==
  ASSUME NEW N \in SUBSET Squares, NEW f \in N, NEW a \in Axes, NEW c \in Places,
         NEW m \in Nat \ {0}, NEW n \in Nat \ {0},
         Step(c, a, -m) \in SquaresOf(CollectWord(N, f, a)),
         Step(c, a, n) \in SquaresOf(CollectWord(N, f, a))
  PROVE  c \in SquaresOf(CollectWord(N, f, a))
<1>1. PICK d \in N, k \in 1..BoardSize :
        IsRun(N, d, a, k) /\ CollectWord(N, f, a) = Stretch(d, a, k)
  BY WordIsRun
<1>2. d \in Places /\ k \in Nat
  BY SquaresArePlaces, BoardAssumption
<1>3. SquaresOf(CollectWord(N, f, a)) = {Step(d, a, i) : i \in 0..(k - 1)}
  BY <1>1, <1>2, StretchIs
<1>4. PICK i \in 0..(k - 1) : Step(c, a, -m) = Step(d, a, i)
  BY <1>3
<1>5. PICK j \in 0..(k - 1) : Step(c, a, n) = Step(d, a, j)
  BY <1>3
<1>6. -m \in Int /\ (-m) + m = 0 /\ (-m) + (m + n) = n /\ m + n \in Int
  OBVIOUS
<1>7. c = Step(d, a, i + m) /\ Step(c, a, n) = Step(d, a, i + (m + n))
  <2>1. Step(Step(c, a, -m), a, m) = c /\ Step(Step(c, a, -m), a, m + n) = Step(c, a, n)
    BY <1>6, Steps
  <2>2. /\ Step(Step(d, a, i), a, m) = Step(d, a, i + m)
        /\ Step(Step(d, a, i), a, m + n) = Step(d, a, i + (m + n))
    BY <1>2, <1>6, Steps
  <2> QED
    BY <2>1, <2>2, <1>4
<1>8. j = i + (m + n)
  BY <1>2, <1>5, <1>7, Steps
<1>9. i + m \in 0..(k - 1)
  BY <1>8, <1>2
<1> QED
  BY <1>3, <1>7, <1>9

\* Every well shaped play with the tiles of a draft covers the squares that the
\* guidance requires.
LEMMA RequiredIsNeeded ==
  ASSUME BoardInv, NEW squares, NEW s \in SUBSET (Squares \ DOMAIN board), s # {},
         squares \subseteq s, ShapeError(s) = "None"
  PROVE  RequiredGapSquares(squares) \subseteq s
<1> SUFFICES ASSUME NEW c \in RequiredGapSquares(squares) PROVE c \in s
  OBVIOUS
<1> DEFINE N == s \cup DOMAIN board
           main == CollectWord(N, FirstOf(s), PlacementAxis(s))
<1>1. IsLinear(s) /\ s \subseteq SquaresOf(main) /\ (board = <<>> => Start \in s)
  BY ShapeIs
<1>2. CASE board = <<>> /\ Start \notin squares
  BY <1>1, <1>2 DEF RequiredGapSquares
<1>3. CASE ~(board = <<>> /\ Start \notin squares)
  <2> DEFINE a == PlacementAxis(squares)
  <2>1. /\ c \in Squares \ (squares \cup DOMAIN board)
        /\ \E m, n \in 1..BoardSize : Step(c, a, -m) \in squares /\ Step(c, a, n) \in squares
    BY <1>3 DEF RequiredGapSquares
  <2>2. PICK m \in 1..BoardSize, n \in 1..BoardSize :
          Step(c, a, -m) \in squares /\ Step(c, a, n) \in squares
    BY <2>1
  <2>3. c \in Places /\ a \in Axes /\ m \in Nat \ {0} /\ n \in Nat \ {0}
    BY <2>1, SquaresArePlaces, AxesOfPlays, BoardAssumption
  <2> HIDE DEF a
  <2>4. PlacementAxis(s) = a
    BY <1>1, <2>2, <2>3, AxisAroundSquare
  <2>5. N \in SUBSET Squares /\ FirstOf(s) \in N
    BY FirstIsOne DEF BoardInv
  <2>6. c \in SquaresOf(main)
    BY <1>1, <2>2, <2>3, <2>4, <2>5, WordHoldsBetween
  <2>7. c \in N
    BY <2>3, <2>4, <2>5, <2>6, WordHolds
  <2> QED
    BY <2>1, <2>7
<1> QED
  BY <1>2, <1>3

\* placement_guidance never misleads: the eligible squares are exactly those
\* that complete the draft, and every well shaped play with the squares of the
\* draft covers the required ones.
THEOREM GuidanceHelps == BoardSpec => []GuidanceIsSound
<1>1. BoardInv => GuidanceIsSound
  <2> DEFINE open == Squares \ DOMAIN board
             shapes == {s \in SUBSET open :
                          s # {} /\ Cardinality(s) <= RackSize /\ ShapeError(s) = "None"}
  <2> SUFFICES ASSUME BoardInv,
                      NEW squares \in {{}} \cup UNION {kSubset(n, open) : n \in 1..(RackSize - 1)}
               PROVE  LET guidance == PlacementGuidance(squares)
                      IN  /\ \A c \in Squares \ (squares \cup DOMAIN board) :
                               c \in guidance.eligible <=> squares \cup {c} \in shapes
                          /\ \A s \in shapes : squares \subseteq s => guidance.required \subseteq s
    BY DEF GuidanceIsSound
  <2>1. CASE squares = {}
    <3>1. PlacementGuidance(squares) =
            [required |-> {}, eligible |-> IF board = <<>> THEN {Start} ELSE AdjacentOpenSquares]
      BY <2>1 DEF PlacementGuidance
    <3>2. ASSUME NEW c \in open
          PROVE  c \in PlacementGuidance(squares).eligible <=> squares \cup {c} \in shapes
      <4>1. squares \cup {c} = {c} /\ {c} \in SUBSET open /\ {c} # {}
        BY <2>1
      <4>2. Cardinality({c}) <= RackSize
        <5>1. Cardinality({c}) = 1
          BY FS_Singleton
        <5>2. 1 <= RackSize
          BY BoardAssumption
        <5> QED
          BY <5>1, <5>2
      <4>3. {c} \in shapes <=> ShapeError({c}) = "None"
        BY <4>1, <4>2
      <4>4. c \in AdjacentOpenSquares <=> Neighbors(c) \cap DOMAIN board # {}
        <5>1. c \in AdjacentOpenSquares <=> \E d \in DOMAIN board : c \in Neighbors(d)
          BY DEF AdjacentOpenSquares
        <5>2. \A d \in DOMAIN board : c \in Neighbors(d) <=> d \in Neighbors(c)
          BY SquaresArePlaces, NeighborsAre DEF BoardInv
        <5> QED
          BY <5>1, <5>2
      <4> QED
        BY <3>1, <4>1, <4>3, <4>4, ShapeOfOne
    <3> QED
      BY <2>1, <3>1, <3>2
  <2>2. CASE squares # {}
    <3>1. PICK n \in 1..(RackSize - 1) : squares \in kSubset(n, open)
      BY <2>2
    <3>2. squares \in SUBSET open /\ Cardinality(squares) = n /\ IsFiniteSet(squares)
      BY <3>1, SquaresAreFinite, FS_Subset DEF kSubset
    <3>3. PlacementGuidance(squares) =
            [required |-> RequiredGapSquares(squares),
             eligible |-> {c \in Squares \ (squares \cup DOMAIN board) :
                             ShapeError(squares \cup {c}) = "None"}]
      BY <2>2 DEF PlacementGuidance
    <3>4. ASSUME NEW c \in Squares \ (squares \cup DOMAIN board)
          PROVE  c \in PlacementGuidance(squares).eligible <=> squares \cup {c} \in shapes
      <4>1. squares \cup {c} \in SUBSET open /\ squares \cup {c} # {}
        BY <3>2
      <4>2. Cardinality(squares \cup {c}) <= RackSize
        <5>1. Cardinality(squares \cup {c}) = n + 1
          BY <3>2, FS_AddElement
        <5>2. n + 1 <= RackSize
          BY <3>1, BoardAssumption
        <5> QED
          BY <5>1, <5>2
      <4> QED
        BY <3>3, <4>1, <4>2
    <3>5. ASSUME NEW s \in shapes, squares \subseteq s
          PROVE  PlacementGuidance(squares).required \subseteq s
      BY <3>3, <3>5, RequiredIsNeeded
    <3> QED
      BY <3>4, <3>5
  <2> QED
    BY <2>1, <2>2
<1> QED
  BY <1>1, BoardInvariant, PTL

-----------------------------------------------------------------------------
(* Sums and products over a finite set *)

\* Sums and products at once: the values of f are added up or multiplied.
Folds == {"Sum", "Product"}
Combine(kind, x, y) == IF kind = "Product" THEN x * y ELSE x + y
Unit(kind) == IF kind = "Product" THEN 1 ELSE 0
FoldOf(kind, f) == IF kind = "Product" THEN ProductFunction(f) ELSE SumFunction(f)

\* The member that the fold takes first.
AnyOf(s) == CHOOSE x \in s : TRUE

\* What the fold computes, subset by subset.
IsFold(it, kind, f, S) ==
  it = [s \in SUBSET S |->
          IF s = {} THEN Unit(kind)
          ELSE Combine(kind, f[AnyOf(s)], it[s \ {AnyOf(s)}])]

\* Adding up and multiplying can be done in any order.
LEMMA Combines ==
  ASSUME NEW kind \in Folds, NEW x \in Nat, NEW y \in Nat, NEW z \in Nat
  PROVE  /\ Combine(kind, x, y) \in Nat
         /\ Combine(kind, x, Combine(kind, y, z)) = Combine(kind, y, Combine(kind, x, z))
         /\ Combine(kind, x, Unit(kind)) = x /\ Combine(kind, Unit(kind), x) = x
         /\ Unit(kind) \in Nat
<1>1. CASE kind = "Product"
  <2>1. x * y \in Nat /\ x * (y * z) = y * (x * z) /\ x * 1 = x /\ 1 * x = x
    OBVIOUS
  <2> QED
    BY <1>1, <2>1 DEF Combine, Unit
<1>2. CASE kind # "Product"
  BY <1>2 DEF Combine, Unit
<1> QED
  BY <1>1, <1>2

\* There is a function that computes the fold of every subset.
LEMMA FoldExists ==
  ASSUME NEW kind, NEW f, NEW S, IsFiniteSet(S)
  PROVE  \E it : IsFold(it, kind, f, S)
<1> DEFINE Small(n) == {s \in SUBSET S : Cardinality(s) <= n}
           Value(it, s) == IF s = {} THEN Unit(kind)
                           ELSE Combine(kind, f[AnyOf(s)], it[s \ {AnyOf(s)}])
           Upto(it, n) == it = [s \in Small(n) |-> Value(it, s)]
           Bad == {n \in Nat : ~ \E it : Upto(it, n)}
<1>1. ASSUME NEW s \in SUBSET S
      PROVE  /\ IsFiniteSet(s) /\ Cardinality(s) \in Nat
             /\ s # {} => /\ s \ {AnyOf(s)} \in SUBSET S
                          /\ Cardinality(s \ {AnyOf(s)}) = Cardinality(s) - 1
                          /\ Cardinality(s) > 0
  <2>1. IsFiniteSet(s) /\ Cardinality(s) \in Nat
    BY FS_Subset, FS_CardinalityType
  <2>2. s # {} => AnyOf(s) \in s
    BY DEF AnyOf
  <2>3. s # {} => Cardinality(s \ {AnyOf(s)}) = Cardinality(s) - 1 /\ Cardinality(s) # 0
    BY <2>1, <2>2, FS_RemoveElement, FS_EmptySet
  <2> QED
    BY <2>1, <2>2, <2>3
<1>2. \E it : Upto(it, 0)
  <2> DEFINE it == [s \in Small(0) |-> Unit(kind)]
  <2>1. ASSUME NEW s \in Small(0)
        PROVE  s = {}
    <3>1. Cardinality(s) \in Nat /\ Cardinality(s) <= 0 /\ IsFiniteSet(s)
      BY <1>1
    <3> QED
      BY <3>1, FS_EmptySet
  <2>2. it = [s \in Small(0) |-> Value(it, s)]
    <3> HIDE DEF Small
    <3>1. \A s \in Small(0) : Value(it, s) = Unit(kind)
      BY <2>1
    <3> HIDE DEF Value
    <3> QED
      BY <3>1
  <2> HIDE DEF it
  <2> QED
    BY <2>2
<1>3. ASSUME NEW n \in Nat \ {0}, NEW it, Upto(it, n - 1)
      PROVE  \E h : Upto(h, n)
  <2> DEFINE h == [s \in Small(n) |-> Value(it, s)]
  <2>1. ASSUME NEW s \in Small(n - 1)
        PROVE  s \in Small(n) /\ h[s] = it[s]
    <3>1. s \in Small(n)
      <4>1. s \in SUBSET S /\ Cardinality(s) <= n - 1
        OBVIOUS
      <4>2. Cardinality(s) \in Nat
        BY <4>1, <1>1
      <4>3. Cardinality(s) <= n
        BY <4>1, <4>2
      <4> QED
        BY <4>1, <4>3
    <3>2. it[s] = Value(it, s)
      <4> HIDE DEF Small, Value
      <4> QED
        BY <1>3
    <3>3. h[s] = Value(it, s)
      <4> HIDE DEF Small, Value
      <4> QED
        BY <3>1
    <3> QED
      BY <3>1, <3>2, <3>3
  <2>2. ASSUME NEW s \in Small(n), s # {}
        PROVE  s \ {AnyOf(s)} \in Small(n - 1)
    BY <1>1, <2>2
  <2> HIDE DEF Small
  <2>3. ASSUME NEW s \in Small(n)
        PROVE  Value(it, s) = Value(h, s)
    <3>1. s # {} => it[s \ {AnyOf(s)}] = h[s \ {AnyOf(s)}]
      BY <2>1, <2>2
    <3> HIDE DEF h
    <3> QED
      BY <3>1
  <2>4. h = [s \in Small(n) |-> Value(h, s)]
    <3>1. h = [s \in Small(n) |-> Value(it, s)]
      OBVIOUS
    <3> HIDE DEF h, Value
    <3> QED
      BY <3>1, <2>3
  <2> HIDE DEF h, Value
  <2> QED
    BY <2>4
<1>4. Bad = {}
  <2> SUFFICES ASSUME Bad # {} PROVE FALSE
    OBVIOUS
  <2> HIDE DEF Upto
  <2>1. PICK n \in Bad : \A k \in Bad : n <= k
    <3>1. Bad \in SUBSET Nat
      OBVIOUS
    <3> HIDE DEF Bad
    <3> QED
      BY <3>1, LeastMember
  <2>2. n \in Nat \ {0} /\ n - 1 \in Nat /\ ~(n <= n - 1)
    BY <1>2
  <2>3. \E it : Upto(it, n - 1)
    BY <2>1, <2>2
  <2> QED
    BY <2>3, <2>2, <1>3
<1>5. PICK it : Upto(it, Cardinality(S))
  <2>1. Cardinality(S) \in Nat
    BY <1>1
  <2> HIDE DEF Upto
  <2> QED
    BY <2>1, <1>4
<1>6. Small(Cardinality(S)) = SUBSET S
  BY FS_Subset
<1> HIDE DEF Small
<1> QED
  BY <1>5, <1>6 DEF IsFold

\* SumFunction and ProductFunction are what it computes.
LEMMA FoldIsTheFold ==
  ASSUME NEW kind \in Folds, NEW f, IsFiniteSet(DOMAIN f)
  PROVE  \E it : IsFold(it, kind, f, DOMAIN f) /\ FoldOf(kind, f) = it[DOMAIN f]
<1>1. CASE kind = "Product"
  <2> DEFINE it == CHOOSE g : g = [s \in SUBSET DOMAIN f |->
                                     IF s = {} THEN 1
                                     ELSE LET x == CHOOSE x \in s : TRUE
                                          IN  f[x] * g[s \ {x}]]
  <2>1. \E g : g = [s \in SUBSET DOMAIN f |->
                     IF s = {} THEN 1
                     ELSE LET x == CHOOSE x \in s : TRUE IN f[x] * g[s \ {x}]]
    <3>1. \E g : IsFold(g, "Product", f, DOMAIN f)
      BY FoldExists
    <3> QED
      BY <3>1 DEF IsFold, Combine, Unit, AnyOf
  <2>2. it = [s \in SUBSET DOMAIN f |->
                IF s = {} THEN 1
                ELSE LET x == CHOOSE x \in s : TRUE IN f[x] * it[s \ {x}]]
    BY <2>1
  <2>3. ProductFunction(f) = it[DOMAIN f]
    BY DEF ProductFunction, FoldFunction, FoldFunctionOnSet, MapThenFoldSet
  <2> HIDE DEF it
  <2>4. IsFold(it, "Product", f, DOMAIN f)
    BY <2>2 DEF IsFold, Combine, Unit, AnyOf
  <2> QED
    BY <1>1, <2>3, <2>4 DEF FoldOf
<1>2. CASE kind # "Product"
  <2> DEFINE it == CHOOSE g : g = [s \in SUBSET DOMAIN f |->
                                     IF s = {} THEN 0
                                     ELSE LET x == CHOOSE x \in s : TRUE
                                          IN  f[x] + g[s \ {x}]]
  <2>1. \E g : g = [s \in SUBSET DOMAIN f |->
                     IF s = {} THEN 0
                     ELSE LET x == CHOOSE x \in s : TRUE IN f[x] + g[s \ {x}]]
    <3>1. \E g : IsFold(g, "Sum", f, DOMAIN f)
      BY FoldExists
    <3> QED
      BY <3>1 DEF IsFold, Combine, Unit, AnyOf
  <2>2. it = [s \in SUBSET DOMAIN f |->
                IF s = {} THEN 0
                ELSE LET x == CHOOSE x \in s : TRUE IN f[x] + it[s \ {x}]]
    BY <2>1
  <2>3. SumFunction(f) = it[DOMAIN f]
    BY DEF SumFunction, SumFunctionOnSet, FoldFunctionOnSet, MapThenFoldSet
  <2> HIDE DEF it
  <2>4. IsFold(it, "Sum", f, DOMAIN f)
    BY <2>2 DEF IsFold, Combine, Unit, AnyOf
  <2>5. kind = "Sum"
    BY <1>2 DEF Folds
  <2> QED
    BY <2>3, <2>4, <2>5 DEF FoldOf
<1> QED
  BY <1>1, <1>2

\* What fails for a subset of a finite set fails for a smallest one.
LEMMA SmallestSubset ==
  ASSUME NEW S, IsFiniteSet(S), NEW Bad \in SUBSET SUBSET S, Bad # {}
  PROVE  \E T \in Bad : \A x \in T : T \ {x} \notin Bad
<1>1. Bad \subseteq FiniteSubsetsOf(S)
  BY FS_Subset DEF FiniteSubsetsOf
<1>2. PICK T \in Bad : \A U \in Bad : <<U, T>> \notin StrictSubsetOrdering(S)
  BY <1>1, FS_StrictSubsetOrderingWellFounded, WFMin
<1>3. ASSUME NEW x \in T, T \ {x} \in Bad
      PROVE  FALSE
  <2>1. <<T \ {x}, T>> \in StrictSubsetOrdering(S)
    BY <1>3 DEF StrictSubsetOrdering
  <2> QED
    BY <2>1, <1>2, <1>3
<1> QED
  BY <1>3

\* The fold of no members, and one member more.
LEMMA FoldStep ==
  ASSUME NEW kind, NEW f, NEW S, NEW it, IsFold(it, kind, f, S)
  PROVE  /\ it[{}] = Unit(kind)
         /\ \A T \in SUBSET S : T # {} =>
              AnyOf(T) \in T /\ it[T] = Combine(kind, f[AnyOf(T)], it[T \ {AnyOf(T)}])
<1>1. \A T : T # {} => AnyOf(T) \in T
  BY DEF AnyOf
<1>2. {} \in SUBSET S
  OBVIOUS
<1> QED
  BY <1>1, <1>2 DEF IsFold

\* The units are numbers.
LEMMA UnitIsNat ==
  ASSUME NEW kind \in Folds
  PROVE  Unit(kind) \in Nat
  BY DEF Unit

\* The fold of numbers is a number.
LEMMA FoldIsNat ==
  ASSUME NEW kind \in Folds, NEW S, IsFiniteSet(S), NEW f \in [S -> Nat],
         NEW it, IsFold(it, kind, f, S), NEW T \in SUBSET S
  PROVE  it[T] \in Nat
<1> DEFINE Bad == {U \in SUBSET S : it[U] \notin Nat}
<1>1. Bad = {}
  <2> SUFFICES ASSUME Bad # {} PROVE FALSE
    OBVIOUS
  <2>1. PICK U \in Bad : \A x \in U : U \ {x} \notin Bad
    <3>1. Bad \in SUBSET SUBSET S
      OBVIOUS
    <3> HIDE DEF Bad
    <3> QED
      BY <3>1, SmallestSubset
  <2>2. CASE U = {}
    BY <2>2, FoldStep, UnitIsNat
  <2>3. CASE U # {}
    <3>1. AnyOf(U) \in U /\ it[U] = Combine(kind, f[AnyOf(U)], it[U \ {AnyOf(U)}])
      BY <2>3, FoldStep
    <3>2. f[AnyOf(U)] \in Nat /\ it[U \ {AnyOf(U)}] \in Nat
      BY <3>1, <2>1
    <3> QED
      BY <3>1, <3>2, Combines
  <2> QED
    BY <2>2, <2>3
<1> QED
  BY <1>1

\* A fold may take its members in any order.
LEMMA FoldTakesAny ==
  ASSUME NEW kind \in Folds, NEW S, IsFiniteSet(S), NEW f \in [S -> Nat],
         NEW it, IsFold(it, kind, f, S), NEW T \in SUBSET S, NEW x \in T
  PROVE  it[T] = Combine(kind, f[x], it[T \ {x}])
<1> DEFINE Good(U) == \A y \in U : it[U] = Combine(kind, f[y], it[U \ {y}])
           Bad == {U \in SUBSET S : ~Good(U)}
<1>1. ASSUME NEW U \in SUBSET S, \A y \in U : Good(U \ {y}), NEW y \in U
      PROVE  it[U] = Combine(kind, f[y], it[U \ {y}])
  <2> DEFINE z == AnyOf(U)
             V == U \ {y, z}
  <2>1. z \in U /\ it[U] = Combine(kind, f[z], it[U \ {z}])
    BY FoldStep
  <2> HIDE DEF z
  <2>2. CASE y = z
    BY <2>1, <2>2
  <2>3. CASE y # z
    <3>1. /\ (U \ {y}) \ {z} = V /\ (U \ {z}) \ {y} = V /\ V \in SUBSET S
          /\ y \in U \ {z} /\ z \in U \ {y}
      BY <2>3, <2>1
    <3> HIDE DEF V
    <3>2. it[U \ {z}] = Combine(kind, f[y], it[V])
      BY <3>1, <2>1, <1>1
    <3>3. it[U \ {y}] = Combine(kind, f[z], it[V])
      BY <3>1, <1>1
    <3>4. it[V] \in Nat /\ f[y] \in Nat /\ f[z] \in Nat
      BY <3>1, <2>1, FoldIsNat
    <3> QED
      BY <2>1, <3>2, <3>3, <3>4, Combines
  <2> QED
    BY <2>2, <2>3
<1>2. Bad = {}
  <2> SUFFICES ASSUME Bad # {} PROVE FALSE
    OBVIOUS
  <2>1. PICK U \in Bad : \A y \in U : U \ {y} \notin Bad
    <3>1. Bad \in SUBSET SUBSET S
      OBVIOUS
    <3> HIDE DEF Bad
    <3> QED
      BY <3>1, SmallestSubset
  <2>2. \A y \in U : Good(U \ {y})
    BY <2>1
  <2> QED
    BY <2>1, <2>2, <1>1
<1>3. Good(T)
  <2> HIDE DEF Good
  <2> QED
    BY <1>2
<1> QED
  BY <1>3

\* A sum or a product is taken member by member.
LEMMA FoldByMembers ==
  ASSUME NEW kind \in Folds, NEW S, IsFiniteSet(S), NEW f \in [S -> Nat]
  PROVE  /\ FoldOf(kind, f) \in Nat
         /\ S = {} => FoldOf(kind, f) = Unit(kind)
         /\ \A x \in S :
              FoldOf(kind, f) = Combine(kind, f[x], FoldOf(kind, [y \in S \ {x} |-> f[y]]))
<1>1. PICK it : IsFold(it, kind, f, S) /\ FoldOf(kind, f) = it[S]
  BY FoldIsTheFold
<1>2. ASSUME NEW x \in S
      PROVE  FoldOf(kind, f) = Combine(kind, f[x], FoldOf(kind, [y \in S \ {x} |-> f[y]]))
  <2> DEFINE R == S \ {x}
             g == [y \in R |-> f[y]]
  <2>1. IsFiniteSet(R) /\ R \in SUBSET S /\ g \in [R -> Nat] /\ DOMAIN g = R
    BY FS_Subset
  <2>2. PICK rest : IsFold(rest, kind, g, R) /\ FoldOf(kind, g) = rest[R]
    BY <2>1, FoldIsTheFold
  <2>3. \A y \in R : g[y] = f[y]
    OBVIOUS
  <2> HIDE DEF g, R
  <2>a. \A T \in SUBSET S : T # {} =>
          AnyOf(T) \in T /\ it[T] = Combine(kind, f[AnyOf(T)], it[T \ {AnyOf(T)}])
    BY <1>1, FoldStep
  <2> DEFINE Bad == {U \in SUBSET R : it[U] # rest[U]}
  <2>4. Bad = {}
    <3> SUFFICES ASSUME Bad # {} PROVE FALSE
      OBVIOUS
    <3>1. PICK U \in Bad : \A y \in U : U \ {y} \notin Bad
      <4>1. Bad \in SUBSET SUBSET R
        OBVIOUS
      <4> HIDE DEF Bad
      <4> QED
        BY <4>1, <2>1, SmallestSubset
    <3>2. U \in SUBSET S /\ U \in SUBSET R
      BY <2>1
    <3>3. CASE U = {}
      <4>1. it[U] = Unit(kind)
        BY <1>1, <3>2, <3>3, FoldStep
      <4>2. rest[U] = Unit(kind)
        BY <2>2, <3>2, <3>3, FoldStep
      <4> QED
        BY <4>1, <4>2, <3>1
    <3>4. CASE U # {}
      <4>1. AnyOf(U) \in U /\ it[U] = Combine(kind, f[AnyOf(U)], it[U \ {AnyOf(U)}])
        BY <2>a, <3>2, <3>4
      <4>2. rest[U] = Combine(kind, g[AnyOf(U)], rest[U \ {AnyOf(U)}])
        BY <2>2, <3>2, <3>4, FoldStep
      <4>3. it[U \ {AnyOf(U)}] = rest[U \ {AnyOf(U)}]
        BY <3>1, <3>2, <4>1
      <4> QED
        BY <4>1, <4>2, <4>3, <3>1, <3>2, <2>3
    <3> QED
      BY <3>3, <3>4
  <2>5. it[R] = rest[R]
    BY <2>4
  <2>6. it[S] = Combine(kind, f[x], it[R])
    BY <1>1, FoldTakesAny DEF R
  <2> QED
    BY <1>1, <2>2, <2>5, <2>6 DEF g, R
<1>3. FoldOf(kind, f) \in Nat
  BY <1>1, FoldIsNat
<1>4. S = {} => FoldOf(kind, f) = Unit(kind)
  BY <1>1, FoldStep
<1> QED
  BY <1>2, <1>3, <1>4

\* The part of a fold that a subset contributes.
Part(f, T) == [x \in T |-> f[x]]

\* The part of a subset is taken member by member too.
LEMMA FoldPart ==
  ASSUME NEW kind \in Folds, NEW S, IsFiniteSet(S), NEW f \in [S -> Nat], NEW T \in SUBSET S
  PROVE  /\ FoldOf(kind, Part(f, T)) \in Nat
         /\ T = {} => FoldOf(kind, Part(f, T)) = Unit(kind)
         /\ \A x \in T :
              FoldOf(kind, Part(f, T)) = Combine(kind, f[x], FoldOf(kind, Part(f, T \ {x})))
         /\ Part(f, S) = f
<1> DEFINE g == Part(f, T)
<1>1. g \in [T -> Nat] /\ IsFiniteSet(T)
  BY FS_Subset DEF Part
<1>2. \A x \in T : g[x] = f[x] /\ [y \in T \ {x} |-> g[y]] = Part(f, T \ {x})
  BY DEF Part
<1>3. /\ FoldOf(kind, g) \in Nat
      /\ T = {} => FoldOf(kind, g) = Unit(kind)
      /\ \A x \in T :
           FoldOf(kind, g) = Combine(kind, g[x], FoldOf(kind, [y \in T \ {x} |-> g[y]]))
  <2> HIDE DEF g
  <2>1. FoldOf(kind, g) \in Nat /\ (T = {} => FoldOf(kind, g) = Unit(kind))
    BY <1>1, FoldByMembers
  <2>2. ASSUME NEW x \in T
        PROVE  FoldOf(kind, g) = Combine(kind, g[x], FoldOf(kind, [y \in T \ {x} |-> g[y]]))
    BY <1>1, FoldByMembers
  <2> QED
    BY <2>1, <2>2
<1>4. Part(f, S) = f
  BY DEF Part
<1> HIDE DEF g
<1>5. ASSUME NEW x \in T
      PROVE  FoldOf(kind, g) = Combine(kind, f[x], FoldOf(kind, Part(f, T \ {x})))
  BY <1>2, <1>3
<1> QED
  BY <1>3, <1>4, <1>5 DEF g

\* What is the unit outside a subset is a fold over the subset.
LEMMA FoldOfSupport ==
  ASSUME NEW kind \in Folds, NEW S, IsFiniteSet(S), NEW f \in [S -> Nat], NEW F \in SUBSET S,
         \A x \in S \ F : f[x] = Unit(kind)
  PROVE  FoldOf(kind, f) = FoldOf(kind, Part(f, F))
<1> DEFINE Bad == {T \in SUBSET S : F \subseteq T
                     /\ FoldOf(kind, Part(f, T)) # FoldOf(kind, Part(f, F))}
<1>1. Bad = {}
  <2> SUFFICES ASSUME Bad # {} PROVE FALSE
    OBVIOUS
  <2>1. PICK T \in Bad : \A x \in T : T \ {x} \notin Bad
    <3>1. Bad \in SUBSET SUBSET S
      OBVIOUS
    <3> HIDE DEF Bad
    <3> QED
      BY <3>1, SmallestSubset
  <2>2. T \in SUBSET S /\ F \subseteq T /\ T # F
    BY <2>1
  <2>3. PICK x \in T : x \notin F
    BY <2>2
  <2>4. FoldOf(kind, Part(f, T \ {x})) = FoldOf(kind, Part(f, F))
    BY <2>1, <2>2, <2>3
  <2>5. FoldOf(kind, Part(f, T)) = Combine(kind, f[x], FoldOf(kind, Part(f, T \ {x})))
    BY <2>2, FoldPart
  <2>6. f[x] = Unit(kind) /\ FoldOf(kind, Part(f, T \ {x})) \in Nat
    BY <2>2, <2>3, FoldPart
  <2>7. FoldOf(kind, Part(f, T)) = FoldOf(kind, Part(f, T \ {x}))
    BY <2>5, <2>6, Combines
  <2> QED
    BY <2>1, <2>4, <2>7
<1>2. FoldOf(kind, Part(f, S)) = FoldOf(kind, Part(f, F))
  BY <1>1
<1> QED
  BY <1>2, FoldPart

\* The sums and products of the model are folds.
LEMMA SumIs ==
  ASSUME NEW f
  PROVE  SumFunction(f) = FoldOf("Sum", f) /\ ProductFunction(f) = FoldOf("Product", f)
  BY DEF FoldOf

\* The sum of sums.
LEMMA SumOfSums ==
  ASSUME NEW S, IsFiniteSet(S), NEW f \in [S -> Nat], NEW g \in [S -> Nat], NEW h \in [S -> Nat],
         \A x \in S : f[x] = g[x] + h[x]
  PROVE  FoldOf("Sum", f) = FoldOf("Sum", g) + FoldOf("Sum", h)
<1> DEFINE Sum(k, T) == FoldOf("Sum", Part(k, T))
           Bad == {T \in SUBSET S : Sum(f, T) # Sum(g, T) + Sum(h, T)}
<1>1. ASSUME NEW k \in [S -> Nat], NEW T \in SUBSET S
      PROVE  /\ Sum(k, T) \in Nat /\ (T = {} => Sum(k, T) = 0)
             /\ \A x \in T : Sum(k, T) = k[x] + Sum(k, T \ {x})
             /\ Part(k, S) = k
  BY FoldPart DEF Combine, Unit, Folds
<1> HIDE DEF Sum
<1>2. Bad = {}
  <2> SUFFICES ASSUME Bad # {} PROVE FALSE
    OBVIOUS
  <2>1. PICK T \in Bad : \A x \in T : T \ {x} \notin Bad
    <3>1. Bad \in SUBSET SUBSET S
      OBVIOUS
    <3> HIDE DEF Bad
    <3> QED
      BY <3>1, SmallestSubset
  <2>2. T \in SUBSET S
    BY <2>1
  <2>3. T # {}
    <3>1. T = {} => Sum(f, T) = 0 /\ Sum(g, T) = 0 /\ Sum(h, T) = 0
      BY <1>1, <2>2
    <3> QED
      BY <3>1, <2>1
  <2>4. PICK x \in T : TRUE
    BY <2>3
  <2> DEFINE R == T \ {x}
  <2>5. Sum(f, R) = Sum(g, R) + Sum(h, R) /\ R \in SUBSET S
    BY <2>1, <2>2
  <2>6. /\ Sum(f, T) = f[x] + Sum(f, R)
        /\ Sum(g, T) = g[x] + Sum(g, R)
        /\ Sum(h, T) = h[x] + Sum(h, R)
    BY <1>1, <2>2
  <2>7. /\ Sum(g, R) \in Nat /\ Sum(h, R) \in Nat /\ g[x] \in Nat /\ h[x] \in Nat
        /\ f[x] = g[x] + h[x]
    BY <1>1, <2>2, <2>5
  <2>8. Sum(f, T) # Sum(g, T) + Sum(h, T)
    BY <2>1
  <2> HIDE DEF R
  <2> QED
    BY <2>5, <2>6, <2>7, <2>8
<1>3. Sum(f, S) = Sum(g, S) + Sum(h, S)
  BY <1>2
<1> QED
  BY <1>1, <1>3 DEF Sum

\* No member is above the sum.
LEMMA SumIsAbove ==
  ASSUME NEW S, IsFiniteSet(S), NEW f \in [S -> Nat], NEW x \in S
  PROVE  f[x] <= FoldOf("Sum", f)
<1>1. /\ FoldOf("Sum", f) = f[x] + FoldOf("Sum", Part(f, S \ {x}))
      /\ FoldOf("Sum", Part(f, S \ {x})) \in Nat /\ f[x] \in Nat
  BY FoldPart DEF Combine, Folds
<1> QED
  BY <1>1

\* A product of factors above zero is above zero.
LEMMA ProductIsPositive ==
  ASSUME NEW S, IsFiniteSet(S), NEW f \in [S -> Nat \ {0}]
  PROVE  FoldOf("Product", f) \in Nat \ {0}
<1> DEFINE Product(T) == FoldOf("Product", Part(f, T))
           Bad == {T \in SUBSET S : Product(T) \notin Nat \ {0}}
<1>0. f \in [S -> Nat]
  OBVIOUS
<1>1. ASSUME NEW T \in SUBSET S
      PROVE  /\ T = {} => Product(T) = 1
             /\ \A x \in T : Product(T) = f[x] * Product(T \ {x})
  BY <1>0, FoldPart DEF Combine, Unit, Folds
<1>2. Product(S) = FoldOf("Product", f)
  BY <1>0, FoldPart DEF Folds
<1> HIDE DEF Product
<1>3. Bad = {}
  <2> SUFFICES ASSUME Bad # {} PROVE FALSE
    OBVIOUS
  <2>1. PICK T \in Bad : \A x \in T : T \ {x} \notin Bad
    <3>1. Bad \in SUBSET SUBSET S
      OBVIOUS
    <3> HIDE DEF Bad
    <3> QED
      BY <3>1, SmallestSubset
  <2>2. T \in SUBSET S /\ T # {}
    BY <2>1, <1>1
  <2>3. PICK x \in T : TRUE
    BY <2>2
  <2>4. Product(T \ {x}) \in Nat \ {0} /\ f[x] \in Nat \ {0}
    BY <2>1, <2>2
  <2>5. \A m, n \in Nat \ {0} : m * n \in Nat \ {0}
    OBVIOUS
  <2>6. Product(T) \in Nat \ {0}
    BY <2>2, <2>4, <2>5, <1>1
  <2> QED
    BY <2>1, <2>6
<1> QED
  BY <1>2, <1>3

-----------------------------------------------------------------------------
(* Placement: which drafts are accepted *)

\* As many values as indices: no value comes twice.
LEMMA AllDifferent ==
  ASSUME NEW n \in Nat, NEW f, DOMAIN f = 1..n, f = [i \in 1..n |-> f[i]]
  PROVE  LET values == {f[i] : i \in 1..n}
         IN  /\ IsFiniteSet(values) /\ Cardinality(values) \in Nat /\ Cardinality(values) <= n
             /\ Cardinality(values) = n <=> \A i, j \in 1..n : f[i] = f[j] => i = j
<1> DEFINE values == {f[i] : i \in 1..n}
<1>1. f \in Surjection(1..n, values)
  BY DEF Surjection
<1>2. IsFiniteSet(1..n) /\ Cardinality(1..n) = n
  BY FS_Interval
<1>3. /\ IsFiniteSet(values) /\ Cardinality(values) <= n
      /\ Cardinality(values) = n <=> f \in Injection(1..n, values)
  BY <1>1, <1>2, FS_Surjection
<1>4. f \in Injection(1..n, values) <=> \A i, j \in 1..n : f[i] = f[j] => i = j
  BY <1>1 DEF Injection, IsInjective, Surjection
<1>5. Cardinality(values) \in Nat
  BY <1>3, FS_CardinalityType
<1> QED
  BY <1>3, <1>4, <1>5

\* candidate_tiles accepts a draft exactly when it puts different tiles of the
\* rack on different open squares and names the blanks.
LEMMA DraftsAccepted ==
  ASSUME rack \subseteq Tiles, NEW draft \in Drafts
  PROVE  LET placed == CandidateTiles(draft)
         IN  DraftError(draft) = "None" <=>
               /\ draft # <<>>
               /\ Cardinality(DOMAIN placed) = Len(draft)
               /\ Cardinality({draft[i].tile : i \in DOMAIN draft} \cap rack) = Len(draft)
               /\ \A i \in DOMAIN draft : draft[i].letter \in LettersFor(draft[i].tile)
               /\ DOMAIN placed \subseteq Squares \ DOMAIN board
<1>1. PICK n \in Nat : draft = [i \in 1..n |-> draft[i]] /\ Len(draft) = n
  BY DraftsAreSequences
<1> DEFINE squares == {draft[i].square : i \in 1..n}
           tiles == {draft[i].tile : i \in 1..n}
           bad == {i \in 1..n : PlacementError(draft, i) # "None"}
<1>2. DOMAIN draft = 1..n
  BY <1>1
<1>3. DOMAIN CandidateTiles(draft) = squares
  BY <1>2 DEF CandidateTiles
<1>4. DraftError(draft) = "None" <=> draft # <<>> /\ bad = {}
  <2>1. DraftError(draft) =
          IF draft = <<>> THEN "EmptyTileSelection"
          ELSE IF bad = {} THEN "None" ELSE PlacementError(draft, Min(bad))
    BY <1>2 DEF DraftError
  <2>2. ASSUME bad # {}
        PROVE  PlacementError(draft, Min(bad)) # "None"
    <3>1. bad \in SUBSET Nat
      OBVIOUS
    <3>2. Min(bad) \in bad
      <4> HIDE DEF bad
      <4>1. \E m \in bad : \A k \in bad : m <= k
        BY <3>1, <2>2, LeastMember
      <4> QED
        BY <4>1 DEF Min
    <3> QED
      BY <3>2
  <2> HIDE DEF bad
  <2> QED
    BY <2>1, <2>2
<1>5. bad = {} <=>
        \A i \in 1..n :
          /\ \A j \in 1..(i - 1) : /\ draft[j].tile # draft[i].tile
                                  /\ draft[j].square # draft[i].square
          /\ draft[i].square \in Squares \ DOMAIN board /\ draft[i].tile \in rack
          /\ draft[i].letter \in LettersFor(draft[i].tile)
  <2>1. ASSUME NEW i \in 1..n
        PROVE  PlacementError(draft, i) = "None" <=>
                 /\ \A j \in 1..(i - 1) : /\ draft[j].tile # draft[i].tile
                                         /\ draft[j].square # draft[i].square
                 /\ draft[i].square \in Squares \ DOMAIN board /\ draft[i].tile \in rack
                 /\ draft[i].letter \in LettersFor(draft[i].tile)
    BY DEF PlacementError, LettersFor
  <2> QED
    BY <2>1
<1>6. (\A i, j \in 1..n : draft[i].square = draft[j].square => i = j) <=> Cardinality(squares) = n
  <2> DEFINE f == [i \in 1..n |-> draft[i].square]
  <2>1. DOMAIN f = 1..n /\ f = [i \in 1..n |-> f[i]] /\ (\A i \in 1..n : f[i] = draft[i].square)
    OBVIOUS
  <2>2. squares = {f[i] : i \in 1..n}
    OBVIOUS
  <2> HIDE DEF f, squares
  <2>3. Cardinality(squares) = n <=> \A i, j \in 1..n : f[i] = f[j] => i = j
    BY <2>1, <2>2, AllDifferent
  <2> QED
    BY <2>1, <2>3
<1>7. /\ (\A i, j \in 1..n : draft[i].tile = draft[j].tile => i = j) <=> Cardinality(tiles) = n
      /\ IsFiniteSet(tiles) /\ Cardinality(tiles) \in Nat /\ Cardinality(tiles) <= n
  <2> DEFINE f == [i \in 1..n |-> draft[i].tile]
  <2>1. DOMAIN f = 1..n /\ f = [i \in 1..n |-> f[i]] /\ (\A i \in 1..n : f[i] = draft[i].tile)
    OBVIOUS
  <2>2. tiles = {f[i] : i \in 1..n}
    OBVIOUS
  <2> HIDE DEF f, tiles
  <2>3. /\ IsFiniteSet(tiles) /\ Cardinality(tiles) \in Nat /\ Cardinality(tiles) <= n
        /\ Cardinality(tiles) = n <=> \A i, j \in 1..n : f[i] = f[j] => i = j
    BY <2>1, <2>2, AllDifferent
  <2> QED
    BY <2>1, <2>3
<1>8. Cardinality(tiles \cap rack) = n <=> Cardinality(tiles) = n /\ tiles \subseteq rack
  <2> DEFINE own == tiles \cap rack
  <2>1. own \in SUBSET tiles /\ (own = tiles <=> tiles \subseteq rack)
    OBVIOUS
  <2> HIDE DEF own, tiles
  <2>2. /\ Cardinality(own) \in Nat /\ Cardinality(own) <= Cardinality(tiles)
        /\ Cardinality(tiles) = Cardinality(own) => tiles = own
    BY <2>1, <1>7, FS_Subset, FS_CardinalityType
  <2>3. Cardinality(own) = n => Cardinality(tiles) = n /\ tiles = own
    BY <2>2, <1>7
  <2> QED
    BY <2>1, <2>3 DEF own
<1>9. /\ squares \subseteq Squares \ DOMAIN board <=>
           \A i \in 1..n : draft[i].square \in Squares \ DOMAIN board
      /\ tiles \subseteq rack <=> \A i \in 1..n : draft[i].tile \in rack
  OBVIOUS
<1>10. /\ (\A i, j \in 1..n : draft[i].square = draft[j].square => i = j) <=>
            \A i \in 1..n : \A j \in 1..(i - 1) : draft[j].square # draft[i].square
       /\ (\A i, j \in 1..n : draft[i].tile = draft[j].tile => i = j) <=>
            \A i \in 1..n : \A j \in 1..(i - 1) : draft[j].tile # draft[i].tile
  <2>1. ASSUME NEW i \in 1..n, NEW j \in 1..n
        PROVE  i = j \/ i \in 1..(j - 1) \/ j \in 1..(i - 1)
    OBVIOUS
  <2>2. ASSUME NEW i \in 1..n, NEW j \in 1..(i - 1)
        PROVE  j \in 1..n /\ j # i
    OBVIOUS
  <2> QED
    BY <2>1, <2>2
<1> HIDE DEF bad
<1>11. DraftError(draft) = "None" <=>
         /\ draft # <<>>
         /\ Cardinality(squares) = n /\ Cardinality(tiles \cap rack) = n
         /\ \A i \in 1..n : draft[i].letter \in LettersFor(draft[i].tile)
         /\ squares \subseteq Squares \ DOMAIN board
  <2> HIDE DEF squares, tiles
  <2> QED
    BY <1>4, <1>5, <1>6, <1>7, <1>8, <1>9, <1>10
<1> QED
  BY <1>1, <1>2, <1>3, <1>11

\* A stretch of tiles lies in the word of each of its tiles.
LEMMA StretchIsInWord ==
  ASSUME NEW N \in SUBSET Squares, NEW c \in N, NEW a \in Axes, NEW n \in Nat,
         \A i \in 0..(n - 1) : Step(c, a, i) \in N, NEW i \in 0..(n - 1)
  PROVE  SquaresOf(Stretch(c, a, n)) \subseteq SquaresOf(CollectWord(N, Step(c, a, i), a))
<1> DEFINE f == Step(c, a, i)
<1>1. PICK d \in N, m \in 1..BoardSize :
        /\ IsRun(N, d, a, m) /\ CollectWord(N, f, a) = Stretch(d, a, m)
        /\ \E j \in 0..(m - 1) : f = Step(d, a, j)
  BY WordIsRun
<1>2. PICK j \in 0..(m - 1) : f = Step(d, a, j)
  BY <1>1
<1>3. /\ m \in Nat /\ c \in Places /\ d \in Places /\ n \in Nat
      /\ CollectWord(N, f, a) = Stretch(d, a, m)
  BY <1>1, BoardAssumption, SquaresArePlaces
<1>4. /\ SquaresOf(Stretch(c, a, n)) = {Step(c, a, k) : k \in 0..(n - 1)}
      /\ SquaresOf(Stretch(d, a, m)) = {Step(d, a, k) : k \in 0..(m - 1)}
  BY <1>3, StretchIs
<1> HIDE DEF f
<1>5. ASSUME NEW k \in Int
      PROVE  Step(c, a, k) = Step(d, a, j + (k - i))
  <2>1. k - i \in Int /\ i + (k - i) = k /\ i \in Int /\ j \in Int
    OBVIOUS
  <2>2. Step(f, a, k - i) = Step(c, a, k)
    BY <2>1, <1>3, Steps DEF f
  <2>3. Step(f, a, k - i) = Step(d, a, j + (k - i))
    BY <2>1, <1>2, <1>3, Steps
  <2> QED
    BY <2>2, <2>3
<1>6. ASSUME NEW k \in 0..(n - 1)
      PROVE  j + (k - i) \in 0..(m - 1)
  <2>1. k \in Int /\ i \in Int /\ j \in Int /\ m \in Nat
    BY <1>3
  <2>2. CASE j + (k - i) < 0
    <3>1. i - j - 1 \in 0..(n - 1) /\ j + ((i - j - 1) - i) = -1 /\ i - j - 1 \in Int
      BY <2>1, <2>2
    <3>2. Step(d, a, -1) \in N
      BY <3>1, <1>5
    <3> QED
      BY <3>2, <1>1 DEF IsRun
  <2>3. CASE j + (k - i) > m - 1
    <3>1. i + m - j \in 0..(n - 1) /\ j + ((i + m - j) - i) = m /\ i + m - j \in Int
      BY <2>1, <2>3
    <3>2. Step(d, a, m) \in N
      BY <3>1, <1>5
    <3> QED
      BY <3>2, <1>1 DEF IsRun
  <2> QED
    BY <2>1, <2>2, <2>3
<1>7. ASSUME NEW k \in 0..(n - 1)
      PROVE  Step(c, a, k) \in {Step(d, a, x) : x \in 0..(m - 1)}
  BY <1>5, <1>6
<1> QED
  BY <1>3, <1>4, <1>7 DEF f

\* Two squares of a stretch that lie in line across it are the same.
LEMMA InLineAcross ==
  ASSUME NEW S, NEW c \in Places, NEW a \in Axes, NEW b \in Axes, b # a, NEW n \in Nat,
         S \subseteq SquaresOf(Stretch(c, a, n)), InLine(S, b)
  PROVE  \A x, y \in S : x = y
<1> SUFFICES ASSUME NEW x \in S, NEW y \in S PROVE x = y
  OBVIOUS
<1>1. SquaresOf(Stretch(c, a, n)) = {Step(c, a, i) : i \in 0..(n - 1)}
  BY StretchIs
<1>2. PICK i \in 0..(n - 1) : x = Step(c, a, i)
  BY <1>1
<1>3. PICK j \in 0..(n - 1) : y = Step(c, a, j)
  BY <1>1
<1>4. /\ x = (IF a = "Horizontal" THEN <<c[1] + i, c[2]>> ELSE <<c[1], c[2] + i>>)
      /\ y = (IF a = "Horizontal" THEN <<c[1] + j, c[2]>> ELSE <<c[1], c[2] + j>>)
  BY <1>2, <1>3 DEF Step
<1>5. IF b = "Horizontal" THEN x[2] = y[2] ELSE x[1] = y[1]
  BY DEF InLine
<1>6. c[1] \in Int /\ c[2] \in Int
  BY DEF Places
<1>7. CASE a = "Horizontal"
  <2>1. c[1] + i = c[1] + j
    BY <1>4, <1>5, <1>7 DEF Axes
  <2> QED
    BY <2>1, <1>4, <1>7
<1>8. CASE a = "Vertical"
  <2>1. c[2] + i = c[2] + j
    BY <1>4, <1>5, <1>8 DEF Axes
  <2> QED
    BY <2>1, <1>4, <1>8
<1> QED
  BY <1>7, <1>8 DEF Axes

\* A stretch lies in line.
LEMMA StretchInLine ==
  ASSUME NEW S, NEW c \in Places, NEW a \in Axes, NEW n \in Nat,
         S \subseteq SquaresOf(Stretch(c, a, n))
  PROVE  InLine(S, a)
<1>1. SquaresOf(Stretch(c, a, n)) = {Step(c, a, i) : i \in 0..(n - 1)}
  BY StretchIs
<1>2. \A x \in S : \E i \in 0..(n - 1) : x = Step(c, a, i)
  BY <1>1
<1>3. \A x \in S : IF a = "Horizontal" THEN x[2] = c[2] ELSE x[1] = c[1]
  BY <1>2 DEF Step
<1> QED
  BY <1>3 DEF InLine

\* validate_connection and the test of placement_axis say what the rules say: one
\* tile, or a stretch without a gap, that leaves the board in one piece through
\* the start.
LEMMA ShapeIsLegal ==
  ASSUME BoardInv, NEW S \in SUBSET (Squares \ DOMAIN board), S # {}
  PROVE  LET after == S \cup DOMAIN board
         IN  ShapeError(S) = "None" <=>
               /\ \/ Cardinality(S) = 1
                  \/ \E s \in Segments : S \subseteq SquaresOf(s) /\ SquaresOf(s) \subseteq after
               /\ Start \in after /\ IsConnected(after)
<1> DEFINE B == DOMAIN board
           N == S \cup B
           axis == PlacementAxis(S)
           main == CollectWord(N, FirstOf(S), axis)
           touches == IF board = <<>> THEN Start \in S ELSE \E c \in S : Neighbors(c) \cap B # {}
           stretches == \E s \in Segments : S \subseteq SquaresOf(s) /\ SquaresOf(s) \subseteq N
<1>1. /\ N \in SUBSET Squares /\ B \in SUBSET Squares /\ S \in SUBSET Squares /\ S \in SUBSET N
      /\ S \cap B = {} /\ FirstOf(S) \in S /\ axis \in Axes
  BY FirstIsOne, AxesOfPlays DEF BoardInv
<1>2. ShapeError(S) = "None" <=> IsLinear(S) /\ S \subseteq SquaresOf(main) /\ touches
  BY ShapeIs
<1>3. board = <<>> <=> B = {}
  BY EmptyBoard DEF BoardInv
<1>4. IsConnected(B) /\ (B # {} => Start \in B)
  BY DEF BoardInv, Crossword
<1>5. N = S \cup B
  OBVIOUS
<1> HIDE DEF B, N, axis
<1>6. ASSUME S \subseteq SquaresOf(main)
      PROVE  touches <=> Start \in N /\ IsConnected(N)
  <2>1. ASSUME touches
        PROVE  Start \in N /\ IsConnected(N)
    <3>1. B = {} \/ \E c \in S : Neighbors(c) \cap B # {}
      BY <2>1, <1>3
    <3>2. IsConnected(N)
      BY <3>1, <1>1, <1>4, <1>5, <1>6, PlayKeepsOnePiece
    <3> QED
      BY <3>2, <2>1, <1>3, <1>4, <1>5
  <2>2. ASSUME Start \in N, IsConnected(N), B # {}
        PROVE  \E c \in S : Neighbors(c) \cap B # {}
    <3>1. B \in (SUBSET N) \ {{}, N}
      BY <1>1, <1>5, <2>2
    <3>2. PICK x \in B : Neighbors(x) \cap (N \ B) # {}
      BY <3>1, <2>2 DEF IsConnected
    <3>3. PICK c \in N \ B : c \in Neighbors(x)
      BY <3>2
    <3>4. x \in Neighbors(c) /\ c \in S
      BY <3>3, <1>1, <1>5, SquaresArePlaces, NeighborsAre
    <3> QED
      BY <3>4
  <2>3. ASSUME Start \in N, IsConnected(N)
        PROVE  touches
    BY <2>2, <2>3, <1>3, <1>5
  <2> HIDE DEF touches
  <2> QED
    BY <2>1, <2>3
<1> HIDE DEF touches, main
<1>7. ASSUME \A x, y \in S : x = y
      PROVE  IsLinear(S) /\ S \subseteq SquaresOf(main)
  <2>1. InLine(S, "Horizontal")
    BY <1>7 DEF InLine
  <2>2. IsLinear(S)
    BY <2>1 DEF IsLinear, Axes
  <2>3. FirstOf(S) \in SquaresOf(main)
    BY <1>1, WordHolds DEF main
  <2> QED
    BY <2>2, <2>3, <1>1, <1>7
<1>8. ASSUME stretches
      PROVE  IsLinear(S) /\ S \subseteq SquaresOf(main)
  <2>1. PICK s \in Segments : S \subseteq SquaresOf(s) /\ SquaresOf(s) \subseteq N
    BY <1>8
  <2>2. s \in FullSegments(N)
    BY <2>1 DEF FullSegments
  <2>3. PICK c \in N, a \in Axes, n \in 2..BoardSize :
          s = Stretch(c, a, n) /\ \A i \in 0..(n - 1) : Step(c, a, i) \in N
    BY <2>2, <1>1, FullStretches
  <2>4. c \in Places /\ n \in Nat
    BY <1>1, SquaresArePlaces, BoardAssumption
  <2>5. InLine(S, a)
    BY <2>1, <2>3, <2>4, StretchInLine
  <2>6. IsLinear(S)
    BY <2>5 DEF IsLinear
  <2>7. CASE axis = a
    <3>1. PICK i \in 0..(n - 1) : FirstOf(S) = Step(c, a, i)
      <4>1. FirstOf(S) \in SquaresOf(Stretch(c, a, n))
        BY <1>1, <2>1, <2>3
      <4> QED
        BY <4>1, <2>4, StretchIs
    <3>2. SquaresOf(Stretch(c, a, n)) \subseteq SquaresOf(main)
      BY <3>1, <1>1, <2>3, <2>4, <2>7, StretchIsInWord DEF main
    <3> QED
      BY <3>2, <2>1, <2>3, <2>6
  <2>8. CASE axis # a
    <3>1. InLine(S, axis)
      BY <2>5, <2>8 DEF axis, PlacementAxis, Axes
    <3>2. \A x, y \in S : x = y
      BY <3>1, <2>1, <2>3, <2>4, <2>8, <1>1, InLineAcross
    <3> QED
      BY <3>2, <1>7
  <2> QED
    BY <2>7, <2>8
<1>9. ASSUME S \subseteq SquaresOf(main)
      PROVE  Cardinality(S) = 1 \/ stretches
  <2>1. /\ SquaresOf(main) \subseteq N /\ Len(main) \in Nat \ {0}
        /\ Len(main) = 1 => SquaresOf(main) = {FirstOf(S)}
    BY <1>1, WordHolds DEF main
  <2>2. CASE Len(main) = 1
    <3>1. S = {FirstOf(S)}
      BY <2>1, <2>2, <1>1, <1>9
    <3>2. Cardinality({FirstOf(S)}) = 1
      BY FS_Singleton
    <3> QED
      BY <3>1, <3>2
  <2>3. CASE Len(main) # 1
    <3>1. Len(main) > 1
      <4>1. \A k \in Nat \ {0} : k # 1 => k > 1
        OBVIOUS
      <4> QED
        BY <4>1, <2>1, <2>3
    <3>2. main \in Runs(N)
      BY <3>1, <1>1, WordIsRead DEF main
    <3>3. main \in Segments
      BY <3>2 DEF Runs
    <3> QED
      BY <3>3, <2>1, <1>9
  <2> QED
    BY <2>2, <2>3
<1>10. Cardinality(S) = 1 => \A x, y \in S : x = y
  <2>1. IsFiniteSet(S)
    BY <1>1, SquaresAreFinite, FS_Subset
  <2> QED
    BY <2>1, FS_Singleton
<1> HIDE DEF stretches
<1>11. ShapeError(S) = "None" <=>
         (Cardinality(S) = 1 \/ stretches) /\ Start \in N /\ IsConnected(N)
  BY <1>2, <1>6, <1>7, <1>8, <1>9, <1>10
<1> QED
  BY <1>11 DEF stretches, N, B

\* Of a well shaped play, formed_words are all words exactly when there is a run
\* with a new tile and every such run is a word.
LEMMA WordsAreLegal ==
  ASSUME DOMAIN board \subseteq Squares, NEW placed, DOMAIN placed \subseteq Squares,
         DOMAIN placed # {}, ShapeError(DOMAIN placed) = "None"
  PROVE  (\A w \in FormedWords(placed) : TextOf(Combined(placed), w) \in Words) <=>
           /\ NewRuns(placed) # {}
           /\ \A s \in NewRuns(placed) : TextOf(Combined(placed), s) \in Words
<1> DEFINE S == DOMAIN placed
           N == S \cup DOMAIN board
           axis == PlacementAxis(S)
           main == CollectWord(N, FirstOf(S), axis)
           crosses == {w \in {CollectWord(N, c, Across(axis)) : c \in S} : Len(w) > 1}
<1>1. FormedWords(placed) = IF Len(main) = 1 /\ crosses # {} THEN crosses ELSE {main} \cup crosses
  BY DEF FormedWords
<1>2. \A w \in crosses : Len(w) > 1
  OBVIOUS
<1>3. FormedWords(placed) # {}
  BY <1>1
<1> HIDE DEF main, crosses
<1>4. ASSUME \A w \in FormedWords(placed) : TextOf(Combined(placed), w) \in Words
      PROVE  FormedWords(placed) = NewRuns(placed)
  BY <1>4, GoodWords
<1>5. \A s \in NewRuns(placed) : Len(s) > 1
  <2>1. DOMAIN Combined(placed) \in SUBSET Squares
    BY CombinedIs
  <2>2. SUFFICES ASSUME NEW s \in Runs(DOMAIN Combined(placed)) PROVE Len(s) > 1
    BY DEF NewRuns
  <2>3. PICK c \in DOMAIN Combined(placed), a \in Axes, n \in 2..BoardSize : s = Stretch(c, a, n)
    BY <2>1, RunsAreRuns
  <2>4. n \in Nat /\ n > 1 /\ Len(s) = n
    BY <2>1, <2>3, SquaresArePlaces, BoardAssumption, StretchIs
  <2> QED
    BY <2>4
<1>6. ASSUME NewRuns(placed) # {}, NEW w \in FormedWords(placed)
      PROVE  w \in NewRuns(placed)
  <2>1. Len(w) \in Nat \ {0} /\ (Len(w) > 1 => w \in NewRuns(placed))
    BY WordsAreNewRuns
  <2>2. CASE Len(w) = 1
    <3>1. w \notin crosses
      <4>1. w \in crosses => Len(w) # 1
        <5>1. w \in crosses => Len(w) > 1
          BY <1>2
        <5>2. \A k \in Nat \ {0} : k > 1 => k # 1
          OBVIOUS
        <5> QED
          BY <5>1, <5>2, <2>1
      <4> QED
        BY <4>1, <2>2
    <3>2. w = main /\ ~(Len(main) = 1 /\ crosses # {})
      BY <3>1, <1>1
    <3>3. FormedWords(placed) = {main}
      BY <3>2, <2>2, <1>1
    <3>4. NewRuns(placed) \subseteq {main}
      BY <3>3, WordsAreNewRuns
    <3> QED
      BY <3>2, <3>4, <1>6
  <2>3. CASE Len(w) # 1
    <3>1. \A k \in Nat \ {0} : k # 1 => k > 1
      OBVIOUS
    <3> QED
      BY <3>1, <2>1, <2>3
  <2> QED
    BY <2>2, <2>3
<1> QED
  BY <1>3, <1>4, <1>6

\* A draft passes every test but that of the score exactly when it is a legal
\* play, and its words are the runs with a new tile.
LEMMA TestsAreLegality ==
  ASSUME BoardInv, NEW draft \in Drafts
  PROVE  LET placed == CandidateTiles(draft)
         IN  /\ AnalyzePlay(draft).ok <=>
                  IsLegal(draft, placed) /\ Analysis(placed).score # Overflow
             /\ IsLegal(draft, placed) =>
                  /\ DraftError(draft) = "None" /\ ShapeError(DOMAIN placed) = "None"
                  /\ DOMAIN placed # {} /\ FormedWords(placed) = NewRuns(placed)
<1> DEFINE placed == CandidateTiles(draft)
           after == DOMAIN Combined(placed)
           own == /\ Cardinality(DOMAIN placed) = Len(draft)
                  /\ Cardinality({draft[i].tile : i \in DOMAIN draft} \cap rack) = Len(draft)
                  /\ \A i \in DOMAIN draft : draft[i].letter \in LettersFor(draft[i].tile)
                  /\ DOMAIN placed \subseteq Squares \ DOMAIN board
           shape == /\ \/ Cardinality(DOMAIN placed) = 1
                       \/ \E s \in Segments : /\ DOMAIN placed \subseteq SquaresOf(s)
                                              /\ SquaresOf(s) \subseteq after
                    /\ Start \in after /\ IsConnected(after)
           words == /\ NewRuns(placed) # {}
                    /\ \A s \in NewRuns(placed) : TextOf(Combined(placed), s) \in Words
           read == \A w \in FormedWords(placed) : TextOf(Combined(placed), w) \in Words
<1>1. IsLegal(draft, placed) <=> own /\ shape /\ words
  BY DEF IsLegal
<1>2. DraftError(draft) = "None" <=> draft # <<>> /\ own
  BY DraftsAccepted DEF BoardInv
<1>3. own /\ DOMAIN placed # {} => (ShapeError(DOMAIN placed) = "None" <=> shape)
  <2> HIDE DEF placed
  <2>1. after = DOMAIN placed \cup DOMAIN board
    BY CombinedIs
  <2> QED
    BY <2>1, ShapeIsLegal
<1>4. own /\ DOMAIN placed # {} /\ ShapeError(DOMAIN placed) = "None" => (read <=> words)
  <2> HIDE DEF placed
  <2> QED
    BY WordsAreLegal DEF BoardInv
<1>5. own /\ DOMAIN placed # {} /\ ShapeError(DOMAIN placed) = "None" /\ read =>
        FormedWords(placed) = NewRuns(placed)
  <2> HIDE DEF placed
  <2> QED
    BY GoodWords DEF BoardInv
<1>6. words => DOMAIN placed # {}
  BY DEF NewRuns
<1>7. DraftError(draft) = "None" => DOMAIN placed # {}
  BY AcceptedTilesAreOpen DEF BoardInv
<1>8. DOMAIN placed # {} => draft # <<>>
  BY DEF CandidateTiles
<1>9. AnalyzePlay(draft).ok <=>
        /\ DraftError(draft) = "None" /\ ShapeError(DOMAIN placed) = "None"
        /\ Analysis(placed).score # Overflow /\ read
  BY PlayTests
<1> HIDE DEF placed, own, shape, words, read
<1> QED
  BY <1>1, <1>2, <1>3, <1>4, <1>5, <1>6, <1>7, <1>8, <1>9 DEF placed

-----------------------------------------------------------------------------
(* Placement: what a play scores *)

\* What a tile is worth, and what a premium square multiplies by.
Value(placed, c) == Points[Combined(placed)[c].tile]
Premium(placed, c, kind) ==
  IF c \in DOMAIN placed \cap DOMAIN Premiums /\ Premiums[c].kind = kind
    THEN Premiums[c].by ELSE 1
Factors(placed, s, kind) ==
  {c \in SquaresOf(s) \cap DOMAIN placed \cap DOMAIN Premiums : Premiums[c].kind = kind}

\* The letters and the multiplier of a word, by the rules of the game.
LettersOf(placed, s) ==
  SumFunction([c \in SquaresOf(s) |-> Value(placed, c)])
    + SumFunction([c \in Factors(placed, s, "Letter") |-> (Premiums[c].by - 1) * Value(placed, c)])
MultiplierOf(placed, s) == ProductFunction([c \in Factors(placed, s, "Word") |-> Premiums[c].by])
WorthOf(placed, s) == LettersOf(placed, s) * MultiplierOf(placed, s)

\* The sum of the letters with their premiums, as score_word takes it, is the one
\* of the rules.
LEMMA LettersAgree ==
  ASSUME NEW placed, NEW s, IsFiniteSet(SquaresOf(s)),
         \A c \in SquaresOf(s) : Value(placed, c) \in Nat
  PROVE  /\ SumFunction([c \in SquaresOf(s) |-> Value(placed, c) * Premium(placed, c, "Letter")])
              = LettersOf(placed, s)
         /\ LettersOf(placed, s) \in Nat
<1> DEFINE Q == SquaresOf(s)
           F == Factors(placed, s, "Letter")
           g == [c \in Q |-> Value(placed, c)]
           h == [c \in Q |-> IF c \in F THEN (Premiums[c].by - 1) * Value(placed, c) ELSE 0]
           f == [c \in Q |-> Value(placed, c) * Premium(placed, c, "Letter")]
<1>1. F \in SUBSET Q /\ F \subseteq DOMAIN Premiums
  BY DEF Factors
<1>2. ASSUME NEW c \in Q
      PROVE  /\ g[c] \in Nat /\ h[c] \in Nat /\ f[c] \in Nat /\ f[c] = g[c] + h[c]
             /\ c \notin F => h[c] = 0
  <2>1. Value(placed, c) \in Nat
    OBVIOUS
  <2>2. CASE c \in F
    <3>1. Premium(placed, c, "Letter") = Premiums[c].by /\ Premiums[c].by \in Nat \ {0, 1}
      BY <1>1, <2>2, PremiumAssumption DEF Premium, Factors
    <3>2. \A v \in Nat, by \in Nat \ {0, 1} :
            v * by \in Nat /\ (by - 1) * v \in Nat /\ v * by = v + (by - 1) * v
      OBVIOUS
    <3>3. /\ g[c] = Value(placed, c) /\ h[c] = (Premiums[c].by - 1) * Value(placed, c)
          /\ f[c] = Value(placed, c) * Premiums[c].by
      BY <2>2, <3>1
    <3> QED
      BY <2>1, <2>2, <3>1, <3>2, <3>3
  <2>3. CASE c \notin F
    <3>1. Premium(placed, c, "Letter") = 1
      BY <2>3 DEF Premium, Factors
    <3>2. f[c] = Value(placed, c) * 1 /\ g[c] = Value(placed, c) /\ h[c] = 0
      BY <2>3, <3>1
    <3> QED
      BY <2>1, <3>2
  <2> QED
    BY <2>2, <2>3
<1>3. g \in [Q -> Nat] /\ h \in [Q -> Nat] /\ f \in [Q -> Nat]
  BY <1>2
<1>4. Part(h, F) = [c \in F |-> (Premiums[c].by - 1) * Value(placed, c)]
  BY <1>1 DEF Part
<1>5. /\ SumFunction(f) = FoldOf("Sum", f)
      /\ LettersOf(placed, s) = FoldOf("Sum", g) + FoldOf("Sum", Part(h, F))
  BY <1>4, SumIs DEF LettersOf
<1> HIDE DEF f, g, h, F, Q
<1>6. "Sum" \in Folds /\ Unit("Sum") = 0
  BY DEF Folds, Unit
<1>7. IsFiniteSet(Q)
  BY DEF Q
<1>8. FoldOf("Sum", h) = FoldOf("Sum", Part(h, F))
  <2>1. \A c \in Q \ F : h[c] = Unit("Sum")
    BY <1>2, <1>6
  <2> QED
    BY <2>1, <1>1, <1>3, <1>6, <1>7, FoldOfSupport
<1>9. FoldOf("Sum", f) = FoldOf("Sum", g) + FoldOf("Sum", h)
  BY <1>2, <1>3, <1>7, SumOfSums
<1>10. FoldOf("Sum", f) \in Nat
  BY <1>3, <1>6, <1>7, FoldByMembers
<1>11. SumFunction(f) = LettersOf(placed, s) /\ LettersOf(placed, s) \in Nat
  BY <1>5, <1>8, <1>9, <1>10
<1> QED
  BY <1>11 DEF f, Q

\* So is the product of the word premiums; it is above zero and in range.
LEMMA MultipliersAgree ==
  ASSUME NEW placed, NEW s, IsFiniteSet(SquaresOf(s)), IsLinear(SquaresOf(s))
  PROVE  /\ ProductFunction([c \in SquaresOf(s) |-> Premium(placed, c, "Word")])
              = MultiplierOf(placed, s)
         /\ MultiplierOf(placed, s) \in Nat \ {0} /\ MultiplierOf(placed, s) <= ScoreBound
<1> DEFINE Q == SquaresOf(s)
           F == Factors(placed, s, "Word")
           f == [c \in Q |-> Premium(placed, c, "Word")]
<1>1. F \in SUBSET Q /\ F \subseteq {c \in DOMAIN Premiums : Premiums[c].kind = "Word"}
  BY DEF Factors
<1>2. ASSUME NEW c \in Q
      PROVE  /\ f[c] \in Nat \ {0} /\ (c \notin F => f[c] = 1)
             /\ c \in F => f[c] = Premiums[c].by
  BY PremiumAssumption DEF Premium, Factors
<1>3. f \in [Q -> Nat] /\ f \in [Q -> Nat \ {0}]
  BY <1>2
<1>4. Part(f, F) = [c \in F |-> Premiums[c].by]
  BY <1>1, <1>2 DEF Part
<1>5. /\ ProductFunction(f) = FoldOf("Product", f)
      /\ MultiplierOf(placed, s) = FoldOf("Product", Part(f, F))
  BY <1>4, SumIs DEF MultiplierOf
<1>6. MultiplierOf(placed, s) <= ScoreBound
  <2>1. IsLinear(F)
    BY <1>1 DEF IsLinear, InLine
  <2> QED
    BY <2>1, <1>1, PremiumAssumption DEF MultiplierOf
<1> HIDE DEF f, F, Q
<1>7. "Product" \in Folds /\ Unit("Product") = 1 /\ IsFiniteSet(Q)
  BY DEF Folds, Unit, Q
<1>8. FoldOf("Product", f) = FoldOf("Product", Part(f, F))
  <2>1. \A c \in Q \ F : f[c] = Unit("Product")
    BY <1>2, <1>7
  <2> QED
    BY <2>1, <1>1, <1>3, <1>7, FoldOfSupport
<1>9. FoldOf("Product", f) \in Nat \ {0}
  BY <1>3, <1>7, ProductIsPositive
<1>10. ProductFunction(f) = MultiplierOf(placed, s) /\ MultiplierOf(placed, s) \in Nat \ {0}
  BY <1>5, <1>8, <1>9
<1> QED
  BY <1>6, <1>10 DEF f, Q

\* score_word gives a word its worth by the rules, or fails when that is out of
\* range.
LEMMA WordScores ==
  ASSUME NEW placed, NEW s, IsFiniteSet(SquaresOf(s)), IsLinear(SquaresOf(s)),
         \A c \in SquaresOf(s) : Value(placed, c) \in Nat
  PROVE  /\ WorthOf(placed, s) \in Nat
         /\ ScoreWord(placed, s) = Checked(WorthOf(placed, s))
<1> DEFINE L == LettersOf(placed, s)
           M == MultiplierOf(placed, s)
<1>1. L \in Nat /\ M \in Nat \ {0} /\ M <= ScoreBound /\ ScoreBound \in Nat
  BY LettersAgree, MultipliersAgree, BoardAssumption
<1>2. ScoreWord(placed, s) =
        IF Overflow \in {Checked(L), Checked(M)} THEN Overflow ELSE Checked(L * M)
  <2>1. ScoreWord(placed, s) =
          LET letters == SumFunction([c \in SquaresOf(s) |->
                                        Value(placed, c) * Premium(placed, c, "Letter")])
              multiplier == ProductFunction([c \in SquaresOf(s) |-> Premium(placed, c, "Word")])
          IN  IF Overflow \in {Checked(letters), Checked(multiplier)}
                THEN Overflow ELSE Checked(letters * multiplier)
    BY DEF ScoreWord, Value, Premium
  <2> QED
    BY <2>1, LettersAgree, MultipliersAgree
<1> HIDE DEF L, M
<1>3. Checked(M) = M /\ M # Overflow
  BY <1>1 DEF Checked, Overflow
<1>4. L * M \in Nat /\ L <= L * M
  BY <1>1
<1>5. Checked(L) = Overflow => Checked(L * M) = Overflow
  BY <1>1, <1>4 DEF Checked, Overflow
<1> QED
  BY <1>2, <1>3, <1>4, <1>5 DEF WorthOf, L, M

\* A play makes finitely many words.
LEMMA WordsAreFinite ==
  ASSUME NEW placed, DOMAIN placed \subseteq Squares
  PROVE  IsFiniteSet(FormedWords(placed))
<1> DEFINE S == DOMAIN placed
           N == S \cup DOMAIN board
           axis == PlacementAxis(S)
           main == CollectWord(N, FirstOf(S), axis)
           f == [c \in S |-> CollectWord(N, c, Across(axis))]
           across == {CollectWord(N, c, Across(axis)) : c \in S}
           crosses == {w \in across : Len(w) > 1}
<1>1. FormedWords(placed) = IF Len(main) = 1 /\ crosses # {} THEN crosses ELSE {main} \cup crosses
  BY DEF FormedWords
<1>2. IsFiniteSet(S)
  BY SquaresAreFinite, FS_Subset
<1>3. f \in Surjection(S, across)
  BY DEF Surjection
<1>4. IsFiniteSet(across)
  BY <1>2, <1>3, FS_Surjection
<1>5. crosses \in SUBSET across
  OBVIOUS
<1> HIDE DEF crosses, main, across
<1>6. IsFiniteSet(crosses)
  BY <1>4, <1>5, FS_Subset
<1>7. IsFiniteSet({main} \cup crosses)
  BY <1>6, FS_AddElement
<1> QED
  BY <1>1, <1>6, <1>7

\* The analysis of a play whose words are the runs with a new tile has the score
\* of the rules, or fails when that is out of range.
LEMMA ScoresAgree ==
  ASSUME BoardInv, NEW placed, DOMAIN placed \subseteq Squares,
         \A c \in DOMAIN placed : placed[c].tile \in Tiles,
         FormedWords(placed) = NewRuns(placed)
  PROVE  LET score == ScoreOf(placed, NewRuns(placed))
         IN  score \in Nat /\ Analysis(placed).score = Checked(score)
<1> DEFINE W == NewRuns(placed)
           worth == [s \in W |-> WorthOf(placed, s)]
           scored == [s \in W |-> ScoreWord(placed, s)]
           bonus == BonusFor(placed)
<1>1. IsFiniteSet(W)
  BY WordsAreFinite
<1>2. ASSUME NEW s \in W
      PROVE  /\ WorthOf(placed, s) \in Nat
             /\ ScoreWord(placed, s) = Checked(WorthOf(placed, s))
  <2> DEFINE N == DOMAIN Combined(placed)
  <2>1. N \in SUBSET Squares
    BY CombinedIs DEF BoardInv
  <2>2. s \in Runs(N)
    BY DEF NewRuns
  <2>3. SquaresOf(s) \subseteq N
    BY <2>2 DEF Runs
  <2>4. \A c \in SquaresOf(s) : Value(placed, c) \in Nat
    <3>1. \A c \in N : Combined(placed)[c].tile \in Tiles
      BY DEF Combined, BoardInv
    <3> QED
      BY <2>3, <3>1, BoardAssumption DEF Value
  <2>5. IsFiniteSet(SquaresOf(s))
    BY <2>1, <2>3, SquaresAreFinite, FS_Subset
  <2>6. PICK c \in N, a \in Axes, n \in 2..BoardSize : s = Stretch(c, a, n)
    BY <2>1, <2>2, RunsAreRuns
  <2>7. IsLinear(SquaresOf(s))
    <3>1. c \in Places /\ n \in Nat
      BY <2>1, SquaresArePlaces, BoardAssumption
    <3> QED
      BY <3>1, <2>6, StretchInLine DEF IsLinear
  <2> QED
    BY <2>4, <2>5, <2>7, WordScores
<1>3. bonus \in Nat /\ ScoreBound \in Nat
  BY BoardAssumption DEF BonusFor
<1>4. worth \in [W -> Nat]
  BY <1>2
<1>5. ScoreOf(placed, W) = FoldOf("Sum", worth) + bonus
  <2>1. ScoreOf(placed, W) = SumFunction(worth) + bonus
    BY DEF ScoreOf, WorthOf, LettersOf, MultiplierOf, Value, Factors
  <2> QED
    BY <2>1, SumIs
<1>6. Analysis(placed).score =
        IF \E s \in W : ScoreWord(placed, s) = Overflow THEN Overflow
        ELSE Checked(FoldOf("Sum", scored) + bonus)
  BY SumIs DEF Analysis
<1>7. FoldOf("Sum", worth) \in Nat
  BY <1>1, <1>4, FoldByMembers DEF Folds
<1>8. CASE \E s \in W : ScoreWord(placed, s) = Overflow
  <2>1. PICK s \in W : Checked(WorthOf(placed, s)) = Overflow
    BY <1>2, <1>8
  <2>2. WorthOf(placed, s) > ScoreBound
    BY <2>1, <1>2, <1>3 DEF Checked, Overflow
  <2>3. worth[s] <= FoldOf("Sum", worth) /\ worth[s] = WorthOf(placed, s)
    BY <1>1, <1>4, SumIsAbove
  <2> HIDE DEF worth, bonus, W
  <2>4. FoldOf("Sum", worth) + bonus \in Nat /\ FoldOf("Sum", worth) + bonus > ScoreBound
    BY <2>2, <2>3, <1>2, <1>3, <1>7
  <2>5. Checked(FoldOf("Sum", worth) + bonus) = Overflow
    BY <2>4, <1>3 DEF Checked
  <2> QED
    BY <2>4, <2>5, <1>5, <1>6, <1>8 DEF W
<1>9. CASE ~\E s \in W : ScoreWord(placed, s) = Overflow
  <2>1. \A s \in W : ScoreWord(placed, s) = WorthOf(placed, s)
    BY <1>2, <1>9 DEF Checked
  <2>2. scored = worth
    BY <2>1
  <2> HIDE DEF worth, scored, bonus
  <2>3. FoldOf("Sum", worth) + bonus \in Nat
    BY <1>3, <1>7
  <2> QED
    BY <2>2, <2>3, <1>5, <1>6, <1>9
<1> QED
  BY <1>8, <1>9

\* analyze_committed_play of an accepted play.
LEMMA HistoryAgrees ==
  ASSUME NEW placed, DOMAIN placed \subseteq Squares \ DOMAIN board, DOMAIN placed # {},
         ShapeError(DOMAIN placed) = "None", Analysis(placed).score # Overflow
  PROVE  AnalyzeCommittedPlay(placed) = [ok |-> TRUE, play |-> Analysis(placed)]
<1>1. placed # <<>>
  OBVIOUS
<1> QED
  BY <1>1 DEF AnalyzeCommittedPlay

\* decide_play, analyze_play and analyze_committed_play judge every draft on every
\* reachable board as the rules of the game do: accepted exactly when it is a
\* legal play whose score is in range, for that score and the runs with a new
\* tile, and with the same analysis in the move history.
THEOREM DraftsAreJudged == BoardSpec => []PlaysAreJudged
<1>1. BoardInv => PlaysAreJudged
  <2> SUFFICES ASSUME BoardInv, NEW draft \in Drafts
               PROVE  LET placed == CandidateTiles(draft)
                          judged == AnalyzePlay(draft)
                          score == ScoreOf(placed, NewRuns(placed))
                      IN  /\ judged.ok <=> IsLegal(draft, placed) /\ score <= ScoreBound
                          /\ judged.ok => /\ judged.play.score = score
                                          /\ judged.play.words = NewRuns(placed)
                                          /\ AnalyzeCommittedPlay(placed) =
                                               [ok |-> TRUE, play |-> judged.play]
    BY DEF PlaysAreJudged
  <2> DEFINE placed == CandidateTiles(draft)
             score == ScoreOf(placed, NewRuns(placed))
  <2>1. /\ AnalyzePlay(draft).ok <=> IsLegal(draft, placed) /\ Analysis(placed).score # Overflow
        /\ IsLegal(draft, placed) =>
             /\ DraftError(draft) = "None" /\ ShapeError(DOMAIN placed) = "None"
             /\ DOMAIN placed # {} /\ FormedWords(placed) = NewRuns(placed)
    BY TestsAreLegality
  <2>2. AnalyzePlay(draft).ok => AnalyzePlay(draft).play = Analysis(placed)
    BY PlayTests
  <2>3. ASSUME IsLegal(draft, placed)
        PROVE  /\ DOMAIN placed \subseteq Squares \ DOMAIN board
               /\ \A c \in DOMAIN placed : placed[c].tile \in Tiles
    BY <2>1, <2>3, AcceptedTilesAreOpen DEF BoardInv
  <2> HIDE DEF placed
  <2>4. ASSUME IsLegal(draft, placed)
        PROVE  score \in Nat /\ Analysis(placed).score = Checked(score)
    BY <2>1, <2>3, <2>4, ScoresAgree
  <2>5. ASSUME IsLegal(draft, placed)
        PROVE  /\ Analysis(placed).score # Overflow <=> score <= ScoreBound
               /\ Analysis(placed).score # Overflow => Analysis(placed).score = score
    <3>1. score \in Nat /\ Analysis(placed).score = Checked(score) /\ ScoreBound \in Nat
      BY <2>4, <2>5, BoardAssumption
    <3> HIDE DEF score
    <3> QED
      BY <3>1 DEF Checked, Overflow
  <2>6. Analysis(placed).words = FormedWords(placed)
    BY AnalysisWords
  <2>7. ASSUME IsLegal(draft, placed), Analysis(placed).score # Overflow
        PROVE  AnalyzeCommittedPlay(placed) = [ok |-> TRUE, play |-> Analysis(placed)]
    BY <2>1, <2>3, <2>7, HistoryAgrees
  <2> HIDE DEF score
  <2> QED
    BY <2>1, <2>2, <2>5, <2>6, <2>7 DEF placed, score
<1> QED
  BY <1>1, BoardInvariant, PTL

-----------------------------------------------------------------------------
(* Rule profiles: generated layouts *)

\* Scaling keeps the order, ends at the last coordinate, and meets the middle.
LEMMA ScaleRange ==
  ASSUME NEW s \in Nat \ {0}, NEW a \in 0..14
  PROVE  /\ ScaleCoordinate(a, s) \in 0..(s - 1)
         /\ ScaleCoordinate(0, s) = 0
         /\ ScaleCoordinate(7, s) = s \div 2
         /\ ScaleCoordinate(14, s) = s - 1
         /\ s = 15 => ScaleCoordinate(a, s) = a
<1>1. a \in {0, 1, 2, 3, 4, 5, 6, 7, 8, 9, 10, 11, 12, 13, 14}
  OBVIOUS
<1>2. CASE s = 1
  BY <1>2 DEF ScaleCoordinate
<1>3. CASE s # 1
  <2>1. s - 1 \in Nat /\ s - 1 >= 1
    BY <1>3
  <2>2. ScaleCoordinate(a, s) \in 0..(s - 1)
    BY <1>1, <1>3, <2>1 DEF ScaleCoordinate
  <2>3. ScaleCoordinate(0, s) = 0
    BY <1>3, <2>1 DEF ScaleCoordinate
  <2>4. ScaleCoordinate(7, s) = s \div 2
    BY <1>3, <2>1 DEF ScaleCoordinate
  <2>5. ScaleCoordinate(14, s) = s - 1
    BY <1>3, <2>1 DEF ScaleCoordinate
  <2>6. s = 15 => ScaleCoordinate(a, s) = a
    BY <1>1 DEF ScaleCoordinate
  <2> QED
    BY <2>2, <2>3, <2>4, <2>5, <2>6
<1> QED
  BY <1>2, <1>3

\* From eight squares on no three coordinates meet, from fifteen on no two.
LEMMA ScaleSpreads ==
  ASSUME NEW s \in Nat, s >= 8, NEW a \in 0..14, NEW b \in 0..14,
         ScaleCoordinate(a, s) = ScaleCoordinate(b, s)
  PROVE  /\ a - b \in {-1, 0, 1}
         /\ s >= 15 => a = b
<1>1. s - 1 \in Nat /\ s - 1 >= 7 /\ s # 1
  OBVIOUS
<1> DEFINE t == s - 1
<1>2. ASSUME NEW x \in 0..14, NEW y \in 0..14, x < y, x + 1 < y \/ t >= 14
      PROVE  (x * t + 7) \div 14 < (y * t + 7) \div 14
  <2>1. t \in Nat /\ t >= 7 /\ y - x \in Nat
    BY <1>1, <1>2
  <2> HIDE DEF t
  <2>2. (y - x) * t >= 14
    <3>1. CASE t >= 14
      <4>1. y - x >= 1
        BY <1>2
      <4>2. \A m, n \in Nat : m >= 1 /\ n >= 14 => m * n >= 14
        OBVIOUS
      <4> QED
        BY <2>1, <3>1, <4>1, <4>2
    <3>2. CASE x + 1 < y
      <4>1. y - x >= 2
        BY <3>2
      <4>2. \A m, n \in Nat : m >= 2 /\ n >= 7 => m * n >= 14
        OBVIOUS
      <4> QED
        BY <2>1, <4>1, <4>2
    <3> QED
      BY <1>2, <3>1, <3>2
  <2>3. y * t = x * t + (y - x) * t
    <3>1. \A k, m \in Nat : (x + k) * m = x * m + k * m
      OBVIOUS
    <3>2. y = x + (y - x)
      OBVIOUS
    <3> QED
      BY <2>1, <3>1, <3>2
  <2>4. x * t \in Nat /\ y * t \in Nat
    BY <2>1
  <2>5. \A m, n \in Nat : n >= m + 14 => (m + 7) \div 14 < (n + 7) \div 14
    OBVIOUS
  <2>6. y * t >= x * t + 14
    <3>1. \A k, m, n \in Nat : k >= 14 /\ n = m + k => n >= m + 14
      OBVIOUS
    <3>2. (y - x) * t \in Nat
      BY <2>1
    <3> QED
      BY <2>2, <2>3, <2>4, <3>1, <3>2
  <2> QED
    BY <2>4, <2>5, <2>6
<1>3. \A x \in 0..14 : ScaleCoordinate(x, s) = (x * t + 7) \div 14
  BY <1>1 DEF ScaleCoordinate
<1>4. ASSUME NEW x \in 0..14, NEW y \in 0..14, x < y, x + 1 < y \/ s >= 15
      PROVE  ScaleCoordinate(x, s) # ScaleCoordinate(y, s)
  <2> HIDE DEF t
  <2>1. (x * t + 7) \div 14 < (y * t + 7) \div 14
    BY <1>2, <1>4 DEF t
  <2>2. x * t \in Nat /\ y * t \in Nat
    BY <1>1 DEF t
  <2>3. \A m, n \in Nat : (m + 7) \div 14 < (n + 7) \div 14 => (m + 7) \div 14 # (n + 7) \div 14
    OBVIOUS
  <2> QED
    BY <1>3, <2>1, <2>2, <2>3
<1>5. CASE a = b
  BY <1>5
<1>6. CASE a < b
  BY <1>4, <1>6
<1>7. CASE b < a
  BY <1>4, <1>7
<1> QED
  BY <1>5, <1>6, <1>7

\* Coordinates of the classic lines with a triple word, and of those with a
\* double word.
TripleLines == {0, 7, 14}
DoubleLines == {1, 2, 3, 4, 7, 10, 11, 12, 13}

\* What the proofs use of the classic layout.
ClassicPremium(q, p) ==
  /\ q \in (0..14) \X (0..14)
  /\ p.kind \in {"Word", "Letter"} /\ p.by \in {2, 3}
  /\ p.kind = "Word" /\ p.by = 3 => q[1] \in TripleLines /\ q[2] \in TripleLines
  /\ p.kind = "Word" /\ p.by = 2 =>
       /\ q[1] \in DoubleLines /\ q[2] \in DoubleLines
       /\ q[2] = q[1] \/ q[2] = 14 - q[1]

LEMMA Layout ==
  /\ \A q \in DOMAIN InitialPremiums : ClassicPremium(q, InitialPremiums[q])
  /\ <<7, 7>> \in DOMAIN InitialPremiums /\ InitialPremiums[<<7, 7>>] = Word(2)
<1> DEFINE square == (0..14) \X (0..14)
<1>1. ASSUME NEW x \in 0..14, NEW y \in 0..14, NEW q \in Images(x, y)
      PROVE  /\ q \in square
             /\ q[1] \in {x, y, 14 - x, 14 - y} /\ q[2] \in {x, y, 14 - x, 14 - y}
             /\ x = y => q[2] = q[1] \/ q[2] = 14 - q[1]
  BY DEF Images
<1>2. TripleWord \subseteq square
  BY DEF TripleWord
<1>3. ASSUME NEW q \in TripleWord
      PROVE  q[1] \in TripleLines /\ q[2] \in TripleLines /\ q # <<7, 7>>
  BY DEF TripleWord, TripleLines
<1>double. \A q : q \in DoubleWord <=> q = <<7, 7>> \/ \E i \in 1..4 : q \in Images(i, i)
  BY Zenon DEF DoubleWord
<1>4. ASSUME NEW q \in DoubleWord
      PROVE  /\ q \in square /\ q[1] \in DoubleLines /\ q[2] \in DoubleLines
             /\ q[2] = q[1] \/ q[2] = 14 - q[1]
  <2>1. CASE q = <<7, 7>>
    BY <2>1 DEF DoubleLines
  <2>2. ASSUME NEW i \in 1..4, q \in Images(i, i)
        PROVE  /\ q \in square /\ q[1] \in DoubleLines /\ q[2] \in DoubleLines
               /\ q[2] = q[1] \/ q[2] = 14 - q[1]
    <3>1. i \in {1, 2, 3, 4} /\ i \in 0..14
      OBVIOUS
    <3>2. {i, 14 - i} \subseteq DoubleLines
      BY <3>1 DEF DoubleLines
    <3> QED
      BY <1>1, <2>2, <3>1, <3>2
  <2>3. q = <<7, 7>> \/ \E i \in 1..4 : q \in Images(i, i)
    BY <1>double
  <2> QED
    BY <2>1, <2>2, <2>3
<1>5. TripleLetter \subseteq square
  BY DEF TripleLetter
<1>6. DoubleLetter \subseteq square
  BY <1>1 DEF DoubleLetter
<1>7. <<7, 7>> \in DoubleWord /\ <<7, 7>> \notin TripleWord
  <2>1. <<7, 7>> \in DoubleWord
    BY <1>double
  <2> QED
    BY <1>3, <2>1
<1>8. ASSUME NEW q \in DOMAIN InitialPremiums
      PROVE  ClassicPremium(q, InitialPremiums[q])
  <2>1. q \in TripleWord \cup DoubleWord \cup TripleLetter \cup DoubleLetter
    BY DEF InitialPremiums
  <2>2. q \in square
    BY <1>2, <1>4, <1>5, <1>6, <2>1
  <2>3. CASE q \in TripleWord
    <3>1. InitialPremiums[q] = Word(3)
      BY <2>1, <2>3 DEF InitialPremiums
    <3> QED
      BY <1>3, <2>2, <2>3, <3>1 DEF ClassicPremium, Word
  <2>4. CASE q \notin TripleWord /\ q \in DoubleWord
    <3>1. InitialPremiums[q] = Word(2)
      BY <2>1, <2>4 DEF InitialPremiums
    <3> QED
      BY <1>4, <2>2, <2>4, <3>1 DEF ClassicPremium, Word
  <2>5. CASE q \notin TripleWord /\ q \notin DoubleWord
    <3>1. InitialPremiums[q] \in {Letter(3), Letter(2)}
      BY <2>1, <2>5 DEF InitialPremiums
    <3> QED
      BY <2>2, <3>1 DEF ClassicPremium, Letter
  <2> QED
    BY <2>3, <2>4, <2>5
<1> QED
  BY <1>7, <1>8 DEF InitialPremiums

\* A generated premium is a classic one moved, or the centre.
Centre(s) == <<s \div 2, s \div 2>>
Moved(q, s) == <<ScaleCoordinate(q[1], s), ScaleCoordinate(q[2], s)>>

LEMMA GeneratedFromClassic ==
  ASSUME NEW s \in Nat \ {0}
  PROVE  /\ Centre(s) \in DOMAIN GeneratedPremiums(s)
         /\ GeneratedPremiums(s)[Centre(s)] = Word(2)
         /\ \A c \in DOMAIN GeneratedPremiums(s) :
              \/ c = Centre(s)
              \/ \E q \in DOMAIN InitialPremiums :
                   c = Moved(q, s) /\ GeneratedPremiums(s)[c] = InitialPremiums[q]
<1>1. CASE s = 15
  <2>1. Centre(s) = <<7, 7>> /\ GeneratedPremiums(s) = InitialPremiums
    BY <1>1 DEF Centre, GeneratedPremiums
  <2>2. ASSUME NEW q \in DOMAIN InitialPremiums
        PROVE  q = Moved(q, s)
    <3>1. q \in (0..14) \X (0..14)
      BY Layout DEF ClassicPremium
    <3>2. ScaleCoordinate(q[1], s) = q[1] /\ ScaleCoordinate(q[2], s) = q[2]
      BY <1>1, <3>1, ScaleRange
    <3> QED
      BY <3>1, <3>2 DEF Moved
  <2> QED
    BY <2>1, <2>2, Layout
<1>2. CASE s # 15
  <2> DEFINE scaled == {Moved(q, s) : q \in DOMAIN InitialPremiums}
  <2>1. GeneratedPremiums(s) =
          [c \in scaled \cup {Centre(s)} |->
             IF c = Centre(s) THEN Word(2) ELSE Highest(ScaledOnto(c, s))]
    BY <1>2 DEF GeneratedPremiums, Centre, Moved
  <2>2. ASSUME NEW c \in scaled
        PROVE  \E q \in DOMAIN InitialPremiums :
                 c = Moved(q, s) /\ Highest(ScaledOnto(c, s)) = InitialPremiums[q]
    <3> DEFINE onto == ScaledOnto(c, s)
    <3>1. onto = {InitialPremiums[q] : q \in {q \in DOMAIN InitialPremiums : Moved(q, s) = c}}
      BY DEF ScaledOnto, Moved
    <3>2. onto # {}
      BY <3>1
    <3>3. \A p \in onto : PremiumRank(p) \in 1..4
      BY DEF PremiumRank
    <3> HIDE DEF onto
    <3>4. \E p \in onto : \A o \in onto : PremiumRank(o) <= PremiumRank(p)
      <4>1. \A p \in onto : PremiumRank(p) \in {1, 2, 3, 4}
        BY <3>3
      <4>2. CASE \E p \in onto : PremiumRank(p) = 4
        BY <4>1, <4>2
      <4>3. CASE (\A p \in onto : PremiumRank(p) # 4) /\ \E p \in onto : PremiumRank(p) = 3
        BY <4>1, <4>3
      <4>4. CASE (\A p \in onto : PremiumRank(p) \in {1, 2}) /\ \E p \in onto : PremiumRank(p) = 2
        BY <4>4
      <4>5. CASE \A p \in onto : PremiumRank(p) = 1
        BY <3>2, <4>5
      <4> QED
        BY <4>1, <4>2, <4>3, <4>4, <4>5
    <3>5. Highest(onto) \in onto
      BY <3>4 DEF Highest
    <3> QED
      BY <3>1, <3>5 DEF onto
  <2> QED
    BY <2>1, <2>2
<1> QED
  BY <1>1, <1>2

-----------------------------------------------------------------------------
(* Rule profiles: sums and products with few large terms *)

\* No term above m: no sum above m times the number of terms.
LEMMA SumIsAtMost ==
  ASSUME NEW S, IsFiniteSet(S), NEW f \in [S -> Nat], NEW m \in Nat, \A x \in S : f[x] <= m
  PROVE  /\ Cardinality(S) \in Nat /\ FoldOf("Sum", f) \in Nat
         /\ FoldOf("Sum", f) <= m * Cardinality(S)
<1> DEFINE Sum(T) == FoldOf("Sum", Part(f, T))
           Bad == {T \in SUBSET S : ~(Sum(T) <= m * Cardinality(T))}
<1>1. ASSUME NEW T \in SUBSET S
      PROVE  /\ Sum(T) \in Nat /\ (T = {} => Sum(T) = 0)
             /\ \A x \in T : Sum(T) = f[x] + Sum(T \ {x})
  BY FoldPart DEF Combine, Unit, Folds
<1>2. Sum(S) = FoldOf("Sum", f)
  BY FoldPart DEF Folds
<1>3. ASSUME NEW T \in SUBSET S
      PROVE  /\ Cardinality(T) \in Nat /\ (T = {} => Cardinality(T) = 0)
             /\ \A x \in T : Cardinality(T) = Cardinality(T \ {x}) + 1
  <2>1. IsFiniteSet(T) /\ Cardinality(T) \in Nat
    BY FS_Subset, FS_CardinalityType
  <2>2. ASSUME NEW x \in T
        PROVE  Cardinality(T) = Cardinality(T \ {x}) + 1
    <3>1. Cardinality(T \ {x}) = Cardinality(T) - 1
      BY <2>1, FS_RemoveElement
    <3> QED
      BY <2>1, <3>1
  <2> QED
    BY <2>1, <2>2, FS_EmptySet
<1> HIDE DEF Sum
<1>4. Bad = {}
  <2> SUFFICES ASSUME Bad # {} PROVE FALSE
    OBVIOUS
  <2>1. PICK T \in Bad : \A x \in T : T \ {x} \notin Bad
    <3>1. Bad \in SUBSET SUBSET S
      OBVIOUS
    <3> HIDE DEF Bad
    <3> QED
      BY <3>1, SmallestSubset
  <2>2. T \in SUBSET S /\ T # {}
    BY <2>1, <1>1, <1>3
  <2>3. PICK x \in T : TRUE
    BY <2>2
  <2> DEFINE R == T \ {x}
  <2>4. R \in SUBSET S /\ Sum(R) <= m * Cardinality(R)
    BY <2>1, <2>2
  <2>5. Sum(T) = f[x] + Sum(R) /\ Cardinality(T) = Cardinality(R) + 1
    BY <1>1, <1>3, <2>2
  <2>6. f[x] \in Nat /\ f[x] <= m /\ Sum(R) \in Nat /\ Cardinality(R) \in Nat
    BY <1>1, <1>3, <2>2, <2>4
  <2>7. \A c \in Nat : m * (c + 1) = m * c + m /\ m * c \in Nat
    OBVIOUS
  <2> HIDE DEF R
  <2>8. Sum(T) <= m * Cardinality(T)
    BY <2>4, <2>5, <2>6, <2>7
  <2> QED
    BY <2>1, <2>8
<1>5. Sum(S) <= m * Cardinality(S)
  BY <1>4
<1> QED
  BY <1>1, <1>2, <1>3, <1>5

\* A factor of at most m taken out of a product.
LEMMA ProductWithout ==
  ASSUME NEW S, IsFiniteSet(S), NEW f \in [S -> Nat \ {0}], NEW T \in SUBSET S,
         NEW x, NEW m \in Nat \ {0}, x \in T => f[x] <= m
  PROVE  /\ FoldOf("Product", Part(f, T)) \in Nat
         /\ FoldOf("Product", Part(f, T \ {x})) \in Nat
         /\ FoldOf("Product", Part(f, T)) <= m * FoldOf("Product", Part(f, T \ {x}))
<1> DEFINE Product(U) == FoldOf("Product", Part(f, U))
<1>0. f \in [S -> Nat]
  OBVIOUS
<1>1. ASSUME NEW U \in SUBSET S
      PROVE  Product(U) \in Nat /\ \A y \in U : Product(U) = f[y] * Product(U \ {y})
  BY <1>0, FoldPart DEF Combine, Folds
<1> HIDE DEF Product
<1>2. Product(T) \in Nat /\ Product(T \ {x}) \in Nat
  BY <1>1
<1>3. \A k, n \in Nat : k <= m => k * n <= m * n
  OBVIOUS
<1>4. CASE x \in T
  <2>1. Product(T) = f[x] * Product(T \ {x}) /\ f[x] \in Nat
    BY <1>0, <1>1, <1>4
  <2> QED
    BY <1>2, <1>3, <1>4, <2>1 DEF Product
<1>5. CASE x \notin T
  <2>1. T \ {x} = T
    BY <1>5
  <2>2. \A n \in Nat : n <= m * n
    <3>1. \A n \in Nat : 1 * n <= m * n
      BY <1>3
    <3> QED
      BY <3>1
  <2> QED
    BY <1>2, <2>1, <2>2 DEF Product
<1> QED
  BY <1>4, <1>5

\* A product of ones is one.
LEMMA ProductOfOnes ==
  ASSUME NEW S, IsFiniteSet(S), NEW f \in [S -> Nat], NEW T \in SUBSET S, \A x \in T : f[x] = 1
  PROVE  FoldOf("Product", Part(f, T)) = 1
<1>1. IsFiniteSet(T) /\ Part(f, T) \in [T -> Nat] /\ {} \in SUBSET T
      /\ \A x \in T \ {} : Part(f, T)[x] = Unit("Product")
  BY FS_Subset DEF Part, Unit
<1>2. FoldOf("Product", Part(f, T)) = FoldOf("Product", Part(Part(f, T), {}))
  BY <1>1, FoldOfSupport DEF Folds
<1>3. FoldOf("Product", Part(Part(f, T), {})) = Unit("Product")
  BY <1>1, FoldPart DEF Folds
<1> QED
  BY <1>2, <1>3 DEF Unit

\* A product with few factors above one: m bounds those at x1, x2 and x3, and
\* the others are at most two.
Cube(m) == m * m * m
Three(E) == \E x1, x2, x3 : E = {x1, x2, x3}
OnlyIn(f, S, Y) == \A x \in S : f[x] # 1 => x \in Y
AtMost(f, S, E, m) == \A x \in S : f[x] <= IF x \in E THEN m ELSE 2

LEMMA FewFactors ==
  ASSUME NEW S, IsFiniteSet(S), NEW f \in [S -> {1, 2, 3}], NEW m \in {2, 3},
         NEW E, Three(E), AtMost(f, S, E, m)
  PROVE  /\ FoldOf("Product", f) \in Nat
         /\ OnlyIn(f, S, E) => FoldOf("Product", f) <= Cube(m)
         /\ \A y1, y2 : OnlyIn(f, S \ E, {y1, y2}) => FoldOf("Product", f) <= Cube(m) * 4
         /\ \A y1, y2, y3, y4 :
              OnlyIn(f, S \ E, {y1, y2, y3, y4}) => FoldOf("Product", f) <= Cube(m) * 16
<1>three. PICK x1, x2, x3 : E = {x1, x2, x3}
  BY DEF Three
<1> DEFINE P(T) == FoldOf("Product", Part(f, T))
           A1 == S \ {x1}
           A2 == A1 \ {x2}
           A3 == A2 \ {x3}
<1>0. f \in [S -> Nat] /\ f \in [S -> Nat \ {0}] /\ m \in Nat \ {0} /\ 2 \in Nat \ {0}
  OBVIOUS
<1>bound. \A x \in S : f[x] <= IF x \in {x1, x2, x3} THEN m ELSE 2
  BY <1>three DEF AtMost
<1>1. P(S) = FoldOf("Product", f)
  BY <1>0, FoldPart DEF Folds
<1>2. ASSUME NEW T \in SUBSET S, NEW x, NEW k \in Nat \ {0}, x \in T => f[x] <= k
      PROVE  P(T) \in Nat /\ P(T \ {x}) \in Nat /\ P(T) <= k * P(T \ {x})
  <2> HIDE DEF P
  <2>1. /\ FoldOf("Product", Part(f, T)) \in Nat
        /\ FoldOf("Product", Part(f, T \ {x})) \in Nat
        /\ FoldOf("Product", Part(f, T)) <= k * FoldOf("Product", Part(f, T \ {x}))
    BY <1>0, <1>2, ProductWithout
  <2> QED
    BY <2>1 DEF P
<1>3. ASSUME NEW T \in SUBSET S, \A x \in T : f[x] = 1
      PROVE  P(T) = 1
  BY <1>0, <1>3, ProductOfOnes
<1> HIDE DEF P
<1>4. P(S) <= m * P(A1) /\ P(S) \in Nat /\ P(A1) \in Nat
  BY <1>0, <1>2, <1>bound
<1>5. P(A1) <= m * P(A2) /\ P(A2) \in Nat
  BY <1>0, <1>2, <1>bound
<1>6. P(A2) <= m * P(A3) /\ P(A3) \in Nat
  BY <1>0, <1>2, <1>bound
<1>7. A3 = S \ E /\ A3 \in SUBSET S
  BY <1>three
<1>8. ASSUME NEW T \in SUBSET A3, NEW y
      PROVE  P(T) <= 2 * P(T \ {y}) /\ P(T \ {y}) \in Nat
  <2>1. T \in SUBSET S
    BY <1>7
  <2>2. y \in T => f[y] <= 2
    BY <1>7 DEF AtMost
  <2> QED
    BY <1>0, <1>2, <2>1, <2>2
<1> HIDE DEF A1, A2, A3
<1>9. P(S) <= Cube(m) * P(A3) /\ \A a, b \in Nat : a <= b => Cube(m) * a <= Cube(m) * b
  <2>1. P(S) <= m * m * m * P(A3)
    BY <1>4, <1>5, <1>6
  <2>2. \A a, b \in Nat : a <= b => m * m * m * a <= m * m * m * b
    OBVIOUS
  <2> QED
    BY <2>1, <2>2 DEF Cube
<1>cube. Cube(m) \in {8, 27}
  BY DEF Cube
<1>10. (\A x \in A3 : f[x] = 1) => P(S) <= Cube(m)
  <2>1. (\A x \in A3 : f[x] = 1) => P(A3) = 1
    BY <1>3, <1>7
  <2>2. Cube(m) * 1 = Cube(m)
    BY DEF Cube
  <2> QED
    BY <1>9, <2>1, <2>2
<1>11. ASSUME NEW y1, NEW y2, \A x \in A3 : f[x] # 1 => x \in {y1, y2}
       PROVE  P(S) <= Cube(m) * 4
  <2> DEFINE B1 == A3 \ {y1}
             B2 == B1 \ {y2}
  <2>1. P(B2) = 1
    <3>1. B2 \in SUBSET S /\ \A x \in B2 : f[x] = 1
      BY <1>7, <1>11
    <3> QED
      BY <1>3, <3>1
  <2>2. B1 \in SUBSET A3
    OBVIOUS
  <2>3. P(A3) <= 2 * P(B1) /\ P(B1) <= 2 * P(B2) /\ P(B1) \in Nat
    BY <1>8, <2>2
  <2> HIDE DEF B1, B2
  <2>4. P(A3) <= 4
    BY <1>6, <2>1, <2>3
  <2> QED
    BY <1>4, <1>6, <1>9, <1>cube, <2>4
<1>12. ASSUME NEW y1, NEW y2, NEW y3, NEW y4, \A x \in A3 : f[x] # 1 => x \in {y1, y2, y3, y4}
       PROVE  P(S) <= Cube(m) * 16
  <2> DEFINE B1 == A3 \ {y1}
             B2 == B1 \ {y2}
             B3 == B2 \ {y3}
             B4 == B3 \ {y4}
  <2>1. P(B4) = 1
    <3>1. B4 \in SUBSET S /\ \A x \in B4 : f[x] = 1
      BY <1>7, <1>12
    <3> QED
      BY <1>3, <3>1
  <2>2. B1 \in SUBSET A3 /\ B2 \in SUBSET A3 /\ B3 \in SUBSET A3
    OBVIOUS
  <2>3. /\ P(A3) <= 2 * P(B1) /\ P(B1) <= 2 * P(B2) /\ P(B1) \in Nat
        /\ P(B2) <= 2 * P(B3) /\ P(B3) <= 2 * P(B4) /\ P(B2) \in Nat /\ P(B3) \in Nat
    BY <1>8, <2>2
  <2> HIDE DEF B1, B2, B3, B4
  <2>4. P(A3) <= 16
    BY <1>6, <2>1, <2>3
  <2> QED
    BY <1>4, <1>6, <1>9, <1>cube, <2>4
<1> QED
  <2>1. OnlyIn(f, S, E) => P(S) <= Cube(m)
    BY <1>7, <1>10 DEF OnlyIn
  <2>2. \A y1, y2 : OnlyIn(f, S \ E, {y1, y2}) => P(S) <= Cube(m) * 4
    BY <1>7, <1>11 DEF OnlyIn
  <2>3. \A y1, y2, y3, y4 : OnlyIn(f, S \ E, {y1, y2, y3, y4}) => P(S) <= Cube(m) * 16
    BY <1>7, <1>12 DEF OnlyIn
  <2> QED
    BY <1>1, <1>4, <2>1, <2>2, <2>3

-----------------------------------------------------------------------------
(* Rule profiles: the squares of a line *)

\* The squares of a line by their place in it, and the places of its triple
\* words.
At(h, n, o) == IF h THEN <<o, n>> ELSE <<n, o>>
Ends(s) == {0, s \div 2, s - 1}

LEMMA LineOf ==
  ASSUME NEW profile, NEW h \in BOOLEAN, NEW n
  PROVE  LineSquares(profile, h, n) = {At(h, n, o) : o \in 0..(profile.boardSize - 1)}
  BY DEF LineSquares, At

\* Where the factors of a line can be: triple words at its ends or its middle,
\* double words in the middle and on the diagonals, letters where a classic
\* square came to lie.
LEMMA FactorsOfLine ==
  ASSUME NEW profile, NEW s \in Nat \ {0}, profile.premiums = GeneratedPremiums(s),
         NEW h \in BOOLEAN, NEW n \in 0..(s - 1), NEW o \in 0..(s - 1)
  PROVE  LET word == Factor(profile, At(h, n, o), "Word")
             letter == Factor(profile, At(h, n, o), "Letter")
         IN  /\ word \in {1, 2, 3} /\ letter \in {1, 2, 3}
             /\ word = 3 => o \in Ends(s) /\ n \in Ends(s)
             /\ word = 2 => \/ o = s \div 2 /\ n = s \div 2
                            \/ \E r \in DoubleLines : \E t \in {r, 14 - r} :
                                 n = ScaleCoordinate(r, s) /\ o = ScaleCoordinate(t, s)
             /\ letter # 1 => \E a \in 0..14 : o = ScaleCoordinate(a, s)
<1> DEFINE c == At(h, n, o)
           premiums == GeneratedPremiums(s)
           word == Factor(profile, c, "Word")
           letter == Factor(profile, c, "Letter")
<1> SUFFICES
      /\ word \in {1, 2, 3} /\ letter \in {1, 2, 3}
      /\ word = 3 => o \in Ends(s) /\ n \in Ends(s)
      /\ word = 2 => \/ o = s \div 2 /\ n = s \div 2
                     \/ \E r \in DoubleLines : \E t \in {r, 14 - r} :
                          n = ScaleCoordinate(r, s) /\ o = ScaleCoordinate(t, s)
      /\ letter # 1 => \E a \in 0..14 : o = ScaleCoordinate(a, s)
  OBVIOUS
<1>1. /\ word = IF c \in DOMAIN premiums /\ premiums[c].kind = "Word"
                THEN premiums[c].by ELSE 1
      /\ letter = IF c \in DOMAIN premiums /\ premiums[c].kind = "Letter"
                  THEN premiums[c].by ELSE 1
  BY DEF Factor
<1>2. CASE c \notin DOMAIN premiums
  BY <1>1, <1>2
<1>3. CASE c = Centre(s)
  <2>1. premiums[c].kind = "Word" /\ premiums[c].by = 2 /\ c \in DOMAIN premiums
    BY <1>3, GeneratedFromClassic DEF Word
  <2>2. word = 2 /\ letter = 1
    BY <1>1, <2>1
  <2>3. o = s \div 2 /\ n = s \div 2
    BY <1>3 DEF Centre, At
  <2> QED
    BY <2>2, <2>3
<1>4. ASSUME NEW q \in DOMAIN InitialPremiums, c \in DOMAIN premiums,
             c = Moved(q, s), premiums[c] = InitialPremiums[q]
      PROVE  /\ word \in {1, 2, 3} /\ letter \in {1, 2, 3}
             /\ word = 3 => o \in Ends(s) /\ n \in Ends(s)
             /\ word = 2 => \E r \in DoubleLines : \E t \in {r, 14 - r} :
                              n = ScaleCoordinate(r, s) /\ o = ScaleCoordinate(t, s)
             /\ letter # 1 => \E a \in 0..14 : o = ScaleCoordinate(a, s)
  <2> DEFINE p == InitialPremiums[q]
             a == IF h THEN q[1] ELSE q[2]
             b == IF h THEN q[2] ELSE q[1]
  <2>1. ClassicPremium(q, p)
    BY Layout
  <2> HIDE DEF p
  <2>2. /\ word = IF p.kind = "Word" THEN p.by ELSE 1
        /\ letter = IF p.kind = "Letter" THEN p.by ELSE 1
    BY <1>1, <1>4 DEF p
  <2>3. a \in 0..14 /\ b \in 0..14
    BY <2>1 DEF ClassicPremium
  <2>4. o = ScaleCoordinate(a, s) /\ n = ScaleCoordinate(b, s)
    BY <1>4 DEF Moved, At
  <2>5. p.by = 3 /\ p.kind = "Word" => a \in TripleLines /\ b \in TripleLines
    BY <2>1 DEF ClassicPremium
  <2>6. p.by = 2 /\ p.kind = "Word" => b \in DoubleLines /\ a \in {b, 14 - b}
    <3>1. /\ q[1] \in 0..14 /\ q[2] \in 0..14
          /\ p.by = 2 /\ p.kind = "Word" =>
               /\ q[1] \in DoubleLines /\ q[2] \in DoubleLines
               /\ q[2] = q[1] \/ q[2] = 14 - q[1]
      BY <2>1 DEF ClassicPremium
    <3> QED
      BY <3>1
  <2> HIDE DEF a, b, word, letter
  <2>7. p.by \in {2, 3} /\ p.kind \in {"Word", "Letter"}
    BY <2>1 DEF ClassicPremium
  <2>8. \A x \in TripleLines : ScaleCoordinate(x, s) \in Ends(s)
    <3>1. /\ ScaleCoordinate(0, s) = 0 /\ ScaleCoordinate(7, s) = s \div 2
          /\ ScaleCoordinate(14, s) = s - 1
      <4>1. 0 \in 0..14
        OBVIOUS
      <4> QED
        BY <4>1, ScaleRange
    <3> QED
      BY <3>1 DEF TripleLines, Ends
  <2>9. word = 3 => o \in Ends(s) /\ n \in Ends(s)
    BY <2>2, <2>4, <2>5, <2>7, <2>8
  <2>10. word = 2 => \E r \in DoubleLines : \E t \in {r, 14 - r} :
                       n = ScaleCoordinate(r, s) /\ o = ScaleCoordinate(t, s)
    BY <2>2, <2>4, <2>6, <2>7
  <2>11. letter # 1 => \E x \in 0..14 : o = ScaleCoordinate(x, s)
    BY <2>2, <2>3, <2>4
  <2>12. word \in {1, 2, 3} /\ letter \in {1, 2, 3}
    BY <2>2, <2>7
  <2> QED
    BY <2>9, <2>10, <2>11, <2>12
<1>5. c \in DOMAIN premiums =>
        \/ c = Centre(s)
        \/ \E q \in DOMAIN InitialPremiums : c = Moved(q, s) /\ premiums[c] = InitialPremiums[q]
  BY GeneratedFromClassic
<1> HIDE DEF c, premiums, word, letter
<1> QED
  BY <1>2, <1>3, <1>4, <1>5

\* At most two classic lines come to lie on one, and from fifteen squares on
\* only one.
LEMMA TwoLines ==
  ASSUME NEW s \in Nat, s >= 8, NEW n
  PROVE  \E r1, r2 : /\ \A r \in 0..14 : ScaleCoordinate(r, s) = n => r \in {r1, r2}
                     /\ s >= 15 => r1 = r2
<1>1. ASSUME NEW a \in 0..14, NEW b \in 0..14, ScaleCoordinate(a, s) = n, ScaleCoordinate(b, s) = n
      PROVE  a - b \in {-1, 0, 1} /\ (s >= 15 => a = b)
  BY <1>1, ScaleSpreads
<1>2. CASE \A r \in 0..14 : ScaleCoordinate(r, s) # n
  BY <1>2
<1>3. ASSUME NEW r1 \in 0..14, ScaleCoordinate(r1, s) = n,
             \A r \in 0..14 : ScaleCoordinate(r, s) = n => r = r1
      PROVE  \E x1, x2 : /\ \A r \in 0..14 : ScaleCoordinate(r, s) = n => r \in {x1, x2}
                         /\ s >= 15 => x1 = x2
  BY <1>3
<1>4. ASSUME NEW r1 \in 0..14, NEW r2 \in 0..14, r1 # r2,
             ScaleCoordinate(r1, s) = n, ScaleCoordinate(r2, s) = n
      PROVE  \E x1, x2 : /\ \A r \in 0..14 : ScaleCoordinate(r, s) = n => r \in {x1, x2}
                         /\ s >= 15 => x1 = x2
  <2>1. ~(s >= 15) /\ r1 - r2 \in {-1, 0, 1}
    BY <1>1, <1>4
  <2>2. ASSUME NEW r \in 0..14, ScaleCoordinate(r, s) = n
        PROVE  r \in {r1, r2}
    <3>1. r - r1 \in {-1, 0, 1} /\ r - r2 \in {-1, 0, 1}
      BY <1>1, <1>4, <2>2
    <3> QED
      BY <1>4, <2>1, <3>1
  <2> QED
    BY <2>1, <2>2
<1> QED
  BY <1>2, <1>3, <1>4

\* Squares of a line are told apart by their place.
LEMMA AtIsOneToOne ==
  ASSUME NEW h \in BOOLEAN, NEW n, NEW o, NEW p, At(h, n, o) = At(h, n, p)
  PROVE  o = p
  BY DEF At

\* The images of a range of numbers are no more than the numbers.
LEMMA FewImages ==
  ASSUME NEW n \in Nat, NEW f, f = [i \in 1..n |-> f[i]]
  PROVE  LET values == {f[i] : i \in 1..n}
         IN  IsFiniteSet(values) /\ Cardinality(values) \in Nat /\ Cardinality(values) <= n
  BY AllDifferent

\* A line has no more squares than the board is wide.
LEMMA LineIsFinite ==
  ASSUME NEW s \in Nat, NEW h \in BOOLEAN, NEW n
  PROVE  LET line == {At(h, n, o) : o \in 0..(s - 1)}
         IN  IsFiniteSet(line) /\ Cardinality(line) \in Nat /\ Cardinality(line) <= s
<1> DEFINE line == {At(h, n, o) : o \in 0..(s - 1)}
           f == [i \in 1..s |-> At(h, n, i - 1)]
<1>1. f = [i \in 1..s |-> f[i]]
  OBVIOUS
<1>2. line = {f[i] : i \in 1..s}
  <2>1. ASSUME NEW o \in 0..(s - 1)
        PROVE  At(h, n, o) \in {f[i] : i \in 1..s}
    <3>1. o + 1 \in 1..s /\ (o + 1) - 1 = o
      OBVIOUS
    <3>2. f[o + 1] = At(h, n, o)
      BY <3>1
    <3> QED
      BY <3>1, <3>2
  <2>2. ASSUME NEW i \in 1..s
        PROVE  f[i] \in line
    <3>1. i - 1 \in 0..(s - 1)
      OBVIOUS
    <3> QED
      BY <3>1
  <2> QED
    BY <2>1, <2>2
<1> HIDE DEF f
<1> QED
  BY <1>1, <1>2, FewImages

\* The word multipliers of a line: the three triple words of a generated layout
\* are in three places, and few lines of the classic board come to lie on one.
LEMMA WordsOfLine ==
  ASSUME NEW profile, NEW s \in Nat \ {0}, profile.boardSize = s,
         profile.premiums = GeneratedPremiums(s),
         NEW h \in BOOLEAN, NEW n \in 0..(s - 1)
  PROVE  LET words == LineMultiplier(profile, LineSquares(profile, h, n))
         IN  /\ words \in Nat
             /\ s <= 7 => words <= 432
             /\ s >= 8 => words <= 128
             /\ s >= 15 => words <= 32
<1> DEFINE line == LineSquares(profile, h, n)
           f == [c \in line |-> Factor(profile, c, "Word")]
           product == FoldOf("Product", f)
           w(o) == Factor(profile, At(h, n, o), "Word")
           half == s \div 2
           X1 == At(h, n, 0)
           X2 == At(h, n, half)
           X3 == At(h, n, s - 1)
<1>1. line = {At(h, n, o) : o \in 0..(s - 1)}
  BY LineOf
<1>2. IsFiniteSet(line)
  BY <1>1, LineIsFinite
<1>3. LineMultiplier(profile, line) = product
  BY SumIs DEF LineMultiplier, ProductFunction
<1>4. ASSUME NEW o \in 0..(s - 1)
      PROVE  /\ w(o) \in {1, 2, 3}
             /\ w(o) = 3 => o \in Ends(s) /\ n \in Ends(s)
             /\ w(o) = 2 => \/ o = half /\ n = half
                            \/ \E r \in DoubleLines : \E t \in {r, 14 - r} :
                                 n = ScaleCoordinate(r, s) /\ o = ScaleCoordinate(t, s)
  BY FactorsOfLine
<1>5. f \in [line -> {1, 2, 3}] /\ \A o \in 0..(s - 1) : At(h, n, o) \in line /\ f[At(h, n, o)] = w(o)
  BY <1>1, <1>4
<1>6. half \in 0..(s - 1) /\ 0 \in 0..(s - 1) /\ s - 1 \in 0..(s - 1)
  OBVIOUS
<1>7. ASSUME NEW c \in line, c \notin {X1, X2, X3}
      PROVE  \E o \in 0..(s - 1) : c = At(h, n, o) /\ o \notin Ends(s) /\ f[c] = w(o)
  BY <1>1, <1>5, <1>7 DEF Ends
<1>8. \A o \in 0..(s - 1) : At(h, n, o) \in {X1, X2, X3} => o \in Ends(s)
  BY AtIsOneToOne DEF Ends
<1> HIDE DEF line, f, w, half, X1, X2, X3, product
<1> DEFINE E == {X1, X2, X3}
<1>9. ASSUME NEW m \in {2, 3}, AtMost(f, line, E, m)
      PROVE  /\ product \in Nat
             /\ OnlyIn(f, line, E) => product <= Cube(m)
             /\ \A y1, y2 : OnlyIn(f, line \ E, {y1, y2}) => product <= Cube(m) * 4
             /\ \A y1, y2, y3, y4 :
                  OnlyIn(f, line \ E, {y1, y2, y3, y4}) => product <= Cube(m) * 16
  <2>1. f \in [line -> {1, 2, 3}]
    BY <1>5
  <2>2. Three(E)
    BY DEF Three
  <2>3. product = FoldOf("Product", f)
    BY DEF product
  <2> HIDE DEF E
  <2> QED
    BY <1>2, <1>9, <2>1, <2>2, <2>3, FewFactors
<1>10. AtMost(f, line, E, 3)
  <2>1. \A x \in line : f[x] \in {1, 2, 3}
    BY <1>5
  <2>2. \A x \in line : x \notin {X1, X2, X3} => f[x] # 3
    BY <1>4, <1>7
  <2> QED
    BY <2>1, <2>2 DEF AtMost
<1>11. product \in Nat
  BY <1>9, <1>10
<1>12. ASSUME s <= 7
       PROVE  product <= 432
  <2> DEFINE last == IF s = 7 THEN 5 ELSE 3
             y(i) == At(h, n, i)
  <2>1. ASSUME NEW o \in 0..(s - 1), o \notin Ends(s)
        PROVE  o \in {1, 2, 4, last}
    <3>1. s \in {1, 2, 3, 4, 5, 6, 7}
      BY <1>12
    <3> QED
      BY <2>1, <3>1 DEF Ends
  <2> HIDE DEF last
  <2>2. OnlyIn(f, line \ E, {y(1), y(2), y(4), y(last)})
    BY <1>7, <2>1 DEF OnlyIn
  <2>3. product <= Cube(3) * 16
    BY <1>9, <1>10, <2>2
  <2> QED
    BY <1>11, <2>3 DEF Cube
<1>13. ASSUME s >= 8
       PROVE  product <= 128 /\ (s >= 15 => product <= 32)
  <2>1. PICK r1, r2 : /\ \A r \in 0..14 : ScaleCoordinate(r, s) = n => r \in {r1, r2}
                      /\ s >= 15 => r1 = r2
    <3>1. s \in Nat
      OBVIOUS
    <3> QED
      BY <1>13, <3>1, TwoLines
  <2> DEFINE y(r) == At(h, n, ScaleCoordinate(14 - r, s))
             z == At(h, n, n)
  <2>2. ASSUME NEW c \in line \ E, f[c] # 1
        PROVE  \E o \in 0..(s - 1) : \E r \in DoubleLines : \E t \in {r, 14 - r} :
                 /\ c = At(h, n, o) /\ o \notin Ends(s)
                 /\ n = ScaleCoordinate(r, s) /\ o = ScaleCoordinate(t, s) /\ r \in {r1, r2}
    <3>1. PICK o \in 0..(s - 1) : c = At(h, n, o) /\ o \notin Ends(s) /\ f[c] = w(o)
      BY <1>7
    <3>2. w(o) = 2 /\ o # half
      BY <1>4, <2>2, <3>1 DEF Ends, half
    <3>3. PICK r \in DoubleLines : \E t \in {r, 14 - r} :
                 n = ScaleCoordinate(r, s) /\ o = ScaleCoordinate(t, s)
      BY <1>4, <3>2
    <3>4. r \in 0..14
      BY DEF DoubleLines
    <3>5. r \in {r1, r2}
      BY <2>1, <3>3, <3>4
    <3> QED
      BY <3>1, <3>3, <3>5
  <2>3. CASE n \in Ends(s)
    <3>1. ASSUME NEW c \in line \ E, f[c] # 1
          PROVE  c \in {y(r1), y(r2)} /\ ~(s >= 15)
      <4>1. PICK o \in 0..(s - 1), r \in DoubleLines : \E t \in {r, 14 - r} :
                 /\ c = At(h, n, o) /\ o \notin Ends(s)
                 /\ n = ScaleCoordinate(r, s) /\ o = ScaleCoordinate(t, s) /\ r \in {r1, r2}
        BY <2>2, <3>1
      <4>other. PICK t \in {r, 14 - r} : o = ScaleCoordinate(t, s)
        BY <4>1
      <4>2. t = 14 - r
        BY <2>3, <4>1, <4>other
      <4>3. c \in {y(r1), y(r2)}
        BY <4>1, <4>2, <4>other
      <4>4. s >= 15 => r \in TripleLines
        <5>1. /\ ScaleCoordinate(0, s) = 0 /\ ScaleCoordinate(7, s) = half
              /\ ScaleCoordinate(14, s) = s - 1
          <6>1. 0 \in 0..14
            OBVIOUS
          <6> QED
            BY <6>1, ScaleRange DEF half
        <5>2. \E e \in TripleLines : ScaleCoordinate(e, s) = n
          BY <2>3, <5>1 DEF Ends, TripleLines, half
        <5>3. TripleLines \subseteq 0..14 /\ DoubleLines \subseteq 0..14
          BY DEF TripleLines, DoubleLines
        <5> QED
          BY <1>13, <4>1, <5>2, <5>3, ScaleSpreads
      <4>5. s >= 15 => r = 7
        BY <4>4 DEF TripleLines, DoubleLines
      <4>6. r = 7 => o = half
        <5>1. ScaleCoordinate(7, s) = half
          <6>1. 0 \in 0..14
            OBVIOUS
          <6> QED
            BY <6>1, ScaleRange DEF half
        <5> QED
          BY <4>1, <4>2, <4>other, <5>1
      <4>7. o # half
        BY <4>1 DEF Ends, half
      <4> QED
        BY <4>3, <4>5, <4>6, <4>7
    <3> HIDE DEF y
    <3>2. product <= Cube(3) * 4
      <4>1. OnlyIn(f, line \ E, {y(r1), y(r2)})
        BY <3>1 DEF OnlyIn
      <4> QED
        BY <1>9, <1>10, <4>1
    <3>3. s >= 15 => product <= Cube(3)
      <4>1. s >= 15 => OnlyIn(f, line, E)
        BY <3>1 DEF OnlyIn
      <4> QED
        BY <1>9, <1>10, <4>1
    <3> QED
      BY <1>11, <3>2, <3>3 DEF Cube
  <2>4. CASE n \notin Ends(s)
    <3>1. AtMost(f, line, E, 2)
      <4>1. ASSUME NEW x \in line
            PROVE  f[x] <= 2
        <5>1. PICK o \in 0..(s - 1) : x = At(h, n, o)
          BY <1>1 DEF line
        <5>2. w(o) \in {1, 2}
          BY <1>4, <2>4
        <5> QED
          BY <1>5, <5>1, <5>2
      <4> QED
        BY <4>1 DEF AtMost
    <3>2. ASSUME NEW c \in line \ E, f[c] # 1
          PROVE  c \in {z, y(r1), y(r2)}
      <4>1. PICK o \in 0..(s - 1), r \in DoubleLines : \E t \in {r, 14 - r} :
                 /\ c = At(h, n, o) /\ o \notin Ends(s)
                 /\ n = ScaleCoordinate(r, s) /\ o = ScaleCoordinate(t, s) /\ r \in {r1, r2}
        BY <2>2, <3>2
      <4>other. PICK t \in {r, 14 - r} : o = ScaleCoordinate(t, s)
        BY <4>1
      <4>2. CASE t = r
        BY <4>1, <4>2, <4>other
      <4>3. CASE t = 14 - r
        BY <4>1, <4>3, <4>other
      <4> QED
        BY <4>2, <4>3
    <3> HIDE DEF y, z
    <3>3. product <= Cube(2) * 16
      <4>1. OnlyIn(f, line \ E, {z, y(r1), y(r2), z})
        BY <3>2 DEF OnlyIn
      <4> QED
        BY <1>9, <3>1, <4>1
    <3>4. ASSUME s >= 15
          PROVE  product <= Cube(2) * 4
      <4>1. OnlyIn(f, line \ E, {z, y(r1)})
        BY <2>1, <3>2, <3>4 DEF OnlyIn
      <4> QED
        BY <1>9, <3>1, <4>1
    <3> QED
      BY <1>11, <3>3, <3>4 DEF Cube
  <2> QED
    BY <2>3, <2>4
<1>14. /\ product \in Nat /\ (s <= 7 => product <= 432)
       /\ (s >= 8 => product <= 128) /\ (s >= 15 => product <= 32)
  BY <1>11, <1>12, <1>13
<1> QED
  BY <1>3, <1>14 DEF line

\* The largest number of a set is one of them.
LEMMA MaxIsMember ==
  ASSUME NEW S \in SUBSET Nat, S # {}, NEW b \in Nat, \A x \in S : x <= b
  PROVE  Max(S) \in S
<1> DEFINE Above == {u \in Nat : \A x \in S : x <= u}
<1>1. PICK m \in Above : \A u \in Above : m <= u
  <2>1. Above \in SUBSET Nat /\ b \in Above
    OBVIOUS
  <2> HIDE DEF Above
  <2> QED
    BY <2>1, LeastMember
<1>2. m \in S
  <2>1. SUFFICES ASSUME m \notin S
                 PROVE  FALSE
    OBVIOUS
  <2>2. m \in Nat /\ \A x \in S : x \in Nat /\ x <= m /\ x # m
    BY <2>1
  <2> DEFINE u == m - 1
  <2>3. u \in Nat /\ \A x \in S : x <= u
    <3>1. PICK x \in S : x \in Nat /\ x <= m /\ x # m
      BY <2>2
    <3> QED
      BY <2>2, <3>1
  <2>4. ~(m <= u)
    BY <2>2
  <2> HIDE DEF u
  <2>5. u \in Above
    BY <2>3
  <2> QED
    BY <1>1, <2>4, <2>5
<1>3. \A x \in S : m >= x
  BY <1>1
<1> QED
  BY <1>2, <1>3 DEF Max

\* The letters of a line: each counts at most three times, and no more than
\* fifteen of them more than once.
LEMMA LettersOfLine ==
  ASSUME NEW profile, NEW s \in Nat \ {0}, profile.boardSize = s,
         profile.premiums = GeneratedPremiums(s), DearestTile(profile) \in 0..10,
         NEW h \in BOOLEAN, NEW n \in 0..(s - 1)
  PROVE  LET letters == LineLetters(profile, LineSquares(profile, h, n))
         IN  letters \in Nat /\ letters <= 30 * s /\ letters <= 10 * s + 300
<1> DEFINE line == LineSquares(profile, h, n)
           d == DearestTile(profile)
           g(c) == Factor(profile, c, "Letter")
           f == [c \in line |-> d * g(c)]
           once == [c \in line |-> d]
           more == [c \in line |-> d * (g(c) - 1)]
           letters == FoldOf("Sum", f)
           F == {c \in line : g(c) # 1}
           places == [i \in 1..15 |-> At(h, n, ScaleCoordinate(i - 1, s))]
<1>1. line = {At(h, n, o) : o \in 0..(s - 1)}
  BY LineOf
<1>2. IsFiniteSet(line) /\ Cardinality(line) \in Nat /\ Cardinality(line) <= s
  BY <1>1, LineIsFinite
<1>3. LineLetters(profile, line) = letters
  BY SumIs DEF LineLetters
<1>4. ASSUME NEW c \in line
      PROVE  /\ g(c) \in {1, 2, 3}
             /\ g(c) # 1 => \E a \in 0..14 : c = At(h, n, ScaleCoordinate(a, s))
  <2>1. PICK o \in 0..(s - 1) : c = At(h, n, o)
    BY <1>1
  <2> QED
    BY <2>1, FactorsOfLine
<1> HIDE DEF line, g
<1>5. /\ f \in [line -> Nat] /\ once \in [line -> Nat] /\ more \in [line -> Nat]
      /\ \A c \in line : /\ f[c] <= 30 /\ once[c] <= 10 /\ more[c] <= 20
                         /\ f[c] = once[c] + more[c]
                         /\ c \notin F => more[c] = 0
  <2>1. d \in 0..10
    OBVIOUS
  <2> HIDE DEF d
  <2>2. ASSUME NEW c \in line
        PROVE  /\ d * g(c) \in Nat /\ d * g(c) <= 30
               /\ d * (g(c) - 1) \in Nat /\ d * (g(c) - 1) <= 20
               /\ d * g(c) = d + d * (g(c) - 1)
               /\ g(c) = 1 => d * (g(c) - 1) = 0
    <3>1. CASE g(c) = 1
      BY <2>1, <3>1
    <3>2. CASE g(c) = 2
      BY <2>1, <3>2
    <3>3. CASE g(c) = 3
      BY <2>1, <3>3
    <3> QED
      BY <1>4, <3>1, <3>2, <3>3
  <2> QED
    BY <2>1, <2>2
<1>6. F \in SUBSET line /\ F \subseteq {places[i] : i \in 1..15}
  <2>1. ASSUME NEW c \in F
        PROVE  c \in {places[i] : i \in 1..15}
    <3>1. PICK a \in 0..14 : c = At(h, n, ScaleCoordinate(a, s))
      BY <1>4
    <3>2. a + 1 \in 1..15 /\ (a + 1) - 1 = a
      OBVIOUS
    <3>3. places[a + 1] = c
      BY <3>1, <3>2
    <3> QED
      BY <3>2, <3>3
  <2> QED
    BY <2>1
<1>7. places = [i \in 1..15 |-> places[i]]
  OBVIOUS
<1> HIDE DEF f, once, more, F, places
<1>8. letters \in Nat /\ letters <= 30 * Cardinality(line)
  BY <1>2, <1>5, SumIsAtMost
<1>9. letters = FoldOf("Sum", once) + FoldOf("Sum", more)
  BY <1>2, <1>5, SumOfSums
<1>10. FoldOf("Sum", once) \in Nat /\ FoldOf("Sum", once) <= 10 * Cardinality(line)
  BY <1>2, <1>5, SumIsAtMost
<1>11. FoldOf("Sum", more) \in Nat /\ FoldOf("Sum", more) <= 300
  <2>1. FoldOf("Sum", more) = FoldOf("Sum", Part(more, F))
    <3>1. \A c \in line \ F : more[c] = Unit("Sum")
      BY <1>5 DEF Unit
    <3> QED
      BY <1>2, <1>5, <1>6, <3>1, FoldOfSupport DEF Folds
  <2>2. IsFiniteSet(F) /\ Cardinality(F) \in Nat /\ Cardinality(F) <= 15
    <3> DEFINE images == {places[i] : i \in 1..15}
    <3>1. IsFiniteSet(images) /\ Cardinality(images) \in Nat /\ Cardinality(images) <= 15
      <4> DEFINE m == 15
      <4>1. m \in Nat /\ places = [i \in 1..m |-> places[i]] /\ images = {places[i] : i \in 1..m}
        BY <1>7
      <4> HIDE DEF m, images
      <4>2. IsFiniteSet(images) /\ Cardinality(images) \in Nat /\ Cardinality(images) <= m
        BY <4>1, FewImages
      <4> QED
        BY <4>2 DEF m
    <3> HIDE DEF images
    <3>2. F \in SUBSET images
      BY <1>6 DEF images
    <3>3. IsFiniteSet(F) /\ Cardinality(F) <= Cardinality(images)
      BY <3>1, <3>2, FS_Subset
    <3>4. Cardinality(F) \in Nat
      BY <3>3, FS_CardinalityType
    <3> QED
      BY <3>1, <3>3, <3>4
  <2>3. Part(more, F) \in [F -> Nat] /\ \A c \in F : Part(more, F)[c] <= 20
    BY <1>5, <1>6 DEF Part
  <2>4. /\ FoldOf("Sum", Part(more, F)) \in Nat
        /\ FoldOf("Sum", Part(more, F)) <= 20 * Cardinality(F)
    BY <2>2, <2>3, SumIsAtMost
  <2> QED
    BY <2>1, <2>2, <2>4
<1> HIDE DEF letters
<1>12. letters \in Nat /\ letters <= 30 * s /\ letters <= 10 * s + 300
  BY <1>2, <1>8, <1>9, <1>10, <1>11
<1> QED
  BY <1>3, <1>12 DEF line

\* The dearest tile of a generated profile.
Scaled(k) == {[t EXCEPT !.quantity = @ * k] : t \in InitialTiles}

LEMMA TilesAre ==
  ASSUME NEW t \in InitialTiles
  PROVE  /\ t = [faces |-> t.faces, quantity |-> t.quantity, points |-> t.points]
         /\ t.faces \in 1..5 /\ t.quantity \in 1..12 /\ t.points \in 0..10
  BY DEF InitialTiles

LEMMA DearestIs ==
  ASSUME NEW profile, NEW k \in Nat, profile.tiles = Scaled(k)
  PROVE  DearestTile(profile) \in 0..10
<1> DEFINE S == {t.points : t \in profile.tiles}
<1>1. S \in SUBSET (0..10)
  BY TilesAre DEF Scaled
<1>2. S # {}
  <2>1. \E t : t \in InitialTiles
    BY DEF InitialTiles
  <2>2. \E t : t \in profile.tiles
    <3>1. PICK u : u \in InitialTiles
      BY <2>1
    <3>2. [u EXCEPT !.quantity = @ * k] \in Scaled(k)
      BY <3>1, Zenon DEF Scaled
    <3> QED
      BY <3>2
  <2>3. PICK t : t \in profile.tiles
    BY <2>2
  <2>4. t.points \in S
    BY <2>3, Zenon
  <2> QED
    BY <2>4
<1> HIDE DEF S
<1>3. S \in SUBSET Nat /\ \A x \in S : x <= 10
  BY <1>1
<1>4. Max(S) \in S
  BY <1>2, <1>3, MaxIsMember
<1> QED
  BY <1>1, <1>4 DEF DearestTile, S

\* The letters of a line times its words.
LEMMA LineArithmetic ==
  ASSUME NEW s \in Nat, NEW l \in Nat, NEW w \in Nat, s <= 255,
         l <= 30 * s, l <= 10 * s + 300,
         s <= 7 => w <= 432, s >= 8 => w <= 128, s >= 15 => w <= 32
  PROVE  l * w <= 91200
<1> DEFINE bound(x, y) == x * y
<1>1. ASSUME NEW x \in Nat, NEW y \in Nat, l <= x, w <= y
      PROVE  l * w <= bound(x, y)
  <2>1. l * w <= x * w
    BY <1>1
  <2>2. x * w <= x * y
    BY <1>1
  <2>3. l * w \in Nat /\ x * w \in Nat /\ x * y \in Nat
    OBVIOUS
  <2> QED
    BY <2>1, <2>2, <2>3
<1>2. bound(210, 432) <= 91200 /\ bound(420, 128) <= 91200 /\ bound(2850, 32) <= 91200
  BY SMT
<1>3. bound(210, 432) \in Int /\ bound(420, 128) \in Int /\ bound(2850, 32) \in Int /\ l * w \in Int
  BY SMT
<1> DEFINE score == l * w
<1> HIDE DEF bound, score
<1>4. CASE s <= 7
  <2>1. l <= 210 /\ w <= 432
    BY <1>4, SMT
  <2>2. score <= bound(210, 432)
    BY <1>1, <2>1, SMT DEF score
  <2> QED
    BY <1>2, <1>3, <2>2, SMT DEF score
<1>5. CASE s >= 8 /\ s <= 14
  <2>1. l <= 420 /\ w <= 128
    BY <1>5, SMT
  <2>2. score <= bound(420, 128)
    BY <1>1, <2>1, SMT DEF score
  <2> QED
    BY <1>2, <1>3, <2>2, SMT DEF score
<1>6. CASE s >= 15
  <2>1. l <= 2850 /\ w <= 32
    BY <1>6, SMT
  <2>2. score <= bound(2850, 32)
    BY <1>1, <2>1, SMT DEF score
  <2> QED
    BY <1>2, <1>3, <2>2, SMT DEF score
<1>7. s <= 7 \/ (s >= 8 /\ s <= 14) \/ s >= 15
  BY SMT
<1> QED
  BY <1>4, <1>5, <1>6, <1>7

\* No line of a generated profile scores more.
LineTop == 91200

LEMMA LineScoreIs ==
  ASSUME NEW profile, NEW s \in 1..255, profile.boardSize = s,
         profile.premiums = GeneratedPremiums(s), DearestTile(profile) \in 0..10,
         NEW h \in BOOLEAN, NEW n \in 0..(s - 1)
  PROVE  /\ LineScore(profile, LineSquares(profile, h, n)) \in Nat
         /\ LineScore(profile, LineSquares(profile, h, n)) <= LineTop
<1> DEFINE letters == LineLetters(profile, LineSquares(profile, h, n))
           words == LineMultiplier(profile, LineSquares(profile, h, n))
<1>1. s \in Nat \ {0}
  OBVIOUS
<1>2. letters \in Nat /\ letters <= 30 * s /\ letters <= 10 * s + 300
  BY <1>1, LettersOfLine
<1>3. /\ words \in Nat /\ (s <= 7 => words <= 432)
      /\ (s >= 8 => words <= 128) /\ (s >= 15 => words <= 32)
  BY <1>1, WordsOfLine
<1> HIDE DEF letters, words
<1>4. letters * words <= 91200
  BY <1>1, <1>2, <1>3, LineArithmetic, SMT
<1>5. letters * words \in Nat
  BY <1>2, <1>3
<1> DEFINE score == letters * words
<1>6. LineScore(profile, LineSquares(profile, h, n)) = score
  BY DEF LineScore, letters, words
<1>7. score \in Nat /\ score <= 91200
  BY <1>4, <1>5
<1> HIDE DEF score
<1> QED
  BY <1>6, <1>7, SMT DEF LineTop

-----------------------------------------------------------------------------
(* Rule profiles: the tiles *)

\* One more term of a sum.
LEMMA OneMoreTerm ==
  ASSUME NEW S, IsFiniteSet(S), NEW f \in [S -> Nat], NEW T \in SUBSET S,
         NEW x \in S, x \notin T
  PROVE  /\ FoldOf("Sum", Part(f, T)) \in Nat
         /\ FoldOf("Sum", Part(f, T \cup {x})) = f[x] + FoldOf("Sum", Part(f, T))
<1> DEFINE U == T \cup {x}
<1>1. U \in SUBSET S /\ x \in U /\ U \ {x} = T
  OBVIOUS
<1> HIDE DEF U
<1>2. FoldOf("Sum", Part(f, U)) = Combine("Sum", f[x], FoldOf("Sum", Part(f, U \ {x})))
  BY <1>1, FoldPart DEF Folds
<1>3. FoldOf("Sum", Part(f, T)) \in Nat
  BY FoldPart DEF Folds
<1> QED
  BY <1>1, <1>2, <1>3 DEF U, Combine

\* A generated profile has a hundred tiles to a set.
LEMMA TilesCounted ==
  ASSUME NEW k \in Nat \ {0}
  PROVE  TileCount(Scaled(k)) = 100 * k
<1> DEFINE R(a, b, c) == [faces |-> a, quantity |-> b * k, points |-> c]
           t1 == R(1, 12, 1)
           t2 == R(2, 9, 1)
           t3 == R(1, 8, 1)
           t4 == R(3, 6, 1)
           t5 == R(3, 4, 1)
           t6 == R(1, 4, 2)
           t7 == R(1, 3, 2)
           t8 == R(4, 2, 3)
           t9 == R(5, 2, 4)
           t10 == R(1, 1, 5)
           t11 == R(2, 1, 8)
           t12 == R(2, 1, 10)
           t13 == R(1, 2, 0)
           S == Scaled(k)
           f == [t \in S |-> t.faces * t.quantity]
           Sum(T) == FoldOf("Sum", Part(f, T))
           T0 == {}
           T1 == T0 \cup {t1}
           T2 == T1 \cup {t2}
           T3 == T2 \cup {t3}
           T4 == T3 \cup {t4}
           T5 == T4 \cup {t5}
           T6 == T5 \cup {t6}
           T7 == T6 \cup {t7}
           T8 == T7 \cup {t8}
           T9 == T8 \cup {t9}
           T10 == T9 \cup {t10}
           T11 == T10 \cup {t11}
           T12 == T11 \cup {t12}
           T13 == T12 \cup {t13}
<1>1. S = T13
  <2>1. ASSUME NEW x
        PROVE  x \in S <=> x \in {t1, t2, t3, t4, t5, t6, t7, t8, t9, t10, t11, t12, t13}
    BY DEF Scaled, InitialTiles
  <2> QED
    BY <2>1
<1>2. /\ t2 \notin {t1}
      /\ t3 \notin {t1, t2}
      /\ t4 \notin {t1, t2, t3}
      /\ t5 \notin {t1, t2, t3, t4}
      /\ t6 \notin {t1, t2, t3, t4, t5}
      /\ t7 \notin {t1, t2, t3, t4, t5, t6}
      /\ t8 \notin {t1, t2, t3, t4, t5, t6, t7}
      /\ t9 \notin {t1, t2, t3, t4, t5, t6, t7, t8}
      /\ t10 \notin {t1, t2, t3, t4, t5, t6, t7, t8, t9}
      /\ t11 \notin {t1, t2, t3, t4, t5, t6, t7, t8, t9, t10}
      /\ t12 \notin {t1, t2, t3, t4, t5, t6, t7, t8, t9, t10, t11}
      /\ t13 \notin {t1, t2, t3, t4, t5, t6, t7, t8, t9, t10, t11, t12}
  OBVIOUS
<1>3. /\ t1.faces * t1.quantity = 12 * k
      /\ t2.faces * t2.quantity = 18 * k
      /\ t3.faces * t3.quantity = 8 * k
      /\ t4.faces * t4.quantity = 18 * k
      /\ t5.faces * t5.quantity = 12 * k
      /\ t6.faces * t6.quantity = 4 * k
      /\ t7.faces * t7.quantity = 3 * k
      /\ t8.faces * t8.quantity = 8 * k
      /\ t9.faces * t9.quantity = 10 * k
      /\ t10.faces * t10.quantity = 1 * k
      /\ t11.faces * t11.quantity = 2 * k
      /\ t12.faces * t12.quantity = 2 * k
      /\ t13.faces * t13.quantity = 2 * k
  OBVIOUS
<1>4. IsFiniteSet(S) /\ f \in [S -> Nat]
  <2>1. IsFiniteSet(T0) /\ \A T, x : IsFiniteSet(T) => IsFiniteSet(T \cup {x})
    BY FS_EmptySet, FS_AddElement
  <2> HIDE DEF R, t1, t2, t3, t4, t5, t6, t7, t8, t9, t10, t11, t12, t13
  <2>2. IsFiniteSet(T6)
    BY <2>1
  <2> HIDE DEF T6
  <2>3. IsFiniteSet(T13)
    BY <2>1, <2>2
  <2>4. f \in [S -> Nat]
    <3>1. ASSUME NEW t \in InitialTiles
          PROVE  [t EXCEPT !.quantity = @ * k].faces * [t EXCEPT !.quantity = @ * k].quantity \in Nat
      BY TilesAre
    <3> QED
      BY <3>1 DEF Scaled
  <2> QED
    BY <1>1, <2>3, <2>4
<1>5. \A t \in S : f[t] = t.faces * t.quantity
  OBVIOUS
<1> HIDE DEF S, f, R, t1, t2, t3, t4, t5, t6, t7, t8, t9, t10, t11, t12, t13
<1>6. ASSUME NEW T \in SUBSET S, NEW x \in S, x \notin T
      PROVE  Sum(T) \in Nat /\ Sum(T \cup {x}) = f[x] + Sum(T)
  BY <1>4, <1>6, OneMoreTerm
<1>7. Sum(T0) = 0 /\ Sum(S) = FoldOf("Sum", f)
  BY <1>4, FoldPart DEF Folds, Unit
<1> HIDE DEF Sum
<1>8. /\ T0 \subseteq S /\ t1 \in S /\ t1 \notin T0
      /\ T1 \subseteq S /\ t2 \in S /\ t2 \notin T1
      /\ T2 \subseteq S /\ t3 \in S /\ t3 \notin T2
      /\ T3 \subseteq S /\ t4 \in S /\ t4 \notin T3
      /\ T4 \subseteq S /\ t5 \in S /\ t5 \notin T4
      /\ T5 \subseteq S /\ t6 \in S /\ t6 \notin T5
      /\ T6 \subseteq S /\ t7 \in S /\ t7 \notin T6
      /\ T7 \subseteq S /\ t8 \in S /\ t8 \notin T7
      /\ T8 \subseteq S /\ t9 \in S /\ t9 \notin T8
      /\ T9 \subseteq S /\ t10 \in S /\ t10 \notin T9
      /\ T10 \subseteq S /\ t11 \in S /\ t11 \notin T10
      /\ T11 \subseteq S /\ t12 \in S /\ t12 \notin T11
      /\ T12 \subseteq S /\ t13 \in S /\ t13 \notin T12
  BY <1>1, <1>2
<1> HIDE DEF T0, T1, T2, T3, T4, T5, T6, T7, T8, T9, T10, T11, T12, T13
<1>9. Sum(T1) = 12 * k
  BY <1>3, <1>5, <1>6, <1>7, <1>8 DEF T1
<1>10. Sum(T2) = 30 * k
  BY <1>3, <1>5, <1>6, <1>9, <1>8 DEF T2
<1>11. Sum(T3) = 38 * k
  BY <1>3, <1>5, <1>6, <1>10, <1>8 DEF T3
<1>12. Sum(T4) = 56 * k
  BY <1>3, <1>5, <1>6, <1>11, <1>8 DEF T4
<1>13. Sum(T5) = 68 * k
  BY <1>3, <1>5, <1>6, <1>12, <1>8 DEF T5
<1>14. Sum(T6) = 72 * k
  BY <1>3, <1>5, <1>6, <1>13, <1>8 DEF T6
<1>15. Sum(T7) = 75 * k
  BY <1>3, <1>5, <1>6, <1>14, <1>8 DEF T7
<1>16. Sum(T8) = 83 * k
  BY <1>3, <1>5, <1>6, <1>15, <1>8 DEF T8
<1>17. Sum(T9) = 93 * k
  BY <1>3, <1>5, <1>6, <1>16, <1>8 DEF T9
<1>18. Sum(T10) = 94 * k
  BY <1>3, <1>5, <1>6, <1>17, <1>8 DEF T10
<1>19. Sum(T11) = 96 * k
  BY <1>3, <1>5, <1>6, <1>18, <1>8 DEF T11
<1>20. Sum(T12) = 98 * k
  BY <1>3, <1>5, <1>6, <1>19, <1>8 DEF T12
<1>21. Sum(T13) = 100 * k
  BY <1>3, <1>5, <1>6, <1>20, <1>8 DEF T13
<1> QED
  BY <1>1, <1>7, <1>21, SumIs DEF TileCount, f, S

-----------------------------------------------------------------------------
(* Rule profiles: settings a policy accepts *)

\* The profile of a size and a number of tile sets.
Profile(s, k) ==
  [InitialProfile EXCEPT !.boardSize = s, !.start = Centre(s),
                         !.premiums = GeneratedPremiums(s), !.tiles = Scaled(k)]

LEMMA ProfileIs ==
  ASSUME NEW s \in 1..255, NEW k \in Nat
  PROVE  /\ Profile(s, k).boardSize = s /\ Profile(s, k).start = Centre(s)
         /\ Profile(s, k).premiums = GeneratedPremiums(s) /\ Profile(s, k).tiles = Scaled(k)
         /\ Profile(s, k).rackSize = 7 /\ Profile(s, k).fullRackBonus = 50
         /\ Profile(s, k).minExchange = 7 /\ Profile(s, k).scorelessLimit = 6
  BY DEF Profile, InitialProfile

\* The best play in every line is no more than a tile's share of a score.
LEMMA BestPlayFits ==
  ASSUME NEW s \in 1..255, NEW k \in 1..21
  PROVE  BestPlay(Profile(s, k)) <= MaxScore \div (100 * k)
<1> DEFINE p == Profile(s, k)
           Lines == {LineScore(p, LineSquares(p, h, n)) : h \in BOOLEAN, n \in 0..(p.boardSize - 1)}
           best == Max(Lines)
<1>0. k \in Nat
  OBVIOUS
<1>1. /\ p.boardSize = s /\ p.premiums = GeneratedPremiums(s) /\ p.tiles = Scaled(k)
      /\ p.rackSize = 7 /\ p.fullRackBonus = 50
  BY <1>0, ProfileIs
<1>2. DearestTile(p) \in 0..10
  BY <1>0, <1>1, DearestIs
<1> HIDE DEF p
<1>line. ASSUME NEW h \in BOOLEAN, NEW n \in 0..(s - 1)
      PROVE  /\ LineScore(p, LineSquares(p, h, n)) \in Nat
             /\ LineScore(p, LineSquares(p, h, n)) <= LineTop
  BY <1>1, <1>2, LineScoreIs, Zenon
<1>3. ASSUME NEW x \in Lines
      PROVE  x \in Nat /\ x <= LineTop
  <2>1. PICK h \in BOOLEAN, n \in 0..(s - 1) : x = LineScore(p, LineSquares(p, h, n))
    BY <1>1
  <2>2. LineScore(p, LineSquares(p, h, n)) \in Nat /\ LineScore(p, LineSquares(p, h, n)) <= LineTop
    BY <1>line
  <2> QED
    BY <2>1, <2>2
<1>4. Lines # {}
  <2>1. TRUE \in BOOLEAN /\ 0 \in 0..(p.boardSize - 1)
    BY <1>1
  <2>2. LineScore(p, LineSquares(p, TRUE, 0)) \in Lines
    <3>1. ASSUME NEW h \in BOOLEAN, NEW n \in 0..(p.boardSize - 1)
          PROVE  LineScore(p, LineSquares(p, h, n)) \in Lines
      OBVIOUS
    <3> HIDE DEF Lines
    <3> QED
      BY <2>1, <3>1
  <2> HIDE DEF Lines
  <2> QED
    BY <2>2
<1>5. LineTop \in Nat
  BY SMT DEF LineTop
<1> HIDE DEF Lines
<1>6. best \in Nat /\ best <= LineTop
  <2>1. Lines \in SUBSET Nat /\ \A x \in Lines : x <= LineTop
    BY <1>3
  <2>2. best \in Lines
    BY <1>4, <1>5, <2>1, MaxIsMember
  <2> QED
    BY <2>1, <2>2
<1>7. BestPlay(p) = (1 + p.rackSize) * best + p.fullRackBonus
  BY DEF BestPlay, Lines
<1> HIDE DEF best
<1>8. BestPlay(p) \in Nat /\ BestPlay(p) <= 729650
  <2>1. BestPlay(p) = 8 * best + 50
    BY <1>1, <1>7
  <2> QED
    BY <1>6, <2>1, SMT DEF LineTop
<1>9. MaxScore \div (100 * k) >= 729650
  <2>1. \A m, t \in Nat : t > 0 /\ t <= 2100 /\ m >= 2147483647 => m \div t >= 729650
    <3>1. ASSUME NEW m \in Nat, NEW t \in Nat, t > 0, t <= 2100, m >= 2147483647
          PROVE  m \div t >= 729650
      <4>1. t * 729650 <= m
        BY <3>1, SMT
      <4> QED
        BY <3>1, <4>1, SMT
    <3> QED
      BY <3>1, SMT
  <2>2. 100 * k \in Nat /\ 100 * k > 0 /\ 100 * k <= 2100
    BY SMT
  <2> QED
    BY <2>1, <2>2, ScoreAssumption, SMT
<1>10. MaxScore \div (100 * k) \in Int
  BY ScoreAssumption, SMT
<1> QED
  BY <1>8, <1>9, <1>10, SMT DEF p

\* Every size and number of tile sets makes a valid profile.
LEMMA ProfileValidates ==
  ASSUME NEW s \in 1..255, NEW k \in 1..21
  PROVE  Validates(Profile(s, k))
<1> DEFINE p == Profile(s, k)
           g == GeneratedPremiums(s)
<1>0. k \in Nat
  OBVIOUS
<1>1. /\ p.boardSize = s /\ p.premiums = g /\ p.tiles = Scaled(k)
      /\ p.rackSize = 7 /\ p.fullRackBonus = 50 /\ p.start = Centre(s)
      /\ p.minExchange = 7 /\ p.scorelessLimit = 6
  BY <1>0, ProfileIs
<1>2. DearestTile(p) \in 0..10
  BY <1>0, <1>1, DearestIs
<1>3. s \in Nat \ {0}
  OBVIOUS
<1>4. OnBoard(p, Centre(s))
  BY <1>1 DEF OnBoard, Centre
<1>5. ASSUME NEW c \in DOMAIN g
      PROVE  OnBoard(p, c) /\ g[c].by >= 2
  <2>1. CASE c = Centre(s)
    BY <1>3, <1>4, <2>1, GeneratedFromClassic DEF Word
  <2>2. ASSUME NEW q \in DOMAIN InitialPremiums, c = Moved(q, s), g[c] = InitialPremiums[q]
        PROVE  OnBoard(p, c) /\ g[c].by >= 2
    <3>1. q[1] \in 0..14 /\ q[2] \in 0..14 /\ InitialPremiums[q].by \in {2, 3}
      BY Layout DEF ClassicPremium
    <3>2. ScaleCoordinate(q[1], s) \in 0..(s - 1) /\ ScaleCoordinate(q[2], s) \in 0..(s - 1)
      BY <1>3, <3>1, ScaleRange
    <3> QED
      BY <1>1, <2>2, <3>1, <3>2 DEF OnBoard, Moved
  <2> QED
    BY <1>3, <2>1, <2>2, GeneratedFromClassic
<1>6. p.tiles # {} /\ \A t \in p.tiles : t.quantity > 0
  <2>1. PICK u : u \in InitialTiles
    BY DEF InitialTiles
  <2>2. [u EXCEPT !.quantity = @ * k] \in Scaled(k)
    BY <2>1, Zenon DEF Scaled
  <2>3. ASSUME NEW t \in Scaled(k)
        PROVE  t.quantity > 0
    <3>1. PICK v \in InitialTiles : t = [v EXCEPT !.quantity = @ * k]
      BY DEF Scaled
    <3>2. v = [faces |-> v.faces, quantity |-> v.quantity, points |-> v.points]
          /\ v.quantity \in 1..12
      BY TilesAre
    <3>3. t.quantity = v.quantity * k
      BY <3>1, <3>2
    <3>4. \A x \in 1..12 : x * k > 0
      OBVIOUS
    <3> QED
      BY <3>2, <3>3, <3>4
  <2> QED
    BY <1>1, <2>2, <2>3
<1> HIDE DEF p, g
<1>7. ScoreBoundsHold(p)
  <2>1. ASSUME NEW h \in BOOLEAN, NEW n \in 0..(s - 1)
        PROVE  LineScore(p, LineSquares(p, h, n)) + 50 <= MaxScore
    <3>1. /\ LineScore(p, LineSquares(p, h, n)) \in Nat
          /\ LineScore(p, LineSquares(p, h, n)) <= LineTop
      BY <1>1, <1>2, LineScoreIs, Zenon DEF g
    <3> QED
      BY <3>1, ScoreAssumption, SMT DEF LineTop
  <2> QED
    BY <1>1, <2>1, SMT DEF ScoreBoundsHold
<1>8. p.boardSize > 0 /\ p.rackSize > 0 /\ p.minExchange >= p.rackSize /\ p.scorelessLimit > 0
  BY <1>1, <1>3
<1> QED
  BY <1>1, <1>4, <1>5, <1>6, <1>7, <1>8 DEF Validates, p

\* What a start answers.
LEMMA OutcomeIs ==
  ASSUME NEW r, r.players \in Nat, r.size \in 1..255, r.sets \in 1..255
  PROVE  \/ 12 * r.sets > U8 /\ Outcome(r) = NoProfile("TileQuantityOverflow")
         \/ /\ 100 * r.sets < 7 * r.players
            /\ Outcome(r) = NoProfile("InsufficientTiles")
         \/ r.sets \in 1..21 /\ Outcome(r) = [ok |-> TRUE, profile |-> Profile(r.size, r.sets)]
<1> DEFINE s == r.size
           k == r.sets
           overflow == \E t \in InitialTiles : t.quantity * k > U8
           p == Profile(s, k)
<1>1. s \in 1..255 /\ k \in 1..255 /\ s # 0 /\ k # 0
  OBVIOUS
<1>2. GeneratedProfile(s, k) =
        IF overflow THEN NoProfile("TileQuantityOverflow")
        ELSE IF Validates(p) THEN [ok |-> TRUE, profile |-> p] ELSE NoProfile("Invalid")
  BY <1>1 DEF GeneratedProfile, Profile, Centre, Scaled
<1> HIDE DEF p
<1>3. CASE 12 * k > U8
  <2>1. overflow
    <3>1. [faces |-> 1, quantity |-> 12, points |-> 1] \in InitialTiles
      BY DEF InitialTiles
    <3>2. [faces |-> 1, quantity |-> 12, points |-> 1].quantity = 12
      OBVIOUS
    <3> QED
      BY <1>3, <3>1, <3>2
  <2> HIDE DEF overflow
  <2>2. GeneratedProfile(s, k) = NoProfile("TileQuantityOverflow")
    BY <1>2, <2>1
  <2>3. Outcome(r) = NoProfile("TileQuantityOverflow")
    BY <2>2 DEF Outcome, NoProfile
  <2> QED
    BY <1>3, <2>3
<1>4. CASE ~(12 * k > U8)
  <2>1. k \in 1..21
    BY <1>1, <1>4 DEF U8
  <2>2. ~overflow
    <3>1. ASSUME NEW t \in InitialTiles
          PROVE  ~(t.quantity * k > U8)
      <4>1. t.quantity \in 1..12
        BY TilesAre
      <4>2. \A x \in 1..12 : x * k <= 12 * k
        BY <1>1
      <4>3. t.quantity * k <= 12 * k /\ t.quantity * k \in Int
        BY <1>1, <4>1, <4>2
      <4> QED
        BY <1>1, <1>4, <4>3 DEF U8
    <3> QED
      BY <3>1
  <2> HIDE DEF overflow
  <2>3. Validates(p)
    BY <1>1, <2>1, ProfileValidates DEF p
  <2>4. GeneratedProfile(s, k) = [ok |-> TRUE, profile |-> p]
    BY <1>2, <2>2, <2>3
  <2>5. p.rackSize = 7 /\ p.tiles = Scaled(k)
    <3>1. k \in Nat
      BY <1>1
    <3> QED
      BY <1>1, <3>1, ProfileIs DEF p
  <2>6. TileCount(p.tiles) = 100 * k
    BY <1>1, <2>5, TilesCounted
  <2>7. Outcome(r) = IF 100 * k < 7 * r.players THEN NoProfile("InsufficientTiles")
                     ELSE [ok |-> TRUE, profile |-> p]
    BY <2>4, <2>5, <2>6 DEF Outcome
  <2> QED
    BY <2>1, <2>7 DEF p
<1> QED
  BY <1>3, <1>4

\* The settings of a lobby are within the widest policy, and the last start
\* answered for them.
LobbyInv ==
  /\ settings.players \in Nat /\ settings.size \in 1..255 /\ settings.sets \in 1..255
  /\ started = NotStarted \/ started = Outcome(settings)

LEMMA InvIsPlayable == LobbyInv => AcceptedSettingsArePlayable
<1> SUFFICES ASSUME LobbyInv PROVE AcceptedSettingsArePlayable
  OBVIOUS
<1> DEFINE s == settings.size
           k == settings.sets
<1>1. s \in 1..255 /\ k \in 1..255 /\ settings.players \in Nat
  BY DEF LobbyInv
<1>2. CASE started = NotStarted
  BY <1>2 DEF AcceptedSettingsArePlayable, NotStarted
<1>3. CASE started = NoProfile("TileQuantityOverflow") /\ 12 * k > U8
  BY <1>3 DEF AcceptedSettingsArePlayable, NoProfile
<1>4. CASE started = NoProfile("InsufficientTiles") /\ 100 * k < 7 * settings.players
  BY <1>4 DEF AcceptedSettingsArePlayable, NoProfile
<1>5. CASE k \in 1..21 /\ started = [ok |-> TRUE, profile |-> Profile(s, k)]
  <2> DEFINE p == Profile(s, k)
  <2>1. /\ p.boardSize = s /\ p.premiums = GeneratedPremiums(s) /\ p.tiles = Scaled(k)
        /\ p.start = Centre(s)
    <3>1. k \in Nat
      BY <1>1
    <3> QED
      BY <1>1, <3>1, ProfileIs
  <2>2. TileCount(p.tiles) = 100 * k
    BY <1>1, <2>1, TilesCounted
  <2>3. OnBoard(p, p.start) /\ p.premiums[p.start] = Word(2)
    <3>1. OnBoard(p, p.start)
      BY <1>1, <2>1 DEF OnBoard, Centre
    <3>2. s \in Nat \ {0}
      BY <1>1
    <3> QED
      BY <2>1, <3>1, <3>2, GeneratedFromClassic
  <2>4. BestPlay(p) <= MaxScore \div TileCount(p.tiles)
    BY <1>1, <1>5, <2>2, BestPlayFits
  <2>5. started.ok /\ started.profile = p
    BY <1>5
  <2> HIDE DEF p
  <2> QED
    BY <2>2, <2>3, <2>4, <2>5 DEF AcceptedSettingsArePlayable
<1> QED
  BY <1>1, <1>2, <1>3, <1>4, <1>5, OutcomeIs DEF LobbyInv

\* update_lobby_settings lets through only settings a game can be played with:
\* for every policy of a deployment and every size and number of tile sets it
\* accepts, start_lobby makes a valid profile, or refuses for want of tiles or
\* because a quantity leaves u8, and no game under the profile leaves the range of
\* a score.
THEOREM SettingsArePlayable == ProfileSpec => []AcceptedSettingsArePlayable
<1>1. ProfileInit => LobbyInv
  BY DEF ProfileInit, LobbyInv
<1>2. LobbyInv /\ [ProfileNext]_profileVars => LobbyInv'
  <2> SUFFICES ASSUME LobbyInv, [ProfileNext]_profileVars
               PROVE  LobbyInv'
    OBVIOUS
  <2>1. ASSUME NEW s \in [players : PlayerCounts, size : BoardSizes, sets : TileSets], Configure(s)
        PROVE  LobbyInv'
    <3>1. s.players \in Nat /\ s.size \in 1..255 /\ s.sets \in 1..255
      BY <2>1, PolicyAssumption, SMT DEF Configure, Accepts
    <3> QED
      BY <2>1, <3>1 DEF Configure, LobbyInv
  <2>2. CASE StartGame
    BY <2>2 DEF StartGame, LobbyInv
  <2>3. CASE UNCHANGED profileVars
    BY <2>3 DEF profileVars, LobbyInv
  <2> QED
    BY <2>1, <2>2, <2>3 DEF ProfileNext
<1> QED
  BY <1>1, <1>2, InvIsPlayable, PTL DEF ProfileSpec
=============================================================================
