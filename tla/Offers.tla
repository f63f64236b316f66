------------------------------- MODULE Offers -------------------------------
(***************************************************************************)
(* The two ways to start a game for two without a lobby: direct challenges *)
(* (challenges.rs) and shareable invitations (invitations.rs).  Taking one *)
(* up reads the row, checks it, and then, in the same transaction, moves   *)
(* its status on with a conditional update and creates the game.  Requests *)
(* overlap; as in Lobby, of the database only atomic commit and the        *)
(* conditional update are assumed.                                         *)
(***************************************************************************)
EXTENDS Naturals, Sequences, FiniteSets, TLC

CONSTANTS
  Users,
  Challenges, Invitations,  \* ids of those that may ever be made
  Requests,                 \* requests that may be in flight at once
  Idle                      \* a slot without a request

ASSUME IdsAssumption == Challenges \cap Invitations = {}
ASSUME UsersAssumption == Idle \notin Users

VARIABLES
  challenges,   \* challenges[c]: its row, for those made
  invitations,  \* invitations[i]: its row, for those made
  expired,      \* invitations whose expires_at_ms has passed
  games,        \* games created, as [offer, players], players in seat order
  requests

vars == <<challenges, invitations, expired, games, requests>>

Nobody == Idle

\* The table with one row more.
With(rows, id, row) == [x \in DOMAIN rows \cup {id} |-> IF x = id THEN row ELSE rows[x]]

Init ==
  /\ challenges = <<>> /\ invitations = <<>>
  /\ expired = {} /\ games = <<>>
  /\ requests = [q \in Requests |-> Idle]

-----------------------------------------------------------------------------
Begin(q, request) ==
  /\ requests[q] = Idle
  /\ requests' = [requests EXCEPT ![q] = request]

Goes(q, op) == requests[q] # Idle /\ requests[q].op = op

End(q) == requests' = [requests EXCEPT ![q] = Idle]

RollBack(q) == requests[q] # Idle /\ End(q) /\ UNCHANGED <<challenges, invitations, expired, games>>

\* create_game_in_transaction: the one who made the offer has the first seat
\* and the first turn.
CreateGame(offer, first, second) ==
  games' = Append(games, [offer |-> offer, players |-> <<first, second>>])

-----------------------------------------------------------------------------
(* Challenges *)

\* create_challenge looks for a pending challenge of the pair ...
BeginChallenge(q, from, to) ==
  /\ from # to
  /\ \A c \in DOMAIN challenges :
       ~(challenges[c].from = from /\ challenges[c].to = to /\ challenges[c].status = "PENDING")
  /\ Begin(q, [op |-> "Challenge", from |-> from, to |-> to])
  /\ UNCHANGED <<challenges, invitations, expired, games>>

\* ... and inserts, not in a transaction with it.
InsertChallenge(q, c) ==
  /\ Goes(q, "Challenge") /\ c \notin DOMAIN challenges
  /\ challenges' = With(challenges, c,
       [from |-> requests[q].from, to |-> requests[q].to, status |-> "PENDING"])
  /\ End(q)
  /\ UNCHANGED <<invitations, expired, games>>

\* Faulty: the status the row has now is not looked at.
IsChallenge(c) == c \in DOMAIN challenges

IsPending(c) == c \in DOMAIN challenges /\ challenges[c].status = "PENDING"

\* decline_challenge and cancel_challenge: one conditional update.
Close(c, status) ==
  /\ IsPending(c) /\ status \in {"DECLINED", "CANCELLED"}
  /\ challenges' = [challenges EXCEPT ![c].status = status]
  /\ UNCHANGED <<invitations, expired, games, requests>>

\* accept_challenge
BeginAccept(q, c) ==
  /\ IsPending(c)
  /\ Begin(q, [op |-> "Accept", challenge |-> c, from |-> challenges[c].from,
               to |-> challenges[c].to])
  /\ UNCHANGED <<challenges, invitations, expired, games>>

\* Faulty: the number of rows the conditional update changed is not checked.
CommitAcceptUnchecked(q) ==
  /\ Goes(q, "Accept")
  /\ \E r \in {requests[q]} :
       /\ challenges' = [challenges EXCEPT ![r.challenge].status =
                           IF @ = "PENDING" THEN "ACCEPTED" ELSE @]
       /\ CreateGame(r.challenge, r.from, r.to)
  /\ End(q)
  /\ UNCHANGED <<invitations, expired>>

CommitAccept(q) ==
  /\ Goes(q, "Accept")
  /\ \E r \in {requests[q]} :
       /\ IsPending(r.challenge)
       /\ challenges' = [challenges EXCEPT ![r.challenge].status = "ACCEPTED"]
       /\ CreateGame(r.challenge, r.from, r.to)
  /\ End(q)
  /\ UNCHANGED <<invitations, expired>>

-----------------------------------------------------------------------------
(* Invitations *)

CreateInvitation(i, u) ==
  /\ i \notin DOMAIN invitations
  /\ invitations' = With(invitations, i, [creator |-> u, redeemer |-> Nobody, status |-> "ACTIVE"])
  /\ UNCHANGED <<challenges, expired, games, requests>>

Expire(i) ==
  /\ i \in DOMAIN invitations \ expired
  /\ expired' = expired \cup {i}
  /\ UNCHANGED <<challenges, invitations, games, requests>>

IsActive(i) == i \in DOMAIN invitations /\ invitations[i].status = "ACTIVE"

\* revoke_invitation, by the creator
Revoke(i) ==
  /\ IsActive(i)
  /\ invitations' = [invitations EXCEPT ![i].status = "REVOKED"]
  /\ UNCHANGED <<challenges, expired, games, requests>>

\* Faulty: the creator may follow the own link.
MayRedeemOwn(i, u) == IsActive(i) /\ i \notin expired

MayRedeem(i, u) == IsActive(i) /\ i \notin expired /\ invitations[i].creator # u

\* active_invitation_id, redeem_invitation_and_start_game_by_id
BeginRedeem(q, i, u) ==
  /\ MayRedeem(i, u)
  /\ Begin(q, [op |-> "Redeem", invitation |-> i, creator |-> invitations[i].creator,
               redeemer |-> u])
  /\ UNCHANGED <<challenges, invitations, expired, games>>

\* The expiry was compared with the time the request came.
CommitRedeem(q) ==
  /\ Goes(q, "Redeem")
  /\ \E r \in {requests[q]} :
       /\ IsActive(r.invitation)
       /\ invitations' = [invitations EXCEPT ![r.invitation].status = "REDEEMED",
                                             ![r.invitation].redeemer = r.redeemer]
       /\ CreateGame(r.invitation, r.creator, r.redeemer)
  /\ End(q)
  /\ UNCHANGED <<challenges, expired>>

Next ==
  \/ \E q \in Requests, from, to \in Users : BeginChallenge(q, from, to)
  \/ \E q \in Requests, c \in Challenges : InsertChallenge(q, c) \/ BeginAccept(q, c)
  \/ \E q \in Requests, i \in Invitations, u \in Users : BeginRedeem(q, i, u)
  \/ \E q \in Requests : CommitAccept(q) \/ CommitRedeem(q) \/ RollBack(q)
  \/ \E c \in Challenges, status \in {"DECLINED", "CANCELLED"} : Close(c, status)
  \/ \E i \in Invitations, u \in Users : CreateInvitation(i, u)
  \/ \E i \in Invitations : Expire(i) \/ Revoke(i)

Spec == Init /\ [][Next]_vars

-----------------------------------------------------------------------------
(* Properties *)

\* Types of the rows; nobody is challenged or invited by themselves.
TypeOK ==
  /\ DOMAIN challenges \subseteq Challenges /\ DOMAIN invitations \subseteq Invitations
  /\ \A c \in DOMAIN challenges :
       /\ challenges[c] \in [from : Users, to : Users,
                             status : {"PENDING", "ACCEPTED", "DECLINED", "CANCELLED"}]
       /\ challenges[c].from # challenges[c].to
  /\ \A i \in DOMAIN invitations :
       /\ invitations[i] \in [creator : Users, redeemer : Users \cup {Nobody},
                              status : {"ACTIVE", "REDEEMED", "REVOKED"}]
       /\ invitations[i].creator # invitations[i].redeemer
  /\ expired \subseteq DOMAIN invitations
  /\ games \in Seq([offer : Challenges \cup Invitations, players : Users \X Users])

TakenUp ==
  {[offer |-> c, players |-> <<challenges[c].from, challenges[c].to>>] :
     c \in {d \in DOMAIN challenges : challenges[d].status = "ACCEPTED"}}
  \cup
  {[offer |-> i, players |-> <<invitations[i].creator, invitations[i].redeemer>>] :
     i \in {j \in DOMAIN invitations : invitations[j].status = "REDEEMED"}}

\* "Creates its game exactly once": however requests overlap, each offer that
\* was taken up has one game, of the two it was between, and no other offer has
\* one.
GamesMatchOffers ==
  /\ TypeOK
  /\ {games[n] : n \in DOMAIN games} = TakenUp
  /\ Len(games) = Cardinality(TakenUp)

\* What became of an offer is final: an answer that crosses another one on the
\* way does not undo it.
OutcomeIsFinal ==
  [][/\ \A c \in DOMAIN challenges :
          challenges[c].status # "PENDING" => challenges'[c] = challenges[c]
     /\ \A i \in DOMAIN invitations :
          invitations[i].status # "ACTIVE" => invitations'[i] = invitations[i]]_vars
=============================================================================
