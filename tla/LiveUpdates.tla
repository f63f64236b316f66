----------------------------- MODULE LiveUpdates -----------------------------
(***************************************************************************)
(* Live updates of games and dashboards: GameSharedStateDispatcher of      *)
(* packages/app/src/shared_state_security.rs.  Its handlers run            *)
(* concurrently; a step of this module ends where the code awaits.  The    *)
(* registry of subscribers is behind a lock, so a publication is one step. *)
(*                                                                         *)
(* A subscriber's channel is an unbounded queue that keeps its order and   *)
(* the client keeps the event of the highest revision ("Revision-aware     *)
(* clients converge on the newest update"): what it shows once it has read *)
(* its queue is the newest event put there, and that is what is kept here. *)
(***************************************************************************)
EXTENDS Integers, FiniteSets, FiniteSetsExt

CONSTANTS
  Games,
  Users,          \* everyone plays every game
  Subscriptions,  \* subscriptions that may ever be made
  Owner,          \* Owner[s]: the user of a subscription
  Topic,          \* Topic[s]: the game it is for, or Dashboard
  Dashboard,
  Handlers,       \* commands and refreshes that may be in flight
  Idle,
  MaxRevision,    \* bound: no command is committed from this revision on
  MaxDashboard    \* bound: no refresh starts from this dashboard revision on

ASSUME TopicAssumption ==
  Dashboard \notin Games /\ Topic \in [Subscriptions -> Games \cup {Dashboard}]
ASSUME OwnerAssumption == Owner \in [Subscriptions -> Users]
ASSUME BoundAssumption == MaxRevision \in Nat /\ MaxDashboard \in Nat
ASSUME GamesAssumption == IsFiniteSet(Games)

VARIABLES
  revision,            \* committed revision of each game
  dashboard_revision,  \* the counter of the dispatcher
  subscribers,         \* the registry
  phase,               \* "New", "Registered", "Loaded", "Live" or "Gone"
  loaded,              \* the view a subscription has loaded
  shown,               \* the newest event sent to it
  handlers,            \* what each handler in flight holds
  unpublished          \* <<game, revision>> committed by a handler that failed before it published

vars == <<revision, dashboard_revision, subscribers, phase, loaded, shown, handlers, unpublished>>

\* The revision of each game that a page or a dashboard shows.
View == [Games -> Nat]

\* A command on its way from its commit to its publication, and a refresh.
InFlight ==
  [kind : {"Command"}, game : Games, revision : Nat, todo : SUBSET Users,
   dashboards : [Users -> View]]
  \cup [kind : {"Refresh"}, user : Users \cup {Idle}, view : View, todo : SUBSET Users]

ASSUME IdleAssumption == Idle \notin InFlight

Nothing == [revision |-> 0, view |-> [g \in Games |-> 0]]

Init ==
  /\ revision = [g \in Games |-> 1]
  /\ dashboard_revision = 0
  /\ subscribers = {}
  /\ phase = [s \in Subscriptions |-> "New"]
  /\ loaded = [s \in Subscriptions |-> Nothing.view]
  /\ shown = [s \in Subscriptions |-> Nothing]
  /\ handlers = [h \in Handlers |-> Idle]
  /\ unpublished = {}

-----------------------------------------------------------------------------
(* Sending *)

\* The client keeps the event of the highest revision, the later one of two
\* with the same.
Newest(old, event) == IF event.revision >= old.revision THEN event ELSE old

\* queue_event to those whose receiver is open; event[s] is made for each.
Sent(receivers, event) ==
  [s \in Subscriptions |->
     IF s \in receivers /\ phase[s] # "Gone" THEN Newest(shown[s], event[s]) ELSE shown[s]]

\* Faulty: retain keeps those it should drop, and the reverse.
RetainedInverted(receivers) == subscribers \ {s \in receivers : phase[s] # "Gone"}

\* A send to a closed receiver fails and retain drops the subscriber.
Retained(receivers) == subscribers \ {s \in receivers : phase[s] = "Gone"}

\* next_dashboard_revision: after the last one, and not below a game's.
NextDashboardRevision(view) == Max({dashboard_revision + 1} \cup {view[g] : g \in Games})

-----------------------------------------------------------------------------
(* Commands: ingest_outbound *)

\* Faulty: the revision announced is the one after the committed one.
CommitAnnouncesNext(h, g) ==
  /\ handlers[h] = Idle /\ revision[g] < MaxRevision
  /\ revision' = [revision EXCEPT ![g] = @ + 1]
  /\ handlers' = [handlers EXCEPT ![h] =
       [kind |-> "Command", game |-> g, revision |-> revision[g] + 2,
        todo |-> Users, dashboards |-> [u \in Users |-> Nothing.view]]]
  /\ UNCHANGED <<dashboard_revision, subscribers, phase, loaded, shown, unpublished>>

\* submit_game_command commits; the handler goes on with the state it returned.
Commit(h, g) ==
  /\ handlers[h] = Idle /\ revision[g] < MaxRevision
  /\ revision' = [revision EXCEPT ![g] = @ + 1]
  /\ handlers' = [handlers EXCEPT ![h] =
       [kind |-> "Command", game |-> g, revision |-> revision[g] + 1,
        todo |-> Users, dashboards |-> [u \in Users |-> Nothing.view]]]
  /\ UNCHANGED <<dashboard_revision, subscribers, phase, loaded, shown, unpublished>>

\* server_update reads the dashboard of one member after the other.
ReadDashboard(h, u) ==
  /\ handlers[h] # Idle /\ handlers[h].kind = "Command" /\ u \in handlers[h].todo
  /\ handlers' = [handlers EXCEPT ![h].todo = @ \ {u}, ![h].dashboards[u] = revision]
  /\ UNCHANGED <<revision, dashboard_revision, subscribers, phase, loaded, shown, unpublished>>

\* The events of publish: one revision for the game and for every dashboard.
PublishedEvent(r) ==
  [s \in Subscriptions |->
     IF Topic[s] = Dashboard
     THEN [revision |-> r.revision, view |-> r.dashboards[Owner[s]]]
     ELSE [revision |-> r.revision, view |-> [Nothing.view EXCEPT ![Topic[s]] = r.revision]]]

\* Faulty: a subscriber that still loads its view is passed over.
LiveReceiversOf(r) == {s \in subscribers : Topic[s] \in {r.game, Dashboard} /\ phase[s] = "Live"}

ReceiversOf(r) == {s \in subscribers : Topic[s] \in {r.game, Dashboard}}

Publish(h) ==
  /\ handlers[h] # Idle /\ handlers[h].kind = "Command" /\ handlers[h].todo = {}
  /\ LET receivers == ReceiversOf(handlers[h])
     IN  /\ shown' = Sent(receivers, PublishedEvent(handlers[h]))
         /\ subscribers' = Retained(receivers)
  /\ handlers' = [handlers EXCEPT ![h] = Idle]
  /\ UNCHANGED <<revision, dashboard_revision, phase, loaded, unpublished>>

-----------------------------------------------------------------------------
(* Refreshes: refresh_dashboard_subscribers_except *)

\* The users of the registered dashboards, but for the one excluded.
Refresh(h, excluded) ==
  /\ handlers[h] = Idle /\ dashboard_revision < MaxDashboard
  /\ handlers' = [handlers EXCEPT ![h] =
       [kind |-> "Refresh", user |-> Idle, view |-> Nothing.view,
        todo |-> {Owner[s] : s \in {t \in subscribers : Topic[t] = Dashboard}} \ excluded]]
  /\ UNCHANGED <<revision, dashboard_revision, subscribers, phase, loaded, shown, unpublished>>

\* dashboard_view of the next user
ReadForRefresh(h, u) ==
  /\ handlers[h] # Idle /\ handlers[h].kind = "Refresh"
  /\ handlers[h].user = Idle /\ u \in handlers[h].todo
  /\ handlers' = [handlers EXCEPT ![h].user = u, ![h].view = revision, ![h].todo = @ \ {u}]
  /\ UNCHANGED <<revision, dashboard_revision, subscribers, phase, loaded, shown, unpublished>>

\* The event of that user, with a revision of the dispatcher's counter.
SendRefresh(h) ==
  /\ handlers[h] # Idle /\ handlers[h].kind = "Refresh" /\ handlers[h].user # Idle
  /\ LET next      == NextDashboardRevision(handlers[h].view)
         receivers == {s \in subscribers : Topic[s] = Dashboard /\ Owner[s] = handlers[h].user}
     IN  /\ dashboard_revision' = next
         /\ shown' = Sent(receivers, [s \in Subscriptions |->
                            [revision |-> next, view |-> handlers[h].view]])
         /\ subscribers' = Retained(receivers)
  /\ handlers' = [handlers EXCEPT ![h].user = Idle]
  /\ UNCHANGED <<revision, phase, loaded, unpublished>>

EndRefresh(h) ==
  /\ handlers[h] # Idle /\ handlers[h].kind = "Refresh"
  /\ handlers[h].user = Idle /\ handlers[h].todo = {}
  /\ handlers' = [handlers EXCEPT ![h] = Idle]
  /\ UNCHANGED <<revision, dashboard_revision, subscribers, phase, loaded, shown, unpublished>>

\* A query after the commit fails, or the request is dropped: what was
\* committed is not published.
Fail(h) ==
  /\ handlers[h] # Idle
  /\ unpublished' = IF handlers[h].kind = "Command"
                    THEN unpublished \cup {<<handlers[h].game, handlers[h].revision>>}
                    ELSE unpublished
  /\ handlers' = [handlers EXCEPT ![h] = Idle]
  /\ UNCHANGED <<revision, dashboard_revision, subscribers, phase, loaded, shown>>

-----------------------------------------------------------------------------
(* Subscriptions: subscribe_channel *)

\* Register before loading ...
Register(s) ==
  /\ phase[s] = "New"
  /\ subscribers' = subscribers \cup {s}
  /\ phase' = [phase EXCEPT ![s] = "Registered"]
  /\ UNCHANGED <<revision, dashboard_revision, loaded, shown, handlers, unpublished>>

\* ... recover_game, or the dashboard view ...
Load(s) ==
  /\ phase[s] = "Registered"
  /\ loaded' = [loaded EXCEPT ![s] =
       IF Topic[s] = Dashboard THEN revision ELSE [@ EXCEPT ![Topic[s]] = revision[Topic[s]]]]
  /\ phase' = [phase EXCEPT ![s] = "Loaded"]
  /\ UNCHANGED <<revision, dashboard_revision, subscribers, shown, handlers, unpublished>>

\* ... and send it to this subscriber only.
SendInitial(s) ==
  /\ phase[s] = "Loaded"
  /\ phase' = [phase EXCEPT ![s] = "Live"]
  /\ LET next == IF Topic[s] = Dashboard THEN NextDashboardRevision(loaded[s])
                                         ELSE loaded[s][Topic[s]]
     IN  /\ shown' = [shown EXCEPT ![s] = Newest(@, [revision |-> next, view |-> loaded[s]])]
         /\ dashboard_revision' = IF Topic[s] = Dashboard THEN next ELSE dashboard_revision
  /\ loaded' = [loaded EXCEPT ![s] = Nothing.view]
  /\ UNCHANGED <<revision, subscribers, handlers, unpublished>>

\* The client goes away, or the subscription fails while it loads: the
\* receiver is dropped, the registry learns of it when it next sends.
Disconnect(s) ==
  /\ phase[s] \in {"Registered", "Loaded", "Live"}
  /\ phase' = [phase EXCEPT ![s] = "Gone"]
  /\ loaded' = [loaded EXCEPT ![s] = Nothing.view]
  /\ shown' = [shown EXCEPT ![s] = Nothing]
  /\ UNCHANGED <<revision, dashboard_revision, subscribers, handlers, unpublished>>

Next ==
  \/ \E h \in Handlers, g \in Games : Commit(h, g)
  \/ \E h \in Handlers, u \in Users : ReadDashboard(h, u) \/ ReadForRefresh(h, u)
  \/ \E h \in Handlers, excluded \in {{}} \cup {{u} : u \in Users} : Refresh(h, excluded)
  \/ \E h \in Handlers : Publish(h) \/ SendRefresh(h) \/ EndRefresh(h) \/ Fail(h)
  \/ \E s \in Subscriptions : Register(s) \/ Load(s) \/ SendInitial(s) \/ Disconnect(s)

\* A handler in flight goes on: its next read, or its publication.
Continue(h) ==
  \/ \E u \in Users : ReadDashboard(h, u) \/ ReadForRefresh(h, u)
  \/ Publish(h) \/ SendRefresh(h) \/ EndRefresh(h)

\* The runtime polls every task that can go on.
Fairness ==
  /\ \A h \in Handlers : WF_vars(Continue(h))
  /\ \A s \in Subscriptions : WF_vars(Load(s) \/ SendInitial(s))

Spec == Init /\ [][Next]_vars /\ Fairness

-----------------------------------------------------------------------------
(* Properties *)

\* Types of the dispatcher's state; no event shows or announces a revision
\* that is not committed.
TypeOK ==
  /\ revision \in [Games -> Nat \ {0}] /\ dashboard_revision \in Nat
  /\ subscribers \subseteq {s \in Subscriptions : phase[s] # "New"}
  /\ \A s \in Subscriptions, g \in Games :
       loaded[s][g] \in 0..revision[g] /\ shown[s].view[g] \in 0..revision[g]
  /\ \A h \in Handlers : handlers[h] \in {Idle} \cup InFlight
  /\ \A missed \in unpublished : missed[2] \in 1..revision[missed[1]]

\* No handler holds a committed revision of game g that it may yet publish.
Quiet(g) ==
  \A h \in Handlers :
    handlers[h] = Idle \/ handlers[h].kind # "Command" \/ handlers[h].game # g

\* "Register before loading so a command racing subscription is duplicated at
\* worst, never lost": once nothing is in flight, a live game page shows the
\* committed game, however subscriptions, publications and failures of older
\* commands overlapped, unless the publication of that very revision failed.
GamePagesConverge ==
  /\ TypeOK
  /\ \A s \in Subscriptions, g \in Games :
       (Topic[s] = g /\ phase[s] = "Live" /\ Quiet(g) /\ <<g, revision[g]>> \notin unpublished)
         => shown[s].view[g] = revision[g]

\* A game page that stays connected catches up: it shows the committed
\* revision again and again, unless its publication failed.
GamePagesCatchUp ==
  \A s \in Subscriptions :
    Topic[s] # Dashboard =>
      []<>(\/ phase[s] \in {"New", "Gone"}
           \/ <<Topic[s], revision[Topic[s]]>> \in unpublished
           \/ shown[s].view[Topic[s]] = revision[Topic[s]])

\* The same promise for dashboards, which subscribe in the same order: once
\* nothing is in flight a live dashboard shows every game as committed.
DashboardsConverge ==
  \A s \in Subscriptions :
    (Topic[s] = Dashboard /\ phase[s] = "Live" /\ unpublished = {}
       /\ \A h \in Handlers : handlers[h] = Idle)
      => shown[s].view = revision
=============================================================================
