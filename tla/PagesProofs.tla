----------------------------- MODULE PagesProofs -----------------------------
(***************************************************************************)
(* Proofs about what players are shown: the pages live updates keep        *)
(* current (LiveUpdates), the rows dashboards are read from (Projections)  *)
(* and the definitions of words (Definitions).  They hold for any number   *)
(* of games, users, subscriptions, handlers, viewers, words and requests,  *)
(* any lifetimes, and without the bounds of the runs.                      *)
(***************************************************************************)
EXTENDS LiveUpdates, Projections, Definitions, TurnPage,
        FiniteSetTheorems, SequenceTheorems, TLAPS

-----------------------------------------------------------------------------
(* LiveUpdates: the pages of games; dashboards do not converge. *)

Phases == {"New", "Registered", "Loaded", "Live", "Gone"}

\* A view in which no game is beyond the revisions that are committed.
Committed(view, committed) == view \in View /\ \A g \in Games : view[g] <= committed[g]

\* What a handler in flight holds was committed.
Honest(r, committed) ==
  /\ r.kind = "Command" =>
       /\ r.revision \in 1..committed[r.game]
       /\ \A u \in Users : Committed(r.dashboards[u], committed)
  /\ r.kind = "Refresh" => Committed(r.view, committed)

\* The handler is to publish revision n of game g.
Publishes(r, g, n) == r # Idle /\ r.kind = "Command" /\ r.game = g /\ r.revision = n

RowTypes ==
  /\ revision \in [Games -> Nat \ {0}] /\ dashboard_revision \in Nat
  /\ subscribers \subseteq {s \in Subscriptions : phase[s] # "New"}
  /\ phase \in [Subscriptions -> Phases]
  /\ loaded \in [Subscriptions -> View]
  /\ shown \in [Subscriptions -> [revision : Nat, view : View]]
  /\ handlers \in [Handlers -> {Idle} \cup InFlight]
  /\ unpublished \subseteq Games \X (Nat \ {0})

NothingIsAhead ==
  /\ \A s \in Subscriptions :
       Committed(loaded[s], revision) /\ Committed(shown[s].view, revision)
  /\ \A h \in Handlers : handlers[h] # Idle => Honest(handlers[h], revision)
  /\ \A missed \in unpublished : missed[2] <= revision[missed[1]]

\* The committed revision of a game has come to a page, or is still to come:
\* it is shown, or loaded and to be sent, or a handler is about to publish it.
\* Otherwise its publication failed.
IsTold(s, g) ==
  \/ shown[s].view[g] = revision[g]
  \/ phase[s] = "Loaded" /\ loaded[s][g] = revision[g]
  \/ \E h \in Handlers : Publishes(handlers[h], g, revision[g])
  \/ <<g, revision[g]>> \in unpublished

PagesHold ==
  \A s \in Subscriptions, g \in Games :
    Topic[s] = g =>
      /\ shown[s].revision = shown[s].view[g]
      /\ phase[s] \in {"Registered", "Loaded", "Live"} => s \in subscribers
      /\ phase[s] \in {"Loaded", "Live"} => IsTold(s, g)

PagesInv == RowTypes /\ NothingIsAhead /\ PagesHold

-----------------------------------------------------------------------------
(* The largest element of a set *)

\* A finite set of naturals has a largest element: a smallest set without one,
\* less one of its elements, would have one.
LEMMA MaxOfNaturals ==
  ASSUME NEW S \in SUBSET Nat, S # {}, IsFiniteSet(S)
  PROVE  Max(S) \in S
<1> DEFINE HasMax(T) == \E x \in T : \A y \in T : x >= y
           Bad == {T \in SUBSET S : T # {} /\ ~HasMax(T)}
<1>1. ASSUME Bad # {}
      PROVE  FALSE
  <2>1. Bad \subseteq FiniteSubsetsOf(S)
    BY FS_Subset DEF FiniteSubsetsOf
  <2>2. PICK T \in Bad : \A U \in Bad : <<U, T>> \notin StrictSubsetOrdering(S)
    <3> HIDE DEF Bad
    <3> QED
      BY <1>1, <2>1, FS_StrictSubsetOrderingWellFounded, WFMin
  <2> PICK x \in T : TRUE
    OBVIOUS
  <2> DEFINE U == T \ {x}
  <2>3. U \subseteq S /\ U \subseteq T /\ U # T
    OBVIOUS
  <2>4. U \notin Bad
    <3>1. U \in FiniteSubsetsOf(S) /\ T \in FiniteSubsetsOf(S)
      BY <2>1, <2>3, FS_Subset DEF FiniteSubsetsOf
    <3> QED
      BY <2>2, <2>3, <3>1 DEF StrictSubsetOrdering
  <2>5. HasMax(T)
    <3>1. CASE U = {}
      BY <3>1
    <3>2. CASE U # {}
      <4>1. PICK y \in U : \A z \in U : y >= z
        BY <2>3, <2>4, <3>2
      <4>2. CASE y >= x
        BY <4>1, <4>2
      <4>3. CASE ~(y >= x)
        <5>1. \A z \in U : x >= z
          BY <4>1, <4>3
        <5> QED
          BY <5>1
      <4> QED
        BY <4>2, <4>3
    <3> QED
      BY <3>1, <3>2
  <2> QED
    BY <2>5
<1>2. HasMax(S)
  BY <1>1
<1> QED
  BY <1>2 DEF Max

\* The next revision of a dashboard is a number.
LEMMA DashboardCounts ==
  ASSUME dashboard_revision \in Nat, NEW view \in View
  PROVE  NextDashboardRevision(view) \in Nat
<1> DEFINE S == {dashboard_revision + 1} \cup {view[g] : g \in Games}
<1>1. S \in SUBSET Nat /\ S # {}
  BY DEF View
<1>2. IsFiniteSet(S)
  <2>1. view \in Surjection(Games, {view[g] : g \in Games})
    BY DEF View, Surjection
  <2>2. IsFiniteSet({dashboard_revision + 1})
    BY FS_Singleton
  <2> QED
    BY <2>1, <2>2, GamesAssumption, FS_Surjection, FS_Union
<1>3. Max(S) \in S
  <2> HIDE DEF S
  <2> QED
    BY <1>1, <1>2, MaxOfNaturals
<1> QED
  BY <1>1, <1>3 DEF NextDashboardRevision

-----------------------------------------------------------------------------
\* What a page shows before it has loaded.
LEMMA NothingType ==
  /\ Nothing \in [revision : Nat, view : View]
  /\ Nothing.revision = 0 /\ \A g \in Games : Nothing.view[g] = 0
BY DEF Nothing, View

\* The invariant holds at the start.
LEMMA InitPagesInv == Init => PagesInv
<1> SUFFICES ASSUME Init PROVE PagesInv
  OBVIOUS
<1>1. Committed(Nothing.view, revision)
  BY NothingType DEF Init, Committed
<1>2. RowTypes
  BY NothingType DEF Init, RowTypes, Phases
<1>3. NothingIsAhead /\ PagesHold
  BY <1>1, NothingType DEF Init, NothingIsAhead, PagesHold
<1> QED
  BY <1>2, <1>3 DEF PagesInv

-----------------------------------------------------------------------------
(* Steps of a handler that send nothing *)

\* The handler h goes on to r, and what it has to publish is the same.
LEMMA HandlerOnly ==
  ASSUME PagesInv, NEW h \in Handlers, NEW r \in {Idle} \cup InFlight,
         handlers' = [handlers EXCEPT ![h] = r], r # Idle => Honest(r, revision),
         \A g \in Games, n \in Nat : Publishes(handlers[h], g, n) => Publishes(r, g, n),
         UNCHANGED <<revision, dashboard_revision, subscribers, phase, loaded, shown,
         unpublished>>
  PROVE  PagesInv'
<1>1. /\ handlers' \in [Handlers -> {Idle} \cup InFlight] /\ handlers'[h] = r
      /\ \A i \in Handlers : i # h => handlers'[i] = handlers[i]
  BY DEF PagesInv, RowTypes
<1>2. RowTypes'
  BY <1>1 DEF PagesInv, RowTypes
<1>3. NothingIsAhead'
  BY <1>1 DEF PagesInv, NothingIsAhead
<1>4. PagesHold'
  <2>1. ASSUME NEW s \in Subscriptions, NEW g \in Games, IsTold(s, g)
        PROVE  IsTold(s, g)'
    <3>1. revision[g] \in Nat
      BY DEF PagesInv, RowTypes
    <3>2. \A i \in Handlers : Publishes(handlers[i], g, revision[g]) =>
                              Publishes(handlers'[i], g, revision[g])
      BY <1>1, <3>1
    <3> QED
      BY <2>1, <3>2 DEF IsTold
  <2> QED
    BY <2>1 DEF PagesInv, PagesHold
<1> QED
  BY <1>2, <1>3, <1>4 DEF PagesInv

\* Read keeps the invariant.
LEMMA ReadKeepsInv ==
  ASSUME PagesInv, NEW h \in Handlers, NEW u \in Users, ReadDashboard(h, u)
      \/ ReadForRefresh(h, u)
  PROVE  PagesInv'
<1> PICK b : b = handlers[h]
  OBVIOUS
<1>1. b \in InFlight /\ b # Idle /\ Honest(b, revision)
  BY DEF ReadDashboard, ReadForRefresh, PagesInv, RowTypes, NothingIsAhead
<1>2. revision \in View /\ Committed(revision, revision)
  BY DEF PagesInv, RowTypes, View, Committed
<1>3. CASE ReadDashboard(h, u)
  <2> DEFINE r == [b EXCEPT !.todo = @ \ {u}, !.dashboards[u] = revision]
  <2>1. b.kind = "Command"
    BY <1>3 DEF ReadDashboard
  <2>2. b \in [kind : {"Command"}, game : Games, revision : Nat, todo : SUBSET Users,
               dashboards : [Users -> View]]
    BY <1>1, <2>1 DEF InFlight
  <2>3. /\ r \in [kind : {"Command"}, game : Games, revision : Nat, todo : SUBSET Users,
                  dashboards : [Users -> View]]
        /\ r.kind = "Command" /\ r.game = b.game /\ r.revision = b.revision
        /\ \A v \in Users : r.dashboards[v] = IF v = u THEN revision ELSE b.dashboards[v]
    BY <1>2, <2>2
  <2>4. handlers' = [handlers EXCEPT ![h] = r]
    BY <1>3 DEF ReadDashboard, PagesInv, RowTypes
  <2> HIDE DEF r
  <2>5. r \in InFlight /\ r # Idle
    BY <2>3, IdleAssumption DEF InFlight
  <2>6. Honest(r, revision)
    BY <1>1, <1>2, <2>1, <2>3 DEF Honest
  <2>7. \A g \in Games, n \in Nat : Publishes(handlers[h], g, n) => Publishes(r, g, n)
    BY <2>3, <2>5 DEF Publishes
  <2> QED
    BY <1>3, <2>4, <2>5, <2>6, <2>7, HandlerOnly DEF ReadDashboard
<1>4. CASE ReadForRefresh(h, u)
  <2> DEFINE r == [b EXCEPT !.user = u, !.view = revision, !.todo = @ \ {u}]
  <2>1. b.kind = "Refresh"
    BY <1>4 DEF ReadForRefresh
  <2>2. b \in [kind : {"Refresh"}, user : Users \cup {Idle}, view : View, todo : SUBSET Users]
    BY <1>1, <2>1 DEF InFlight
  <2>3. /\ r \in [kind : {"Refresh"}, user : Users \cup {Idle}, view : View,
                  todo : SUBSET Users]
        /\ r.kind = "Refresh" /\ r.view = revision
    BY <1>2, <2>2
  <2>4. handlers' = [handlers EXCEPT ![h] = r]
    BY <1>4 DEF ReadForRefresh, PagesInv, RowTypes
  <2> HIDE DEF r
  <2>5. r \in InFlight
    BY <2>3 DEF InFlight
  <2>6. Honest(r, revision)
    BY <1>2, <2>3 DEF Honest
  <2>7. \A g \in Games, n \in Nat : Publishes(handlers[h], g, n) => Publishes(r, g, n)
    BY <2>1 DEF Publishes
  <2> QED
    BY <1>4, <2>4, <2>5, <2>6, <2>7, HandlerOnly DEF ReadForRefresh
<1> QED
  BY <1>3, <1>4

\* Refresh keeps the invariant.
LEMMA RefreshKeepsInv ==
  ASSUME PagesInv, NEW h \in Handlers, NEW excluded, Refresh(h, excluded)
  PROVE  PagesInv'
<1> PICK todo : todo = {Owner[s] : s \in {t \in subscribers : Topic[t] = Dashboard}} \ excluded
  OBVIOUS
<1> DEFINE r == [kind |-> "Refresh", user |-> Idle, view |-> Nothing.view, todo |-> todo]
<1>1. todo \in SUBSET Users
  BY OwnerAssumption DEF PagesInv, RowTypes
<1>2. r \in InFlight /\ r.kind = "Refresh" /\ r.view = Nothing.view
  BY <1>1, NothingType DEF InFlight
<1>3. handlers' = [handlers EXCEPT ![h] = r] /\ handlers[h] = Idle
  BY DEF Refresh
<1> HIDE DEF r
<1>4. Committed(Nothing.view, revision)
  BY NothingType DEF PagesInv, RowTypes, Committed
<1>5. Honest(r, revision)
  BY <1>2, <1>4 DEF Honest
<1>6. \A g \in Games, n \in Nat : Publishes(handlers[h], g, n) => Publishes(r, g, n)
  BY <1>3 DEF Publishes
<1> QED
  BY <1>2, <1>3, <1>5, <1>6, HandlerOnly DEF Refresh

\* EndRefresh keeps the invariant.
LEMMA EndRefreshKeepsInv ==
  ASSUME PagesInv, NEW h \in Handlers, EndRefresh(h)
  PROVE  PagesInv'
<1> PICK r : r = Idle
  OBVIOUS
<1>1. \A g \in Games, n \in Nat : Publishes(handlers[h], g, n) => Publishes(r, g, n)
  BY DEF EndRefresh, Publishes
<1> QED
  BY <1>1, HandlerOnly DEF EndRefresh

-----------------------------------------------------------------------------
(* Commands are committed, or fail *)

\* Commit keeps the invariant.
LEMMA CommitKeepsInv ==
  ASSUME PagesInv, NEW h \in Handlers, NEW g \in Games, Commit(h, g)
  PROVE  PagesInv'
<1> DEFINE r == [kind |-> "Command", game |-> g, revision |-> revision[g] + 1, todo |-> Users,
                 dashboards |-> [u \in Users |-> Nothing.view]]
<1>1. /\ handlers' = [handlers EXCEPT ![h] = r] /\ handlers[h] = Idle
      /\ revision' = [revision EXCEPT ![g] = @ + 1]
      /\ UNCHANGED <<dashboard_revision, subscribers, phase, loaded, shown, unpublished>>
  BY DEF Commit
<1>2. /\ revision' \in [Games -> Nat \ {0}] /\ revision'[g] = revision[g] + 1
      /\ \A f \in Games : f # g => revision'[f] = revision[f]
      /\ \A f \in Games : revision[f] <= revision'[f] /\ revision[f] \in Nat
  BY <1>1 DEF PagesInv, RowTypes
<1>3. /\ r \in InFlight /\ r.kind = "Command" /\ r.game = g /\ r.revision = revision'[g]
      /\ \A u \in Users : r.dashboards[u] = Nothing.view
  BY <1>2, NothingType DEF InFlight
<1> HIDE DEF r
<1>4. ASSUME NEW view, Committed(view, revision)
      PROVE  Committed(view, revision')
  BY <1>2, <1>4 DEF Committed, View
<1>5. Committed(Nothing.view, revision')
  BY <1>2, NothingType DEF Committed
<1>6. Honest(r, revision')
  BY <1>2, <1>3, <1>5 DEF Honest
<1>7. /\ handlers' \in [Handlers -> {Idle} \cup InFlight] /\ handlers'[h] = r
      /\ \A i \in Handlers : i # h => handlers'[i] = handlers[i]
  BY <1>1, <1>3 DEF PagesInv, RowTypes
<1>8. RowTypes'
  BY <1>1, <1>2, <1>7 DEF PagesInv, RowTypes
<1>9. NothingIsAhead'
  <2>1. \A s \in Subscriptions :
          Committed(loaded[s], revision') /\ Committed(shown[s].view, revision')
    BY <1>4 DEF PagesInv, NothingIsAhead
  <2>2. ASSUME NEW i \in Handlers, i # h, handlers[i] # Idle
        PROVE  Honest(handlers[i], revision')
    <3> PICK b : b = handlers[i]
      OBVIOUS
    <3>1. b \in InFlight /\ Honest(b, revision)
      BY <2>2 DEF PagesInv, RowTypes, NothingIsAhead
    <3>2. CASE b.kind = "Command"
      <4>1. b.game \in Games /\ b.revision \in Nat
        BY <3>1, <3>2 DEF InFlight
      <4>2. b.revision \in 1..revision'[b.game]
        BY <1>2, <3>1, <3>2, <4>1 DEF Honest
      <4>3. \A u \in Users : Committed(b.dashboards[u], revision')
        BY <1>4, <3>1, <3>2 DEF Honest
      <4> QED
        BY <3>2, <4>2, <4>3 DEF Honest
    <3>3. CASE b.kind = "Refresh"
      <4>1. Committed(b.view, revision')
        BY <1>4, <3>1, <3>3 DEF Honest
      <4> QED
        BY <3>3, <4>1 DEF Honest
    <3> QED
      BY <3>1, <3>2, <3>3 DEF InFlight
  <2>3. \A i \in Handlers : handlers'[i] # Idle => Honest(handlers'[i], revision')
    BY <1>6, <1>7, <2>2
  <2>4. \A missed \in unpublished : missed[2] <= revision'[missed[1]]
    <3> SUFFICES ASSUME NEW missed \in unpublished
                 PROVE  missed[2] <= revision'[missed[1]]
      OBVIOUS
    <3>1. missed[1] \in Games /\ missed[2] \in Nat /\ missed[2] <= revision[missed[1]]
      BY DEF PagesInv, RowTypes, NothingIsAhead
    <3> QED
      BY <1>2, <3>1
  <2> QED
    BY <1>1, <2>1, <2>3, <2>4 DEF NothingIsAhead
<1>10. PagesHold'
  <2> SUFFICES ASSUME NEW s \in Subscriptions, NEW f \in Games, Topic[s] = f
               PROVE  /\ shown[s].revision = shown[s].view[f]
                      /\ phase[s] \in {"Registered", "Loaded", "Live"} => s \in subscribers
                      /\ phase[s] \in {"Loaded", "Live"} => IsTold(s, f)'
    BY <1>1 DEF PagesHold
  <2>1. CASE f = g
    <3>1. IsTold(s, f)'
      BY <1>1, <1>3, <1>7, <2>1, IdleAssumption DEF IsTold, Publishes
    <3> QED
      BY <3>1 DEF PagesInv, PagesHold
  <2>2. CASE f # g
    <3>1. revision'[f] = revision[f] /\ revision[f] \in Nat
      BY <1>2, <2>2
    <3>2. \A i \in Handlers : Publishes(handlers[i], f, revision[f]) =>
                              Publishes(handlers'[i], f, revision'[f])
      BY <1>1, <1>7, <3>1 DEF Publishes
    <3>3. IsTold(s, f) => IsTold(s, f)'
      BY <1>1, <3>1, <3>2 DEF IsTold
    <3> QED
      BY <3>3 DEF PagesInv, PagesHold
  <2> QED
    BY <2>1, <2>2
<1> QED
  BY <1>8, <1>9, <1>10 DEF PagesInv

\* Fail keeps the invariant.
LEMMA FailKeepsInv ==
  ASSUME PagesInv, NEW h \in Handlers, Fail(h)
  PROVE  PagesInv'
<1> PICK b : b = handlers[h]
  OBVIOUS
<1>1. b # Idle /\ b \in InFlight /\ Honest(b, revision)
  BY DEF Fail, PagesInv, RowTypes, NothingIsAhead
<1>2. /\ handlers' = [handlers EXCEPT ![h] = Idle]
      /\ unpublished' = IF b.kind = "Command" THEN unpublished \cup {<<b.game, b.revision>>}
                                              ELSE unpublished
      /\ UNCHANGED <<revision, dashboard_revision, subscribers, phase, loaded, shown>>
  BY DEF Fail
<1>3. b.kind = "Command" =>
        b.game \in Games /\ b.revision \in Nat \ {0} /\ b.revision <= revision[b.game]
  <2>1. b.kind = "Command" => b.game \in Games /\ b.revision \in Nat
    BY <1>1 DEF InFlight
  <2> QED
    BY <1>1, <2>1 DEF Honest, PagesInv, RowTypes
<1>4. /\ handlers' \in [Handlers -> {Idle} \cup InFlight] /\ handlers'[h] = Idle
      /\ \A i \in Handlers : i # h => handlers'[i] = handlers[i]
  BY <1>2 DEF PagesInv, RowTypes
<1>5. RowTypes'
  BY <1>2, <1>3, <1>4 DEF PagesInv, RowTypes
<1>6. NothingIsAhead'
  <2>1. \A missed \in unpublished' : missed[2] <= revision[missed[1]]
    BY <1>2, <1>3 DEF PagesInv, NothingIsAhead
  <2> QED
    BY <1>2, <1>4, <2>1 DEF PagesInv, NothingIsAhead
<1>7. PagesHold'
  <2>1. ASSUME NEW s \in Subscriptions, NEW g \in Games, IsTold(s, g)
        PROVE  IsTold(s, g)'
    <3>1. CASE Publishes(b, g, revision[g])
      BY <1>2, <3>1 DEF IsTold, Publishes
    <3>2. CASE ~Publishes(b, g, revision[g])
      <4>1. \A i \in Handlers : Publishes(handlers[i], g, revision[g]) =>
                                Publishes(handlers'[i], g, revision[g])
        BY <1>4, <3>2
      <4> QED
        BY <1>2, <2>1, <4>1 DEF IsTold
    <3> QED
      BY <3>1, <3>2
  <2> QED
    BY <1>2, <2>1 DEF PagesInv, PagesHold
<1> QED
  BY <1>5, <1>6, <1>7 DEF PagesInv

-----------------------------------------------------------------------------
(* Events are sent *)

\* Events that show committed revisions come to receivers: types, and what was
\* shown of a game page is kept or replaced by as new a revision.
LEMMA SentIsShown ==
  ASSUME PagesInv, NEW receivers \in SUBSET subscribers,
         NEW event \in [Subscriptions -> [revision : Nat, view : View]],
         \A s \in receivers : Committed(event[s].view, revision),
         \A s \in receivers : Topic[s] \in Games => event[s].revision = event[s].view[Topic[s]],
         shown' = Sent(receivers, event)
  PROVE  /\ shown' \in [Subscriptions -> [revision : Nat, view : View]]
         /\ \A s \in Subscriptions : Committed(shown'[s].view, revision)
         /\ \A s \in Subscriptions, g \in Games :
              Topic[s] = g =>
                /\ shown'[s].revision = shown'[s].view[g]
                /\ shown[s].view[g] = revision[g] => shown'[s].view[g] = revision[g]
                /\ (s \in receivers /\ phase[s] # "Gone" /\ event[s].revision = revision[g])
                     => shown'[s].view[g] = revision[g]
<1>1. \A s \in Subscriptions :
        /\ shown'[s] \in {shown[s], event[s]}
        /\ shown'[s] = event[s] => s \in receivers \/ event[s] = shown[s]
  BY DEF Sent, Newest
<1>2. shown' \in [Subscriptions -> [revision : Nat, view : View]]
  BY DEF Sent, Newest, PagesInv, RowTypes
<1>3. \A s \in Subscriptions : Committed(shown'[s].view, revision)
  BY <1>1 DEF PagesInv, NothingIsAhead
<1>4. ASSUME NEW s \in Subscriptions, NEW g \in Games, Topic[s] = g
      PROVE  /\ shown'[s].revision = shown'[s].view[g]
             /\ shown[s].view[g] = revision[g] => shown'[s].view[g] = revision[g]
             /\ (s \in receivers /\ phase[s] # "Gone" /\ event[s].revision = revision[g])
                  => shown'[s].view[g] = revision[g]
  <2>1. /\ shown[s].revision = shown[s].view[g] /\ shown[s].view[g] <= revision[g]
        /\ shown[s].revision \in Nat /\ revision[g] \in Nat /\ event[s].revision \in Nat
    BY <1>4 DEF PagesInv, RowTypes, PagesHold, NothingIsAhead, Committed
  <2>2. CASE s \in receivers /\ phase[s] # "Gone"
    <3>1. event[s].revision = event[s].view[g] /\ event[s].view[g] <= revision[g]
      BY <1>4, <2>2 DEF Committed
    <3>2. shown'[s] = IF event[s].revision >= shown[s].revision THEN event[s] ELSE shown[s]
      BY <2>2 DEF Sent, Newest
    <3> QED
      BY <2>1, <3>1, <3>2
  <2>3. CASE ~(s \in receivers /\ phase[s] # "Gone")
    <3>1. shown'[s] = shown[s]
      BY <2>3 DEF Sent
    <3> QED
      BY <2>1, <2>3, <3>1
  <2> QED
    BY <2>2, <2>3
<1> QED
  BY <1>2, <1>3, <1>4

\* A handler sends events to receivers and goes on to r: a page that is told
\* by this handler is among the receivers, and its event is of that revision.
Sends(h, r, receivers, event) ==
  /\ receivers \subseteq subscribers
  /\ event \in [Subscriptions -> [revision : Nat, view : View]]
  /\ \A s \in receivers : Committed(event[s].view, revision)
  /\ \A s \in receivers : Topic[s] \in Games => event[s].revision = event[s].view[Topic[s]]
  /\ r \in {Idle} \cup InFlight /\ (r # Idle => Honest(r, revision))
  /\ \A g \in Games, s \in subscribers :
       (Topic[s] = g /\ Publishes(handlers[h], g, revision[g]))
         => s \in receivers /\ event[s].revision = revision[g]

\* Send keeps the invariant.
LEMMA SendKeepsInv ==
  ASSUME PagesInv, NEW h \in Handlers, NEW r, NEW receivers, NEW event,
         Sends(h, r, receivers, event),
         shown' = Sent(receivers, event), subscribers' = Retained(receivers),
         handlers' = [handlers EXCEPT ![h] = r], dashboard_revision' \in Nat,
         UNCHANGED <<revision, phase, loaded, unpublished>>
  PROVE  PagesInv'
<1>1. /\ handlers' \in [Handlers -> {Idle} \cup InFlight] /\ handlers'[h] = r
      /\ \A i \in Handlers : i # h => handlers'[i] = handlers[i]
  BY DEF Sends, PagesInv, RowTypes
<1>2. /\ shown' \in [Subscriptions -> [revision : Nat, view : View]]
      /\ \A s \in Subscriptions : Committed(shown'[s].view, revision)
      /\ \A s \in Subscriptions, g \in Games :
           Topic[s] = g =>
             /\ shown'[s].revision = shown'[s].view[g]
             /\ shown[s].view[g] = revision[g] => shown'[s].view[g] = revision[g]
             /\ (s \in receivers /\ phase[s] # "Gone" /\ event[s].revision = revision[g])
                  => shown'[s].view[g] = revision[g]
  <2>1. /\ receivers \in SUBSET subscribers
        /\ event \in [Subscriptions -> [revision : Nat, view : View]]
        /\ \A s \in receivers : Committed(event[s].view, revision)
        /\ \A s \in receivers : Topic[s] \in Games => event[s].revision = event[s].view[Topic[s]]
    BY DEF Sends
  <2> QED
    BY <2>1, SentIsShown
<1>3. /\ subscribers' \subseteq subscribers
      /\ \A s \in subscribers : phase[s] # "Gone" => s \in subscribers'
  BY DEF Retained
<1>4. RowTypes'
  BY <1>1, <1>2, <1>3 DEF PagesInv, RowTypes
<1>5. NothingIsAhead'
  <2>1. \A i \in Handlers : handlers'[i] # Idle => Honest(handlers'[i], revision)
    BY <1>1 DEF Sends, PagesInv, NothingIsAhead
  <2> QED
    BY <1>2, <2>1 DEF PagesInv, NothingIsAhead
<1>6. PagesHold'
  <2> SUFFICES ASSUME NEW s \in Subscriptions, NEW g \in Games, Topic[s] = g
               PROVE  /\ shown'[s].revision = shown'[s].view[g]
                      /\ phase[s] \in {"Registered", "Loaded", "Live"} => s \in subscribers'
                      /\ phase[s] \in {"Loaded", "Live"} => IsTold(s, g)'
    BY DEF PagesHold
  <2>1. phase[s] \in {"Registered", "Loaded", "Live"} => s \in subscribers /\ s \in subscribers'
    BY <1>3 DEF PagesInv, PagesHold
  <2>2. ASSUME phase[s] \in {"Loaded", "Live"}
        PROVE  IsTold(s, g)'
    <3>1. IsTold(s, g) /\ s \in subscribers
      BY <2>1, <2>2 DEF PagesInv, PagesHold
    <3>2. CASE Publishes(handlers[h], g, revision[g])
      <4>1. s \in receivers /\ event[s].revision = revision[g]
        BY <3>1, <3>2 DEF Sends
      <4> QED
        BY <1>2, <2>2, <4>1 DEF IsTold
    <3>3. CASE ~Publishes(handlers[h], g, revision[g])
      <4>1. \A i \in Handlers : Publishes(handlers[i], g, revision[g]) =>
                                Publishes(handlers'[i], g, revision[g])
        BY <1>1, <3>3
      <4> QED
        BY <1>2, <3>1, <4>1 DEF IsTold
    <3> QED
      BY <3>2, <3>3
  <2> QED
    BY <1>2, <2>1, <2>2
<1> QED
  BY <1>4, <1>5, <1>6 DEF PagesInv

\* Publish keeps the invariant.
LEMMA PublishKeepsInv ==
  ASSUME PagesInv, NEW h \in Handlers, Publish(h)
  PROVE  PagesInv'
<1> PICK b : b = handlers[h]
  OBVIOUS
<1> DEFINE receivers == ReceiversOf(b)
           event     == PublishedEvent(b)
<1>1. b # Idle /\ b.kind = "Command" /\ b \in InFlight /\ Honest(b, revision)
  BY DEF Publish, PagesInv, RowTypes, NothingIsAhead
<1>2. /\ b.game \in Games /\ b.revision \in Nat /\ b.revision <= revision[b.game]
      /\ b.dashboards \in [Users -> View]
      /\ \A u \in Users : Committed(b.dashboards[u], revision)
  <2>1. b.game \in Games /\ b.revision \in Nat /\ b.dashboards \in [Users -> View]
    BY <1>1 DEF InFlight
  <2> QED
    BY <1>1, <2>1 DEF Honest, PagesInv, RowTypes
<1>3. \A s \in Subscriptions : Topic[s] \in Games \cup {Dashboard} /\ Owner[s] \in Users
  BY TopicAssumption, OwnerAssumption
<1>4. \A g \in Games :
        LET view == [Nothing.view EXCEPT ![g] = b.revision]
        IN  view \in View /\ view[g] = b.revision
            /\ \A f \in Games : f # g => view[f] = 0
  BY <1>2, NothingType DEF View
<1>5. event \in [Subscriptions -> [revision : Nat, view : View]]
  BY <1>2, <1>3, <1>4 DEF PublishedEvent
<1>6. ASSUME NEW s \in receivers
      PROVE  /\ Committed(event[s].view, revision)
             /\ Topic[s] \in Games => event[s].revision = event[s].view[Topic[s]]
  <2>1. s \in Subscriptions /\ Topic[s] \in {b.game, Dashboard}
    BY DEF ReceiversOf, PagesInv, RowTypes
  <2>2. CASE Topic[s] = Dashboard
    <3>1. event[s].view = b.dashboards[Owner[s]]
      BY <2>1, <2>2 DEF PublishedEvent
    <3> QED
      BY <1>2, <1>3, <2>1, <2>2, <3>1, TopicAssumption
  <2>3. CASE Topic[s] # Dashboard
    <3>1. /\ Topic[s] = b.game /\ event[s].revision = b.revision
          /\ event[s].view = [Nothing.view EXCEPT ![b.game] = b.revision]
      BY <2>1, <2>3 DEF PublishedEvent
    <3>2. event[s].view \in View /\ event[s].view[b.game] = b.revision
          /\ \A f \in Games : f # b.game => event[s].view[f] = 0
      BY <1>2, <1>4, <3>1
    <3>3. Committed(event[s].view, revision)
      BY <1>2, <3>2 DEF Committed, PagesInv, RowTypes
    <3> QED
      BY <3>1, <3>2, <3>3
  <2> QED
    BY <2>2, <2>3
<1>7. ASSUME NEW g \in Games, NEW s \in subscribers, Topic[s] = g, Publishes(b, g, revision[g])
      PROVE  s \in receivers /\ event[s].revision = revision[g]
  <2>1. s \in Subscriptions
    BY DEF PagesInv, RowTypes
  <2> QED
    BY <1>7, <2>1 DEF Publishes, ReceiversOf, PublishedEvent
<1>8. receivers \subseteq subscribers
  BY DEF ReceiversOf
<1>9. /\ shown' = Sent(receivers, event) /\ subscribers' = Retained(receivers)
      /\ handlers' = [handlers EXCEPT ![h] = Idle]
      /\ UNCHANGED <<revision, dashboard_revision, phase, loaded, unpublished>>
  BY DEF Publish
<1> HIDE DEF receivers, event
<1>10. Sends(h, Idle, receivers, event)
  BY <1>5, <1>6, <1>7, <1>8 DEF Sends
<1>11. dashboard_revision' \in Nat
  BY <1>9 DEF PagesInv, RowTypes
<1> QED
  BY <1>9, <1>10, <1>11, SendKeepsInv

\* SendRefresh keeps the invariant.
LEMMA SendRefreshKeepsInv ==
  ASSUME PagesInv, NEW h \in Handlers, SendRefresh(h)
  PROVE  PagesInv'
<1> PICK b : b = handlers[h]
  OBVIOUS
<1> PICK next : next = NextDashboardRevision(b.view)
  OBVIOUS
<1> DEFINE receivers == {s \in subscribers : Topic[s] = Dashboard /\ Owner[s] = b.user}
           event     == [s \in Subscriptions |-> [revision |-> next, view |-> b.view]]
           r         == [b EXCEPT !.user = Idle]
<1>1. b # Idle /\ b.kind = "Refresh" /\ b \in InFlight /\ Honest(b, revision)
  BY DEF SendRefresh, PagesInv, RowTypes, NothingIsAhead
<1>2. /\ b \in [kind : {"Refresh"}, user : Users \cup {Idle}, view : View, todo : SUBSET Users]
      /\ Committed(b.view, revision)
  BY <1>1 DEF InFlight, Honest
<1>3. /\ r \in [kind : {"Refresh"}, user : Users \cup {Idle}, view : View, todo : SUBSET Users]
      /\ r.kind = "Refresh" /\ r.view = b.view
  BY <1>2
<1>4. next \in Nat
  BY <1>2, DashboardCounts DEF PagesInv, RowTypes
<1>5. /\ event \in [Subscriptions -> [revision : Nat, view : View]]
      /\ \A s \in Subscriptions : event[s].view = b.view
  BY <1>2, <1>4
<1>6. \A s \in receivers : s \in Subscriptions /\ Topic[s] \notin Games
  BY TopicAssumption DEF PagesInv, RowTypes
<1>7. \A g \in Games : ~Publishes(b, g, revision[g])
  BY <1>1 DEF Publishes
<1>8. receivers \subseteq subscribers
  OBVIOUS
<1>9. /\ shown' = Sent(receivers, event) /\ subscribers' = Retained(receivers)
      /\ handlers' = [handlers EXCEPT ![h] = r] /\ dashboard_revision' = next
      /\ UNCHANGED <<revision, phase, loaded, unpublished>>
  BY DEF SendRefresh
<1> HIDE DEF receivers, event, r
<1>10. r \in InFlight /\ Honest(r, revision)
  BY <1>2, <1>3 DEF InFlight, Honest
<1>11. Sends(h, r, receivers, event)
  BY <1>2, <1>5, <1>6, <1>7, <1>8, <1>10 DEF Sends
<1> QED
  BY <1>4, <1>9, <1>11, SendKeepsInv

-----------------------------------------------------------------------------
(* Subscriptions *)

\* Register keeps the invariant.
LEMMA RegisterKeepsInv ==
  ASSUME PagesInv, NEW s \in Subscriptions, Register(s)
  PROVE  PagesInv'
<1>1. /\ subscribers' = subscribers \cup {s} /\ phase' = [phase EXCEPT ![s] = "Registered"]
      /\ UNCHANGED <<revision, dashboard_revision, loaded, shown, handlers, unpublished>>
  BY DEF Register
<1>2. /\ phase' \in [Subscriptions -> Phases] /\ phase'[s] = "Registered"
      /\ \A t \in Subscriptions : t # s => phase'[t] = phase[t]
  BY <1>1 DEF PagesInv, RowTypes, Phases
<1>3. RowTypes'
  BY <1>1, <1>2 DEF PagesInv, RowTypes
<1>4. NothingIsAhead'
  BY <1>1 DEF PagesInv, NothingIsAhead
<1>5. PagesHold'
  BY <1>1, <1>2 DEF PagesInv, PagesHold, IsTold
<1> QED
  BY <1>3, <1>4, <1>5 DEF PagesInv

\* Load keeps the invariant.
LEMMA LoadKeepsInv ==
  ASSUME PagesInv, NEW s \in Subscriptions, Load(s)
  PROVE  PagesInv'
<1> PICK view : view = IF Topic[s] = Dashboard THEN revision
                       ELSE [loaded[s] EXCEPT ![Topic[s]] = revision[Topic[s]]]
  OBVIOUS
<1>1. /\ phase[s] = "Registered" /\ phase' = [phase EXCEPT ![s] = "Loaded"]
      /\ loaded' = [loaded EXCEPT ![s] = view]
      /\ UNCHANGED <<revision, dashboard_revision, subscribers, shown, handlers, unpublished>>
  BY DEF Load, PagesInv, RowTypes
<1>2. /\ phase' \in [Subscriptions -> Phases] /\ phase'[s] = "Loaded"
      /\ \A t \in Subscriptions : t # s => phase'[t] = phase[t]
  BY <1>1 DEF PagesInv, RowTypes, Phases
<1>3. revision \in View /\ loaded[s] \in View /\ \A g \in Games : loaded[s][g] <= revision[g]
  BY DEF PagesInv, RowTypes, NothingIsAhead, Committed, View
<1>4. Committed(view, revision) /\ \A g \in Games : Topic[s] = g => view[g] = revision[g]
  <2>1. CASE Topic[s] = Dashboard
    BY <1>3, <2>1, TopicAssumption DEF Committed, View
  <2>2. CASE Topic[s] # Dashboard
    <3>1. Topic[s] \in Games
      BY <2>2, TopicAssumption
    <3>2. view = [loaded[s] EXCEPT ![Topic[s]] = revision[Topic[s]]]
      BY <2>2
    <3> QED
      BY <1>3, <3>1, <3>2 DEF Committed, View
  <2> QED
    BY <2>1, <2>2
<1>5. /\ loaded' \in [Subscriptions -> View] /\ loaded'[s] = view
      /\ \A t \in Subscriptions : t # s => loaded'[t] = loaded[t]
  BY <1>1, <1>4 DEF PagesInv, RowTypes, Committed
<1>6. RowTypes'
  BY <1>1, <1>2, <1>5 DEF PagesInv, RowTypes
<1>7. NothingIsAhead'
  BY <1>1, <1>4, <1>5 DEF PagesInv, NothingIsAhead
<1>8. PagesHold'
  <2> SUFFICES ASSUME NEW t \in Subscriptions, NEW g \in Games, Topic[t] = g
               PROVE  /\ shown[t].revision = shown[t].view[g]
                      /\ phase'[t] \in {"Registered", "Loaded", "Live"} => t \in subscribers
                      /\ phase'[t] \in {"Loaded", "Live"} => IsTold(t, g)'
    BY <1>1 DEF PagesHold
  <2>1. CASE t = s
    <3>1. IsTold(t, g)'
      BY <1>1, <1>2, <1>4, <1>5, <2>1 DEF IsTold
    <3> QED
      BY <1>1, <2>1, <3>1 DEF PagesInv, PagesHold
  <2>2. CASE t # s
    <3>1. IsTold(t, g) => IsTold(t, g)'
      BY <1>1, <1>2, <1>5, <2>2 DEF IsTold
    <3> QED
      BY <1>2, <2>2, <3>1 DEF PagesInv, PagesHold
  <2> QED
    BY <2>1, <2>2
<1> QED
  BY <1>6, <1>7, <1>8 DEF PagesInv

\* SendInitial keeps the invariant.
LEMMA SendInitialKeepsInv ==
  ASSUME PagesInv, NEW s \in Subscriptions, SendInitial(s)
  PROVE  PagesInv'
<1> PICK view : view = loaded[s]
  OBVIOUS
<1> PICK next : next = IF Topic[s] = Dashboard THEN NextDashboardRevision(view)
    ELSE view[Topic[s]]
  OBVIOUS
<1> PICK event : event = Newest(shown[s], [revision |-> next, view |-> view])
  OBVIOUS
<1>1. /\ phase[s] = "Loaded" /\ phase' = [phase EXCEPT ![s] = "Live"]
      /\ shown' = [shown EXCEPT ![s] = event]
      /\ dashboard_revision' = IF Topic[s] = Dashboard THEN next ELSE dashboard_revision
      /\ loaded' = [loaded EXCEPT ![s] = Nothing.view]
      /\ UNCHANGED <<revision, subscribers, handlers, unpublished>>
  BY DEF SendInitial, PagesInv, RowTypes
<1>2. view \in View /\ Committed(view, revision) /\ next \in Nat
  <2>1. view \in View /\ Committed(view, revision)
    BY DEF PagesInv, RowTypes, NothingIsAhead
  <2>2. NextDashboardRevision(view) \in Nat
    BY <2>1, DashboardCounts DEF PagesInv, RowTypes
  <2>3. Topic[s] # Dashboard => Topic[s] \in Games
    BY TopicAssumption
  <2> QED
    BY <2>1, <2>2, <2>3 DEF View
<1>3. /\ event \in [revision : Nat, view : View] /\ Committed(event.view, revision)
      /\ event = IF next >= shown[s].revision THEN [revision |-> next, view |-> view]
         ELSE shown[s]
  BY <1>2 DEF Newest, PagesInv, RowTypes, NothingIsAhead
<1>4. /\ phase' \in [Subscriptions -> Phases] /\ phase'[s] = "Live"
      /\ shown' \in [Subscriptions -> [revision : Nat, view : View]] /\ shown'[s] = event
      /\ loaded' \in [Subscriptions -> View] /\ loaded'[s] = Nothing.view
      /\ \A t \in Subscriptions :
           t # s => phase'[t] = phase[t] /\ shown'[t] = shown[t] /\ loaded'[t] = loaded[t]
  BY <1>1, <1>3, NothingType DEF PagesInv, RowTypes, Phases
<1>5. dashboard_revision' \in Nat
  BY <1>1, <1>2 DEF PagesInv, RowTypes
<1>6. RowTypes'
  BY <1>1, <1>4, <1>5 DEF PagesInv, RowTypes
<1>7. NothingIsAhead'
  <2>1. Committed(Nothing.view, revision)
    BY NothingType DEF PagesInv, RowTypes, Committed
  <2>2. \A t \in Subscriptions :
          Committed(loaded'[t], revision) /\ Committed(shown'[t].view, revision)
    BY <1>3, <1>4, <2>1 DEF PagesInv, NothingIsAhead
  <2> QED
    BY <1>1, <2>2 DEF PagesInv, NothingIsAhead
<1>8. PagesHold'
  <2> SUFFICES ASSUME NEW t \in Subscriptions, NEW g \in Games, Topic[t] = g
               PROVE  /\ shown'[t].revision = shown'[t].view[g]
                      /\ phase'[t] \in {"Registered", "Loaded", "Live"} => t \in subscribers
                      /\ phase'[t] \in {"Loaded", "Live"} => IsTold(t, g)'
    BY <1>1 DEF PagesHold
  <2>1. CASE t = s
    <3>1. next = view[g]
      BY <2>1, TopicAssumption
    <3>2. /\ shown[s].revision = shown[s].view[g] /\ shown[s].view[g] <= revision[g]
          /\ shown[s].revision \in Nat /\ revision[g] \in Nat
          /\ view[g] \in Nat /\ view[g] <= revision[g]
          /\ s \in subscribers /\ IsTold(s, g)
      <4>1. shown[s].revision = shown[s].view[g] /\ s \in subscribers /\ IsTold(s, g)
        BY <1>1, <2>1 DEF PagesInv, PagesHold
      <4>2. shown[s].view[g] <= revision[g] /\ shown[s].revision \in Nat /\ revision[g] \in Nat
        BY DEF PagesInv, RowTypes, NothingIsAhead, Committed
      <4>3. view[g] \in Nat /\ view[g] <= revision[g]
        BY <1>2 DEF Committed, View
      <4> QED
        BY <4>1, <4>2, <4>3
    <3>3. event.revision = event.view[g]
      BY <1>3, <3>1, <3>2
    <3>4. shown[s].view[g] = revision[g] \/ view[g] = revision[g] => event.view[g] = revision[g]
      BY <1>3, <3>1, <3>2
    <3>5. IsTold(t, g)'
      BY <1>1, <1>4, <2>1, <3>2, <3>4 DEF IsTold
    <3> QED
      BY <1>4, <2>1, <3>2, <3>3, <3>5
  <2>2. CASE t # s
    <3>1. IsTold(t, g) => IsTold(t, g)'
      BY <1>1, <1>4, <2>2 DEF IsTold
    <3> QED
      BY <1>4, <2>2, <3>1 DEF PagesInv, PagesHold
  <2> QED
    BY <2>1, <2>2
<1> QED
  BY <1>6, <1>7, <1>8 DEF PagesInv

\* Disconnect keeps the invariant.
LEMMA DisconnectKeepsInv ==
  ASSUME PagesInv, NEW s \in Subscriptions, Disconnect(s)
  PROVE  PagesInv'
<1>1. /\ phase[s] # "New" /\ phase' = [phase EXCEPT ![s] = "Gone"]
      /\ loaded' = [loaded EXCEPT ![s] = Nothing.view] /\ shown' = [shown EXCEPT ![s] = Nothing]
      /\ UNCHANGED <<revision, dashboard_revision, subscribers, handlers, unpublished>>
  BY DEF Disconnect
<1>2. /\ phase' \in [Subscriptions -> Phases] /\ phase'[s] = "Gone"
      /\ shown' \in [Subscriptions -> [revision : Nat, view : View]] /\ shown'[s] = Nothing
      /\ loaded' \in [Subscriptions -> View] /\ loaded'[s] = Nothing.view
      /\ \A t \in Subscriptions :
           t # s => phase'[t] = phase[t] /\ shown'[t] = shown[t] /\ loaded'[t] = loaded[t]
  BY <1>1, NothingType DEF PagesInv, RowTypes, Phases
<1>3. RowTypes'
  BY <1>1, <1>2 DEF PagesInv, RowTypes
<1>4. NothingIsAhead'
  <2>1. Committed(Nothing.view, revision)
    BY NothingType DEF PagesInv, RowTypes, Committed
  <2> QED
    BY <1>1, <1>2, <2>1 DEF PagesInv, NothingIsAhead
<1>5. PagesHold'
  <2>1. \A t \in Subscriptions, g \in Games : t # s /\ IsTold(t, g) => IsTold(t, g)'
    BY <1>1, <1>2 DEF IsTold
  <2> QED
    BY <1>1, <1>2, <2>1, NothingType DEF PagesInv, PagesHold
<1> QED
  BY <1>3, <1>4, <1>5 DEF PagesInv

-----------------------------------------------------------------------------
(* The invariant, and what follows *)

\* Every step keeps it.
LEMMA NextPagesInv == PagesInv /\ [Next]_vars => PagesInv'
<1> SUFFICES ASSUME PagesInv, [Next]_vars PROVE PagesInv'
  OBVIOUS
<1>1. ASSUME UNCHANGED vars
      PROVE  PagesInv'
  BY <1>1 DEF vars, PagesInv, RowTypes, NothingIsAhead, PagesHold, IsTold, Publishes
<1>2. ASSUME NEW h \in Handlers, NEW g \in Games, Commit(h, g)
      PROVE  PagesInv'
  BY <1>2, CommitKeepsInv
<1>3. ASSUME NEW h \in Handlers, NEW u \in Users, ReadDashboard(h, u) \/ ReadForRefresh(h, u)
      PROVE  PagesInv'
  BY <1>3, ReadKeepsInv
<1>4. ASSUME NEW h \in Handlers, NEW excluded, Refresh(h, excluded)
      PROVE  PagesInv'
  BY <1>4, RefreshKeepsInv
<1>5. ASSUME NEW h \in Handlers, Publish(h) \/ SendRefresh(h) \/ EndRefresh(h) \/ Fail(h)
      PROVE  PagesInv'
  BY <1>5, PublishKeepsInv, SendRefreshKeepsInv, EndRefreshKeepsInv, FailKeepsInv
<1>6. ASSUME NEW s \in Subscriptions, Register(s) \/ Load(s) \/ SendInitial(s) \/ Disconnect(s)
      PROVE  PagesInv'
  BY <1>6, RegisterKeepsInv, LoadKeepsInv, SendInitialKeepsInv, DisconnectKeepsInv
<1> QED
  BY <1>1, <1>2, <1>3, <1>4, <1>5, <1>6 DEF Next

\* It holds in every reachable state.
LEMMA AlwaysPagesInv == Spec => []PagesInv
BY InitPagesInv, NextPagesInv, PTL DEF Spec

\* The invariant implies the types.
LEMMA TypesHold == PagesInv => TypeOK
<1> SUFFICES ASSUME PagesInv PROVE TypeOK
  OBVIOUS
<1>1. ASSUME NEW s \in Subscriptions, NEW g \in Games
      PROVE  loaded[s][g] \in 0..revision[g] /\ shown[s].view[g] \in 0..revision[g]
  <2>1. /\ loaded[s][g] \in Nat /\ loaded[s][g] <= revision[g]
        /\ shown[s].view[g] \in Nat /\ shown[s].view[g] <= revision[g] /\ revision[g] \in Nat
    BY DEF PagesInv, RowTypes, NothingIsAhead, Committed, View
  <2> QED
    BY <2>1
<1>2. ASSUME NEW missed \in unpublished
      PROVE  missed[2] \in 1..revision[missed[1]]
  <2>1. /\ missed[1] \in Games /\ missed[2] \in Nat \ {0} /\ missed[2] <= revision[missed[1]]
        /\ revision[missed[1]] \in Nat
    BY DEF PagesInv, RowTypes, NothingIsAhead
  <2> QED
    BY <2>1
<1> QED
  BY <1>1, <1>2 DEF PagesInv, RowTypes, TypeOK

\* Once nothing of a game is in flight, its live pages show the committed
\* revision, or its publication failed: register, load and send in this order
\* (subscribe_channel) leave no gap for a command to fall into.
THEOREM PagesConverge == Spec => []GamePagesConverge
<1>1. PagesInv => GamePagesConverge
  BY TypesHold DEF PagesInv, PagesHold, IsTold, Publishes, Quiet, GamePagesConverge
<1> QED
  BY <1>1, AlwaysPagesInv, PTL

-----------------------------------------------------------------------------
(* Projections: the rows of one game and the repairs of dashboards. *)

\* A game goes from revision to revision, and none comes after its completion.
NotAfter(state, later) ==
  state.revision <= later.revision /\ (state.completed => state = later)

\* What a repair has read is what its game was, and the events were read after
\* the state: there are as many as the state has revisions, or more.
ReadsAreOrdered ==
  \A v \in Viewers : repairs[v] # NoRepair =>
    /\ repairs[v].game \in RowGames
    /\ repairs[v].events \in Nat
    /\ repairs[v].state = Unread => repairs[v].events = 0
    /\ repairs[v].state # Unread =>
         /\ repairs[v].state \in States
         /\ NotAfter(repairs[v].state, canonical[repairs[v].game])
         /\ repairs[v].events # 0 => repairs[v].state.revision <= repairs[v].events

RowsInv ==
  /\ RowsDescribeOneRevision
  /\ DOMAIN history = RowGames
  /\ DOMAIN repairs = Viewers
  /\ ReadsAreOrdered

-----------------------------------------------------------------------------
\* What has not been read is no state of a game.
LEMMA UnreadIsNoState == Unread \notin States
<1>1. DOMAIN Unread = {"read"} /\ "revision" \notin DOMAIN Unread
  BY DEF Unread
<1>2. \A s \in States : "revision" \in DOMAIN s
  BY DEF States
<1> QED
  BY <1>1, <1>2

\* The invariant holds at the start.
LEMMA InitRowsInv == RowsInit => RowsInv
<1> SUFFICES ASSUME RowsInit PROVE RowsInv
  OBVIOUS
<1> PICK old \in SUBSET RowGames, finished \in SUBSET RowGames :
      /\ canonical = [g \in RowGames |->
           IF g \in finished THEN [revision |-> 3, completed |-> TRUE]
                             ELSE [revision |-> 1, completed |-> FALSE]]
      /\ summary = canonical
      /\ history = [g \in RowGames |-> 1..canonical[g].revision]
      /\ participants = RowGames \ old
      /\ scored = finished /\ totals = finished
      /\ repairs = [v \in Viewers |-> NoRepair]
  BY DEF RowsInit
<1>1. canonical \in [RowGames -> States]
  BY DEF States
<1>2. \A g \in RowGames : /\ canonical[g].revision \in Nat \ {0}
                       /\ canonical[g].completed <=> g \in finished
  OBVIOUS
<1>3. \A g \in RowGames : history[g] = 1..canonical[g].revision /\ IsFiniteSet(history[g])
                       /\ history[g] \subseteq Nat \ {0}
  BY <1>2, FS_Interval
<1>4. RowsTyped
  BY <1>1, <1>3 DEF RowsTyped
<1>5. RowsDescribeOneRevision
  BY <1>2, <1>3, <1>4 DEF RowsDescribeOneRevision
<1> QED
  BY <1>5 DEF RowsInv, ReadsAreOrdered

\* Rebuilding from a state the game has had, with as many events as it has
\* revisions, leaves rows of that revision.
LEMMA RebuildDescribes ==
  ASSUME RowsInv, NEW g \in RowGames, NEW state \in States,
         Rebuild(g, state, state.revision),
         canonical' \in [RowGames -> States],
         NotAfter(state, canonical'[g]),
         \A h \in RowGames \ {g} : canonical'[h] = canonical[h],
         \A v \in Viewers :
           repairs'[v] = NoRepair
             \/ repairs'[v] \in [game : RowGames, state : States \cup {Unread}, events : Nat]
  PROVE  RowsDescribeOneRevision' /\ DOMAIN history' = RowGames
<1>1. /\ canonical \in [RowGames -> States] /\ summary \in [RowGames -> States]
      /\ participants \subseteq RowGames /\ DOMAIN history = RowGames
      /\ \A h \in RowGames : /\ history[h] = 1..summary[h].revision
                          /\ IsFiniteSet(history[h]) /\ history[h] \subseteq Nat \ {0}
                          /\ NotAfter(summary[h], canonical[h])
      /\ scored = {h \in RowGames : summary[h].completed} /\ totals = scored
  BY DEF RowsInv, RowsDescribeOneRevision, RowsTyped, NotAfter
<1>2. state.revision \in Nat \ {0} /\ state.completed \in BOOLEAN
  BY DEF States
<1>3. /\ summary' \in [RowGames -> States] /\ summary'[g] = state
      /\ \A h \in RowGames \ {g} : summary'[h] = summary[h]
      /\ DOMAIN history' = RowGames /\ history'[g] = 1..state.revision
      /\ \A h \in RowGames \ {g} : history'[h] = history[h]
      /\ participants' \subseteq RowGames
      /\ scored' = IF state.completed THEN scored \cup {g} ELSE scored \ {g}
      /\ totals' = scored'
  <2>1. (state.revision - state.revision + 1)..state.revision = 1..state.revision
    BY <1>2
  <2> QED
    BY <2>1, <1>1 DEF Rebuild
<1>4. IsFiniteSet(1..state.revision) /\ 1..state.revision \subseteq Nat \ {0}
  <2>1. 1 \in Int /\ state.revision \in Int
    BY <1>2
  <2>2. IsFiniteSet(1..state.revision)
    BY <2>1, FS_Interval
  <2> QED
    BY <1>2, <2>2
<1>5. \A h \in RowGames : /\ history'[h] = 1..summary'[h].revision
                       /\ IsFiniteSet(history'[h]) /\ history'[h] \subseteq Nat \ {0}
                       /\ NotAfter(summary'[h], canonical'[h])
  BY <1>1, <1>3, <1>4
<1>6. scored' = {h \in RowGames : summary'[h].completed}
  BY <1>1, <1>2, <1>3
<1>7. RowsTyped'
  BY <1>3, <1>5, <1>6 DEF RowsTyped
<1> QED
  BY <1>3, <1>5, <1>6, <1>7 DEF RowsDescribeOneRevision, NotAfter

\* A command moves its game on; what repairs have read is still what it was.
LEMMA SubmitKeepsRows ==
  ASSUME RowsInv, NEW g \in RowGames, NEW ends \in BOOLEAN, Submit(g, ends)
  PROVE  RowsInv'
<1> DEFINE state == [revision |-> canonical[g].revision + (IF ends THEN 2 ELSE 1),
                     completed |-> ends]
<1>1. canonical \in [RowGames -> States] /\ canonical[g].revision \in Nat
  BY DEF RowsInv, RowsDescribeOneRevision, RowsTyped, States
<1>2. /\ state \in States /\ state.revision > canonical[g].revision
      /\ canonical' = [canonical EXCEPT ![g] = state] /\ ~canonical[g].completed
      /\ Rebuild(g, state, state.revision) /\ UNCHANGED repairs
  BY <1>1 DEF Submit, States
<1> HIDE DEF state
<1>3. /\ canonical' \in [RowGames -> States] /\ canonical'[g] = state
      /\ \A h \in RowGames \ {g} : canonical'[h] = canonical[h]
  BY <1>1, <1>2
<1>4. NotAfter(state, canonical'[g])
  BY <1>2, <1>3 DEF NotAfter, States
<1>5. \A h \in RowGames : \A old \in States :
        NotAfter(old, canonical[h]) => NotAfter(old, canonical'[h])
  <2> SUFFICES ASSUME NEW h \in RowGames, NEW old \in States, NotAfter(old, canonical[h])
               PROVE  NotAfter(old, canonical'[h])
    OBVIOUS
  <2>1. CASE h = g
    BY <2>1, <1>1, <1>2, <1>3 DEF NotAfter, States
  <2>2. CASE h # g
    BY <2>2, <1>3
  <2> QED
    BY <2>1, <2>2
<1>6. ReadsAreOrdered'
  BY <1>2, <1>5 DEF RowsInv, ReadsAreOrdered
<1>7. RowsDescribeOneRevision' /\ DOMAIN history' = RowGames
  BY <1>2, <1>3, <1>4, RebuildDescribes DEF RowsInv, RowsDescribeOneRevision, RowsTyped
<1> QED
  BY <1>2, <1>6, <1>7 DEF RowsInv

\* The repair writes when it has no more events than revisions; having read the
\* events later, it then has as many.
LEMMA WriteKeepsRows ==
  ASSUME RowsInv, NEW v \in Viewers, Write(v)
  PROVE  RowsInv'
<1> DEFINE r == repairs[v]
<1>1. /\ r # NoRepair /\ r.events # 0 /\ Covers(r)
      /\ Rebuild(r.game, r.state, r.events)
      /\ repairs' = [repairs EXCEPT ![v] = NoRepair] /\ UNCHANGED canonical
  BY DEF Write
<1>2. /\ r.game \in RowGames /\ r.state \in States /\ r.events \in Nat
      /\ NotAfter(r.state, canonical[r.game]) /\ r.state.revision <= r.events
  BY <1>1 DEF RowsInv, ReadsAreOrdered
<1>3. r.events = r.state.revision
  BY <1>1, <1>2 DEF Covers, States
<1>4. /\ DOMAIN repairs' = Viewers
      /\ \A w \in Viewers : repairs'[w] = NoRepair \/ repairs'[w] = repairs[w]
  BY <1>1 DEF RowsInv
<1>5. ReadsAreOrdered'
  BY <1>1, <1>4 DEF RowsInv, ReadsAreOrdered
<1>6. RowsDescribeOneRevision' /\ DOMAIN history' = RowGames
  <2>1. \A w \in Viewers :
          repairs'[w] = NoRepair
            \/ repairs'[w] \in [game : RowGames, state : States \cup {Unread}, events : Nat]
    BY <1>4 DEF RowsInv, RowsDescribeOneRevision, RowsTyped
  <2>2. canonical' = canonical /\ canonical \in [RowGames -> States]
    BY <1>1 DEF RowsInv, RowsDescribeOneRevision, RowsTyped
  <2> QED
    BY <2>1, <2>2, <1>1, <1>2, <1>3, RebuildDescribes
<1> QED
  BY <1>4, <1>5, <1>6 DEF RowsInv

\* A repair that begins, reads or ends touches no row.
LEMMA RepairKeepsRows ==
  ASSUME RowsInv, NEW v \in Viewers, NEW r, repairs' = [repairs EXCEPT ![v] = r],
         UNCHANGED <<canonical, rows>>,
         r # NoRepair =>
           /\ r \in [game : RowGames, state : States \cup {Unread}, events : Nat]
           /\ r.state = Unread => r.events = 0
           /\ r.state # Unread =>
                /\ NotAfter(r.state, canonical[r.game])
                /\ r.events # 0 => r.state.revision <= r.events
  PROVE  RowsInv'
<1>1. /\ DOMAIN repairs' = Viewers /\ repairs'[v] = r
      /\ \A w \in Viewers : w # v => repairs'[w] = repairs[w]
  BY DEF RowsInv
<1>2. UNCHANGED <<canonical, summary, history, participants, scored, totals>>
  BY DEF rows
<1>3. ReadsAreOrdered'
  BY <1>1, <1>2 DEF RowsInv, ReadsAreOrdered
<1>4. RowsTyped'
  BY <1>1, <1>2 DEF RowsInv, RowsDescribeOneRevision, RowsTyped
<1> QED
  BY <1>1, <1>2, <1>3, <1>4 DEF RowsInv, RowsDescribeOneRevision

\* Every step keeps it.
LEMMA NextRowsInv == RowsInv /\ [RowsNext]_rowVars => RowsInv'
<1> SUFFICES ASSUME RowsInv, [RowsNext]_rowVars PROVE RowsInv'
  OBVIOUS
<1> USE UnreadIsNoState
<1>1. ASSUME NEW g \in RowGames, NEW ends \in BOOLEAN, Submit(g, ends)
      PROVE  RowsInv'
  BY <1>1, SubmitKeepsRows
<1>2. ASSUME NEW v \in Viewers, NEW g \in RowGames, BeginRepair(v, g)
      PROVE  RowsInv'
  BY <1>2, RepairKeepsRows DEF BeginRepair
<1>3. ASSUME NEW v \in Viewers, ReadState(v)
      PROVE  RowsInv'
  <2> DEFINE state == canonical[repairs[v].game]
             r == [repairs[v] EXCEPT !.state = state]
  <2>1. /\ repairs[v] # NoRepair /\ repairs[v].state = Unread /\ UNCHANGED <<canonical, rows>>
        /\ repairs' = [repairs EXCEPT ![v] = r]
        /\ repairs[v] \in [game : RowGames, state : States \cup {Unread}, events : Nat]
        /\ repairs[v].events = 0
    BY <1>3 DEF ReadState, RowsInv, ReadsAreOrdered, RowsDescribeOneRevision, RowsTyped
  <2>2. state \in States
    BY <2>1 DEF RowsInv, RowsDescribeOneRevision, RowsTyped
  <2>3. NotAfter(state, state)
    BY <2>2 DEF NotAfter, States
  <2>4. /\ r \in [game : RowGames, state : States \cup {Unread}, events : Nat]
        /\ r.state = state /\ r.game = repairs[v].game /\ r.events = 0
    BY <2>1, <2>2
  <2>5. NotAfter(r.state, canonical[r.game])
    BY <2>3, <2>4
  <2> HIDE DEF r, state
  <2> QED
    BY <2>1, <2>2, <2>4, <2>5, RepairKeepsRows
<1>4. ASSUME NEW v \in Viewers, ReadEvents(v)
      PROVE  RowsInv'
  <2> DEFINE r == [repairs[v] EXCEPT !.events = canonical[repairs[v].game].revision]
  <2>1. /\ repairs[v] # NoRepair /\ repairs[v].state # Unread /\ UNCHANGED <<canonical, rows>>
        /\ repairs' = [repairs EXCEPT ![v] = r]
        /\ repairs[v] \in [game : RowGames, state : States \cup {Unread}, events : Nat]
        /\ NotAfter(repairs[v].state, canonical[repairs[v].game])
    BY <1>4 DEF ReadEvents, RowsInv, ReadsAreOrdered, RowsDescribeOneRevision, RowsTyped
  <2>2. canonical[repairs[v].game].revision \in Nat
    BY <2>1 DEF RowsInv, RowsDescribeOneRevision, RowsTyped, States
  <2>3. /\ r \in [game : RowGames, state : States \cup {Unread}, events : Nat]
        /\ r.state = repairs[v].state /\ r.game = repairs[v].game
        /\ r.events = canonical[repairs[v].game].revision
    BY <2>1, <2>2
  <2>4. r.state.revision <= r.events /\ NotAfter(r.state, canonical[r.game])
    BY <2>1, <2>3 DEF NotAfter
  <2> HIDE DEF r
  <2> QED
    BY <2>1, <2>3, <2>4, RepairKeepsRows
<1>5. ASSUME NEW v \in Viewers, Write(v)
      PROVE  RowsInv'
  BY <1>5, WriteKeepsRows
<1>6. ASSUME NEW v \in Viewers, Abandon(v)
      PROVE  RowsInv'
  BY <1>6, RepairKeepsRows DEF Abandon
<1>7. CASE UNCHANGED rowVars
  <2>1. UNCHANGED <<canonical, summary, history, participants, scored, totals, repairs>>
    BY <1>7 DEF rowVars, rows
  <2> QED
    BY <2>1 DEF RowsInv, RowsDescribeOneRevision, RowsTyped, ReadsAreOrdered
<1> QED
  BY <1>1, <1>2, <1>3, <1>4, <1>5, <1>6, <1>7 DEF RowsNext

-----------------------------------------------------------------------------
\* Whatever repairs and commands overlap, fail or crash, the derived rows of a
\* game describe one revision that it has had, and its scores count once.
THEOREM RowsStayOfOneRevision == RowsSpec => []RowsDescribeOneRevision
<1>1. RowsInv => RowsDescribeOneRevision
  BY DEF RowsInv
<1> QED
  BY <1>1, InitRowsInv, NextRowsInv, PTL DEF RowsSpec

-----------------------------------------------------------------------------
(* Definitions: the rows of the cache and the lock of a word. *)

CacheRows == [status : {"NONE", Found, Missing}, fetched : Int, expires : Int]
RequestStates ==
  {NotAsked}
    \cup [phase : {"waiting", "locked", "calling"}, word : GameWords, now : Nat]
    \cup [phase : {"storing"}, word : GameWords, now : Nat, status : {Found, Missing}]

\* Types of the cache, the locks and the requests.
DefinitionTypes ==
  /\ clock \in Nat
  /\ cache \in [GameWords -> CacheRows]
  /\ holder \in [GameWords -> Requests \cup {Nobody}]
  /\ request \in [Requests -> RequestStates]

\* A request that is past the lock of its word holds it.
LockIsHeld ==
  \A r \in Requests :
    request[r].phase \in {"locked", "calling", "storing"} => holder[request[r].word] = r

\* What the second look found stays so: while a request calls the provider and
\* stores the answer, the row of its word is as dead as the request saw it.
StaleUnderLock ==
  \A r \in Requests :
    request[r].phase \in {"calling", "storing"} => ~IsCached(request[r].word, request[r].now)

CacheInv == DefinitionTypes /\ LockIsHeld /\ StaleUnderLock

-----------------------------------------------------------------------------
\* The invariant holds at the start.
LEMMA InitCacheInv == DefinitionsInit => CacheInv
<1> SUFFICES ASSUME DefinitionsInit PROVE CacheInv
  OBVIOUS
<1>1. NoRow \in CacheRows /\ NotAsked \in RequestStates
  BY DEF NoRow, CacheRows, RequestStates
<1>2. DefinitionTypes
  BY <1>1 DEF DefinitionsInit, DefinitionTypes
<1>3. \A r \in Requests : request[r].phase = "idle"
  BY DEF DefinitionsInit, NotAsked
<1> QED
  BY <1>2, <1>3 DEF CacheInv, LockIsHeld, StaleUnderLock

\* The one step that writes a row: its writer holds the lock, so every other
\* request that relies on a row of the cache relies on another word.
LEMMA StoreKeepsCache ==
  ASSUME CacheInv, NEW r \in Requests, NEW w \in GameWords, Store(r, w)
  PROVE  CacheInv'
<1>1. /\ request[r].phase = "storing" /\ request[r].word = w
      /\ request[r].status \in {Found, Missing} /\ request[r].now \in Nat
  BY DEF Store, Waits, CacheInv, DefinitionTypes, RequestStates, NotAsked
<1>2. Row(request[r].status, request[r].now) \in CacheRows
  BY <1>1, TtlAssumption DEF Row, CacheRows
<1>3. DefinitionTypes'
  BY <1>2 DEF Store, Answer, CacheInv, DefinitionTypes, RequestStates
<1>4. ASSUME NEW q \in Requests, q # r, request[q].phase \in {"locked", "calling", "storing"}
      PROVE  /\ request'[q] = request[q] /\ request[q].word \in GameWords
             /\ holder[request[q].word] = q /\ request[q].word # w
             /\ holder'[request[q].word] = q
  <2>1. request[q].word \in GameWords
    BY <1>4 DEF CacheInv, DefinitionTypes, RequestStates, NotAsked
  <2>2. holder[request[q].word] = q /\ holder[w] = r
    BY <1>1, <1>4 DEF CacheInv, LockIsHeld
  <2> QED
    BY <1>4, <2>1, <2>2 DEF Store, Answer, CacheInv, DefinitionTypes
<1>5. request'[r].phase = "idle" /\ \A q \in Requests : q # r => request'[q] = request[q]
  BY DEF Store, Answer, NotAsked, CacheInv, DefinitionTypes
<1>6. LockIsHeld'
  BY <1>4, <1>5 DEF LockIsHeld
<1>7. StaleUnderLock'
  <2> SUFFICES ASSUME NEW q \in Requests, request'[q].phase \in {"calling", "storing"}
               PROVE  ~(/\ cache'[request'[q].word] # NoRow
                        /\ cache'[request'[q].word].expires > request'[q].now)
    BY DEF StaleUnderLock, IsCached
  <2>1. q # r /\ request'[q] = request[q] /\ request[q].word \in GameWords
        /\ request[q].word # w
    BY <1>4, <1>5
  <2>2. cache'[request[q].word] = cache[request[q].word]
    BY <2>1 DEF Store, CacheInv, DefinitionTypes
  <2>3. ~IsCached(request[q].word, request[q].now)
    BY <2>1 DEF CacheInv, StaleUnderLock
  <2> QED
    BY <2>1, <2>2, <2>3 DEF IsCached
<1> QED
  BY <1>3, <1>6, <1>7 DEF CacheInv

\* A request that answers, or is dropped, takes only its own lock with it.
LEMMA AnswerKeepsCache ==
  ASSUME CacheInv, NEW r \in Requests, Answer(r), UNCHANGED <<cache, clock>>
  PROVE  CacheInv'
<1>1. DefinitionTypes'
  BY DEF Answer, CacheInv, DefinitionTypes, RequestStates
<1>2. request'[r].phase = "idle" /\ \A q \in Requests : q # r => request'[q] = request[q]
  BY DEF Answer, NotAsked, CacheInv, DefinitionTypes
<1>3. ASSUME NEW q \in Requests, q # r, request[q].phase \in {"locked", "calling", "storing"}
      PROVE  holder'[request[q].word] = q
  <2>1. request[q].word \in GameWords
    BY <1>3 DEF CacheInv, DefinitionTypes, RequestStates, NotAsked
  <2>2. holder[request[q].word] = q
    BY <1>3 DEF CacheInv, LockIsHeld
  <2> QED
    BY <1>3, <2>1, <2>2 DEF Answer
<1>4. LockIsHeld'
  BY <1>2, <1>3 DEF LockIsHeld
<1>5. StaleUnderLock'
  BY <1>2 DEF CacheInv, StaleUnderLock, IsCached
<1> QED
  BY <1>1, <1>4, <1>5 DEF CacheInv

\* A request that goes from one phase to the next; `held` and `stale` are what
\* the step has to see to when it enters a phase that claims them.
LEMMA MoveKeepsCache ==
  ASSUME CacheInv, NEW r \in Requests, NEW s \in RequestStates,
         request' = [request EXCEPT ![r] = s],
         UNCHANGED cache, clock' \in Nat,
         holder' \in [GameWords -> Requests \cup {Nobody}],
         \A q \in Requests \ {r} : \A w \in GameWords : holder[w] = q => holder'[w] = q,
         s.phase \in {"locked", "calling", "storing"} => holder'[s.word] = r,
         s.phase \in {"calling", "storing"} => ~IsCached(s.word, s.now)
  PROVE  CacheInv'
<1>1. DefinitionTypes'
  BY DEF CacheInv, DefinitionTypes
<1>2. request'[r] = s /\ \A q \in Requests : q # r => request'[q] = request[q]
  BY DEF CacheInv, DefinitionTypes
<1>3. ASSUME NEW q \in Requests, q # r, request[q].phase \in {"locked", "calling", "storing"}
      PROVE  holder'[request[q].word] = q
  <2>1. request[q].word \in GameWords
    BY <1>3 DEF CacheInv, DefinitionTypes, RequestStates, NotAsked
  <2>2. holder[request[q].word] = q
    BY <1>3 DEF CacheInv, LockIsHeld
  <2> QED
    BY <1>3, <2>1, <2>2
<1>4. LockIsHeld'
  BY <1>2, <1>3 DEF LockIsHeld
<1>5. StaleUnderLock'
  <2> SUFFICES ASSUME NEW q \in Requests, request'[q].phase \in {"calling", "storing"}
               PROVE  ~(/\ cache'[request'[q].word] # NoRow
                        /\ cache'[request'[q].word].expires > request'[q].now)
    BY DEF StaleUnderLock, IsCached
  <2>1. CASE q = r
    BY <1>2, <2>1 DEF IsCached
  <2>2. CASE q # r
    BY <1>2, <2>2 DEF IsCached, CacheInv, StaleUnderLock
  <2> QED
    BY <2>1, <2>2
<1> QED
  BY <1>1, <1>4, <1>5 DEF CacheInv

\* Every step keeps it.
LEMMA NextCacheInv == CacheInv /\ [DefinitionsNext]_definitionVars => CacheInv'
<1> SUFFICES ASSUME CacheInv, [DefinitionsNext]_definitionVars PROVE CacheInv'
  OBVIOUS
<1>1. ASSUME NEW r \in Requests, NEW w \in GameWords, BeginLookup(r, w)
      PROVE  CacheInv'
  <2>1. PICK s \in {NotAsked, [phase |-> "waiting", word |-> w, now |-> clock]} :
          request' = [request EXCEPT ![r] = s]
    BY <1>1 DEF BeginLookup
  <2>2. s \in RequestStates /\ s.phase \in {"idle", "waiting"}
    BY DEF CacheInv, DefinitionTypes, RequestStates, NotAsked
  <2> QED
    BY <1>1, <2>1, <2>2, MoveKeepsCache DEF BeginLookup, CacheInv, DefinitionTypes
<1>2. ASSUME NEW r \in Requests, NEW w \in GameWords, Lock(r, w)
      PROVE  CacheInv'
  <2> DEFINE s == [request[r] EXCEPT !.phase = "locked"]
  <2>1. s \in RequestStates /\ s.phase = "locked" /\ s.word = w
    BY <1>2 DEF Lock, Waits, CacheInv, DefinitionTypes, RequestStates, NotAsked
  <2>2. /\ request' = [request EXCEPT ![r] = s]
        /\ holder' = [holder EXCEPT ![w] = r] /\ holder[w] = Nobody
        /\ UNCHANGED <<cache, clock>>
    BY <1>2 DEF Lock, Goto, CacheInv, DefinitionTypes
  <2> HIDE DEF s
  <2> QED
    BY <2>1, <2>2, HolderAssumption, MoveKeepsCache DEF CacheInv, DefinitionTypes
<1>3. ASSUME NEW r \in Requests, NEW w \in GameWords, LookAgain(r, w)
      PROVE  CacheInv'
  <2>1. CASE IsCached(w, request[r].now) \/ ~Enabled
    BY <1>3, <2>1, AnswerKeepsCache DEF LookAgain
  <2>2. CASE ~(IsCached(w, request[r].now) \/ ~Enabled)
    <3> DEFINE s == [request[r] EXCEPT !.phase = "calling"]
    <3>1. /\ s \in RequestStates /\ s.phase = "calling" /\ s.word = w
          /\ s.now = request[r].now
          /\ request[r].phase = "locked" /\ request[r].word = w
      BY <1>3 DEF LookAgain, Waits, CacheInv, DefinitionTypes, RequestStates, NotAsked
    <3>2. /\ request' = [request EXCEPT ![r] = s]
          /\ UNCHANGED <<holder, cache, clock>>
      BY <1>3, <2>2 DEF LookAgain, Goto, CacheInv, DefinitionTypes
    <3>3. holder[w] = r /\ ~IsCached(s.word, s.now)
      BY <3>1, <2>2 DEF CacheInv, LockIsHeld
    <3> HIDE DEF s
    <3> QED
      BY <3>1, <3>2, <3>3, MoveKeepsCache DEF CacheInv, DefinitionTypes
  <2> QED
    BY <2>1, <2>2
<1>4. ASSUME NEW r \in Requests, NEW w \in GameWords, NEW response \in Responses,
             Call(r, w, response)
      PROVE  CacheInv'
  <2>1. CASE ~(Outcome(response) \in {Found, Missing})
    BY <1>4, <2>1, AnswerKeepsCache DEF Call
  <2>2. CASE Outcome(response) \in {Found, Missing}
    <3> DEFINE s == [phase |-> "storing", word |-> w, now |-> request[r].now,
                     status |-> Outcome(response)]
    <3>1. /\ request[r].phase = "calling" /\ request[r].word = w
          /\ request[r].now \in Nat
      BY <1>4 DEF Call, Waits, CacheInv, DefinitionTypes, RequestStates, NotAsked
    <3>2. s \in RequestStates /\ s.phase = "storing" /\ s.word = w /\ s.now = request[r].now
      BY <3>1, <2>2 DEF RequestStates
    <3>3. /\ request' = [request EXCEPT ![r] = s]
          /\ UNCHANGED <<holder, cache, clock>>
      BY <1>4, <2>2 DEF Call, CacheInv, DefinitionTypes
    <3>4. holder[w] = r /\ ~IsCached(s.word, s.now)
      BY <3>1, <3>2 DEF CacheInv, LockIsHeld, StaleUnderLock
    <3> HIDE DEF s
    <3> QED
      BY <3>2, <3>3, <3>4, MoveKeepsCache DEF CacheInv, DefinitionTypes
  <2> QED
    BY <2>1, <2>2
<1>5. ASSUME NEW r \in Requests, NEW w \in GameWords, Store(r, w)
      PROVE  CacheInv'
  BY <1>5, StoreKeepsCache
<1>6. ASSUME NEW r \in Requests, AbandonRequest(r)
      PROVE  CacheInv'
  BY <1>6, AnswerKeepsCache DEF AbandonRequest
<1>7. CASE Tick
  BY <1>7 DEF Tick, CacheInv, DefinitionTypes, LockIsHeld, StaleUnderLock, IsCached
<1>8. ASSUME NEW w \in GameWords, PlayWord(w)
      PROVE  CacheInv'
  BY <1>8 DEF PlayWord, CacheInv, DefinitionTypes, LockIsHeld, StaleUnderLock, IsCached
<1>9. CASE UNCHANGED definitionVars
  BY <1>9 DEF definitionVars, CacheInv, DefinitionTypes, LockIsHeld, StaleUnderLock, IsCached
<1> QED
  BY <1>1, <1>2, <1>3, <1>4, <1>5, <1>6, <1>7, <1>8, <1>9 DEF DefinitionsNext

-----------------------------------------------------------------------------
\* However many requests overlap and however long each waits, no row is
\* replaced before it has expired, and none by an answer older than itself.
THEOREM RowsLiveOutTheirTime == DefinitionsSpec => RowsLiveOut
<1>1. CacheInv /\ [DefinitionsNext]_definitionVars =>
        [\A w \in GameWords :
           cache'[w] # cache[w] /\ cache[w] # NoRow =>
             cache'[w].fetched >= cache[w].expires]_cache
  <2> SUFFICES ASSUME CacheInv, [DefinitionsNext]_definitionVars, cache' # cache,
                      NEW v \in GameWords, cache'[v] # cache[v], cache[v] # NoRow
               PROVE  cache'[v].fetched >= cache[v].expires
    OBVIOUS
  <2>1. PICK r \in Requests, w \in GameWords : Store(r, w)
    BY DEF DefinitionsNext, definitionVars, Tick, PlayWord, BeginLookup, Lock, LookAgain,
           Call, AbandonRequest
  <2>2. /\ v = w /\ cache'[w] = Row(request[r].status, request[r].now)
    BY <2>1 DEF Store, CacheInv, DefinitionTypes
  <2>3. /\ request[r].phase = "storing" /\ request[r].word = w /\ request[r].now \in Nat
    BY <2>1 DEF Store, Waits, CacheInv, DefinitionTypes, RequestStates, NotAsked
  <2>4. ~(cache[w].expires > request[r].now)
    BY <2>2, <2>3 DEF CacheInv, StaleUnderLock, IsCached
  <2>5. cache[w].expires \in Int
    BY DEF CacheInv, DefinitionTypes, CacheRows
  <2> QED
    BY <2>2, <2>3, <2>4, <2>5 DEF Row
<1> QED
  BY <1>1, InitCacheInv, NextCacheInv, PTL DEF DefinitionsSpec, RowsLiveOut

-----------------------------------------------------------------------------
(* TurnPage: a turn is composed. *)

NoRepeats(s) == \A i, j \in 1..Len(s) : s[i] = s[j] => i = j
Lists(s, rack) == s \in Seq(RackTiles) /\ TilesOf(s) = rack /\ NoRepeats(s)

\* What the fields of games, drafts, pages and requests range over.
GameStates ==
  [rack : SUBSET RackTiles, bag : SUBSET RackTiles, board : SUBSET BoardSquares,
   myTurn : BOOLEAN, completed : BOOLEAN]

Modes == {"Play", "Exchange", "ConfirmExchange", "ConfirmPass", "ConfirmResign"}
Placed == [tile : RackTiles, square : BoardSquares, lettered : BOOLEAN]
Drafts ==
  [selected : RackTiles \cup {NoTile}, letter : BOOLEAN, placements : SUBSET Placed,
   rackTile : RackTiles \cup {NoTile}, exchange : SUBSET RackTiles, mode : Modes]

TilePosts ==
  [action : {"REMOVE_TILE", "TOGGLE_EXCHANGE", "SWAP_RACK_TILES", "PICK_RACK_TILE"},
   tile : RackTiles]
SquarePosts == [action : {"PLACE_TILE"}, square : BoardSquares]
PlainPosts ==
  [action : {"ZOOM", "SHUFFLE_RACK", "CLEAR", "BEGIN_EXCHANGE", "CONFIRM_PASS",
             "CONFIRM_RESIGN", "REVIEW_EXCHANGE", "CANCEL_MODE", "CANCEL_TILE_PICK",
             "CHOOSE_BLANK_LETTER"}]
Posts == TilePosts \cup SquarePosts \cup PlainPosts
TurnPosts ==
  [name : {"PLAY"}, placements : SUBSET Placed] \cup [name : {"EXCHANGE"},
                                                      tiles : SUBSET RackTiles]
    \cup [name : {"PASS", "RESIGN"}]

TurnPages ==
  [revision : Nat, order : Seq(RackTiles), draft : Drafts, rearranged : BOOLEAN]
TurnRequests ==
  [kind : {"open", "compose", "turn"},
   phase : {"game", "order", "handle", "save", "persist", "commit", "clear"},
   draft : Drafts, expected : Nat, revision : Nat, order : Seq(RackTiles),
   form : Posts \cup TurnPosts \cup {NoChoice}, reloads : BOOLEAN, rearranged : BOOLEAN]

\* What DraftsAreCoherent asks of a draft.
Coherent(d) ==
  /\ d.rackTile # NoTile => d.selected = d.rackTile
  /\ \A p, q \in d.placements : p.tile = q.tile \/ p.square = q.square => p = q
  /\ \A p \in d.placements : p.lettered => p.tile \in BlankTiles
  /\ d.exchange # {} => d.mode \in {"Exchange", "ConfirmExchange"}
  /\ d.mode = "Exchange" => d.placements = {} /\ d.selected = NoTile

\* The draft plans with what the game has.
Held(d, g) ==
  /\ d.selected \in g.rack \cup {NoTile}
  /\ Fits(d.placements, g) /\ d.exchange \subseteq g.rack

\* What is so of a form that a page of game g with draft d offers.
Offered(form, d, g) ==
  /\ form \in Posts
  /\ form.action = "REMOVE_TILE" => \E p \in d.placements : p.tile = form.tile
  /\ form.action \in {"BEGIN_EXCHANGE", "CONFIRM_PASS", "CONFIRM_RESIGN"} => d.mode = "Play"
  /\ form.action \in {"REVIEW_EXCHANGE", "TOGGLE_EXCHANGE"} => d.mode = "Exchange"
  /\ form.action \in {"PICK_RACK_TILE", "SWAP_RACK_TILES"} => d.mode # "Exchange"
  /\ form.action \in {"TOGGLE_EXCHANGE", "PICK_RACK_TILE", "SWAP_RACK_TILES"} =>
       form.tile \in g.rack

\* s lists the rack of some game from revision n on.
ListsSince(s, n, committed) == \E k \in n..Len(committed) : Lists(s, committed[k].rack)

SoundPage(p, committed) ==
  p # NoPage =>
    /\ p.revision \in 1..Len(committed) /\ Coherent(p.draft)
    /\ ListsSince(p.order, p.revision, committed)
    /\ ~p.rearranged => Held(p.draft, committed[p.revision])

SoundRequest(r, committed) ==
  r # NoRequest =>
    /\ Coherent(r.draft)
    /\ r.phase \in {"order", "handle", "save", "persist"} => r.revision \in 1..Len(committed)
    /\ r.phase \in {"handle", "save", "persist"} => ListsSince(r.order, r.revision, committed)
    /\ r.phase = "persist" /\ ~r.rearranged => Held(r.draft, committed[r.revision])
    /\ r.kind = "turn" => r.form \in TurnPosts
    /\ r.kind = "compose" =>
         /\ r.expected \in 1..Len(committed) /\ (r.phase = "game" => r.reloads)
         /\ r.phase \in {"order", "handle"} /\ ~r.reloads =>
              Offered(r.form, r.draft, committed[r.expected])
         /\ r.phase # "persist" /\ ~r.rearranged => Held(r.draft, committed[r.expected])
         /\ r.phase = "save" =>
              /\ r.revision = r.expected /\ Rearranges(r.form, r.draft)
              /\ r.form.action = "SWAP_RACK_TILES" =>
                   {r.draft.rackTile, r.form.tile} \subseteq TilesOf(r.order)

SoundPlan == plan # NoPlan => plan \in [revision : Nat, draft : Drafts] /\ Coherent(plan.draft)
SoundOrder == order \in Seq(RackTiles) /\ NoRepeats(order)

\* A turn that is to be committed is the one its page shows.
SoundTurn(t) ==
  At(t, {"turn"}, "commit") =>
    /\ page[t] # NoPage /\ req[t].expected = page[t].revision
    /\ req[t].form = TurnCommand(page[t])

TurnInv ==
  /\ games \in Seq(GameStates) /\ games # <<>>
  /\ SoundPlan /\ SoundOrder
  /\ page \in [Tabs -> TurnPages \cup {NoPage}]
      /\ req \in [Tabs -> TurnRequests \cup {NoRequest}]
  /\ \A t \in Tabs : SoundPage(page[t], games) /\ SoundRequest(req[t], games) /\ SoundTurn(t)

\* A non-empty set of naturals has a least element.
LEMMA LeastOfNaturals ==
  ASSUME NEW S \in SUBSET Nat, S # {}
  PROVE  \E m \in S : \A k \in S : m <= k
<1> DEFINE Segments == {1..k : k \in S}
<1>1. Segments \subseteq FiniteSubsetsOf(Nat) /\ Segments # {}
  <2>1. \A k \in S : 1..k \in SUBSET Nat /\ IsFiniteSet(1..k)
    BY FS_Interval
  <2>2. \A k \in S : 1..k \in FiniteSubsetsOf(Nat)
    BY <2>1 DEF FiniteSubsetsOf
  <2> QED
    BY <2>2
<1>2. PICK x \in Segments : \A y \in Segments : <<y, x>> \notin StrictSubsetOrdering(Nat)
  <2> HIDE DEF Segments
  <2> QED
    BY <1>1, FS_StrictSubsetOrderingWellFounded, WFMin
<1>3. PICK m \in S : x = 1..m
  BY DEF Segments
<1>4. ASSUME NEW k \in S, k < m
      PROVE  FALSE
  <2>1. 1..k \subseteq 1..m /\ m \in 1..m /\ m \notin 1..k
    BY <1>4
  <2>2. <<1..k, x>> \in StrictSubsetOrdering(Nat)
    BY <2>1, <1>3 DEF StrictSubsetOrdering
  <2> QED
    BY <2>2, <1>2
<1> QED
  BY <1>4

\* f holds what is kept of the first 0, 1, ..., Len(s) tiles.
KeptOf(f, s, rack) ==
  f = [n \in 0..Len(s) |->
         IF n = 0 THEN <<>>
         ELSE IF s[n] \in rack THEN Append(f[n - 1], s[n]) ELSE f[n - 1]]

\* The function OnRack is defined by exists.
LEMMA KeptExists ==
  ASSUME NEW s \in Seq(RackTiles), NEW rack
  PROVE  \E f : KeptOf(f, s, rack)
<1> DEFINE Step(before, n) == IF s[n] \in rack THEN Append(before, s[n]) ELSE before
           Upto(f, m) == f = [n \in 0..m |-> IF n = 0 THEN <<>> ELSE Step(f[n - 1], n)]
           Bad == {m \in 0..Len(s) : ~ \E f : Upto(f, m)}
<1>1. Len(s) \in Nat
  BY LenProperties
<1> HIDE DEF Step
<1>2. \E f : Upto(f, 0)
  <2> WITNESS [n \in 0..0 |-> <<>>]
  <2> QED
    OBVIOUS
<1>3. ASSUME NEW m \in 1..Len(s), NEW f, Upto(f, m - 1)
      PROVE  \E h : Upto(h, m)
  <2> DEFINE h == [n \in 0..m |-> IF n = m THEN Step(f[m - 1], m) ELSE f[n]]
  <2>1. \A n \in 0..(m - 1) : f[n] = IF n = 0 THEN <<>> ELSE Step(f[n - 1], n)
    <3> HIDE DEF h
    <3> QED
      BY <1>3
  <2>2. ASSUME NEW n \in 0..m
        PROVE  h[n] = IF n = 0 THEN <<>> ELSE Step(h[n - 1], n)
    <3>1. CASE n = m
      <4>1. h[n] = Step(f[m - 1], m) /\ m - 1 \in 0..m /\ m - 1 # m
        BY <3>1, <1>1
      <4>2. h[m - 1] = f[m - 1]
        BY <4>1
      <4> QED
        BY <4>1, <4>2, <3>1
    <3>2. CASE n = 0
      BY <3>2, <2>1
    <3>3. CASE n # 0 /\ n # m
      <4>1. n \in 0..(m - 1) /\ n - 1 \in 0..m /\ n - 1 # m
        BY <3>3, <1>1
      <4>2. h[n] = f[n] /\ h[n - 1] = f[n - 1]
        BY <4>1, <3>3
      <4> HIDE DEF h
      <4> QED
        BY <4>1, <4>2, <3>3, <2>1
    <3> QED
      BY <3>1, <3>2, <3>3
  <2>3. h = [n \in 0..m |-> h[n]]
    OBVIOUS
  <2> HIDE DEF h
  <2>4. Upto(h, m)
    BY <2>2, <2>3
  <2> QED
    BY <2>4
<1>4. Bad = {}
  <2> SUFFICES ASSUME Bad # {} PROVE FALSE
    OBVIOUS
  <2> HIDE DEF Upto
  <2>1. PICK m \in Bad : \A k \in Bad : m <= k
    <3>1. Bad \in SUBSET Nat
      BY <1>1
    <3> HIDE DEF Bad
    <3> QED
      BY <3>1, LeastOfNaturals
  <2>2. m \in 1..Len(s)
    BY <1>2, <1>1
  <2>3. m - 1 \in 0..Len(s) /\ ~(m <= m - 1)
    BY <2>2, <1>1
  <2>4. \E f : Upto(f, m - 1)
    BY <2>1, <2>3
  <2> QED
    BY <2>4, <2>2, <1>3
<1>5. \E f : Upto(f, Len(s))
  <2> HIDE DEF Upto
  <2> QED
    BY <1>4, <1>1
<1> QED
  BY <1>5 DEF KeptOf, Step

\* What is kept of an order are its tiles that are on the rack, once each.
LEMMA OnRackKeeps ==
  ASSUME NEW s \in Seq(RackTiles), NEW rack
  PROVE  LET kept == OnRack(s, rack)
         IN  /\ kept \in Seq(RackTiles) /\ TilesOf(kept) = TilesOf(s) \cap rack
             /\ NoRepeats(s) => NoRepeats(kept)
<1> DEFINE f == CHOOSE f : KeptOf(f, s, rack)
           Holds(n) == /\ f[n] \in Seq(RackTiles)
                       /\ \A t : t \in TilesOf(f[n]) <=> t \in rack /\ \E i \in 1..n : s[i] = t
                       /\ NoRepeats(s) => NoRepeats(f[n])
           Bad == {n \in 0..Len(s) : ~Holds(n)}
<1>1. /\ Len(s) \in Nat /\ DOMAIN s = 1..Len(s) /\ \A i \in 1..Len(s) : s[i] \in RackTiles
  BY LenProperties, ElementOfSeq
<1>2. KeptOf(f, s, rack)
  BY KeptExists
<1>3. OnRack(s, rack) = f[Len(s)]
  BY DEF OnRack, KeptOf
<1>4. \A n \in 0..Len(s) :
        f[n] = IF n = 0 THEN <<>>
               ELSE IF s[n] \in rack THEN Append(f[n - 1], s[n]) ELSE f[n - 1]
  BY <1>2 DEF KeptOf
<1> HIDE DEF f
<1>5. Holds(0)
  <2>1. f[0] = <<>> /\ Len(<<>>) = 0 /\ DOMAIN <<>> = {}
    BY <1>1, <1>4
  <2> QED
    BY <2>1 DEF TilesOf, NoRepeats
<1>6. ASSUME NEW n \in 1..Len(s), Holds(n - 1)
      PROVE  Holds(n)
  <2> DEFINE before == f[n - 1]
  <2>1. n \in 0..Len(s) /\ n # 0 /\ n - 1 \in Nat
    BY <1>1
  <2>2. /\ before \in Seq(RackTiles)
        /\ \A t : t \in TilesOf(before) <=> t \in rack /\ \E i \in 1..(n - 1) : s[i] = t
        /\ NoRepeats(s) => NoRepeats(before)
    BY <1>6
  <2>3. \A i : i \in 1..n <=> i \in 1..(n - 1) \/ i = n
    BY <2>1
  <2>4. CASE s[n] \notin rack
    <3>1. f[n] = before
      BY <2>1, <2>4, <1>4
    <3> QED
      BY <3>1, <2>2, <2>3, <2>4
  <2>5. CASE s[n] \in rack
    <3> DEFINE after == Append(before, s[n])
    <3>1. f[n] = after
      BY <2>1, <2>5, <1>4
    <3> HIDE DEF before
    <3>2. /\ Len(before) \in Nat /\ DOMAIN before = 1..Len(before)
          /\ after \in Seq(RackTiles) /\ Len(after) = Len(before) + 1
          /\ DOMAIN after = 1..(Len(before) + 1)
          /\ after[Len(before) + 1] = s[n]
          /\ \A i \in 1..Len(before) : after[i] = before[i]
      BY <2>2, <1>1, LenProperties, AppendProperties
    <3> HIDE DEF after
    <3>3. \A i : i \in 1..(Len(before) + 1) <=> i \in 1..Len(before) \/ i = Len(before) + 1
      BY <3>2
    <3>4. \A t : t \in TilesOf(after) <=> t \in TilesOf(before) \/ t = s[n]
      BY <3>2, <3>3 DEF TilesOf
    <3>5. \A t : t \in TilesOf(after) <=> t \in rack /\ \E i \in 1..n : s[i] = t
      BY <3>4, <2>2, <2>3, <2>5
    <3>6. NoRepeats(s) => NoRepeats(after)
      <4> SUFFICES ASSUME NoRepeats(s), NEW i \in 1..Len(after), NEW j \in 1..Len(after),
                          after[i] = after[j]
                   PROVE  i = j
        BY DEF NoRepeats
      <4>1. s[n] \notin TilesOf(before)
        <5>1. \A k \in 1..(n - 1) : k \in 1..Len(s) /\ k # n
          BY <1>1
        <5> QED
          BY <5>1, <2>2 DEF NoRepeats
      <4>2. \A k \in 1..Len(before) : before[k] \in TilesOf(before)
        BY <3>2 DEF TilesOf
      <4>3. NoRepeats(before)
        BY <2>2
      <4> QED
        BY <4>1, <4>2, <4>3, <3>2, <3>3 DEF NoRepeats
    <3> QED
      BY <3>1, <3>2, <3>5, <3>6
  <2> QED
    BY <2>4, <2>5
<1>7. Bad = {}
  <2> SUFFICES ASSUME Bad # {} PROVE FALSE
    OBVIOUS
  <2> HIDE DEF Holds
  <2>1. PICK n \in Bad : \A k \in Bad : n <= k
    <3>1. Bad \in SUBSET Nat
      BY <1>1
    <3> HIDE DEF Bad
    <3> QED
      BY <3>1, LeastOfNaturals
  <2>2. n \in 1..Len(s)
    BY <1>5, <1>1
  <2>3. n - 1 \in 0..Len(s) /\ ~(n <= n - 1)
    BY <2>2, <1>1
  <2>4. Holds(n - 1)
    BY <2>1, <2>3
  <2> QED
    BY <2>4, <2>2, <1>6
<1>8. Holds(Len(s))
  <2> HIDE DEF Holds
  <2> QED
    BY <1>1, <1>7
<1>9. TilesOf(f[Len(s)]) = TilesOf(s) \cap rack
  <2>1. \A t : t \in TilesOf(s) <=> \E i \in 1..Len(s) : s[i] = t
    BY <1>1 DEF TilesOf
  <2> QED
    BY <2>1, <1>8
<1> QED
  BY <1>3, <1>8, <1>9

\* Racks are finite.
LEMMA RackIsFinite ==
  ASSUME NEW S \in SUBSET RackTiles
  PROVE  IsFiniteSet(S) /\ Cardinality(S) \in Nat
BY RackAssumption, FS_Subset, FS_CardinalityType

\* The sequences of the right length that list a set.
Orders(S) == {s \in [1..Cardinality(S) -> S] : TilesOf(s) = S}

IsAscending(s) == \A i, j \in DOMAIN s : i < j => s[i] < s[j]

\* Every set of tiles can be listed in the order of their numbers.
LEMMA AscendingOfRack ==
  ASSUME NEW T \in SUBSET RackTiles
  PROVE  Lists(AscendingTiles(T), T)
<1> DEFINE Unsorted(S) == ~ \E s \in Orders(S) : IsAscending(s)
           Bad == {Cardinality(S) : S \in {R \in SUBSET RackTiles : Unsorted(R)}}
<1>1. ASSUME Bad # {}
      PROVE  FALSE
  <2>1. Bad \in SUBSET Nat
    BY RackIsFinite
  <2>2. PICK n \in Bad : \A k \in Bad : n <= k
    <3> HIDE DEF Bad
    <3> QED
      BY <2>1, <1>1, LeastOfNaturals
  <2>3. PICK S \in SUBSET RackTiles : Unsorted(S) /\ Cardinality(S) = n
    OBVIOUS
  <2>4. n \in Nat /\ IsFiniteSet(S)
    BY <2>3, RackIsFinite
  <2>5. S # {}
    <3>1. SUFFICES ASSUME S = {} PROVE FALSE
      OBVIOUS
    <3>2. <<>> \in [1..0 -> S] /\ Len(<<>>) = 0
      BY <3>1
    <3>3. Cardinality(S) = 0
      BY <3>1, FS_EmptySet
    <3>4. <<>> \in Orders(S) /\ IsAscending(<<>>)
      BY <3>1, <3>2, <3>3 DEF Orders, TilesOf, IsAscending
    <3> QED
      BY <3>4, <2>3
  <2>6. PICK m \in S : \A x \in S : m <= x
    BY <2>5, LeastOfNaturals, RackAssumption
  <2> DEFINE R == S \ {m}
  <2>7. Cardinality(R) = n - 1 /\ R \in SUBSET RackTiles /\ Cardinality(R) \in Nat
    BY <2>3, <2>4, <2>6, FS_RemoveElement, RackIsFinite
  <2>8. PICK s \in Orders(R) : IsAscending(s)
    <3>1. n - 1 \notin Bad
      BY <2>2, <2>4
    <3> QED
      BY <3>1, <2>7
  <2>9. /\ s \in [1..(n - 1) -> R] /\ Len(s) = n - 1
        /\ R = {s[i] : i \in 1..(n - 1)}
        /\ \A i, j \in 1..(n - 1) : i < j => s[i] < s[j]
    <3>1. s \in [1..Cardinality(R) -> R] /\ TilesOf(s) = R
      BY DEF Orders
    <3>2. s \in [1..(n - 1) -> R]
      BY <3>1, <2>7
    <3>3. Len(s) = n - 1
      BY <3>2, <2>7
    <3> QED
      BY <3>1, <3>2, <3>3, <2>8 DEF TilesOf, IsAscending
  <2> DEFINE h == [i \in 1..n |-> IF i = 1 THEN m ELSE s[i - 1]]
  <2>10. /\ h \in [1..n -> S] /\ Len(h) = n
         /\ h[1] = m /\ 1 \in 1..n
         /\ \A i \in 1..n : i # 1 => h[i] = s[i - 1] /\ i - 1 \in 1..(n - 1)
    <3>1. n >= 1
      BY <2>7, <2>4
    <3>2. \A i \in 1..n : i # 1 => h[i] = s[i - 1] /\ i - 1 \in 1..(n - 1)
      BY <2>4
    <3>3. \A i \in 1..n : h[i] \in S
      BY <3>2, <2>9, <2>6
    <3>4. h[1] = m
      BY <3>1, <2>4
    <3>5. h \in [1..n -> S]
      BY <3>3
    <3>6. Len(h) = n
      BY <3>5, <2>4
    <3> QED
      BY <3>1, <3>2, <3>4, <3>5, <3>6, <2>4
  <2> HIDE DEF h
  <2>11. TilesOf(h) = S
    <3>1. S \subseteq TilesOf(h)
      <4>1. ASSUME NEW x \in R
            PROVE  x \in TilesOf(h)
        <5>1. PICK i \in 1..(n - 1) : s[i] = x
          BY <2>9
        <5>2. i + 1 \in 1..n /\ i + 1 # 1 /\ (i + 1) - 1 = i
          BY <2>4
        <5>3. h[i + 1] = x
          BY <5>1, <5>2, <2>10
        <5> QED
          BY <5>2, <5>3, <2>10 DEF TilesOf
      <4>2. m \in TilesOf(h)
        BY <2>10 DEF TilesOf
      <4> QED
        BY <4>1, <4>2
    <3> QED
      BY <3>1, <2>10 DEF TilesOf
  <2>12. IsAscending(h)
    <3>1. SUFFICES ASSUME NEW i \in 1..n, NEW j \in 1..n, i < j
                   PROVE  h[i] < h[j]
      BY <2>10 DEF IsAscending
    <3>2. j # 1 /\ h[j] = s[j - 1] /\ j - 1 \in 1..(n - 1)
      BY <3>1, <2>10, <2>4
    <3>3. CASE i = 1
      <4>1. h[j] \in R /\ m \in Nat
        BY <3>2, <2>9, RackAssumption
      <4>2. m <= h[j] /\ m # h[j] /\ h[j] \in Nat
        BY <4>1, <2>6, RackAssumption
      <4> QED
        BY <4>1, <4>2, <3>3, <2>10
    <3>4. CASE i # 1
      <4>1. h[i] = s[i - 1] /\ i - 1 \in 1..(n - 1) /\ i - 1 < j - 1
        BY <3>1, <3>4, <2>10, <2>4
      <4> QED
        BY <4>1, <3>2, <2>9
    <3> QED
      BY <3>3, <3>4
  <2>13. h \in Orders(S)
    BY <2>10, <2>11, <2>3 DEF Orders
  <2> QED
    BY <2>12, <2>13, <2>3
<1>2. \E s \in [1..Cardinality(T) -> T] :
        TilesOf(s) = T /\ \A i, j \in DOMAIN s : i < j => s[i] < s[j]
  BY <1>1 DEF Orders, IsAscending
<1> DEFINE s == AscendingTiles(T)
<1>3. /\ s \in [1..Cardinality(T) -> T] /\ TilesOf(s) = T
      /\ \A i, j \in DOMAIN s : i < j => s[i] < s[j]
  BY <1>2 DEF AscendingTiles
<1> HIDE DEF s
<1>4. s \in Seq(RackTiles) /\ Len(s) = Cardinality(T) /\ DOMAIN s = 1..Cardinality(T)
  BY <1>3, RackIsFinite
<1>5. NoRepeats(s)
  <2>1. \A i \in 1..Len(s) : s[i] \in Nat
    BY <1>3, <1>4, RackAssumption
  <2>2. Len(s) \in Nat
    BY <1>4, RackIsFinite
  <2> QED
    BY <1>3, <1>4, <2>1, <2>2 DEF NoRepeats
<1> QED
  BY <1>3, <1>4, <1>5 DEF Lists, s

\* An order that is reconciled lists the rack.
LEMMA ReconciledLists ==
  ASSUME NEW s \in Seq(RackTiles), NoRepeats(s), NEW rack \in SUBSET RackTiles
  PROVE  Lists(ReconcileRackOrder(s, rack), rack)
<1> DEFINE old == OnRack(s, rack)
           new == AscendingTiles(rack \ TilesOf(s))
           both == old \o new
<1>1. old \in Seq(RackTiles) /\ TilesOf(old) = TilesOf(s) \cap rack /\ NoRepeats(old)
  BY OnRackKeeps
<1>2. new \in Seq(RackTiles) /\ TilesOf(new) = rack \ TilesOf(s) /\ NoRepeats(new)
  BY AscendingOfRack DEF Lists
<1> HIDE DEF old, new
<1>3. /\ both \in Seq(RackTiles) /\ Len(both) = Len(old) + Len(new)
      /\ Len(old) \in Nat /\ Len(new) \in Nat
      /\ \A i \in 1..Len(old) : both[i] = old[i]
      /\ \A i \in 1..Len(new) : both[Len(old) + i] = new[i]
      /\ DOMAIN both = 1..Len(both) /\ DOMAIN old = 1..Len(old) /\ DOMAIN new = 1..Len(new)
  BY <1>1, <1>2, ConcatProperties, LenProperties
<1> HIDE DEF both
<1>4. \A i \in 1..Len(both) : i \in 1..Len(old)
      \/ (i - Len(old) \in 1..Len(new) /\ i = Len(old) + (i - Len(old)))
  BY <1>3
<1>5. /\ \A i \in 1..Len(old) : i \in 1..Len(both) /\ both[i] \in TilesOf(old)
      /\ \A i \in 1..Len(new) : Len(old) + i \in 1..Len(both)
          /\ both[Len(old) + i] \in TilesOf(new)
  <2>1. /\ \A i \in 1..Len(old) : old[i] \in TilesOf(old)
        /\ \A i \in 1..Len(new) : new[i] \in TilesOf(new)
    BY <1>3 DEF TilesOf
  <2>2. /\ \A i \in 1..Len(old) : i \in 1..Len(both)
        /\ \A i \in 1..Len(new) : Len(old) + i \in 1..Len(both)
    BY <1>3
  <2> QED
    BY <2>1, <2>2, <1>3
<1>6. TilesOf(both) = TilesOf(old) \cup TilesOf(new)
  <2>1. ASSUME NEW t \in TilesOf(both)
        PROVE  t \in TilesOf(old) \cup TilesOf(new)
    <3>1. PICK i \in 1..Len(both) : both[i] = t
      BY <1>3 DEF TilesOf
    <3> QED
      BY <3>1, <1>4, <1>5
  <2>2. ASSUME NEW t \in TilesOf(old)
        PROVE  t \in TilesOf(both)
    BY <1>3, <1>5 DEF TilesOf
  <2>3. ASSUME NEW t \in TilesOf(new)
        PROVE  t \in TilesOf(both)
    <3>1. PICK i \in 1..Len(new) : new[i] = t
      BY <1>3 DEF TilesOf
    <3>2. Len(old) + i \in DOMAIN both /\ both[Len(old) + i] = t
      BY <3>1, <1>3, <1>5
    <3> QED
      BY <3>2 DEF TilesOf
  <2> QED
    BY <2>1, <2>2, <2>3
<1>7. NoRepeats(both)
  <2> SUFFICES ASSUME NEW i \in 1..Len(both), NEW j \in 1..Len(both), both[i] = both[j]
               PROVE  i = j
    BY DEF NoRepeats
  <2>1. TilesOf(old) \cap TilesOf(new) = {}
    BY <1>1, <1>2
  <2>2. CASE i \in 1..Len(old) /\ j \in 1..Len(old)
    BY <2>2, <1>1, <1>3 DEF NoRepeats
  <2>3. CASE i \notin 1..Len(old) /\ j \notin 1..Len(old)
    <3>1. i - Len(old) \in 1..Len(new) /\ j - Len(old) \in 1..Len(new)
          /\ both[i] = new[i - Len(old)] /\ both[j] = new[j - Len(old)]
      BY <2>3, <1>3, <1>4
    <3>2. i - Len(old) = j - Len(old)
      BY <3>1, <1>2 DEF NoRepeats
    <3> QED
      BY <3>2, <1>3
  <2>4. CASE ~(i \in 1..Len(old) <=> j \in 1..Len(old))
    BY <2>1, <2>4, <1>4, <1>5
  <2> QED
    BY <2>2, <2>3, <2>4
<1>8. Lists(both, rack)
  BY <1>1, <1>2, <1>3, <1>6, <1>7 DEF Lists
<1> QED
  BY <1>8 DEF ReconcileRackOrder, both, old, new

\* Swapping and shuffling list the same tiles, once each.
LEMMA SwapLists ==
  ASSUME NEW rack, NEW s, Lists(s, rack), NEW a \in rack, NEW b \in rack
  PROVE  Lists(SwapRackTiles(s, a, b), rack)
<1> DEFINE h == SwapRackTiles(s, a, b)
<1>1. s \in Seq(RackTiles) /\ Len(s) \in Nat /\ DOMAIN s = 1..Len(s) /\ TilesOf(s) = rack
      /\ NoRepeats(s)
      /\ \A i \in 1..Len(s) : s[i] \in RackTiles
  BY LenProperties, ElementOfSeq DEF Lists
<1>2. h = [i \in 1..Len(s) |-> IF s[i] = a THEN b ELSE IF s[i] = b THEN a ELSE s[i]]
  BY <1>1 DEF SwapRackTiles
<1>3. a \in RackTiles /\ b \in RackTiles
  BY <1>1 DEF TilesOf
<1>4. h \in [1..Len(s) -> RackTiles]
  BY <1>1, <1>2, <1>3
<1> HIDE DEF h
<1>5. h \in Seq(RackTiles) /\ Len(h) = Len(s) /\ DOMAIN h = 1..Len(s)
  BY <1>1, <1>4
<1>6. NoRepeats(h)
  BY <1>1, <1>2, <1>5 DEF NoRepeats
<1>7. TilesOf(h) = rack
  <2>1. TilesOf(h) \subseteq rack
    BY <1>1, <1>2, <1>5 DEF TilesOf
  <2>2. ASSUME NEW t \in rack
        PROVE  t \in TilesOf(h)
    <3>1. /\ \E i \in 1..Len(s) : s[i] = t
          /\ \E i \in 1..Len(s) : s[i] = a
          /\ \E i \in 1..Len(s) : s[i] = b
      BY <1>1 DEF TilesOf
    <3> QED
      BY <3>1, <1>2, <1>5 DEF TilesOf
  <2> QED
    BY <2>1, <2>2
<1> QED
  BY <1>5, <1>6, <1>7 DEF Lists, h

\* A shuffled order lists the same tiles, once each.
LEMMA ShuffleLists ==
  ASSUME NEW rack, NEW s, Lists(s, rack), NEW h \in ShufflesOf(s)
  PROVE  Lists(h, rack)
<1>1. s \in Seq(RackTiles) /\ Len(s) \in Nat /\ DOMAIN s = 1..Len(s) /\ TilesOf(s) = rack
      /\ NoRepeats(s)
      /\ rack \subseteq RackTiles
  BY LenProperties, ElementOfSeq DEF Lists, TilesOf
<1>2. h \in [1..Len(s) -> rack] /\ TilesOf(h) = rack
  BY <1>1 DEF ShufflesOf
<1>3. h \in Seq(RackTiles) /\ Len(h) = Len(s) /\ DOMAIN h = 1..Len(s)
  BY <1>1, <1>2
<1>4. s \in Bijection(1..Len(s), rack)
  <2>1. s \in [1..Len(s) -> rack]
    BY <1>1 DEF TilesOf
  <2> QED
    BY <2>1, <1>1 DEF NoRepeats, TilesOf, Bijection, Injection, Surjection, IsInjective
<1>5. IsFiniteSet(1..Len(s)) /\ Cardinality(rack) = Cardinality(1..Len(s))
  BY <1>1, <1>4, FS_Interval, FS_Bijection DEF ExistsBijection
<1>6. h \in Surjection(1..Len(s), rack)
  BY <1>2, <1>3 DEF Surjection, TilesOf
<1>7. h \in Injection(1..Len(s), rack)
  BY <1>5, <1>6, FS_SurjSameCardinalityImpliesInj
<1>8. NoRepeats(h)
  BY <1>3, <1>7 DEF Injection, IsInjective, NoRepeats
<1> QED
  BY <1>2, <1>3, <1>8 DEF Lists

\* A list of the rack is as long as the rack is large.
LEMMA ListLength ==
  ASSUME NEW rack, NEW s, Lists(s, rack)
  PROVE  Len(s) = Cardinality(rack)
<1>1. s \in Seq(RackTiles) /\ Len(s) \in Nat /\ DOMAIN s = 1..Len(s) /\ TilesOf(s) = rack
      /\ NoRepeats(s)
  BY LenProperties DEF Lists
<1>2. s \in [1..Len(s) -> rack]
  BY <1>1 DEF TilesOf
<1>3. s \in Bijection(1..Len(s), rack)
  BY <1>1, <1>2 DEF NoRepeats, TilesOf, Bijection, Injection, Surjection, IsInjective
<1> QED
  BY <1>1, <1>3, FS_CountingElements DEF ExistsBijection

\* The empty draft is coherent.
LEMMA EmptyDraftIsSound ==
  EmptyDraft \in Drafts /\ Coherent(EmptyDraft)
BY DEF EmptyDraft, Drafts, Modes, Coherent

\* A draft that is brought into line with a game is coherent still, and plans
\* with what the game has.
LEMMA ReconciledDraft ==
  ASSUME NEW d \in Drafts, Coherent(d), NEW g \in GameStates
  PROVE  LET e == ReconcileDraft(g, d) IN e \in Drafts /\ Coherent(e) /\ Held(e, g)
<1> DEFINE e == ReconcileDraft(g, d)
<1>1. /\ d.selected \in RackTiles \cup {NoTile} /\ d.letter \in BOOLEAN
      /\ d.placements \subseteq Placed /\ d.rackTile \in RackTiles \cup {NoTile}
      /\ d.exchange \subseteq RackTiles /\ d.mode \in Modes
  BY DEF Drafts
<1>2. /\ e = [selected |-> e.selected, letter |-> e.letter, placements |-> e.placements,
              rackTile |-> e.rackTile, exchange |-> e.exchange, mode |-> e.mode]
      /\ e.selected = (IF d.selected \in g.rack THEN d.selected ELSE NoTile)
      /\ e.letter = (d.letter /\ (d.selected = NoTile \/ d.selected \in g.rack))
      /\ e.placements = {p \in d.placements : p.tile \in g.rack /\ p.square \notin g.board}
      /\ e.rackTile = (IF d.rackTile \in g.rack THEN d.rackTile ELSE NoTile)
      /\ e.exchange = (IF ~g.myTurn /\ d.mode # "Play" THEN {} ELSE d.exchange \cap g.rack)
      /\ e.mode = (IF ~g.myTurn /\ d.mode # "Play" THEN "Play" ELSE d.mode)
  BY DEF ReconcileDraft
<1> HIDE DEF e
<1>3. e \in Drafts
  <2>1. /\ e.selected \in RackTiles \cup {NoTile} /\ e.rackTile \in RackTiles \cup {NoTile}
        /\ e.letter \in BOOLEAN
    BY <1>1, <1>2
  <2>2. e.placements \subseteq Placed /\ e.exchange \subseteq RackTiles
    BY <1>1, <1>2
  <2>3. e.mode \in Modes
    BY <1>1, <1>2 DEF Modes
  <2> QED
    BY <2>1, <2>2, <2>3, <1>2 DEF Drafts
<1>4. Coherent(e)
  <2>1. e.rackTile # NoTile => e.selected = e.rackTile
    BY <1>2 DEF Coherent
  <2>2. /\ \A p, q \in e.placements : p.tile = q.tile \/ p.square = q.square => p = q
        /\ \A p \in e.placements : p.lettered => p.tile \in BlankTiles
    BY <1>2 DEF Coherent
  <2>3. e.exchange # {} => e.mode \in {"Exchange", "ConfirmExchange"}
    BY <1>2 DEF Coherent
  <2>4. e.mode = "Exchange" => e.placements = {} /\ e.selected = NoTile
    BY <1>2 DEF Coherent
  <2> QED
    BY <2>1, <2>2, <2>3, <2>4 DEF Coherent
<1>5. Held(e, g)
  BY <1>2 DEF Held, Fits
<1> QED
  BY <1>3, <1>4, <1>5 DEF e

\* To begin an action only lets go of a tile picked in the rack.
LEMMA BegunDraft ==
  ASSUME NEW d \in Drafts, Coherent(d), NEW action
  PROVE  LET e == BeginAction(d, action)
         IN  /\ e \in Drafts /\ Coherent(e)
             /\ \A g : Held(d, g) => Held(e, g)
             /\ e.placements = d.placements /\ e.mode = d.mode /\ e.selected = d.selected
             /\ e.exchange = d.exchange
             /\ action \notin {"PICK_RACK_TILE", "SWAP_RACK_TILES", "SHUFFLE_RACK", "ZOOM"} =>
                  e.rackTile = NoTile
<1> DEFINE e == [d EXCEPT !.rackTile = NoTile]
<1>1. /\ e \in Drafts /\ e.rackTile = NoTile
      /\ e.placements = d.placements /\ e.mode = d.mode /\ e.selected = d.selected
      /\ e.exchange = d.exchange
  BY DEF Drafts
<1> HIDE DEF e
<1>2. Coherent(e) /\ \A g : Held(d, g) => Held(e, g)
  BY <1>1 DEF Coherent, Held
<1>3. BeginAction(d, action) = d \/ BeginAction(d, action) = e
  BY DEF BeginAction, e
<1>4. action \notin {"PICK_RACK_TILE", "SWAP_RACK_TILES", "SHUFFLE_RACK", "ZOOM"} =>
        BeginAction(d, action) = e
  BY DEF BeginAction, e
<1> QED
  BY <1>1, <1>2, <1>3, <1>4

\* What a page offers.
LEMMA OfferedForms ==
  ASSUME NEW p \in TurnPages, games[p.revision] \in GameStates, NEW form \in ComposeForms(p)
  PROVE  Offered(form, p.draft, games[p.revision])
<1> DEFINE g == games[p.revision]
           d == p.draft
<1>1. d \in Drafts /\ d.placements \subseteq Placed /\ g \in GameStates
      /\ p.order \in Seq(RackTiles)
  BY DEF TurnPages, Drafts
<1>2. TilesOf(ShownRack(p)) \subseteq g.rack /\ g.rack \subseteq RackTiles
  BY <1>1, OnRackKeeps DEF ShownRack, GameStates
<1> HIDE DEF g, d
<1>3. \/ form = Form("ZOOM")
      \/ form \in BoardForms(g, d)
      \/ form \in ActionForms(g, d)
      \/ \E t \in TilesOf(ShownRack(p)) : form = TileForm(RackAction(d), t)
      \/ form \in {Form("CANCEL_TILE_PICK"), Form("CHOOSE_BLANK_LETTER")}
  BY DEF ComposeForms, g, d
<1>4. ASSUME form = Form("ZOOM")
      \/ form \in {Form("CANCEL_TILE_PICK"), Form("CHOOSE_BLANK_LETTER")}
      PROVE  Offered(form, d, g)
  BY <1>4 DEF Offered, Form, Posts, PlainPosts
<1>5. ASSUME form \in BoardForms(g, d)
      PROVE  Offered(form, d, g)
  <2>1. CASE \E q \in d.placements : form = TileForm("REMOVE_TILE", q.tile)
    <3>1. PICK q \in d.placements : form = TileForm("REMOVE_TILE", q.tile)
      BY <2>1
    <3>2. form = [action |-> "REMOVE_TILE", tile |-> q.tile] /\ q.tile \in RackTiles
      BY <3>1, <1>1 DEF TileForm, Placed
    <3>3. form \in Posts
      BY <3>2 DEF Posts, TilePosts
    <3> QED
      BY <3>2, <3>3 DEF Offered
  <2>2. CASE \E s \in BoardSquares : form = [action |-> "PLACE_TILE", square |-> s]
    BY <2>2 DEF Offered, Posts, SquarePosts
  <2> QED
    BY <1>5, <2>1, <2>2 DEF BoardForms
<1>6. ASSUME form \in ActionForms(g, d)
      PROVE  Offered(form, d, g)
  <2>1. \/ form \in {Form("SHUFFLE_RACK"), Form("CLEAR"), Form("CANCEL_MODE")}
        \/ /\ form \in {Form("BEGIN_EXCHANGE"), Form("CONFIRM_PASS"), Form("CONFIRM_RESIGN")}
           /\ d.mode = "Play"
        \/ form = Form("REVIEW_EXCHANGE") /\ d.mode = "Exchange"
    BY <1>6, <1>1 DEF ActionForms
  <2>2. form \in Posts
    BY <2>1 DEF Form, Posts, PlainPosts
  <2> QED
    BY <2>1, <2>2 DEF Offered, Form
<1>7. ASSUME NEW t \in TilesOf(ShownRack(p)), form = TileForm(RackAction(d), t)
      PROVE  Offered(form, d, g)
  <2>1. t \in g.rack /\ t \in RackTiles
    BY <1>2
  <2>2. form = [action |-> RackAction(d), tile |-> t]
    BY <1>7 DEF TileForm
  <2>3. /\ RackAction(d) \in {"TOGGLE_EXCHANGE", "SWAP_RACK_TILES", "PICK_RACK_TILE"}
        /\ RackAction(d) = "TOGGLE_EXCHANGE" <=> d.mode = "Exchange"
    BY DEF RackAction
  <2>4. form \in Posts
    BY <2>1, <2>2, <2>3 DEF Posts, TilePosts
  <2> QED
    BY <2>1, <2>2, <2>3, <2>4 DEF Offered
<1>8. Offered(form, d, g)
  BY <1>3, <1>4, <1>5, <1>6, <1>7
<1> QED
  BY <1>8 DEF g, d

\* What an action makes of a draft it was offered on.
LEMMA EditedDraft ==
  ASSUME NEW d \in Drafts, Coherent(d), NEW g \in GameStates, NEW form, NEW seen,
         Offered(form, d, g),
         form.action \notin {"PICK_RACK_TILE", "SWAP_RACK_TILES", "SHUFFLE_RACK", "ZOOM"} =>
           d.rackTile = NoTile,
         ~Refused(form, d, g, seen), ~Rearranges(form, d)
  PROVE  LET e == Edited(form, d, g)
         IN  e \in Drafts /\ Coherent(e) /\ (Held(d, g) => Held(e, g))
<1> DEFINE e == Edited(form, d, g)
           Good == e \in Drafts /\ Coherent(e) /\ (Held(d, g) => Held(e, g))
<1>1. /\ d.selected \in RackTiles \cup {NoTile} /\ d.letter \in BOOLEAN
      /\ d.placements \subseteq Placed /\ d.rackTile \in RackTiles \cup {NoTile}
      /\ d.exchange \subseteq RackTiles /\ d.mode \in Modes
      /\ d = [selected |-> d.selected, letter |-> d.letter, placements |-> d.placements,
              rackTile |-> d.rackTile, exchange |-> d.exchange, mode |-> d.mode]
      /\ g.rack \subseteq RackTiles
  BY DEF Drafts, GameStates
<1>2. /\ form.action \in {"REMOVE_TILE", "TOGGLE_EXCHANGE", "SWAP_RACK_TILES",
                          "PICK_RACK_TILE"} =>
           form.tile \in RackTiles
      /\ form.action = "PLACE_TILE" => form.square \in BoardSquares
      /\ form.action \in {"ZOOM", "SHUFFLE_RACK", "CLEAR", "BEGIN_EXCHANGE", "CONFIRM_PASS",
             "CONFIRM_RESIGN", "REVIEW_EXCHANGE", "CANCEL_MODE", "CANCEL_TILE_PICK",
             "CHOOSE_BLANK_LETTER", "REMOVE_TILE", "TOGGLE_EXCHANGE", "SWAP_RACK_TILES",
             "PICK_RACK_TILE", "PLACE_TILE"}
  <2>1. CASE form \in TilePosts
    BY <2>1 DEF TilePosts
  <2>2. CASE form \in SquarePosts
    BY <2>2 DEF SquarePosts
  <2>3. CASE form \in PlainPosts
    BY <2>3 DEF PlainPosts
  <2> QED
    BY <2>1, <2>2, <2>3 DEF Offered, Posts
<1> HIDE DEF e, Good
<1>3. ASSUME form.action \in {"ZOOM", "SHUFFLE_RACK"}
      PROVE  Good
  <2>1. e = d
    BY <1>3 DEF e, Edited
  <2> QED
    BY <2>1 DEF Good
<1>4. ASSUME form.action = "CHOOSE_BLANK_LETTER"
      PROVE  Good
  <2>1. e = [selected |-> d.selected, letter |-> TRUE, placements |-> d.placements,
             rackTile |-> d.rackTile, exchange |-> d.exchange, mode |-> d.mode]
    BY <1>4, <1>1 DEF e, Edited
  <2>2. e \in Drafts
    BY <2>1, <1>1, <1>2, <1>4 DEF Drafts, Modes
  <2>3. Coherent(e)
    BY <2>1, <1>1, <1>4 DEF Coherent
  <2>4. Held(d, g) => Held(e, g)
    BY <2>1, <1>1, <1>4 DEF Held, Fits
  <2> QED
    BY <2>2, <2>3, <2>4 DEF Good
<1>5. ASSUME form.action = "CANCEL_TILE_PICK"
      PROVE  Good
  <2>1. e = [selected |-> NoTile, letter |-> FALSE, placements |-> d.placements,
             rackTile |-> NoTile, exchange |-> d.exchange, mode |-> d.mode]
    BY <1>5, <1>1 DEF e, Edited
  <2>2. e \in Drafts
    BY <2>1, <1>1, <1>2, <1>5 DEF Drafts, Modes
  <2>3. Coherent(e)
    BY <2>1, <1>1, <1>5 DEF Coherent
  <2>4. Held(d, g) => Held(e, g)
    BY <2>1, <1>1, <1>5 DEF Held, Fits
  <2> QED
    BY <2>2, <2>3, <2>4 DEF Good
<1>6. ASSUME form.action = "REMOVE_TILE"
      PROVE  Good
  <2>1. e = [selected |-> form.tile, letter |-> FALSE,
             placements |-> PlacementsWithout(d, form.tile), rackTile |-> d.rackTile,
             exchange |-> d.exchange, mode |-> d.mode]
    BY <1>6, <1>1 DEF e, Edited
  <2>2. d.rackTile = NoTile
    BY <1>6
  <2>3. PlacementsWithout(d, form.tile) = {p \in d.placements : p.tile # form.tile}
    BY DEF PlacementsWithout
  <2>4. \E p \in d.placements : p.tile = form.tile
    BY <1>6 DEF Offered
  <2>5. d.mode # "Exchange"
    BY <2>4 DEF Coherent
  <2>6. e \in Drafts
    BY <2>1, <1>1, <1>2, <1>6, <2>2, <2>3, <2>4, <2>5 DEF Drafts, Modes
  <2>7. Coherent(e)
    BY <2>1, <1>1, <1>6, <2>2, <2>3, <2>4, <2>5 DEF Coherent
  <2>8. Held(d, g) => Held(e, g)
    BY <2>1, <1>1, <1>6, <2>2, <2>3, <2>4, <2>5 DEF Held, Fits
  <2> QED
    BY <2>6, <2>7, <2>8 DEF Good
<1>7. ASSUME form.action = "PICK_RACK_TILE"
      PROVE  Good
  <2>1. e = [selected |-> form.tile, letter |-> d.letter, placements |-> d.placements,
             rackTile |-> form.tile, exchange |-> d.exchange, mode |-> d.mode]
    BY <1>7, <1>1 DEF e, Edited
  <2>2. d.mode # "Exchange" /\ form.tile \in g.rack
    BY <1>7 DEF Offered
  <2>3. e \in Drafts
    BY <2>1, <1>1, <1>2, <1>7, <2>2 DEF Drafts, Modes
  <2>4. Coherent(e)
    BY <2>1, <1>1, <1>7, <2>2 DEF Coherent
  <2>5. Held(d, g) => Held(e, g)
    BY <2>1, <1>1, <1>7, <2>2 DEF Held, Fits
  <2> QED
    BY <2>3, <2>4, <2>5 DEF Good
<1>8. ASSUME form.action = "BEGIN_EXCHANGE"
      PROVE  Good
  <2>1. e = [selected |-> NoTile, letter |-> d.letter, placements |-> {},
             rackTile |-> d.rackTile, exchange |-> d.exchange, mode |-> "Exchange"]
    BY <1>8, <1>1 DEF e, Edited
  <2>2. d.rackTile = NoTile
    BY <1>8
  <2>3. e \in Drafts
    BY <2>1, <1>1, <1>2, <1>8, <2>2 DEF Drafts, Modes
  <2>4. Coherent(e)
    BY <2>1, <1>1, <1>8, <2>2 DEF Coherent
  <2>5. Held(d, g) => Held(e, g)
    BY <2>1, <1>1, <1>8, <2>2 DEF Held, Fits
  <2> QED
    BY <2>3, <2>4, <2>5 DEF Good
<1>9. ASSUME form.action = "TOGGLE_EXCHANGE"
      PROVE  Good
  <2>1. e = [selected |-> d.selected, letter |-> d.letter, placements |-> d.placements,
             rackTile |-> d.rackTile,
             exchange |-> IF form.tile \in d.exchange THEN d.exchange \ {form.tile}
             ELSE d.exchange \cup {form.tile}, mode |-> d.mode]
    BY <1>9, <1>1 DEF e, Edited
  <2>2. d.mode = "Exchange" /\ form.tile \in g.rack
    BY <1>9 DEF Offered
  <2>3. e \in Drafts
    BY <2>1, <1>1, <1>2, <1>9, <2>2 DEF Drafts, Modes
  <2>4. Coherent(e)
    BY <2>1, <1>1, <1>9, <2>2 DEF Coherent
  <2>5. Held(d, g) => Held(e, g)
    BY <2>1, <1>1, <1>9, <2>2 DEF Held, Fits
  <2> QED
    BY <2>3, <2>4, <2>5 DEF Good
<1>10. ASSUME form.action = "REVIEW_EXCHANGE"
      PROVE  Good
  <2>1. e = [selected |-> d.selected, letter |-> d.letter, placements |-> d.placements,
             rackTile |-> d.rackTile, exchange |-> d.exchange, mode |-> "ConfirmExchange"]
    BY <1>10, <1>1 DEF e, Edited
  <2>2. e \in Drafts
    BY <2>1, <1>1, <1>2, <1>10 DEF Drafts, Modes
  <2>3. Coherent(e)
    BY <2>1, <1>1, <1>10 DEF Coherent
  <2>4. Held(d, g) => Held(e, g)
    BY <2>1, <1>1, <1>10 DEF Held, Fits
  <2> QED
    BY <2>2, <2>3, <2>4 DEF Good
<1>11. ASSUME form.action = "CONFIRM_PASS"
      PROVE  Good
  <2>1. e = [selected |-> d.selected, letter |-> d.letter, placements |-> d.placements,
             rackTile |-> d.rackTile, exchange |-> d.exchange, mode |-> "ConfirmPass"]
    BY <1>11, <1>1 DEF e, Edited
  <2>2. d.mode = "Play"
    BY <1>11 DEF Offered
  <2>3. d.exchange = {}
    BY <2>2 DEF Coherent
  <2>4. e \in Drafts
    BY <2>1, <1>1, <1>2, <1>11, <2>2, <2>3 DEF Drafts, Modes
  <2>5. Coherent(e)
    BY <2>1, <1>1, <1>11, <2>2, <2>3 DEF Coherent
  <2>6. Held(d, g) => Held(e, g)
    BY <2>1, <1>1, <1>11, <2>2, <2>3 DEF Held, Fits
  <2> QED
    BY <2>4, <2>5, <2>6 DEF Good
<1>12. ASSUME form.action = "CONFIRM_RESIGN"
      PROVE  Good
  <2>1. e = [selected |-> d.selected, letter |-> d.letter, placements |-> d.placements,
             rackTile |-> d.rackTile, exchange |-> d.exchange, mode |-> "ConfirmResign"]
    BY <1>12, <1>1 DEF e, Edited
  <2>2. d.mode = "Play"
    BY <1>12 DEF Offered
  <2>3. d.exchange = {}
    BY <2>2 DEF Coherent
  <2>4. e \in Drafts
    BY <2>1, <1>1, <1>2, <1>12, <2>2, <2>3 DEF Drafts, Modes
  <2>5. Coherent(e)
    BY <2>1, <1>1, <1>12, <2>2, <2>3 DEF Coherent
  <2>6. Held(d, g) => Held(e, g)
    BY <2>1, <1>1, <1>12, <2>2, <2>3 DEF Held, Fits
  <2> QED
    BY <2>4, <2>5, <2>6 DEF Good
<1>13. ASSUME form.action = "CANCEL_MODE"
      PROVE  Good
  <2>1. e = [selected |-> d.selected, letter |-> d.letter, placements |-> d.placements,
             rackTile |-> d.rackTile, exchange |-> {}, mode |-> "Play"]
    BY <1>13, <1>1 DEF e, Edited
  <2>2. e \in Drafts
    BY <2>1, <1>1, <1>2, <1>13 DEF Drafts, Modes
  <2>3. Coherent(e)
    BY <2>1, <1>1, <1>13 DEF Coherent
  <2>4. Held(d, g) => Held(e, g)
    BY <2>1, <1>1, <1>13 DEF Held, Fits
  <2> QED
    BY <2>2, <2>3, <2>4 DEF Good
<1>14. ASSUME form.action = "CLEAR"
      PROVE  Good
  <2>1. e = [selected |-> NoTile, letter |-> FALSE, placements |-> {}, rackTile |-> NoTile,
             exchange |-> {}, mode |-> "Play"]
    BY <1>14, <1>1 DEF e, Edited, EmptyDraft
  <2>2. e \in Drafts
    BY <2>1, <1>1, <1>2, <1>14 DEF Drafts, Modes
  <2>3. Coherent(e)
    BY <2>1, <1>1, <1>14 DEF Coherent
  <2>4. Held(d, g) => Held(e, g)
    BY <2>1, <1>1, <1>14 DEF Held, Fits
  <2> QED
    BY <2>2, <2>3, <2>4 DEF Good
<1>15. ASSUME form.action = "SWAP_RACK_TILES"
      PROVE  Good
  <2>1. d.rackTile = form.tile
    BY <1>15 DEF Rearranges
  <2>2. e = [selected |-> form.tile, letter |-> d.letter, placements |-> d.placements,
             rackTile |-> d.rackTile, exchange |-> d.exchange, mode |-> d.mode]
    BY <1>15, <1>1, <2>1 DEF e, Edited
  <2>3. d.mode # "Exchange" /\ form.tile \in g.rack
    BY <1>15 DEF Offered
  <2>4. e \in Drafts
    BY <2>2, <1>1, <1>2, <1>15 DEF Drafts
  <2>5. Coherent(e)
    BY <2>1, <2>2, <2>3 DEF Coherent
  <2>6. Held(d, g) => Held(e, g)
    BY <2>2, <2>3 DEF Held
  <2> QED
    BY <2>4, <2>5, <2>6 DEF Good
<1>16. ASSUME form.action = "PLACE_TILE"
      PROVE  Good
  <2> DEFINE new == [tile |-> d.selected, square |-> form.square,
                     lettered |-> d.selected \in BlankTiles \cap g.rack]
             placed == PlacementsWithout(d, d.selected) \cup {new}
  <2>1. e = [selected |-> NoTile, letter |-> FALSE, placements |-> placed,
             rackTile |-> d.rackTile, exchange |-> d.exchange, mode |-> d.mode]
    BY <1>16, <1>1 DEF e, Edited
  <2>2. /\ d.selected # NoTile /\ form.square \notin g.board
        /\ \A p \in d.placements : p.square = form.square => p.tile = d.selected
    BY <1>16 DEF Refused
  <2>3. d.rackTile = NoTile /\ form.square \in BoardSquares
    BY <1>16, <1>2
  <2>4. d.mode # "Exchange"
    BY <2>2 DEF Coherent
  <2>5. /\ new.tile = d.selected /\ new.square = form.square
        /\ new.lettered => d.selected \in BlankTiles
        /\ new \in Placed
    <3>1. d.selected \in RackTiles /\ (d.selected \in BlankTiles \cap g.rack) \in BOOLEAN
      BY <2>2, <1>1
    <3>2. new \in Placed
      BY <2>3, <3>1 DEF Placed
    <3> QED
      BY <3>2
  <2> HIDE DEF new
  <2>6. \A p \in placed : p = new \/ (p \in d.placements /\ p.tile # d.selected)
    BY DEF PlacementsWithout
  <2> HIDE DEF placed
  <2>7. placed \subseteq Placed
    BY <2>5, <2>6, <1>1
  <2>8. e \in Drafts
    BY <2>1, <2>7, <1>1 DEF Drafts
  <2>9. \A p, q \in placed : p.tile = q.tile \/ p.square = q.square => p = q
    BY <2>2, <2>5, <2>6 DEF Coherent
  <2>10. \A p \in placed : p.lettered => p.tile \in BlankTiles
    BY <2>5, <2>6 DEF Coherent
  <2>11. Coherent(e)
    BY <2>1, <2>3, <2>4, <2>9, <2>10 DEF Coherent
  <2>12. Held(d, g) => Held(e, g)
    BY <2>1, <2>2, <2>5, <2>6 DEF Held, Fits
  <2> QED
    BY <2>8, <2>11, <2>12 DEF Good
<1>17. Good
  BY <1>2, <1>3, <1>4, <1>5, <1>6, <1>7, <1>8, <1>9, <1>10, <1>11, <1>12, <1>13, <1>14,
     <1>15, <1>16
<1> QED
  BY <1>17 DEF Good, e

\* The games of hs begin with those of gs.
Extends(hs, gs) == Len(gs) <= Len(hs) /\ \A i \in 1..Len(gs) : hs[i] = gs[i]

\* What pages and requests rest on is not changed by a further game.
LEMMA SoundStays ==
  ASSUME NEW gs \in Seq(GameStates), NEW hs \in Seq(GameStates), Extends(hs, gs)
  PROVE  /\ \A p \in TurnPages \cup {NoPage} : SoundPage(p, gs) => SoundPage(p, hs)
         /\ \A r \in TurnRequests \cup {NoRequest} : SoundRequest(r, gs) => SoundRequest(r, hs)
<1>1. /\ Len(gs) \in Nat /\ Len(hs) \in Nat /\ Len(gs) <= Len(hs)
      /\ \A i \in 1..Len(gs) : hs[i] = gs[i] /\ i \in 1..Len(hs)
  BY LenProperties DEF Extends
<1>2. ASSUME NEW s, NEW n \in Nat, n \in 1..Len(gs), ListsSince(s, n, gs)
      PROVE  ListsSince(s, n, hs)
  BY <1>1, <1>2 DEF ListsSince
<1>3. ASSUME NEW p \in TurnPages \cup {NoPage}, SoundPage(p, gs)
      PROVE  SoundPage(p, hs)
  <2>1. CASE p = NoPage
    BY <2>1 DEF SoundPage
  <2>2. CASE p # NoPage
    <3>1. p.revision \in Nat
      BY <2>2 DEF TurnPages
    <3>2. /\ p.revision \in 1..Len(gs) /\ Coherent(p.draft)
          /\ ListsSince(p.order, p.revision, gs)
          /\ ~p.rearranged => Held(p.draft, gs[p.revision])
      BY <2>2, <1>3 DEF SoundPage
    <3>3. p.revision \in 1..Len(hs) /\ hs[p.revision] = gs[p.revision]
      BY <3>2, <1>1
    <3> QED
      BY <3>1, <3>2, <3>3, <1>2 DEF SoundPage
  <2> QED
    BY <2>1, <2>2
<1>4. ASSUME NEW r \in TurnRequests \cup {NoRequest}, SoundRequest(r, gs)
      PROVE  SoundRequest(r, hs)
  <2>1. CASE r = NoRequest
    BY <2>1 DEF SoundRequest
  <2>2. CASE r # NoRequest
    <3>1. r.revision \in Nat /\ r.expected \in Nat
      BY <2>2 DEF TurnRequests
    <3>2. /\ r.phase \in {"order", "handle", "save", "persist"} =>
               r.revision \in 1..Len(gs) /\ r.revision \in 1..Len(hs)
                   /\ hs[r.revision] = gs[r.revision]
          /\ r.kind = "compose" =>
               r.expected \in 1..Len(gs) /\ r.expected \in 1..Len(hs)
                   /\ hs[r.expected] = gs[r.expected]
      BY <2>2, <1>1, <1>4 DEF SoundRequest
    <3>3. r.phase \in {"handle", "save", "persist"} => ListsSince(r.order, r.revision, hs)
      BY <2>2, <3>1, <3>2, <1>2, <1>4 DEF SoundRequest
    <3> QED
      BY <2>2, <3>2, <3>3, <1>4 DEF SoundRequest
  <2> QED
    BY <2>1, <2>2
<1> QED
  BY <1>3, <1>4

\* What the invariant says of a tab.
LEMMA TabFacts ==
  ASSUME TurnInv, NEW t \in Tabs
  PROVE  /\ Len(games) \in Nat /\ Len(games) \in 1..Len(games)
         /\ \A i \in 1..Len(games) : games[i] \in GameStates
         /\ Current \in GameStates /\ Extends(games, games)
         /\ page[t] \in TurnPages \cup {NoPage} /\ req[t] \in TurnRequests \cup {NoRequest}
         /\ page[t] # NoPage => page[t] \in TurnPages
         /\ SoundPage(page[t], games) /\ SoundRequest(req[t], games) /\ SoundTurn(t)
         /\ page = [page EXCEPT ![t] = page[t]] /\ req = [req EXCEPT ![t] = req[t]]
         /\ req[t].kind \in {"open", "compose", "turn"} => req[t] # NoRequest
             /\ req[t] \in TurnRequests
<1>1. Len(games) \in Nat /\ Len(games) # 0 /\ \A i \in 1..Len(games) : games[i] \in GameStates
  <2>1. games \in Seq(GameStates) /\ games # <<>>
    BY DEF TurnInv
  <2> QED
    BY <2>1, LenProperties, ElementOfSeq, EmptySeq
<1>2. page \in [Tabs -> TurnPages \cup {NoPage}]
      /\ req \in [Tabs -> TurnRequests \cup {NoRequest}]
  BY DEF TurnInv
<1>3. /\ page[t] \in TurnPages \cup {NoPage} /\ req[t] \in TurnRequests \cup {NoRequest}
      /\ page = [page EXCEPT ![t] = page[t]] /\ req = [req EXCEPT ![t] = req[t]]
  BY <1>2
<1>4. NoRequest.kind = "none"
  BY DEF NoRequest
<1>5. SoundPage(page[t], games) /\ SoundRequest(req[t], games) /\ SoundTurn(t)
  BY DEF TurnInv
<1> QED
  BY <1>1, <1>3, <1>4, <1>5 DEF Current, Extends

\* A step of one tab.
LEMMA TabStep ==
  ASSUME TurnInv, NEW t \in Tabs, NEW p \in TurnPages \cup {NoPage},
         NEW r \in TurnRequests \cup {NoRequest},
         page' = [page EXCEPT ![t] = p], req' = [req EXCEPT ![t] = r],
         games' \in Seq(GameStates), Extends(games', games), SoundPlan', SoundOrder',
         SoundPage(p, games'), SoundRequest(r, games'),
         r.kind = "turn" /\ r.phase = "commit" =>
           /\ games' = games /\ p # NoPage
           /\ r.expected = p.revision /\ r.form = TurnCommand(p)
  PROVE  TurnInv'
<1>1. /\ games \in Seq(GameStates) /\ Len(games) \in Nat /\ Len(games) # 0
      /\ Len(games') \in Nat /\ Len(games) <= Len(games')
      /\ \A i \in 1..Len(games) : games'[i] = games[i]
  <2>1. games \in Seq(GameStates)
    BY DEF TurnInv
  <2>2. Len(games) \in Nat /\ Len(games') \in Nat /\ Len(games) # 0
    BY <2>1, TabFacts, LenProperties
  <2> QED
    BY <2>1, <2>2 DEF Extends
<1>2. games' # <<>>
  <2>1. Len(games') # 0
    BY <1>1
  <2> QED
    BY <2>1, EmptySeq
<1>3. /\ page' \in [Tabs -> TurnPages \cup {NoPage}]
         /\ req' \in [Tabs -> TurnRequests \cup {NoRequest}]
      /\ page'[t] = p /\ req'[t] = r
      /\ \A u \in Tabs : u # t => page'[u] = page[u] /\ req'[u] = req[u]
  BY DEF TurnInv
<1>4. \A u \in Tabs : SoundPage(page'[u], games') /\ SoundRequest(req'[u], games')
  <2>1. ASSUME NEW u \in Tabs, u # t
        PROVE  SoundPage(page'[u], games') /\ SoundRequest(req'[u], games')
    <3>1. SoundPage(page[u], games') /\ SoundRequest(req[u], games')
      BY <1>1, TabFacts, SoundStays
    <3> QED
      BY <3>1, <2>1, <1>3
  <2> QED
    BY <2>1, <1>3
<1>5. ASSUME NEW u \in Tabs
      PROVE  SoundTurn(u)'
  <2>1. SUFFICES ASSUME req'[u].kind = "turn", req'[u].phase = "commit"
                 PROVE  /\ page'[u] # NoPage /\ req'[u].expected = page'[u].revision
                        /\ req'[u].form = TurnCommand(page[u])'
    BY DEF SoundTurn, At
  <2>2. CASE u = t
    <3>1. games' = games /\ p # NoPage /\ r.expected = p.revision /\ r.form = TurnCommand(p)
      BY <2>1, <2>2, <1>3
    <3>2. TurnCommand(page[u])' = TurnCommand(p)
      BY <3>1, <2>2, <1>3 DEF TurnCommand
    <3> QED
      BY <3>1, <3>2, <2>2, <1>3
  <2>3. CASE u # t
    <3>1. page'[u] = page[u] /\ req'[u] = req[u]
      BY <2>3, <1>3
    <3>2. /\ page[u] # NoPage /\ req[u].expected = page[u].revision
          /\ req[u].form = TurnCommand(page[u])
      BY <2>1, <3>1, TabFacts DEF SoundTurn, At
    <3>3. games'[page[u].revision] = games[page[u].revision]
      <4>1. page[u].revision \in 1..Len(games)
        BY <3>2, TabFacts DEF SoundPage
      <4> QED
        BY <4>1, <1>1
    <3>4. TurnCommand(page[u])' = TurnCommand(page[u])
      BY <3>1, <3>3 DEF TurnCommand
    <3> QED
      BY <3>1, <3>2, <3>4
  <2> QED
    BY <2>2, <2>3
<1>6. TurnInv'
  BY <1>2, <1>3, <1>4, <1>5 DEF TurnInv
<1> QED
  BY <1>6

\* The plan and the order are as they were.
LEMMA TablesStay ==
  ASSUME TurnInv
  PROVE  (plan' = plan => SoundPlan') /\ (order' = order => SoundOrder')
BY DEF TurnInv, SoundPlan, SoundOrder

\* A step that changes nothing but the request.
LEMMA RequestStep ==
  ASSUME TurnInv, NEW t \in Tabs, NEW r \in TurnRequests \cup {NoRequest},
         req' = [req EXCEPT ![t] = r], UNCHANGED <<games, plan, order, page>>,
         SoundRequest(r, games),
         r.kind = "turn" /\ r.phase = "commit" =>
           page[t] # NoPage /\ r.expected = page[t].revision /\ r.form = TurnCommand(page[t])
  PROVE  TurnInv'
<1>1. page' = [page EXCEPT ![t] = page[t]] /\ page[t] \in TurnPages \cup {NoPage}
  BY TabFacts
<1>2. games' \in Seq(GameStates) /\ Extends(games', games)
  BY TabFacts DEF TurnInv
<1>3. SoundPlan' /\ SoundOrder'
  BY TablesStay
<1>4. SoundPage(page[t], games') /\ SoundRequest(r, games')
  BY TabFacts
<1> QED
  BY <1>1, <1>2, <1>3, <1>4, TabStep

\* A step that ends the request without a new page.
LEMMA EndStep ==
  ASSUME TurnInv, NEW t \in Tabs, req' = [req EXCEPT ![t] = NoRequest],
         UNCHANGED <<games, plan, order, page>>
  PROVE  TurnInv'
<1>1. SoundRequest(NoRequest, games)
  BY DEF SoundRequest
<1>2. NoRequest.kind # "turn"
  BY DEF NoRequest
<1> QED
  BY <1>1, <1>2, RequestStep

\* A step that answers with a page.
LEMMA PageStep ==
  ASSUME TurnInv, NEW t \in Tabs, NEW p \in TurnPages,
         page' = [page EXCEPT ![t] = p], req' = [req EXCEPT ![t] = NoRequest],
         games' = games, SoundPlan', SoundOrder', SoundPage(p, games)
  PROVE  TurnInv'
<1>1. SoundRequest(NoRequest, games)
  BY DEF SoundRequest
<1>2. NoRequest.kind # "turn"
  BY DEF NoRequest
<1>3. games' \in Seq(GameStates) /\ Extends(games', games)
  BY TabFacts DEF TurnInv
<1> QED
  BY <1>1, <1>2, <1>3, TabStep

\* Show, for a draft that fits the game that was read.
LEMMA ShowStep ==
  ASSUME TurnInv, NEW t \in Tabs, NEW draft \in Drafts, Coherent(draft), Show(t, draft),
         req[t].kind \in {"open", "compose"}, req[t].phase \in {"handle", "save", "persist"},
         ~req[t].rearranged => Held(draft, games[req[t].revision]),
         games' = games, SoundPlan', SoundOrder'
  PROVE  TurnInv'
<1> DEFINE r == req[t]
           p == [revision |-> r.revision, order |-> r.order, draft |-> draft,
                 rearranged |-> r.rearranged]
<1>1. r \in TurnRequests /\ r # NoRequest /\ SoundRequest(r, games)
  BY TabFacts
<1>2. p \in TurnPages
  BY <1>1 DEF TurnPages, TurnRequests
<1>3. page' = [page EXCEPT ![t] = p] /\ req' = [req EXCEPT ![t] = NoRequest]
  BY DEF Show
<1>4. r.revision \in 1..Len(games) /\ ListsSince(r.order, r.revision, games)
  BY <1>1 DEF SoundRequest
<1>5. SoundPage(p, games)
  BY <1>4 DEF SoundPage
<1> HIDE DEF p
<1> QED
  BY <1>2, <1>3, <1>5, PageStep

\* Persists, for a draft that fits the game that was read.
LEMMA StoredDraftIsSound ==
  ASSUME TurnInv, NEW t \in Tabs, req[t] \in TurnRequests, req[t].revision \in 1..Len(games),
         NEW found \in LoadedPlans
  PROVE  LET d == StoredDraft(t, found)
         IN  d \in Drafts /\ Coherent(d) /\ Held(d, games[req[t].revision])
<1> DEFINE d == IF found = NoPlan THEN EmptyDraft ELSE found.draft
<1>1. d \in Drafts /\ Coherent(d)
  BY EmptyDraftIsSound DEF TurnInv, SoundPlan, LoadedPlans
<1>2. games[req[t].revision] \in GameStates
  BY TabFacts
<1> HIDE DEF d
<1>3. StoredDraft(t, found) = ReconcileDraft(games[req[t].revision], d)
  BY DEF StoredDraft, d
<1> QED
  BY <1>1, <1>2, <1>3, ReconciledDraft

\* A step that goes on to store the draft.
LEMMA PersistsStep ==
  ASSUME TurnInv, NEW t \in Tabs, NEW d \in Drafts, Coherent(d), NEW moved \in BOOLEAN,
         req[t].kind \in {"open", "compose"}, req[t].phase = "handle",
         req' = [req EXCEPT ![t] = [req[t] EXCEPT !.draft = d, !.phase = "persist",
                                                  !.rearranged = moved]],
         ~moved => Held(d, games[req[t].revision]),
         UNCHANGED <<games, plan, order, page>>
  PROVE  TurnInv'
<1> DEFINE q == req[t]
           r == [q EXCEPT !.draft = d, !.phase = "persist", !.rearranged = moved]
<1>1. q \in TurnRequests /\ q # NoRequest /\ SoundRequest(q, games)
  BY TabFacts
<1> HIDE DEF q
<1>2. /\ r \in TurnRequests /\ r.kind = q.kind /\ r.phase = "persist" /\ r.draft = d
      /\ r.order = q.order /\ r.revision = q.revision /\ r.expected = q.expected
      /\ r.rearranged = moved
  BY <1>1 DEF TurnRequests
<1> HIDE DEF r
<1>3. /\ q.revision \in 1..Len(games) /\ ListsSince(q.order, q.revision, games)
      /\ q.kind # "turn" /\ (q.kind = "compose" => q.expected \in 1..Len(games))
  BY <1>1 DEF SoundRequest, q
<1>4. SoundRequest(r, games)
  BY <1>2, <1>3 DEF SoundRequest, q
<1>5. req' = [req EXCEPT ![t] = r]
  BY DEF r, q
<1> QED
  BY <1>2, <1>3, <1>4, <1>5, RequestStep

\* The request an action starts from.
LEMMA FreshRequest ==
  ASSUME NEW kind \in {"open", "compose", "turn"}, NEW stage \in {"order", "commit"}
  PROVE  LET q == Request(kind, stage)
         IN  /\ q \in TurnRequests /\ q.kind = kind /\ q.phase = stage
             /\ q.draft = EmptyDraft /\ q.reloads = FALSE /\ q.rearranged = FALSE
<1>1. <<>> \in Seq(RackTiles) /\ EmptyDraft \in Drafts
  BY EmptyDraftIsSound
<1> QED
  BY <1>1 DEF Request, TurnRequests

\* The steps of a tab keep the invariant, one by one.
LEMMA OpenSound ==
  ASSUME TurnInv, NEW t \in Tabs, Open(t)
  PROVE  TurnInv'
<1> DEFINE q == Request("open", "order")
           r == [q EXCEPT !.revision = Len(games)]
<1>1. req' = [req EXCEPT ![t] = r] /\ UNCHANGED <<games, plan, order, page>>
  BY DEF Open
<1>2. q \in TurnRequests /\ q.kind = "open" /\ q.phase = "order" /\ q.draft = EmptyDraft
  BY FreshRequest
<1> HIDE DEF q
<1>3. /\ r \in TurnRequests /\ r.kind = "open" /\ r.phase = "order" /\ r.draft = EmptyDraft
      /\ r.revision = Len(games)
  BY <1>2, TabFacts DEF TurnRequests
<1> HIDE DEF r
<1>4. SoundRequest(r, games)
  BY <1>3, EmptyDraftIsSound, TabFacts DEF SoundRequest
<1> QED
  BY <1>1, <1>3, <1>4, RequestStep

\* Compose keeps the invariant.
LEMMA ComposeSound ==
  ASSUME TurnInv, NEW t \in Tabs, Compose(t)
  PROVE  TurnInv'
<1> DEFINE p == page[t]
<1>1. p # NoPage /\ p \in TurnPages /\ SoundPage(p, games)
  BY TabFacts DEF Compose
<1>2. PICK form \in ComposeForms(p) :
        Click(t, [Request("compose", "order") EXCEPT !.form = form, !.revision = Len(games)])
  BY DEF Compose
<1>3. /\ p.revision \in 1..Len(games) /\ games[p.revision] \in GameStates
      /\ p.draft \in Drafts /\ Coherent(p.draft) /\ p.rearranged \in BOOLEAN
          /\ p.revision \in Nat
      /\ ~p.rearranged => Held(p.draft, games[p.revision])
  BY <1>1, TabFacts DEF SoundPage, TurnPages
<1>4. Offered(form, p.draft, games[p.revision]) /\ form \in Posts
  BY <1>1, <1>3, OfferedForms DEF Offered
<1> DEFINE q == Request("compose", "order")
           q1 == [q EXCEPT !.form = form, !.revision = Len(games)]
           r == [q1 EXCEPT !.expected = p.revision, !.draft = p.draft,
                 !.rearranged = p.rearranged]
<1>5. req' = [req EXCEPT ![t] = r] /\ UNCHANGED <<games, plan, order, page>>
  BY <1>2 DEF Click
<1>6. q \in TurnRequests /\ q.kind = "compose" /\ q.phase = "order" /\ q.reloads = FALSE
  BY FreshRequest
<1> HIDE DEF q
<1>7. /\ q1 \in TurnRequests /\ q1.kind = "compose" /\ q1.phase = "order" /\ q1.reloads = FALSE
      /\ q1.form = form /\ q1.revision = Len(games)
  BY <1>4, <1>6, TabFacts DEF TurnRequests
<1> HIDE DEF q1
<1>8. /\ r \in TurnRequests /\ r.kind = "compose" /\ r.phase = "order" /\ r.reloads = FALSE
      /\ r.form = form /\ r.revision = Len(games) /\ r.expected = p.revision
      /\ r.draft = p.draft /\ r.rearranged = p.rearranged
  BY <1>3, <1>7 DEF TurnRequests
<1> HIDE DEF r
<1>9. SoundRequest(r, games)
  BY <1>3, <1>4, <1>8, TabFacts DEF SoundRequest
<1> QED
  BY <1>5, <1>8, <1>9, RequestStep

\* What the turn form of a page holds is a command.
LEMMA TurnCommandIsPosted ==
  ASSUME NEW p \in TurnPages, TurnCommand(p) # NoChoice
  PROVE  TurnCommand(p) \in TurnPosts
<1>1. p.draft.placements \subseteq Placed /\ p.draft.exchange \subseteq RackTiles
  BY DEF TurnPages, Drafts
<1>2. \/ TurnCommand(p) = [name |-> "PLAY", placements |-> p.draft.placements]
      \/ TurnCommand(p) = [name |-> "EXCHANGE", tiles |-> p.draft.exchange]
      \/ TurnCommand(p) = [name |-> "PASS"]
      \/ TurnCommand(p) = [name |-> "RESIGN"]
  BY DEF TurnCommand
<1> QED
  BY <1>1, <1>2 DEF TurnPosts

\* SubmitTurn keeps the invariant.
LEMMA SubmitTurnSound ==
  ASSUME TurnInv, NEW t \in Tabs, SubmitTurn(t)
  PROVE  TurnInv'
<1> DEFINE p == page[t]
           form == TurnCommand(p)
<1>1. p # NoPage /\ p \in TurnPages /\ SoundPage(p, games) /\ form # NoChoice
  BY TabFacts DEF SubmitTurn
<1>2. Click(t, [Request("turn", "commit") EXCEPT !.form = form])
  BY DEF SubmitTurn
<1>3. /\ p.draft \in Drafts /\ Coherent(p.draft) /\ p.rearranged \in BOOLEAN
         /\ p.revision \in Nat
  BY <1>1 DEF SoundPage, TurnPages
<1>4. form \in TurnPosts
  BY <1>1, TurnCommandIsPosted
<1> HIDE DEF form
<1> DEFINE q == Request("turn", "commit")
           q1 == [q EXCEPT !.form = form]
           r == [q1 EXCEPT !.expected = p.revision, !.draft = p.draft,
                 !.rearranged = p.rearranged]
<1>5. req' = [req EXCEPT ![t] = r] /\ UNCHANGED <<games, plan, order, page>>
  BY <1>2 DEF Click
<1>6. q \in TurnRequests /\ q.kind = "turn" /\ q.phase = "commit"
  BY FreshRequest
<1> HIDE DEF q
<1>7. q1 \in TurnRequests /\ q1.kind = "turn" /\ q1.phase = "commit" /\ q1.form = form
  BY <1>4, <1>6 DEF TurnRequests
<1> HIDE DEF q1
<1>8. /\ r \in TurnRequests /\ r.kind = "turn" /\ r.phase = "commit" /\ r.form = form
      /\ r.expected = p.revision /\ r.draft = p.draft
  BY <1>3, <1>7 DEF TurnRequests
<1> HIDE DEF r
<1>9. SoundRequest(r, games)
  BY <1>3, <1>4, <1>8 DEF SoundRequest
<1> QED
  BY <1>1, <1>5, <1>8, <1>9, RequestStep DEF form

\* ReadGame keeps the invariant.
LEMMA ReadGameSound ==
  ASSUME TurnInv, NEW t \in Tabs, ReadGame(t)
  PROVE  TurnInv'
<1> DEFINE q == req[t]
           r == [q EXCEPT !.revision = Len(games), !.phase = "order"]
<1>1. /\ q.kind = "compose" /\ q.phase = "game"
      /\ req' = [req EXCEPT ![t] = r] /\ UNCHANGED <<games, plan, order, page>>
  BY DEF ReadGame, At
<1>2. q \in TurnRequests /\ q # NoRequest /\ SoundRequest(q, games) /\ Len(games) \in Nat
  BY <1>1, TabFacts
<1> HIDE DEF q
<1>3. /\ r \in TurnRequests /\ r.kind = "compose" /\ r.phase = "order" /\ r.draft = q.draft
      /\ r.revision = Len(games) /\ r.expected = q.expected /\ r.form = q.form
      /\ r.reloads = q.reloads /\ r.rearranged = q.rearranged
  BY <1>1, <1>2 DEF TurnRequests
<1> HIDE DEF r
<1>4. SoundRequest(r, games)
  BY <1>1, <1>2, <1>3, TabFacts DEF SoundRequest
<1> QED
  BY <1>1, <1>3, <1>4, RequestStep

\* ReadOrder keeps the invariant.
LEMMA ReadOrderSound ==
  ASSUME TurnInv, NEW t \in Tabs, ReadOrder(t)
  PROVE  TurnInv'
<1> DEFINE q == req[t]
           now == ReconcileRackOrder(order, Current.rack)
           seen == [q EXCEPT !.order = now]
<1>1. /\ q.kind \in {"open", "compose", "turn"} /\ q.phase = "order"
      /\ UNCHANGED <<games, plan, order>>
  BY DEF ReadOrder, At
<1>2. q \in TurnRequests /\ q # NoRequest /\ SoundRequest(q, games)
  BY <1>1, TabFacts
<1>3. q.revision \in 1..Len(games) /\ Coherent(q.draft)
  BY <1>1, <1>2 DEF SoundRequest
<1>4. Lists(now, Current.rack) /\ now \in Seq(RackTiles)
  <2>1. Current.rack \in SUBSET RackTiles
    BY TabFacts DEF GameStates
  <2> QED
    BY <2>1, ReconciledLists DEF TurnInv, SoundOrder, Lists
<1> HIDE DEF now
<1>5. ListsSince(now, q.revision, games)
  <2>1. Len(games) \in q.revision..Len(games)
    BY <1>3, TabFacts
  <2> QED
    BY <2>1, <1>4 DEF ListsSince, Current
<1>6. CASE q.kind = "turn"
  <2> DEFINE p == [revision |-> seen.revision, order |-> seen.order,
                   draft |-> EmptyDraft, rearranged |-> FALSE]
  <2>1. page' = [page EXCEPT ![t] = p] /\ req' = [req EXCEPT ![t] = NoRequest]
    BY <1>6 DEF ReadOrder, now
  <2>2. /\ p \in TurnPages /\ p.revision = q.revision /\ p.order = now
        /\ p.draft = EmptyDraft /\ ~p.rearranged
    <3> HIDE DEF q
    <3>1. seen.revision = q.revision /\ seen.order = now /\ q.revision \in Nat
      BY <1>2 DEF TurnRequests
    <3> HIDE DEF seen
    <3> QED
      BY <3>1, <1>4, EmptyDraftIsSound DEF TurnPages
  <2> HIDE DEF p
  <2>3. Held(EmptyDraft, games[q.revision])
    BY DEF Held, Fits, EmptyDraft
  <2>4. SoundPage(p, games)
    BY <2>2, <2>3, <1>3, <1>5, EmptyDraftIsSound DEF SoundPage
  <2> QED
    BY <2>1, <2>2, <2>4, <1>1, TablesStay, PageStep
<1>7. CASE q.kind # "turn"
  <2> DEFINE r == [seen EXCEPT !.phase = "handle"]
  <2>1. req' = [req EXCEPT ![t] = r] /\ UNCHANGED <<games, plan, order, page>>
    BY <1>7, <1>1 DEF ReadOrder, now
  <2> HIDE DEF q
  <2>2. /\ seen \in TurnRequests /\ seen.kind = q.kind /\ seen.draft = q.draft
        /\ seen.revision = q.revision /\ seen.expected = q.expected /\ seen.form = q.form
        /\ seen.reloads = q.reloads /\ seen.rearranged = q.rearranged /\ seen.order = now
    BY <1>2, <1>4 DEF TurnRequests
  <2> HIDE DEF seen
  <2>3. /\ r \in TurnRequests /\ r.kind = q.kind /\ r.phase = "handle" /\ r.draft = q.draft
        /\ r.revision = q.revision /\ r.expected = q.expected /\ r.form = q.form
        /\ r.reloads = q.reloads /\ r.rearranged = q.rearranged /\ r.order = now
    BY <2>2 DEF TurnRequests
  <2> HIDE DEF r
  <2>4. SoundRequest(r, games)
    BY <2>3, <1>1, <1>2, <1>3, <1>5, <1>7 DEF SoundRequest
  <2> QED
    BY <2>1, <2>3, <2>4, <1>7, RequestStep
<1> QED
  BY <1>6, <1>7

\* Persists keeps the invariant when the draft is one of the game as shown.
LEMMA PersistsSound ==
  ASSUME TurnInv, NEW t \in Tabs, NEW d \in Drafts, Coherent(d), Persists(t, d),
         req[t].kind \in {"open", "compose"}, req[t].phase = "handle",
         Held(d, games[req[t].revision]), UNCHANGED <<games, plan, order>>
  PROVE  TurnInv'
<1>1. /\ req' = [req EXCEPT ![t] = [req[t] EXCEPT !.draft = d, !.phase = "persist",
                                                 !.rearranged = FALSE]]
      /\ UNCHANGED page
  BY DEF Persists
<1> QED
  BY <1>1, PersistsStep

\* ShowStored keeps the invariant.
LEMMA ShowStoredSound ==
  ASSUME TurnInv, NEW t \in Tabs, ShowStored(t)
  PROVE  TurnInv'
<1>1. PICK found \in LoadedPlans :
        Persists(t, StoredDraft(t, found)) \/ Show(t, StoredDraft(t, found))
  BY DEF ShowStored
<1> DEFINE d == StoredDraft(t, found)
<1>2. req[t].kind = "open" /\ req[t].phase = "handle" /\ UNCHANGED <<games, plan, order>>
  BY DEF ShowStored, At
<1>3. /\ req[t] \in TurnRequests /\ req[t] # NoRequest /\ req[t].revision \in 1..Len(games)
  BY <1>2, TabFacts DEF SoundRequest
<1>4. d \in Drafts /\ Coherent(d) /\ Held(d, games[req[t].revision])
  BY <1>3, StoredDraftIsSound
<1>5. Persists(t, d) \/ Show(t, d)
  BY <1>1
<1> HIDE DEF d
<1>6. CASE Persists(t, d)
  BY <1>6, <1>2, <1>4, PersistsSound
<1>7. CASE Show(t, d)
  BY <1>7, <1>2, <1>4, TablesStay, ShowStep
<1> QED
  BY <1>5, <1>6, <1>7

\* ShowStale keeps the invariant.
LEMMA ShowStaleSound ==
  ASSUME TurnInv, NEW t \in Tabs, ShowStale(t)
  PROVE  TurnInv'
<1>1. req[t].kind = "compose" /\ req[t].phase = "handle" /\ UNCHANGED <<games, plan, order>>
  BY DEF ShowStale, At
<1>2. PICK found \in LoadedPlans : Persists(t, StoredDraft(t, found))
  BY DEF ShowStale
<1> DEFINE d == StoredDraft(t, found)
<1>3. req[t] \in TurnRequests /\ req[t] # NoRequest /\ req[t].revision \in 1..Len(games)
  BY <1>1, TabFacts DEF SoundRequest
<1>4. d \in Drafts /\ Coherent(d) /\ Held(d, games[req[t].revision])
  BY <1>3, StoredDraftIsSound
<1>5. Persists(t, d)
  BY <1>2
<1> HIDE DEF d
<1> QED
  BY <1>1, <1>4, <1>5, PersistsSound

\* Handle keeps the invariant.
LEMMA HandleSound ==
  ASSUME TurnInv, NEW t \in Tabs, Handle(t)
  PROVE  TurnInv'
<1> DEFINE q == req[t]
           g == games[q.revision]
           form == q.form
           d == BeginAction(q.draft, form.action)
           seen == TilesOf(q.order)
<1>1. /\ q.kind = "compose" /\ q.phase = "handle" /\ ~q.reloads /\ q.expected = q.revision
      /\ UNCHANGED <<games, plan, order>>
  BY DEF Handle, At
<1>2. q \in TurnRequests /\ q # NoRequest /\ SoundRequest(q, games)
  BY <1>1, TabFacts
<1>3. /\ q.revision \in 1..Len(games) /\ Coherent(q.draft) /\ q.draft \in Drafts
      /\ Offered(form, q.draft, g) /\ (~q.rearranged => Held(q.draft, g))
      /\ q.rearranged \in BOOLEAN
  BY <1>1, <1>2 DEF SoundRequest, TurnRequests
<1>4. g \in GameStates
  BY <1>3, TabFacts
<1>5. \/ Refused(form, d, g, seen) /\ Show(t, d)
      \/ /\ ~Refused(form, d, g, seen) /\ Rearranges(form, d)
         /\ req' = [req EXCEPT ![t].draft = d, ![t].phase = "save"] /\ UNCHANGED page
      \/ /\ ~Refused(form, d, g, seen) /\ ~Rearranges(form, d)
         /\ form.action = "SWAP_RACK_TILES" /\ Show(t, Edited(form, d, g))
      \/ /\ ~Refused(form, d, g, seen) /\ ~Rearranges(form, d)
         /\ req' = [req EXCEPT ![t].draft = Edited(form, d, g), ![t].phase = "persist"]
         /\ UNCHANGED page
  BY DEF Handle
<1>6. /\ d \in Drafts /\ Coherent(d) /\ (Held(q.draft, g) => Held(d, g))
      /\ d.placements = q.draft.placements /\ d.mode = q.draft.mode
      /\ form.action \notin {"PICK_RACK_TILE", "SWAP_RACK_TILES", "SHUFFLE_RACK", "ZOOM"} =>
           d.rackTile = NoTile
  BY <1>3, BegunDraft
<1> HIDE DEF d
<1>7. Offered(form, d, g)
  BY <1>3, <1>6 DEF Offered
<1>8. CASE Show(t, d)
  BY <1>8, <1>1, <1>3, <1>6, TablesStay, ShowStep
<1>9. ASSUME ~Refused(form, d, g, seen), Rearranges(form, d),
             req' = [req EXCEPT ![t].draft = d, ![t].phase = "save"], UNCHANGED page
      PROVE  TurnInv'
  <2> DEFINE r == [q EXCEPT !.draft = d, !.phase = "save"]
  <2>1. req' = [req EXCEPT ![t] = r]
    BY <1>9
  <2>2. form.action = "SWAP_RACK_TILES" => {d.rackTile, form.tile} \subseteq seen
    BY <1>9 DEF Refused, Rearranges
  <2> HIDE DEF q
  <2>3. /\ r \in TurnRequests /\ r.kind = "compose" /\ r.phase = "save" /\ r.draft = d
        /\ r.revision = q.revision /\ r.expected = q.expected /\ r.form = form
        /\ r.rearranged = q.rearranged /\ r.order = q.order
    BY <1>1, <1>2, <1>6 DEF TurnRequests
  <2> HIDE DEF r
  <2>4. ListsSince(q.order, q.revision, games)
    BY <1>1, <1>2 DEF SoundRequest
  <2>5. SoundRequest(r, games)
    BY <2>2, <2>3, <2>4, <1>1, <1>3, <1>6, <1>9 DEF SoundRequest
  <2> QED
    BY <2>1, <2>3, <2>5, <1>1, <1>9, RequestStep
<1>10. ASSUME ~Refused(form, d, g, seen), ~Rearranges(form, d)
       PROVE  /\ Edited(form, d, g) \in Drafts /\ Coherent(Edited(form, d, g))
              /\ ~q.rearranged => Held(Edited(form, d, g), g)
  BY <1>10, <1>3, <1>4, <1>6, <1>7, EditedDraft
<1>11. ASSUME ~Refused(form, d, g, seen), ~Rearranges(form, d), Show(t, Edited(form, d, g))
       PROVE  TurnInv'
  BY <1>11, <1>1, <1>10, TablesStay, ShowStep
<1>12. ASSUME ~Refused(form, d, g, seen), ~Rearranges(form, d), UNCHANGED page,
              req' = [req EXCEPT ![t].draft = Edited(form, d, g), ![t].phase = "persist"]
       PROVE  TurnInv'
  <2> DEFINE e == Edited(form, d, g)
  <2>1. e \in Drafts /\ Coherent(e) /\ (~q.rearranged => Held(e, g))
    BY <1>12, <1>10
  <2>2. req' = [req EXCEPT ![t] = [req[t] EXCEPT !.draft = e, !.phase = "persist",
                                                 !.rearranged = req[t].rearranged]]
    <3> HIDE DEF e
    <3>1. [q EXCEPT !.draft = e, !.phase = "persist"]
            = [q EXCEPT !.draft = e, !.phase = "persist", !.rearranged = q.rearranged]
      <4> HIDE DEF q
      <4> QED
        BY <1>2 DEF TurnRequests
    <3> QED
      BY <3>1, <1>12 DEF e
  <2> HIDE DEF e
  <2> QED
    BY <2>1, <2>2, <1>1, <1>3, <1>12, PersistsStep
<1> QED
  BY <1>5, <1>8, <1>9, <1>11, <1>12

\* A rack that is rearranged leaves the draft alone, but for the tile picked.
LEMMA RearrangedDraft ==
  ASSUME NEW d \in Drafts, Coherent(d), NEW form, Rearranges(form, d), NEW g
  PROVE  LET e == Edited(form, d, g)
         IN  e \in Drafts /\ Coherent(e) /\ \A h : Held(d, h) => Held(e, h)
<1> DEFINE e == Edited(form, d, g)
           swapped == [d EXCEPT !.rackTile = NoTile, !.selected = NoTile]
<1>1. /\ swapped \in Drafts /\ swapped.rackTile = NoTile /\ swapped.selected = NoTile
      /\ swapped.placements = d.placements /\ swapped.exchange = d.exchange
      /\ swapped.mode = d.mode
  BY DEF Drafts
<1>2. e = d \/ e = swapped
  BY DEF Rearranges, Edited
<1> HIDE DEF swapped, e
<1>3. Coherent(swapped) /\ \A h : Held(d, h) => Held(swapped, h)
  BY <1>1 DEF Coherent, Held
<1>4. e \in Drafts /\ Coherent(e) /\ \A h : Held(d, h) => Held(e, h)
  BY <1>1, <1>2, <1>3
<1> QED
  BY <1>4 DEF e

\* SaveOrder keeps the invariant.
LEMMA SaveOrderSound ==
  ASSUME TurnInv, NEW t \in Tabs, SaveOrder(t)
  PROVE  TurnInv'
<1> DEFINE q == req[t]
           form == q.form
           wishes == IF form.action = "SHUFFLE_RACK" THEN ShufflesOf(q.order)
                     ELSE {SwapRackTiles(q.order, q.draft.rackTile, form.tile)}
           e == Edited(form, q.draft, Current)
           r == [q EXCEPT !.draft = e, !.phase = "game", !.reloads = TRUE]
<1>1. /\ q.kind = "compose" /\ q.phase = "save" /\ UNCHANGED <<games, plan>>
  BY DEF SaveOrder, At
<1>2. \/ /\ \E wanted \in wishes : order' = ReconcileRackOrder(wanted, Current.rack)
         /\ req' = [req EXCEPT ![t] = r] /\ UNCHANGED page
      \/ Show(t, q.draft) /\ UNCHANGED order
  BY DEF SaveOrder
<1>3. q \in TurnRequests /\ q # NoRequest /\ SoundRequest(q, games)
  BY <1>1, TabFacts
<1>4. /\ q.draft \in Drafts /\ Coherent(q.draft) /\ Rearranges(form, q.draft)
      /\ ~q.rearranged => Held(q.draft, games[q.expected])
      /\ q.revision = q.expected /\ q.expected \in 1..Len(games)
      /\ ListsSince(q.order, q.revision, games)
      /\ form.action = "SWAP_RACK_TILES" =>
           {q.draft.rackTile, form.tile} \subseteq TilesOf(q.order)
  BY <1>1, <1>3 DEF SoundRequest, TurnRequests
<1>5. CASE Show(t, q.draft) /\ UNCHANGED order
  BY <1>5, <1>1, <1>4, TablesStay, ShowStep
<1>6. ASSUME NEW wanted \in wishes, order' = ReconcileRackOrder(wanted, Current.rack),
             req' = [req EXCEPT ![t] = r], UNCHANGED page
      PROVE  TurnInv'
  <2>1. PICK k \in q.revision..Len(games) : Lists(q.order, games[k].rack)
    BY <1>4 DEF ListsSince
  <2>2. Lists(wanted, games[k].rack)
    <3>1. CASE form.action = "SHUFFLE_RACK"
      <4>1. wanted \in ShufflesOf(q.order)
        BY <3>1
      <4> QED
        BY <4>1, <2>1, ShuffleLists
    <3>2. CASE form.action # "SHUFFLE_RACK"
      <4>1. wanted = SwapRackTiles(q.order, q.draft.rackTile, form.tile)
        BY <3>2
      <4>2. q.draft.rackTile \in games[k].rack /\ form.tile \in games[k].rack
        BY <3>2, <2>1, <1>4 DEF Rearranges, Lists
      <4> QED
        BY <4>1, <4>2, <2>1, SwapLists
    <3> QED
      BY <3>1, <3>2
  <2>3. SoundOrder'
    <3>1. Current.rack \in SUBSET RackTiles
      BY TabFacts DEF GameStates
    <3>2. Lists(ReconcileRackOrder(wanted, Current.rack), Current.rack)
      BY <3>1, <2>2, ReconciledLists DEF Lists
    <3> QED
      BY <3>2, <1>6 DEF SoundOrder, Lists
  <2>4. e \in Drafts /\ Coherent(e) /\ (~q.rearranged => Held(e, games[q.expected]))
    BY <1>4, RearrangedDraft
  <2>5. req' = [req EXCEPT ![t] = r] /\ page' = [page EXCEPT ![t] = page[t]]
    BY <1>6, TabFacts
  <2> HIDE DEF q, e
  <2>6. /\ r \in TurnRequests /\ r.kind = "compose" /\ r.phase = "game" /\ r.draft = e
        /\ r.expected = q.expected /\ r.reloads /\ r.rearranged = q.rearranged
    BY <1>1, <1>3, <2>4 DEF TurnRequests
  <2> HIDE DEF r
  <2>7. SoundRequest(r, games)
    BY <2>4, <2>6, <1>4 DEF SoundRequest
  <2>8. games' \in Seq(GameStates) /\ Extends(games', games) /\ SoundPlan'
    BY <1>1, TabFacts, TablesStay DEF TurnInv
  <2>9. /\ page[t] \in TurnPages \cup {NoPage} /\ SoundPage(page[t], games')
        /\ SoundRequest(r, games')
    BY <1>1, <2>7, TabFacts
  <2> QED
    BY <2>3, <2>5, <2>6, <2>8, <2>9, TabStep
<1> QED
  BY <1>2, <1>5, <1>6

\* ShowRearranged keeps the invariant.
LEMMA ShowRearrangedSound ==
  ASSUME TurnInv, NEW t \in Tabs, ShowRearranged(t)
  PROVE  TurnInv'
<1> DEFINE q == req[t]
           moved == q.rearranged \/ q.revision # q.expected
<1>1. /\ q.kind = "compose" /\ q.phase = "handle" /\ UNCHANGED <<games, plan, order>>
  BY DEF ShowRearranged, At
<1>2. q \in TurnRequests /\ q # NoRequest /\ SoundRequest(q, games)
  BY <1>1, TabFacts
<1>3. /\ q.draft \in Drafts /\ Coherent(q.draft) /\ moved \in BOOLEAN
      /\ ~moved => Held(q.draft, games[q.revision])
      /\ q.revision \in 1..Len(games) /\ ListsSince(q.order, q.revision, games)
  BY <1>1, <1>2 DEF SoundRequest, TurnRequests
<1>4. CASE q.form.action = "SHUFFLE_RACK"
  <2>1. req' = [req EXCEPT ![t].phase = "persist", ![t].rearranged = moved] /\ UNCHANGED page
    BY <1>4 DEF ShowRearranged
  <2>2. [q EXCEPT !.phase = "persist", !.rearranged = moved]
          = [q EXCEPT !.draft = q.draft, !.phase = "persist", !.rearranged = moved]
    <3> HIDE DEF q, moved
    <3> QED
      BY <1>2 DEF TurnRequests
  <2>3. req' = [req EXCEPT ![t] = [q EXCEPT !.draft = q.draft, !.phase = "persist",
                                            !.rearranged = moved]]
    BY <2>1, <2>2
  <2> HIDE DEF moved
  <2> QED
    BY <2>1, <2>3, <1>1, <1>3, PersistsStep
<1>5. CASE q.form.action # "SHUFFLE_RACK"
  <2> DEFINE p == [revision |-> q.revision, order |-> q.order, draft |-> q.draft,
                   rearranged |-> moved]
  <2>1. page' = [page EXCEPT ![t] = p] /\ req' = [req EXCEPT ![t] = NoRequest]
    BY <1>5 DEF ShowRearranged
  <2> HIDE DEF q, moved
  <2>2. p \in TurnPages
    BY <1>2, <1>3 DEF TurnPages, TurnRequests
  <2>3. SoundPage(p, games)
    BY <1>3 DEF SoundPage
  <2> HIDE DEF p
  <2> QED
    BY <2>1, <2>2, <2>3, <1>1, TablesStay, PageStep
<1> QED
  BY <1>4, <1>5

\* PersistDraft keeps the invariant.
LEMMA PersistDraftSound ==
  ASSUME TurnInv, NEW t \in Tabs, PersistDraft(t)
  PROVE  TurnInv'
<1> DEFINE q == req[t]
           stored == [revision |-> q.revision, draft |-> q.draft]
<1>1. /\ q.kind \in {"open", "compose"} /\ q.phase = "persist" /\ UNCHANGED <<games, order>>
      /\ Show(t, q.draft) /\ plan' \in {plan, NoPlan, stored}
  BY DEF PersistDraft, At
<1>2. q \in TurnRequests /\ q # NoRequest /\ SoundRequest(q, games)
  BY <1>1, TabFacts
<1>3. /\ q.draft \in Drafts /\ Coherent(q.draft) /\ q.revision \in Nat
      /\ ~q.rearranged => Held(q.draft, games[q.revision])
  BY <1>1, <1>2 DEF SoundRequest, TurnRequests
<1>4. SoundPlan'
  <2> HIDE DEF q
  <2>1. stored \in [revision : Nat, draft : Drafts] /\ Coherent(stored.draft)
    BY <1>3
  <2> HIDE DEF stored
  <2>2. plan # NoPlan => plan \in [revision : Nat, draft : Drafts] /\ Coherent(plan.draft)
    BY DEF TurnInv, SoundPlan
  <2>3. plan' # NoPlan => plan' \in [revision : Nat, draft : Drafts] /\ Coherent(plan'.draft)
    BY <2>1, <2>2, <1>1
  <2> QED
    BY <2>3 DEF SoundPlan, NoPlan
<1> QED
  BY <1>1, <1>3, <1>4, TablesStay, ShowStep

\* An accepted command leads to a game.
LEMMA CommandLeadsOn ==
  ASSUME NEW g \in GameStates, NEW command \in TurnPosts, NEW h \in AfterCommand(g, command)
  PROVE  h \in GameStates
<1>1. g.rack \subseteq RackTiles /\ g.bag \subseteq RackTiles /\ g.board \subseteq BoardSquares
  BY DEF GameStates
<1>2. CASE command.name = "PLAY"
  <2> DEFINE used == {p.tile : p \in command.placements}
             squares == {p.square : p \in command.placements}
  <2>1. command.placements \subseteq Placed
    BY <1>2 DEF TurnPosts
  <2>2. squares \subseteq BoardSquares
    BY <2>1 DEF Placed
  <2>3. PICK drawn \in SUBSET g.bag :
          h = [g EXCEPT !.rack = (@ \ used) \cup drawn, !.bag = @ \ drawn, !.myTurn = FALSE,
                        !.board = @ \cup squares,
                        !.completed = (g.rack \ used) \cup drawn = {}]
    BY <1>2 DEF AfterCommand, Draws, kSubset
  <2> HIDE DEF used, squares
  <2> DEFINE rack == (g.rack \ used) \cup drawn
             bag == g.bag \ drawn
             board == g.board \cup squares
             completed == rack = {}
  <2>4. rack \subseteq RackTiles /\ bag \subseteq RackTiles /\ board \subseteq BoardSquares
        /\ completed \in BOOLEAN
    BY <1>1, <2>2
  <2>5. h = [g EXCEPT !.rack = rack, !.bag = bag, !.myTurn = FALSE, !.board = board,
                      !.completed = completed]
    BY <2>3
  <2> HIDE DEF rack, bag, board, completed
  <2> QED
    BY <2>4, <2>5 DEF GameStates
<1>3. CASE command.name = "EXCHANGE"
  <2>1. command.tiles \subseteq RackTiles
    BY <1>3 DEF TurnPosts
  <2>2. PICK drawn \in SUBSET g.bag :
          h = [g EXCEPT !.rack = (@ \ command.tiles) \cup drawn, !.myTurn = FALSE,
                        !.bag = (@ \ drawn) \cup command.tiles]
    BY <1>3 DEF AfterCommand, Draws, kSubset
  <2> QED
    BY <2>1, <2>2, <1>1 DEF GameStates
<1>4. CASE command.name \notin {"PLAY", "EXCHANGE"}
  BY <1>4 DEF AfterCommand, GameStates
<1> QED
  BY <1>2, <1>3, <1>4

\* One more game of the right kind.
LEMMA GameFollows ==
  ASSUME TurnInv, NEW g \in GameStates, games' = Append(games, g)
  PROVE  games' \in Seq(GameStates) /\ Extends(games', games) /\ Len(games') = Len(games) + 1
<1>1. games \in Seq(GameStates)
  BY DEF TurnInv
<1> QED
  BY <1>1, AppendProperties, LenProperties DEF Extends

\* CommitTurn keeps the invariant.
LEMMA CommitTurnSound ==
  ASSUME TurnInv, NEW t \in Tabs, CommitTurn(t)
  PROVE  TurnInv'
<1> DEFINE q == req[t]
           r == [q EXCEPT !.phase = "clear"]
<1>1. /\ q.kind = "turn" /\ q.phase = "commit" /\ UNCHANGED <<plan, order, page>>
      /\ req' = [req EXCEPT ![t] = r] \/ req' = [req EXCEPT ![t] = NoRequest]
  BY DEF CommitTurn, At
<1>2. q \in TurnRequests /\ q # NoRequest /\ SoundRequest(q, games)
  BY <1>1, TabFacts
<1>3. q.form \in TurnPosts /\ Coherent(q.draft)
  BY <1>1, <1>2 DEF SoundRequest
<1>4. PICK g \in AfterCommand(Current, q.form) : games' = Append(games, g)
  BY DEF CommitTurn
<1>5. g \in GameStates
  BY <1>3, TabFacts, CommandLeadsOn
<1>6. games' \in Seq(GameStates) /\ Extends(games', games)
  BY <1>4, <1>5, GameFollows
<1>7. SoundPlan' /\ SoundOrder'
  BY <1>1, TablesStay
<1>8. /\ page[t] \in TurnPages \cup {NoPage} /\ page' = [page EXCEPT ![t] = page[t]]
      /\ SoundPage(page[t], games')
  BY <1>1, <1>6, TabFacts, SoundStays DEF TurnInv
<1>9. CASE req' = [req EXCEPT ![t] = NoRequest]
  <2>1. SoundRequest(NoRequest, games') /\ NoRequest.kind # "turn"
    BY DEF SoundRequest, NoRequest
  <2> QED
    BY <2>1, <1>6, <1>7, <1>8, <1>9, TabStep
<1>10. CASE req' = [req EXCEPT ![t] = r]
  <2> HIDE DEF q
  <2>1. r \in TurnRequests /\ r.kind = "turn" /\ r.phase = "clear" /\ r.form = q.form
        /\ r.draft = q.draft
    BY <1>1, <1>2 DEF TurnRequests
  <2> HIDE DEF r
  <2>2. SoundRequest(r, games')
    BY <2>1, <1>3 DEF SoundRequest
  <2> QED
    BY <2>1, <2>2, <1>6, <1>7, <1>8, <1>10, TabStep
<1> QED
  BY <1>1, <1>9, <1>10

\* ClearPlan keeps the invariant.
LEMMA ClearPlanSound ==
  ASSUME TurnInv, NEW t \in Tabs, ClearPlan(t)
  PROVE  TurnInv'
<1> DEFINE q == req[t]
           r == [q EXCEPT !.phase = "order", !.revision = Len(games)]
<1>1. /\ q.kind = "turn" /\ q.phase = "clear" /\ UNCHANGED <<games, order, page>>
      /\ req' = [req EXCEPT ![t] = r] /\ plan' \in {plan, NoPlan}
  BY DEF ClearPlan, At
<1>2. q \in TurnRequests /\ q # NoRequest /\ SoundRequest(q, games)
  BY <1>1, TabFacts
<1>3. q.form \in TurnPosts /\ Coherent(q.draft)
  BY <1>1, <1>2 DEF SoundRequest
<1> HIDE DEF q
<1>4. /\ r \in TurnRequests /\ r.kind = "turn" /\ r.phase = "order" /\ r.form = q.form
      /\ r.draft = q.draft /\ r.revision = Len(games)
  BY <1>1, <1>2, TabFacts DEF TurnRequests
<1> HIDE DEF r
<1>5. SoundRequest(r, games)
  BY <1>3, <1>4, TabFacts DEF SoundRequest
<1>6. SoundPlan' /\ SoundOrder'
  <2>1. CASE plan' = plan
    BY <2>1, <1>1, TablesStay
  <2>2. CASE plan' = NoPlan
    BY <2>2, <1>1, TablesStay DEF SoundPlan, NoPlan
  <2> QED
    BY <2>1, <2>2, <1>1
<1>7. games' \in Seq(GameStates) /\ Extends(games', games)
  BY <1>1, TabFacts DEF TurnInv
<1>8. /\ page[t] \in TurnPages \cup {NoPage} /\ page' = [page EXCEPT ![t] = page[t]]
      /\ SoundPage(page[t], games') /\ SoundRequest(r, games')
  BY <1>1, <1>5, TabFacts
<1> QED
  BY <1>1, <1>4, <1>6, <1>7, <1>8, TabStep

\* OthersMove keeps the invariant.
LEMMA OthersMoveSound ==
  ASSUME TurnInv, OthersMove
  PROVE  TurnInv'
<1>1. UNCHANGED <<plan, order, page, req>>
  BY DEF OthersMove
<1>2. PICK g : games' = Append(games, g) /\ g \in GameStates
  <2>1. PICK squares \in {{}} \cup {{s} : s \in BoardSquares \ Current.board} :
          games' = Append(games, [Current EXCEPT !.board = @ \cup squares, !.myTurn = TRUE])
    BY DEF OthersMove
  <2>2. squares \subseteq BoardSquares
    BY <2>1
  <2>3. ASSUME NEW t \in Tabs
        PROVE  [Current EXCEPT !.board = @ \cup squares, !.myTurn = TRUE] \in GameStates
    BY <2>2, TabFacts DEF GameStates
  <2>4. games[Len(games)] \in GameStates
    <3>1. games \in Seq(GameStates) /\ games # <<>>
      BY DEF TurnInv
    <3> QED
      BY <3>1, LenProperties, ElementOfSeq, EmptySeq
  <2>5. [Current EXCEPT !.board = @ \cup squares, !.myTurn = TRUE] \in GameStates
    BY <2>2, <2>4 DEF GameStates, Current
  <2> QED
    BY <2>1, <2>5
<1>3. games' \in Seq(GameStates) /\ Extends(games', games) /\ games' # <<>>
  <2>1. games' \in Seq(GameStates) /\ Extends(games', games) /\ Len(games') = Len(games) + 1
    BY <1>2, GameFollows
  <2>2. Len(games) \in Nat
    BY LenProperties DEF TurnInv
  <2>3. Len(games') # 0
    BY <2>1, <2>2
  <2> QED
    BY <2>1, <2>3, EmptySeq
<1>4. SoundPlan' /\ SoundOrder'
  BY <1>1, TablesStay
<1>5. ASSUME NEW t \in Tabs
      PROVE  SoundPage(page[t], games') /\ SoundRequest(req[t], games') /\ SoundTurn(t)'
  <2>1. SoundPage(page[t], games') /\ SoundRequest(req[t], games')
    BY <1>3, TabFacts, SoundStays DEF TurnInv
  <2>2. ASSUME req[t].kind = "turn", req[t].phase = "commit"
        PROVE  /\ page[t] # NoPage /\ req[t].expected = page[t].revision
               /\ req[t].form = TurnCommand(page[t])'
    <3>1. /\ page[t] # NoPage /\ req[t].expected = page[t].revision
          /\ req[t].form = TurnCommand(page[t])
      BY <2>2, TabFacts DEF SoundTurn, At
    <3>2. games'[page[t].revision] = games[page[t].revision]
      BY <3>1, <1>3, TabFacts DEF SoundPage, Extends
    <3>3. TurnCommand(page[t])' = TurnCommand(page[t])
      BY <1>1, <3>2 DEF TurnCommand
    <3> QED
      BY <3>1, <3>3
  <2> QED
    BY <2>1, <2>2, <1>1 DEF SoundTurn, At
<1>6. page' \in [Tabs -> TurnPages \cup {NoPage}]
      /\ req' \in [Tabs -> TurnRequests \cup {NoRequest}]
  BY <1>1 DEF TurnInv
<1> QED
  BY <1>1, <1>3, <1>4, <1>5, <1>6 DEF TurnInv

\* The first game of a player, before a page was opened.
LEMMA TurnInitSound ==
  TurnInit => TurnInv
<1> SUFFICES ASSUME TurnInit PROVE TurnInv
  OBVIOUS
<1>1. PICK rack \in SUBSET RackTiles, myTurn \in BOOLEAN :
        games = <<[rack |-> rack, bag |-> RackTiles \ rack, board |-> {},
                   myTurn |-> myTurn, completed |-> FALSE]>>
  BY DEF TurnInit, kSubset
<1> DEFINE g == [rack |-> rack, bag |-> RackTiles \ rack, board |-> {},
                 myTurn |-> myTurn, completed |-> FALSE]
<1>2. g \in GameStates
  BY DEF GameStates
<1> HIDE DEF g
<1>3. games = <<g>>
  BY <1>1 DEF g
<1>4. games \in Seq(GameStates) /\ games # <<>>
  BY <1>2, <1>3
<1>5. SoundPlan /\ SoundOrder
  BY DEF TurnInit, SoundPlan, SoundOrder, NoRepeats
<1>6. /\ page \in [Tabs -> TurnPages \cup {NoPage}]
         /\ req \in [Tabs -> TurnRequests \cup {NoRequest}]
      /\ \A t \in Tabs : page[t] = NoPage /\ req[t] = NoRequest
  BY DEF TurnInit
<1>7. \A t \in Tabs : SoundPage(page[t], games) /\ SoundRequest(req[t], games) /\ SoundTurn(t)
  <2>1. NoRequest.kind = "none"
    BY DEF NoRequest
  <2> QED
    BY <2>1, <1>6 DEF SoundPage, SoundRequest, SoundTurn, At
<1> QED
  BY <1>4, <1>5, <1>6, <1>7 DEF TurnInv

\* Every step keeps the invariant.
LEMMA TurnStepSound ==
  TurnInv /\ [TurnNext]_turnVars => TurnInv'
<1> SUFFICES ASSUME TurnInv, [TurnNext]_turnVars PROVE TurnInv'
  OBVIOUS
<1>1. CASE OthersMove
  BY <1>1, OthersMoveSound
<1>2. ASSUME NEW t \in Tabs, Open(t) \/ Compose(t) \/ SubmitTurn(t)
      PROVE  TurnInv'
  BY <1>2, OpenSound, ComposeSound, SubmitTurnSound
<1>3. ASSUME NEW t \in Tabs, ReadGame(t) \/ ReadOrder(t) \/ ShowStored(t) \/ ShowStale(t)
      PROVE  TurnInv'
  BY <1>3, ReadGameSound, ReadOrderSound, ShowStoredSound, ShowStaleSound
<1>4. ASSUME NEW t \in Tabs, Handle(t) \/ SaveOrder(t) \/ ShowRearranged(t) \/ PersistDraft(t)
      PROVE  TurnInv'
  BY <1>4, HandleSound, SaveOrderSound, ShowRearrangedSound, PersistDraftSound
<1>5. ASSUME NEW t \in Tabs, CommitTurn(t) \/ ClearPlan(t)
      PROVE  TurnInv'
  BY <1>5, CommitTurnSound, ClearPlanSound
<1>6. ASSUME NEW t \in Tabs, RejectTurn(t) \/ Lose(t)
      PROVE  TurnInv'
  <2>1. req' = [req EXCEPT ![t] = NoRequest] /\ UNCHANGED <<games, plan, order, page>>
    BY <1>6 DEF RejectTurn, Lose
  <2> QED
    BY <2>1, EndStep
<1>7. CASE UNCHANGED turnVars
  <2>1. UNCHANGED <<games, plan, order, page, req>>
    BY <1>7 DEF turnVars
  <2>2. SoundPlan' /\ SoundOrder'
    BY <2>1, TablesStay
  <2>3. \A t \in Tabs : SoundTurn(t)'
    BY <2>1 DEF TurnInv, SoundTurn, At, TurnCommand
  <2> QED
    BY <2>1, <2>2, <2>3 DEF TurnInv
<1> QED
  BY <1>1, <1>2, <1>3, <1>4, <1>5, <1>6, <1>7 DEF TurnNext

\* The invariant holds in every reachable state: what tabs show, what requests
\* read and have still to write, the stored plan and the stored order (routes.rs,
\* move_plans.rs, rack_preferences.rs) are typed and in line with some revision.
THEOREM TurnInvariant ==
  TurnSpec => []TurnInv
<1> QED
  BY TurnInitSound, TurnStepSound, PTL DEF TurnSpec

\* What the invariant says of a page of the current game.
LEMMA CurrentPage ==
  ASSUME TurnInv, NEW t \in Tabs, IsCurrent(t)
  PROVE  /\ Coherent(page[t].draft) /\ page[t].order \in Seq(RackTiles)
         /\ Lists(page[t].order, Current.rack) /\ games[page[t].revision] = Current
         /\ ~page[t].rearranged => Held(page[t].draft, Current)
<1>1. page[t] # NoPage /\ page[t].revision = Len(games) /\ SoundPage(page[t], games)
  BY TabFacts DEF IsCurrent
<1>2. games[page[t].revision] = Current
  BY <1>1 DEF Current
<1>3. PICK k \in Len(games)..Len(games) : Lists(page[t].order, games[k].rack)
  BY <1>1 DEF SoundPage, ListsSince
<1>4. k = Len(games)
  BY <1>3, TabFacts
<1> QED
  BY <1>1, <1>2, <1>3, <1>4 DEF SoundPage, Lists, Current

\* A page of the current game shows the rack whole, every tile once, for any
\* number of tabs, tiles, clicks and games (reconcile_rack_order, visual_rack).
THEOREM PagesShowTheRack ==
  TurnSpec => []RackIsShownWhole
<1>1. TurnInv => RackIsShownWhole
  <2> SUFFICES ASSUME TurnInv, NEW t \in Tabs, IsCurrent(t)
               PROVE  /\ TilesOf(ShownRack(page[t])) = Current.rack
                      /\ Len(ShownRack(page[t])) = Cardinality(Current.rack)
    BY DEF RackIsShownWhole
  <2>1. /\ page[t].order \in Seq(RackTiles) /\ TilesOf(page[t].order) = Current.rack
        /\ NoRepeats(page[t].order) /\ games[page[t].revision] = Current
    BY CurrentPage DEF Lists
  <2>2. /\ ShownRack(page[t]) = OnRack(page[t].order, Current.rack)
        /\ TilesOf(page[t].order) \cap Current.rack = Current.rack
    BY <2>1 DEF ShownRack
  <2>3. Lists(ShownRack(page[t]), Current.rack)
    BY <2>1, <2>2, OnRackKeeps DEF Lists
  <2> QED
    BY <2>3, ListLength DEF Lists
<1> QED
  BY <1>1, TurnInvariant, PTL

\* A page of the current game plans with tiles on the rack and on open squares,
\* whatever was committed since the plan was begun (reconcile_draft).
THEOREM PlansFit ==
  TurnSpec => []PlansFitTheGame
<1>1. TurnInv => PlansFitTheGame
  BY CurrentPage DEF PlansFitTheGame, Held
<1> QED
  BY <1>1, TurnInvariant, PTL

\* No drafted tile or square is planned twice, and the parts of a draft agree
\* (TurnDraft, begin_action, game_compose_route).
THEOREM DraftsStayCoherent ==
  TurnSpec => []DraftsAreCoherent
<1>1. TurnInv => DraftsAreCoherent
  <2> SUFFICES ASSUME TurnInv, NEW d \in {page[t].draft : t \in {t \in Tabs : page[t] # NoPage}}
                                       \cup (IF plan = NoPlan THEN {} ELSE {plan.draft})
               PROVE  Coherent(d)
    BY DEF DraftsAreCoherent, Coherent
  <2>1. CASE plan # NoPlan /\ d = plan.draft
    BY <2>1 DEF TurnInv, SoundPlan
  <2>2. ASSUME NEW t \in Tabs, page[t] # NoPage, d = page[t].draft
        PROVE  Coherent(d)
    BY <2>2, TabFacts DEF SoundPage
  <2> QED
    BY <2>1, <2>2
<1> QED
  BY <1>1, TurnInvariant, PTL

\* A committed turn is the one that the page of the current game showed
\* (game_turn_route, visual_turn_actions).
THEOREM CommittedTurnsWereSeen ==
  TurnSpec => TurnsAreSeenFirst
<1>1. TurnInv /\ [TurnNext]_turnVars =>
        [\A t \in Tabs : At(t, {"turn"}, "commit") /\ req'[t] # req[t] /\ games' # games =>
           /\ IsCurrent(t)
           /\ req[t].form = TurnCommand(page[t])]_turnVars
  <2> SUFFICES ASSUME TurnInv, [TurnNext]_turnVars, NEW t \in Tabs, At(t, {"turn"}, "commit"),
                      req'[t] # req[t], games' # games
               PROVE  IsCurrent(t) /\ req[t].form = TurnCommand(page[t])
    OBVIOUS
  <2>1. PICK u \in Tabs : CommitTurn(u)
    <3>1. TurnNext
      BY DEF turnVars
    <3>2. ~OthersMove
      BY DEF OthersMove
    <3>3. \A u \in Tabs :
            ~(\/ Open(u) \/ Compose(u) \/ SubmitTurn(u) \/ ReadGame(u) \/ ReadOrder(u)
              \/ ShowStored(u) \/ ShowStale(u) \/ Handle(u) \/ SaveOrder(u) \/ ShowRearranged(u)
              \/ PersistDraft(u) \/ RejectTurn(u) \/ ClearPlan(u) \/ Lose(u))
      BY DEF Open, Compose, SubmitTurn, Click, ReadGame, ReadOrder, ShowStored, ShowStale,
             Handle, SaveOrder, ShowRearranged, PersistDraft, RejectTurn, ClearPlan, Lose
    <3> QED
      BY <3>1, <3>2, <3>3 DEF TurnNext
  <2>2. u = t
    BY <2>1, TabFacts DEF CommitTurn, TurnInv
  <2>3. /\ page[t] # NoPage /\ req[t].expected = page[t].revision
        /\ req[t].form = TurnCommand(page[t])
    BY TabFacts DEF SoundTurn
  <2> QED
    BY <2>1, <2>2, <2>3 DEF CommitTurn, Accepts, IsCurrent
<1> QED
  BY <1>1, TurnInvariant, PTL DEF TurnSpec, TurnsAreSeenFirst
=============================================================================
