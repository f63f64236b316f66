----------------------------- MODULE GameProofs -----------------------------
(***************************************************************************)
(* Proofs about the module Game, for every number of players, every set of *)
(* tiles and every rule profile its assumptions allow.                     *)
(***************************************************************************)
EXTENDS Game, RulesProofs

-----------------------------------------------------------------------------
(* The inductive invariant *)

\* No rack grows beyond its size.  It is what bounds an exchange by the bag:
\* the code compares the bag with minimum_tiles_for_exchange, never with the
\* number of tiles exchanged.
RacksFit == \A p \in Players : Cardinality(racks[p]) <= RackSize

\* TypeOK is not inductive alone: advance_turn has no answer when nobody is
\* left, so it needs TurnIsPlayable; the draws stay inside the bag only while
\* no tile is in two places (TilesConserved) and no rack is too large.
IInv ==
  /\ TypeOK
  /\ TilesConserved
  /\ TurnIsPlayable
  /\ RacksFit
  /\ RacksFullWhileBagLasts
  /\ EndIsNotMissed

\* The invariant holds at the start.
LEMMA InitInv == Init => IInv
<1> SUFFICES ASSUME Init PROVE IInv
  OBVIOUS
<1> USE PlayersAssumption, ProfileAssumption
<1>1. PICK s \in Shuffles : /\ racks = [p \in Players |-> DealtRack(s, p)]
                           /\ bag = WithoutTop(s, NumPlayers * RackSize)
  BY DEF Init
<1>2. /\ racks \in [Players -> SUBSET Tiles]
      /\ \A p \in Players : racks[p] = DealtRack(s, p) /\ Cardinality(racks[p]) = RackSize
      /\ bag \in Seq(Tiles)
  BY <1>1, DealSplitsShuffle
<1>3. TypeOK
  BY <1>2 DEF Init, TypeOK
<1>4. TilesConserved
  <2>1. /\ Distinct(bag)
        /\ \A p \in Players : racks[p] \cap BagTiles(bag) = {}
        /\ \A p, q \in Players : p # q => racks[p] \cap racks[q] = {}
    BY <1>1, <1>2, DealSplitsShuffle
  <2>2. Tiles = BagTiles(bag) \cup UNION {racks[p] : p \in Players}
    BY <1>1, <1>2, DealSplitsShuffle
  <2> QED
    BY <2>1, <2>2 DEF Init, TilesConserved, Distinct
<1>5. TurnIsPlayable
  BY FS_Interval DEF Init, TurnIsPlayable, Players
<1>6. RacksFit /\ RacksFullWhileBagLasts
  BY <1>2 DEF RacksFit, RacksFullWhileBagLasts
<1>7. EndIsNotMissed
  BY <1>2, FS_EmptySet DEF Init, EndIsNotMissed
<1> QED
  BY <1>3, <1>4, <1>5, <1>6, <1>7 DEF IInv

-----------------------------------------------------------------------------
(* Steps *)

\* The draw common to a play and an exchange: player p lays down the tiles T
\* and takes n from the bag.
RefilledRacks(p, T, n) == [racks EXCEPT ![p] = (@ \ T) \cup TopTiles(bag, n)]

\* Every tile is then on a rack of r, in what is left of the bag, on the board
\* or among T, and at one of them only.
Conserves(r, p, T, n) ==
  /\ r \in [Players -> SUBSET Tiles]
  /\ Cardinality(r[p]) = Cardinality(racks[p]) - Cardinality(T) + n
  /\ \A q \in Players : q # p => r[q] = racks[q]
  /\ \A q \in Players : /\ r[q] \cap BagTiles(WithoutTop(bag, n)) = {}
                        /\ r[q] \cap board = {}
                        /\ r[q] \cap T = {}
  /\ \A q1, q2 \in Players : q1 # q2 => r[q1] \cap r[q2] = {}
  /\ board \cap BagTiles(WithoutTop(bag, n)) = {}
  /\ T \cap BagTiles(WithoutTop(bag, n)) = {}
  /\ T \cap board = {}
  /\ Tiles = board \cup T \cup BagTiles(WithoutTop(bag, n)) \cup UNION {r[q] : q \in Players}

\* Returning tiles and drawing others loses none.
LEMMA Redraw ==
  ASSUME TypeOK, TilesConserved,
         NEW p \in Players, NEW T \in SUBSET racks[p], NEW n \in 0..Len(bag)
  PROVE  Conserves(RefilledRacks(p, T, n), p, T, n)
<1> DEFINE r == RefilledRacks(p, T, n)
<1> DEFINE left == BagTiles(WithoutTop(bag, n))
           D == TopTiles(bag, n)
<1>1. bag \in Seq(Tiles) /\ racks \in [Players -> SUBSET Tiles] /\ Distinct(bag)
  BY DEF TypeOK, TilesConserved, Distinct
<1>2. /\ BagTiles(bag) = left \cup D /\ left \cap D = {}
      /\ D \subseteq Tiles /\ Cardinality(D) = n
  BY <1>1, DrawSplitsBag
<1> HIDE DEF left, D
<1>3. /\ r[p] = (racks[p] \ T) \cup D
      /\ \A q \in Players : q # p => r[q] = racks[q]
      /\ r \in [Players -> SUBSET Tiles]
  BY <1>1, <1>2 DEF D, RefilledRacks
<1> HIDE DEF r
<1>4. /\ \A q \in Players : racks[q] \cap D = {} /\ racks[q] \cap left = {}
      /\ board \cap D = {} /\ board \cap left = {}
      /\ \A q \in Players : board \cap racks[q] = {}
      /\ \A q1, q2 \in Players : q1 # q2 => racks[q1] \cap racks[q2] = {}
      /\ Tiles = board \cup left \cup D \cup UNION {racks[q] : q \in Players}
  BY <1>2 DEF TilesConserved
<1>5. Cardinality(r[p]) = Cardinality(racks[p]) - Cardinality(T) + n
  <2>1. racks[p] \in SUBSET Tiles /\ D \in SUBSET Tiles /\ racks[p] \cap D = {}
    BY <1>1, <1>2, <1>4
  <2>2. Cardinality((racks[p] \ T) \cup D)
          = Cardinality(racks[p]) - Cardinality(T) + Cardinality(D)
    BY <2>1, RefilledRack
  <2> QED
    BY <2>2, <1>2, <1>3
<1>6. /\ \A q \in Players : r[q] \cap left = {} /\ r[q] \cap board = {} /\ r[q] \cap T = {}
      /\ T \cap left = {} /\ T \cap board = {}
  <2>1. \A q \in Players : q # p => racks[q] \cap T = {}
    BY <1>4
  <2>2. D \cap T = {} /\ T \cap left = {} /\ T \cap board = {}
    BY <1>4
  <2>3. r[p] \cap left = {} /\ r[p] \cap board = {} /\ r[p] \cap T = {}
    BY <1>2, <1>3, <1>4, <2>2
  <2> QED
    BY <1>3, <1>4, <2>1, <2>2, <2>3
<1>7. \A q1, q2 \in Players : q1 # q2 => r[q1] \cap r[q2] = {}
  <2>1. \A q \in Players : q # p => r[p] \cap r[q] = {}
    BY <1>3, <1>4
  <2> QED
    BY <2>1, <1>3, <1>4
<1>8. Tiles = board \cup T \cup left \cup UNION {r[q] : q \in Players}
  <2>1. racks[p] \cup D = r[p] \cup T
    BY <1>3, <1>4
  <2>2. (UNION {racks[q] : q \in Players}) \cup D = (UNION {r[q] : q \in Players}) \cup T
    <3>1. (UNION {racks[q] : q \in Players}) \cup D \subseteq (UNION {r[q] : q \in Players}) \cup T
      BY <2>1, <1>3
    <3>2. (UNION {r[q] : q \in Players}) \cup T \subseteq (UNION {racks[q] : q \in Players}) \cup D
      BY <2>1, <1>3
    <3> QED
      BY <3>1, <3>2
  <2> QED
    BY <2>2, <1>4
<1> QED
  BY <1>3, <1>4, <1>5, <1>6, <1>7, <1>8 DEF left, r, Conserves

\* Facts of the state before a command of p, used by every action.
LEMMA BeforeCommand ==
  ASSUME IInv, NEW p \in Players, MayAct(p)
  PROVE  /\ active_players \in SUBSET Players /\ p \in active_players
         /\ IsFiniteSet(active_players) /\ Cardinality(active_players) \in Nat
         /\ Cardinality(active_players) >= 2
         /\ NextTurn(active_players, p) \in active_players
         /\ \A q \in Players : /\ racks[q] \in SUBSET Tiles /\ racks[q] # {}
                               /\ IsFiniteSet(racks[q]) /\ Cardinality(racks[q]) \in Nat
                               /\ Cardinality(racks[q]) <= RackSize
<1>1. /\ active_players \in SUBSET Players /\ p \in active_players
      /\ Cardinality(active_players) >= 2
  BY DEF IInv, TypeOK, TurnIsPlayable, MayAct
<1>2. IsFiniteSet(active_players) /\ Cardinality(active_players) \in Nat
  <2>1. IsFiniteSet(Players)
    BY PlayersAssumption, FS_Interval DEF Players
  <2> QED
    BY <2>1, <1>1, FS_Subset, FS_CardinalityType
<1>3. NextTurn(active_players, p) \in active_players
  BY <1>1, NextTurnIsActive
<1>4. \A q \in Players : /\ racks[q] \in SUBSET Tiles /\ racks[q] # {}
                         /\ Cardinality(racks[q]) <= RackSize
  BY DEF IInv, TypeOK, RacksFit, EndIsNotMissed, MayAct
<1> QED
  BY <1>1, <1>2, <1>3, <1>4, TilesAreFinite

\* Play keeps the invariant.
LEMMA PlayKeepsInv ==
  ASSUME IInv, NEW p \in Players, NEW T \in SUBSET racks[p], NEW score \in MoveScores,
         Play(p, T, score)
  PROVE  IInv'
<1> DEFINE n == DrawCount(bag, Cardinality(T))
<1>0. /\ TypeOK /\ TilesConserved /\ RacksFit /\ RacksFullWhileBagLasts /\ EndIsNotMissed
      /\ MayAct(p) /\ status = "Active"
  BY DEF IInv, Play, MayAct
<1>1. /\ bag \in Seq(Tiles) /\ Len(bag) \in Nat /\ racks[p] \in SUBSET Tiles
      /\ T \in SUBSET Tiles /\ Cardinality(T) \in Nat
      /\ Cardinality(racks[p]) \in Nat \ {0} /\ Cardinality(racks[p]) <= RackSize
  <2>1. /\ racks[p] \in SUBSET Tiles /\ racks[p] # {} /\ IsFiniteSet(racks[p])
        /\ Cardinality(racks[p]) \in Nat /\ Cardinality(racks[p]) <= RackSize
    BY <1>0, BeforeCommand
  <2> QED
    BY <2>1, <1>0, TilesAreFinite, FS_EmptySet, LenProperties DEF TypeOK
<1>2. n \in 0..Len(bag) /\ n <= Cardinality(T) /\ (n # Cardinality(T) => n = Len(bag))
  BY <1>1, DrawCountBound
<1>3. /\ WithoutTop(bag, n) \in Seq(Tiles) /\ Len(WithoutTop(bag, n)) = Len(bag) - n
      /\ Distinct(WithoutTop(bag, n))
  BY <1>0, <1>1, <1>2, DrawSplitsBag DEF TilesConserved, Distinct
<1>4. /\ board' = board \cup T /\ bag' = WithoutTop(bag, n)
      /\ racks' = [racks EXCEPT ![p] = (@ \ T) \cup TopTiles(bag, n)]
      /\ active_player' = NextTurn(active_players, p) /\ active_players' = active_players
      /\ consecutive_passes' = 0
  BY DEF Play
<1> HIDE DEF n
<1>5. /\ racks' \in [Players -> SUBSET Tiles]
      /\ Cardinality(racks'[p]) = Cardinality(racks[p]) - Cardinality(T) + n
      /\ \A q \in Players : q # p => racks'[q] = racks[q]
      /\ \A q \in Players : racks'[q] \cap BagTiles(bag') = {} /\ racks'[q] \cap board' = {}
      /\ \A q1, q2 \in Players : q1 # q2 => racks'[q1] \cap racks'[q2] = {}
      /\ board' \cap BagTiles(bag') = {}
      /\ Tiles = board' \cup BagTiles(bag') \cup UNION {racks'[q] : q \in Players}
  <2>1. /\ racks' \in [Players -> SUBSET Tiles]
        /\ Cardinality(racks'[p]) = Cardinality(racks[p]) - Cardinality(T) + n
        /\ \A q \in Players : q # p => racks'[q] = racks[q]
        /\ \A q \in Players : /\ racks'[q] \cap BagTiles(bag') = {}
                              /\ racks'[q] \cap board = {}
                              /\ racks'[q] \cap T = {}
        /\ \A q1, q2 \in Players : q1 # q2 => racks'[q1] \cap racks'[q2] = {}
        /\ board \cap BagTiles(bag') = {} /\ T \cap BagTiles(bag') = {}
        /\ Tiles = board \cup T \cup BagTiles(bag') \cup UNION {racks'[q] : q \in Players}
    <3>1. racks' = RefilledRacks(p, T, n) /\ bag' = WithoutTop(bag, n)
      BY <1>4 DEF RefilledRacks
    <3>2. Conserves(racks', p, T, n)
      BY <3>1, <1>0, <1>2, Redraw
    <3> QED
      BY <3>1, <3>2 DEF Conserves
  <2> QED
    BY <2>1, <1>4
<1>6. \/ status' = "Completed"
      \/ /\ ~IsRackOut(p, T) /\ status' = status
         /\ leaders' = leaders /\ completion_reason' = completion_reason
  BY DEF Play, GameEnds, GameGoesOn
<1>7. TypeOK'
  <2>1. scores' \in [Players -> Nat]
    <3>1. score \in Nat
      BY ScoresAssumption
    <3>2. RackOutScores(scores, racks, p, score) \in [Players -> Nat]
      BY <3>1, <1>0, SettlementTypes DEF TypeOK
    <3>3. [scores EXCEPT ![p] = @ + score] \in [Players -> Nat]
      BY <3>1, <1>0 DEF TypeOK
    <3> QED
      BY <3>2, <3>3 DEF Play, GameEnds
  <2>2. leaders' \subseteq Players /\ completion_reason' \in Reasons \cup {"None"} /\ revision' \in Nat
    BY <1>0 DEF Play, GameEnds, GameGoesOn, TypeOK, Leaders, Reasons
  <2>3. active_player' \in Players
    BY <1>0, <1>4, BeforeCommand DEF TypeOK
  <2>4. status' \in {"Active", "Completed"} /\ consecutive_passes' \in Nat
    BY <1>0, <1>4, <1>6
  <2>5. board' \subseteq Tiles
    BY <1>0, <1>1, <1>4 DEF TypeOK
  <2> QED
    BY <2>1, <2>2, <2>3, <2>4, <2>5, <1>0, <1>3, <1>4, <1>5 DEF TypeOK
<1>8. TilesConserved'
  <2>1. Distinct(bag')
    BY <1>3, <1>4
  <2> QED
    BY <2>1, <1>5 DEF TilesConserved, Distinct
<1>9. TurnIsPlayable'
  BY <1>0, <1>4, BeforeCommand DEF TurnIsPlayable
<1>10. RacksFit'
  BY <1>0, <1>1, <1>2, <1>5, ProfileAssumption DEF RacksFit
<1>11. RacksFullWhileBagLasts'
  <2> SUFFICES ASSUME bag' # <<>>
               PROVE  \A q \in Players : Cardinality(racks'[q]) = RackSize
    BY DEF RacksFullWhileBagLasts
  <2>1. Len(bag) - n # 0
    BY <1>3, <1>4, EmptySeq
  <2>2. n = Cardinality(T) /\ bag # <<>>
    BY <2>1, <1>1, <1>2
  <2>3. \A q \in Players : Cardinality(racks[q]) = RackSize
    BY <2>2, <1>0 DEF RacksFullWhileBagLasts
  <2> QED
    BY <2>2, <2>3, <1>1, <1>5
<1>12. EndIsNotMissed'
  <2> SUFFICES ASSUME status' = "Active"
               PROVE  \A q \in Players : racks'[q] # {}
    BY <1>4 DEF EndIsNotMissed
  <2>1. ~(Len(bag) <= Cardinality(T) /\ Cardinality(racks[p]) - Cardinality(T) + n = 0)
    BY <1>6 DEF IsRackOut, n
  <2>2. Cardinality(racks'[p]) # 0
    BY <2>1, <1>1, <1>2, <1>5
  <2> QED
    BY <2>2, <1>0, <1>5, FS_EmptySet DEF EndIsNotMissed
<1> QED
  BY <1>7, <1>8, <1>9, <1>10, <1>11, <1>12 DEF IInv

\* What an exchange leaves behind: as many tiles on the rack and in the bag as
\* before, and the tiles given back in the bag only.
LEMMA ExchangeEffect ==
  ASSUME IInv, NEW p \in Players, NEW T \in SUBSET racks[p], Exchange(p, T)
  PROVE  /\ racks' \in [Players -> SUBSET Tiles]
         /\ racks'[p] = (racks[p] \ T) \cup TopTiles(bag, Cardinality(T))
         /\ Cardinality(racks'[p]) = Cardinality(racks[p])
         /\ \A q \in Players : q # p => racks'[q] = racks[q]
         /\ \A q \in Players : racks'[q] \cap BagTiles(bag') = {} /\ racks'[q] \cap board = {}
         /\ \A q1, q2 \in Players : q1 # q2 => racks'[q1] \cap racks'[q2] = {}
         /\ board \cap BagTiles(bag') = {}
         /\ Tiles = board \cup BagTiles(bag') \cup UNION {racks'[q] : q \in Players}
         /\ bag' \in Seq(Tiles) /\ Len(bag') = Len(bag) /\ Distinct(bag')
         /\ bag # <<>> /\ T \subseteq BagTiles(bag')
<1> DEFINE n == Cardinality(T)
           left == WithoutTop(bag, n)
<1>0. /\ TypeOK /\ TilesConserved /\ RacksFit /\ RacksFullWhileBagLasts /\ EndIsNotMissed
      /\ MayAct(p) /\ status = "Active" /\ T # {}
  BY DEF IInv, Exchange, MayAct
<1>1. /\ bag \in Seq(Tiles) /\ Len(bag) \in Nat /\ racks[p] \in SUBSET Tiles
      /\ T \in SUBSET Tiles /\ n \in Nat \ {0} /\ n <= Cardinality(racks[p])
      /\ Cardinality(racks[p]) \in Nat \ {0} /\ Cardinality(racks[p]) <= RackSize
  <2>1. /\ racks[p] \in SUBSET Tiles /\ racks[p] # {} /\ IsFiniteSet(racks[p])
        /\ Cardinality(racks[p]) \in Nat /\ Cardinality(racks[p]) <= RackSize
    BY <1>0, BeforeCommand
  <2> QED
    BY <2>1, <1>0, TilesAreFinite, FS_EmptySet, FS_Subset, LenProperties DEF TypeOK
<1>2. n \in 0..Len(bag)
  <2>1. Len(bag) >= MinExchange
    BY DEF Exchange
  <2> QED
    BY <2>1, <1>1, ProfileAssumption
<1>3. left \in Seq(Tiles) /\ Len(left) = Len(bag) - n /\ Distinct(left)
  BY <1>0, <1>1, <1>2, DrawSplitsBag DEF TilesConserved, Distinct
<1>4. /\ board' = board /\ scores' = scores /\ status' = status
      /\ leaders' = leaders /\ completion_reason' = completion_reason
      /\ racks' = [racks EXCEPT ![p] = (@ \ T) \cup TopTiles(bag, n)]
      /\ active_player' = NextTurn(active_players, p) /\ active_players' = active_players
      /\ consecutive_passes' = 0 /\ revision' = revision + 1
  BY DEF Exchange, GameGoesOn
<1>5. PICK back \in Orders(T) : bag' = left \o back
  BY DEF Exchange
<1>6. back \in Seq(Tiles) /\ Len(back) = n /\ BagTiles(back) = T /\ Distinct(back)
  BY <1>1, <1>5, OrderListsTiles
<1>7. /\ racks' \in [Players -> SUBSET Tiles]
      /\ Cardinality(racks'[p]) = Cardinality(racks[p])
      /\ \A q \in Players : q # p => racks'[q] = racks[q]
      /\ \A q \in Players : /\ racks'[q] \cap BagTiles(left) = {}
                            /\ racks'[q] \cap board = {}
                            /\ racks'[q] \cap T = {}
      /\ \A q1, q2 \in Players : q1 # q2 => racks'[q1] \cap racks'[q2] = {}
      /\ board \cap BagTiles(left) = {} /\ T \cap BagTiles(left) = {} /\ T \cap board = {}
      /\ Tiles = board \cup T \cup BagTiles(left) \cup UNION {racks'[q] : q \in Players}
  <2>1. Cardinality(racks[p]) - Cardinality(T) + n = Cardinality(racks[p])
    BY <1>1
  <2>2. racks' = RefilledRacks(p, T, n)
    BY <1>4 DEF RefilledRacks
  <2>3. Conserves(racks', p, T, n)
    BY <2>2, <1>0, <1>2, Redraw
  <2> QED
    BY <2>1, <2>3 DEF Conserves
<1> HIDE DEF n, left
<1>8. /\ bag' \in Seq(Tiles) /\ Len(bag') = Len(bag)
      /\ BagTiles(bag') = BagTiles(left) \cup T /\ Distinct(bag')
  <2>1. /\ left \o back \in Seq(Tiles) /\ Len(left \o back) = Len(left) + Len(back)
        /\ BagTiles(left \o back) = BagTiles(left) \cup BagTiles(back)
        /\ Distinct(left \o back)
    <3>1. BagTiles(left) \cap BagTiles(back) = {}
      BY <1>6, <1>7
    <3> QED
      BY <3>1, <1>3, <1>6, PutBack
  <2> QED
    BY <2>1, <1>1, <1>3, <1>5, <1>6
<1>9. /\ \A q \in Players : racks'[q] \cap BagTiles(bag') = {}
      /\ board \cap BagTiles(bag') = {} /\ T \subseteq BagTiles(bag')
      /\ Tiles = board \cup BagTiles(bag') \cup UNION {racks'[q] : q \in Players}
  BY <1>7, <1>8
<1>10. bag # <<>>
  BY <1>1, <1>2
<1>11. racks'[p] = (racks[p] \ T) \cup TopTiles(bag, Cardinality(T))
  BY <1>0, <1>4 DEF TypeOK, n
<1> QED
  BY <1>7, <1>8, <1>9, <1>10, <1>11

\* Exchange keeps the invariant.
LEMMA ExchangeKeepsInv ==
  ASSUME IInv, NEW p \in Players, NEW T \in SUBSET racks[p], Exchange(p, T)
  PROVE  IInv'
<1>1. /\ TypeOK /\ TilesConserved /\ RacksFit /\ RacksFullWhileBagLasts /\ EndIsNotMissed
      /\ MayAct(p) /\ status = "Active"
  BY DEF IInv, Exchange, MayAct
<1>2. /\ board' = board /\ scores' = scores /\ status' = status
      /\ leaders' = leaders /\ completion_reason' = completion_reason
      /\ active_player' = NextTurn(active_players, p) /\ active_players' = active_players
      /\ consecutive_passes' = 0 /\ revision' = revision + 1
  BY DEF Exchange, GameGoesOn
<1>3. TypeOK'
  <2>1. active_player' \in Players
    BY <1>1, <1>2, BeforeCommand DEF TypeOK
  <2>2. racks' \in [Players -> SUBSET Tiles] /\ bag' \in Seq(Tiles)
    BY ExchangeEffect
  <2> QED
    BY <2>1, <2>2, <1>1, <1>2 DEF TypeOK
<1>4. TilesConserved'
  BY <1>2, ExchangeEffect DEF TilesConserved, Distinct
<1>5. TurnIsPlayable'
  BY <1>1, <1>2, BeforeCommand DEF TurnIsPlayable
<1>6. \A q \in Players : Cardinality(racks'[q]) = Cardinality(racks[q])
  BY ExchangeEffect
<1>7. RacksFit'
  BY <1>1, <1>6 DEF RacksFit
<1>8. RacksFullWhileBagLasts'
  <2>1. bag # <<>>
    BY ExchangeEffect
  <2> QED
    BY <2>1, <1>1, <1>6 DEF RacksFullWhileBagLasts
<1>9. EndIsNotMissed'
  <2>1. \A q \in Players : IsFiniteSet(racks[q]) /\ racks[q] # {}
    BY <1>1, BeforeCommand
  <2>2. \A q \in Players : racks'[q] # {}
    BY <2>1, <1>6, FS_EmptySet
  <2> QED
    BY <2>2, <1>2 DEF EndIsNotMissed
<1> QED
  BY <1>3, <1>4, <1>5, <1>7, <1>8, <1>9 DEF IInv

\* Pass keeps the invariant.
LEMMA PassKeepsInv ==
  ASSUME IInv, NEW p \in Players, Pass(p)
  PROVE  IInv'
<1>1. /\ TypeOK /\ TilesConserved /\ RacksFit /\ RacksFullWhileBagLasts /\ EndIsNotMissed
      /\ MayAct(p) /\ status = "Active"
  BY DEF IInv, Pass, MayAct
<1>2. /\ board' = board /\ racks' = racks /\ bag' = bag /\ active_players' = active_players
      /\ consecutive_passes' = consecutive_passes + 1
      /\ active_player' = NextTurn(active_players, p)
  BY DEF Pass
<1>3. TypeOK'
  <2>1. active_player' \in Players
    BY <1>1, <1>2, BeforeCommand DEF TypeOK
  <2>2. scores' \in [Players -> Nat]
    BY <1>1, SettlementTypes DEF Pass, GameEnds, TypeOK
  <2>3. /\ leaders' \subseteq Players /\ completion_reason' \in Reasons \cup {"None"}
        /\ revision' \in Nat /\ status' \in {"Active", "Completed"}
    BY <1>1 DEF Pass, GameEnds, GameGoesOn, TypeOK, Leaders, Reasons
  <2> QED
    BY <2>1, <2>2, <2>3, <1>1, <1>2 DEF TypeOK
<1>4. TilesConserved' /\ RacksFit' /\ RacksFullWhileBagLasts'
  BY <1>1, <1>2 DEF TilesConserved, RacksFit, RacksFullWhileBagLasts
<1>5. TurnIsPlayable'
  BY <1>1, <1>2, BeforeCommand DEF TurnIsPlayable
<1>6. EndIsNotMissed'
  BY <1>1, <1>2 DEF Pass, GameEnds, EndIsNotMissed
<1> QED
  BY <1>3, <1>4, <1>5, <1>6 DEF IInv

\* Resign keeps the invariant.
LEMMA ResignKeepsInv ==
  ASSUME IInv, NEW p \in Players, Resign(p)
  PROVE  IInv'
<1>1. /\ TypeOK /\ TilesConserved /\ RacksFit /\ RacksFullWhileBagLasts /\ EndIsNotMissed
      /\ MayAct(p) /\ status = "Active"
  BY DEF IInv, Resign, MayAct
<1>2. /\ board' = board /\ racks' = racks /\ bag' = bag
      /\ active_players' = active_players \ {p} /\ consecutive_passes' = 0
  BY DEF Resign
<1>3. /\ active_players' \in SUBSET Players
      /\ Cardinality(active_players) \in Nat /\ Cardinality(active_players) >= 2
      /\ Cardinality(active_players') = Cardinality(active_players) - 1
      /\ active_players' # {}
  <2>1. /\ active_players \in SUBSET Players /\ p \in active_players
        /\ IsFiniteSet(active_players) /\ Cardinality(active_players) \in Nat
        /\ Cardinality(active_players) >= 2
    BY <1>1, BeforeCommand
  <2>2. Cardinality(active_players') = Cardinality(active_players) - 1
    BY <2>1, <1>2, FS_RemoveElement
  <2>3. active_players' # {}
    BY <2>1, <2>2, FS_EmptySet
  <2> QED
    BY <2>1, <2>2, <2>3, <1>2
<1>4. \/ /\ status' = "Completed" /\ active_player' = active_player
      \/ /\ Cardinality(active_players) # 2 /\ status' = status
         /\ active_player' = NextTurn(active_players', p) /\ active_player' \in active_players'
  <2>1. NextTurn(active_players', p) \in active_players'
    BY <1>3, NextTurnIsActive
  <2> QED
    BY <2>1 DEF Resign, GameEnds, GameGoesOn
<1>5. TypeOK'
  <2>1. scores' \in [Players -> Nat]
    BY <1>1, SettlementTypes DEF Resign, GameEnds, TypeOK
  <2>2. /\ leaders' \subseteq Players /\ completion_reason' \in Reasons \cup {"None"}
        /\ revision' \in Nat
    BY <1>1 DEF Resign, GameEnds, GameGoesOn, TypeOK, Leaders, Reasons
  <2>3. active_player' \in Players /\ status' \in {"Active", "Completed"}
    BY <1>1, <1>3, <1>4 DEF TypeOK
  <2> QED
    BY <2>1, <2>2, <2>3, <1>1, <1>2, <1>3 DEF TypeOK
<1>6. TilesConserved' /\ RacksFit' /\ RacksFullWhileBagLasts'
  BY <1>1, <1>2 DEF TilesConserved, RacksFit, RacksFullWhileBagLasts
<1>7. TurnIsPlayable'
  BY <1>3, <1>4 DEF TurnIsPlayable
<1>8. EndIsNotMissed'
  BY <1>1, <1>2 DEF EndIsNotMissed
<1> QED
  BY <1>5, <1>6, <1>7, <1>8 DEF IInv

\* Every step keeps it.
LEMMA NextInv == IInv /\ [Next]_vars => IInv'
<1> SUFFICES ASSUME IInv, [Next]_vars PROVE IInv'
  OBVIOUS
<1>1. ASSUME NEW p \in Players, NEW T \in SUBSET racks[p], NEW score \in MoveScores,
             Play(p, T, score)
      PROVE  IInv'
  BY <1>1, PlayKeepsInv
<1>2. ASSUME NEW p \in Players, NEW T \in SUBSET racks[p], Exchange(p, T)
      PROVE  IInv'
  BY <1>2, ExchangeKeepsInv
<1>3. ASSUME NEW p \in Players, Pass(p)
      PROVE  IInv'
  BY <1>3, PassKeepsInv
<1>4. ASSUME NEW p \in Players, Resign(p)
      PROVE  IInv'
  BY <1>4, ResignKeepsInv
<1>5. CASE UNCHANGED vars
  BY <1>5 DEF vars, IInv, TypeOK, TilesConserved, TurnIsPlayable, RacksFit,
              RacksFullWhileBagLasts, EndIsNotMissed
<1> QED
  BY <1>1, <1>2, <1>3, <1>4, <1>5 DEF Next

\* Whatever decide and apply_event do, every reachable state of a game has its
\* types, keeps its tiles, fills racks while the bag lasts, and has a turn to play
\* or has ended.
LEMMA Invariance == Spec => []IInv
<1>1. Init => IInv
  BY InitInv
<1>2. IInv /\ [Next]_vars => IInv'
  BY NextInv
<1> QED
  BY <1>1, <1>2, PTL DEF Spec

-----------------------------------------------------------------------------
(* Theorems *)

\* The state of an aggregate keeps its types: in particular advance_turn always
\* finds a seated player and no penalty makes a score negative.
THEOREM TypeCorrect == Spec => []TypeOK
<1>1. IInv => TypeOK
  BY DEF IInv
<1> QED
  BY <1>1, Invariance, PTL

\* Whatever plays, exchanges, passes and resignations happen, every tile
\* build_bag made is at exactly one place.
THEOREM TilesAreConserved == Spec => []TilesConserved
<1>1. IInv => TilesConserved
  BY DEF IInv
<1> QED
  BY <1>1, Invariance, PTL

\* A running game always waits for a player who has not resigned and who has an
\* opponent.
THEOREM TurnStaysPlayable == Spec => []TurnIsPlayable
<1>1. IInv => TurnIsPlayable
  BY DEF IInv
<1> QED
  BY <1>1, Invariance, PTL

\* The draws never leave a rack short while the bag holds a tile.
THEOREM RacksStayFull == Spec => []RacksFullWhileBagLasts
<1>1. IInv => RacksFullWhileBagLasts
  BY DEF IInv
<1> QED
  BY <1>1, Invariance, PTL

\* No game runs on past an empty rack or past the passes that end it.
THEOREM EndingsAreNotMissed == Spec => []EndIsNotMissed
<1>1. IInv => EndIsNotMissed
  BY DEF IInv
<1> QED
  BY <1>1, Invariance, PTL

\* Once resigned, a player is out of the turn order for good, and rack and score
\* stay as they were until the settlement.
THEOREM ResignedStayOut == Spec => ResignedAreOut
<1> DEFINE Out == \A p \in Players \ active_players :
                    /\ racks'[p] = racks[p]
                    /\ active_player' # p
                    /\ status' = "Active" => scores'[p] = scores[p]
<1>1. ASSUME IInv, [Next]_vars
      PROVE  Out \/ UNCHANGED vars
  <2> SUFFICES ASSUME Next, NEW q \in Players \ active_players
               PROVE  /\ racks'[q] = racks[q]
                      /\ active_player' # q
                      /\ status' = "Active" => scores'[q] = scores[q]
    BY <1>1
  <2>0. TypeOK
    BY <1>1 DEF IInv
  <2>1. ASSUME NEW p \in Players, MayAct(p)
        PROVE  q # p /\ NextTurn(active_players, p) # q
    BY <1>1, <2>1, BeforeCommand
  <2>2. ASSUME NEW p \in Players, NEW T \in SUBSET racks[p], NEW score \in MoveScores,
               Play(p, T, score)
        PROVE  /\ racks'[q] = racks[q]
               /\ active_player' # q
               /\ status' = "Active" => scores'[q] = scores[q]
    BY <2>0, <2>1, <2>2 DEF Play, GameEnds, TypeOK
  <2>3. ASSUME NEW p \in Players, NEW T \in SUBSET racks[p], Exchange(p, T)
        PROVE  racks'[q] = racks[q] /\ active_player' # q /\ scores' = scores
    BY <2>0, <2>1, <2>3 DEF Exchange, TypeOK
  <2>4. ASSUME NEW p \in Players, Pass(p)
        PROVE  /\ racks' = racks /\ active_player' # q
               /\ status' = "Active" => scores' = scores
    BY <2>1, <2>4 DEF Pass, GameEnds
  <2>5. ASSUME NEW p \in Players, Resign(p)
        PROVE  /\ racks' = racks /\ active_player' # q
               /\ status' = "Active" => scores' = scores
    <3>1. q # p /\ MayAct(p)
      BY <2>1, <2>5 DEF Resign
    <3>2. CASE active_player' = active_player
      BY <3>1, <3>2, <2>5 DEF Resign, GameEnds, MayAct
    <3>3. CASE active_player' = NextTurn(active_players', p) /\ Cardinality(active_players) # 2
      <4>1. /\ active_players \in SUBSET Players /\ p \in active_players
            /\ IsFiniteSet(active_players) /\ Cardinality(active_players) \in Nat
            /\ Cardinality(active_players) >= 2
        BY <1>1, <3>1, BeforeCommand
      <4>2. active_players' = active_players \ {p} /\ active_players' \in SUBSET Players
        BY <4>1, <2>5 DEF Resign
      <4>3. Cardinality(active_players') = Cardinality(active_players) - 1
        BY <4>1, <4>2, FS_RemoveElement
      <4>4. active_players' # {}
        BY <4>1, <4>3, FS_EmptySet
      <4>5. active_player' \in active_players'
        BY <4>2, <4>4, <3>3, NextTurnIsActive
      <4> QED
        BY <4>2, <4>5, <3>3, <2>5 DEF Resign, GameEnds
    <3> QED
      BY <3>2, <3>3, <2>5 DEF Resign
  <2> QED
    BY <2>2, <2>3, <2>4, <2>5 DEF Next
<1>2. IInv /\ [Next]_vars => [Out]_vars
  BY <1>1
<1> QED
  BY <1>2, Invariance, PTL DEF Spec, ResignedAreOut

\* An exchange never hands a tile back to the player who gave it up, and keeps
\* the sizes of rack and bag.
THEOREM ExchangesAreReal == Spec => ExchangeIsReal
<1> DEFINE Exchanged == /\ status' = "Active" /\ active_players' = active_players
                        /\ board' = board /\ consecutive_passes' = 0
           returned == racks[active_player] \ racks'[active_player]
           Real == /\ returned # {} /\ returned \subseteq BagTiles(bag')
                   /\ Cardinality(racks'[active_player]) = Cardinality(racks[active_player])
                   /\ Len(bag') = Len(bag)
<1>1. ASSUME IInv, Next, Exchanged
      PROVE  Real
  <2>1. ASSUME NEW p \in Players, NEW T \in SUBSET racks[p], NEW score \in MoveScores,
               Play(p, T, score)
        PROVE  FALSE
    \* The tiles laid were in the rack, so the board has grown.
    <3>1. T # {} /\ board' = board \cup T
      BY <2>1 DEF Play
    <3>2. T \cap board = {}
      BY <1>1 DEF IInv, TilesConserved
    <3> QED
      BY <3>1, <3>2, <1>1
  <2>2. ASSUME NEW p \in Players, NEW T \in SUBSET racks[p], Exchange(p, T)
        PROVE  Real
    <3>1. /\ racks'[p] = (racks[p] \ T) \cup TopTiles(bag, Cardinality(T))
          /\ Cardinality(racks'[p]) = Cardinality(racks[p])
          /\ racks'[p] \cap BagTiles(bag') = {}
          /\ Len(bag') = Len(bag) /\ T \subseteq BagTiles(bag')
      BY <1>1, <2>2, ExchangeEffect
    <3>2. p = active_player /\ T # {}
      BY <2>2 DEF Exchange, MayAct
    \* What is back in the bag cannot be in the rack as well.
    <3>3. racks[p] \ racks'[p] = T
      BY <3>1
    <3> QED
      BY <3>1, <3>2, <3>3
  <2>3. ASSUME NEW p \in Players, Pass(p)
        PROVE  FALSE
    <3>1. consecutive_passes' = consecutive_passes + 1
      BY <2>3 DEF Pass
    <3>2. consecutive_passes \in Nat
      BY <1>1 DEF IInv, TypeOK
    <3> QED
      BY <3>1, <3>2, <1>1
  <2>4. ASSUME NEW p \in Players, Resign(p)
        PROVE  FALSE
    BY <1>1, <2>4 DEF Resign, MayAct
  <2> QED
    BY <1>1, <2>1, <2>2, <2>3, <2>4 DEF Next
<1>2. IInv /\ [Next]_vars => [Exchanged => Real]_vars
  BY <1>1
<1> QED
  BY <1>2, Invariance, PTL DEF Spec, ExchangeIsReal
=============================================================================
