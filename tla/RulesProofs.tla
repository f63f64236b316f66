----------------------------- MODULE RulesProofs -----------------------------
(***************************************************************************)
(* Lemmas about the operators of GameRules: turns, draws, deals and        *)
(* settlements, for every number of players, every set of tiles and every  *)
(* rule profile the assumptions allow.  The proofs about the atomic game   *)
(* (GameProofs) and the event-sourced one (EngineProofs) rest on them.     *)
(***************************************************************************)
EXTENDS GameRules, FiniteSetTheorems, SequenceTheorems, TLAPS

-----------------------------------------------------------------------------
(* Numbers *)

\* A non-empty set of naturals has a least element.
LEMMA LeastNatural ==
  ASSUME NEW S \in SUBSET Nat, S # {}
  PROVE  \E m \in S : \A k \in S : m <= k
<1> DEFINE Segments == {1..k : k \in S}
<1>1. Segments \subseteq FiniteSubsetsOf(Nat) /\ Segments # {}
  <2>1. \A k \in S : 1..k \in SUBSET Nat /\ IsFiniteSet(1..k)
    BY FS_Interval
  <2>2. \A k \in S : 1..k \in FiniteSubsetsOf(Nat)
    BY <2>1 DEF FiniteSubsetsOf
  <2> QED
    BY <2>2
<1>2. PICK x \in Segments : \A y \in Segments : <<y, x>> \notin StrictSubsetOrdering(Nat)
  <2> HIDE DEF Segments
  <2> QED
    BY <1>1, FS_StrictSubsetOrderingWellFounded, WFMin
<1>3. PICK m \in S : x = 1..m
  BY DEF Segments
<1>4. ASSUME NEW k \in S, k < m
      PROVE  FALSE
  <2>1. 1..k \subseteq 1..m /\ m \in 1..m /\ m \notin 1..k
    BY <1>4
  <2>2. <<1..k, x>> \in StrictSubsetOrdering(Nat)
    BY <2>1, <1>3 DEF StrictSubsetOrdering
  <2> QED
    BY <2>2, <1>2
<1> QED
  BY <1>4

\* Going round the table from t, one seat is the first that is still active.
LEMMA FirstSeat ==
  ASSUME NEW active \in SUBSET Players, active # {}, NEW t \in Players
  PROVE  \E i \in 1..NumPlayers :
           /\ SeatAfter(t, i) \in active
           /\ \A j \in 1..(i - 1) : SeatAfter(t, j) \notin active
<1> DEFINE K == {k \in 1..NumPlayers : SeatAfter(t, k) \in active}
<1>1. K # {}
  <2>1. PICK q \in active : TRUE
    OBVIOUS
  <2>2. CASE q > t
    <3>1. q - t \in 1..NumPlayers /\ SeatAfter(t, q - t) = q
      BY <2>2, PlayersAssumption DEF Players, SeatAfter
    <3> QED
      BY <3>1
  <2>3. CASE q <= t
    <3>1. q - t + NumPlayers \in 1..NumPlayers /\ SeatAfter(t, q - t + NumPlayers) = q
      BY <2>3, PlayersAssumption DEF Players, SeatAfter
    <3> QED
      BY <3>1
  <2> QED
    BY <2>2, <2>3, PlayersAssumption DEF Players
<1>2. K \in SUBSET Nat
  BY PlayersAssumption
<1>3. PICK k \in K : \A j \in K : k <= j
  BY <1>1, <1>2, LeastNatural
<1>4. \A j \in 1..(k - 1) : j \in 1..NumPlayers /\ j < k
  BY PlayersAssumption
<1>5. \A j \in 1..(k - 1) : j \notin K
  BY <1>4, <1>3, <1>2
<1> QED
  BY <1>3, <1>4, <1>5

\* advance_turn never ends on a player who resigned, as long as one is left.
LEMMA NextTurnIsActive ==
  ASSUME NEW active \in SUBSET Players, active # {}, NEW t \in Players
  PROVE  NextTurn(active, t) \in active
BY FirstSeat DEF NextTurn

\* advance_turn passes the turn on: it goes to an active player, nobody who is
\* active sits in between and is left out, and it comes back to the player who
\* had it only when nobody else is active.
THEOREM TurnPassesOn ==
  ASSUME NEW active \in SUBSET Players, active # {}, NEW t \in Players
  PROVE  /\ NextTurn(active, t) \in active
         /\ \E k \in 1..NumPlayers :
              /\ NextTurn(active, t) = SeatAfter(t, k)
              /\ \A j \in 1..(k - 1) : SeatAfter(t, j) \notin active
         /\ active \ {t} # {} => NextTurn(active, t) # t
<1> DEFINE First(k) == /\ SeatAfter(t, k) \in active
                       /\ \A j \in 1..(k - 1) : SeatAfter(t, j) \notin active
<1>1. PICK k \in 1..NumPlayers : First(k)
  BY FirstSeat
<1>2. PICK i \in 1..NumPlayers : First(i) /\ NextTurn(active, t) = SeatAfter(t, i)
  BY <1>1 DEF NextTurn
<1>3. ASSUME NEW q \in active \ {t}, SeatAfter(t, i) = t
      PROVE  FALSE
  <2>1. i = NumPlayers
    BY <1>3, PlayersAssumption DEF SeatAfter, Players
  <2>2. PICK j \in 1..(NumPlayers - 1) : SeatAfter(t, j) = q
    <3>1. CASE q > t
      <4>1. q - t \in 1..(NumPlayers - 1) /\ SeatAfter(t, q - t) = q
        BY <3>1, PlayersAssumption DEF Players, SeatAfter
      <4> QED
        BY <4>1
    <3>2. CASE q < t
      <4>1. q - t + NumPlayers \in 1..(NumPlayers - 1) /\ SeatAfter(t, q - t + NumPlayers) = q
        BY <3>2, PlayersAssumption DEF Players, SeatAfter
      <4> QED
        BY <4>1
    <3> QED
      BY <3>1, <3>2, PlayersAssumption DEF Players
  <2> QED
    BY <1>2, <2>1, <2>2
<1> QED
  BY <1>2, <1>3

-----------------------------------------------------------------------------
(* The bag *)

\* Tiles of a bag listed once each.
Distinct(s) == \A i, j \in 1..Len(s) : s[i] = s[j] => i = j

\* The number of tiles drawn is never more than the bag holds, and is what
\* was asked for whenever the bag holds that much.
LEMMA DrawCountBound ==
  ASSUME NEW b \in Seq(Tiles), NEW n \in Nat
  PROVE  /\ DrawCount(b, n) \in 0..Len(b)
         /\ DrawCount(b, n) <= n
         /\ DrawCount(b, n) # n => DrawCount(b, n) = Len(b)
BY LenProperties DEF DrawCount

\* Drawing n tiles splits the bag: what is drawn and what is left are all of
\* it, and they are disjoint when no tile is twice in it.
LEMMA DrawSplitsBag ==
  ASSUME NEW b \in Seq(Tiles), NEW n \in 0..Len(b)
  PROVE  /\ WithoutTop(b, n) \in Seq(Tiles)
         /\ Len(WithoutTop(b, n)) = Len(b) - n
         /\ TopTiles(b, n) \subseteq Tiles
         /\ BagTiles(b) = BagTiles(WithoutTop(b, n)) \cup TopTiles(b, n)
         /\ Distinct(b) => /\ Distinct(WithoutTop(b, n))
                           /\ BagTiles(WithoutTop(b, n)) \cap TopTiles(b, n) = {}
                           /\ IsFiniteSet(TopTiles(b, n))
                           /\ Cardinality(TopTiles(b, n)) = n
<1> DEFINE w == WithoutTop(b, n)
           top == (Len(b) - n + 1)..Len(b)
           rest == 1..(Len(b) - n)
<1>1. Len(b) \in Nat /\ \A i \in 1..Len(b) : b[i] \in Tiles
  BY LenProperties, ElementOfSeq
<1>2. /\ w \in Seq(Tiles)
      /\ Len(w) = Len(b) - n
      /\ \A i \in rest : w[i] = b[i]
  <2>1. \A i \in rest : b[i] \in Tiles
    BY <1>1
  <2>2. /\ w \in Seq(Tiles)
        /\ Len(w) = IF 1 <= Len(b) - n THEN Len(b) - n - 1 + 1 ELSE 0
        /\ \A i \in 1..(Len(b) - n - 1 + 1) : w[i] = b[1 + i - 1]
    BY <2>1, <1>1, SubSeqProperties DEF WithoutTop
  <2> QED
    BY <2>2, <1>1
<1>3. 1..Len(b) = rest \cup top /\ rest \cap top = {}
  BY <1>1
<1>4. TopTiles(b, n) \subseteq Tiles
  BY <1>1, <1>3 DEF TopTiles
<1>5. BagTiles(w) = {b[i] : i \in rest}
  BY <1>2 DEF BagTiles
<1>6. BagTiles(b) = BagTiles(w) \cup TopTiles(b, n)
  BY <1>5, <1>3 DEF BagTiles, TopTiles
<1>7. ASSUME Distinct(b)
      PROVE  /\ Distinct(w)
             /\ BagTiles(w) \cap TopTiles(b, n) = {}
             /\ IsFiniteSet(TopTiles(b, n))
             /\ Cardinality(TopTiles(b, n)) = n
  <2>1. Distinct(w)
    BY <1>2, <1>3, <1>7 DEF Distinct
  <2>2. BagTiles(w) \cap TopTiles(b, n) = {}
    BY <1>5, <1>3, <1>7 DEF Distinct, TopTiles
  <2>3. [i \in top |-> b[i]] \in Bijection(top, TopTiles(b, n))
    BY <1>3, <1>7 DEF Distinct, TopTiles, Bijection, Injection, Surjection, IsInjective
  <2>4. IsFiniteSet(top) /\ Cardinality(top) = n
    BY <1>1, FS_Interval
  <2> QED
    BY <2>1, <2>2, <2>3, <2>4, FS_Bijection DEF ExistsBijection
<1> QED
  BY <1>2, <1>4, <1>6, <1>7

\* An order of the tiles T lists each of them once.
LEMMA OrderListsTiles ==
  ASSUME NEW T \in SUBSET Tiles, NEW back \in Orders(T)
  PROVE  /\ back \in Seq(Tiles)
         /\ Len(back) = Cardinality(T)
         /\ BagTiles(back) = T
         /\ Distinct(back)
<1>1. IsFiniteSet(T) /\ Cardinality(T) \in Nat
  BY TilesAssumption, FS_Subset, FS_CardinalityType
<1>2. back \in [1..Cardinality(T) -> T] /\ BagTiles(back) = T
  BY DEF Orders
<1>3. back \in Seq(T) /\ Len(back) = Cardinality(T)
  BY <1>1, <1>2
<1>4. back \in Seq(Tiles)
  BY <1>3, SeqMonotonic
<1>5. back \in Surjection(1..Cardinality(T), T)
  BY <1>2, <1>3 DEF BagTiles, Surjection
<1>6. back \in Injection(1..Cardinality(T), T)
  <2>1. IsFiniteSet(1..Cardinality(T)) /\ Cardinality(1..Cardinality(T)) = Cardinality(T)
    BY <1>1, FS_Interval
  <2> QED
    BY <2>1, <1>5, FS_SurjSameCardinalityImpliesInj
<1>7. Distinct(back)
  BY <1>6, <1>3 DEF Distinct, Injection, IsInjective
<1> QED
  BY <1>2, <1>3, <1>4, <1>7

\* Putting distinct tiles back on a bag that holds none of them.
LEMMA PutBack ==
  ASSUME NEW b \in Seq(Tiles), NEW back \in Seq(Tiles)
  PROVE  /\ b \o back \in Seq(Tiles)
         /\ Len(b \o back) = Len(b) + Len(back)
         /\ BagTiles(b \o back) = BagTiles(b) \cup BagTiles(back)
         /\ Distinct(b) /\ Distinct(back) /\ BagTiles(b) \cap BagTiles(back) = {}
              => Distinct(b \o back)
<1> DEFINE c == b \o back
<1>1. Len(b) \in Nat /\ Len(back) \in Nat
  BY LenProperties
<1>2. /\ c \in Seq(Tiles)
      /\ Len(c) = Len(b) + Len(back)
      /\ \A i \in 1..(Len(b) + Len(back)) :
           c[i] = IF i <= Len(b) THEN b[i] ELSE back[i - Len(b)]
  BY ConcatProperties
<1> HIDE DEF c
<1>3. /\ \A i \in 1..Len(b) : i \in 1..Len(c) /\ c[i] = b[i]
      /\ \A i \in 1..Len(back) : Len(b) + i \in 1..Len(c) /\ c[Len(b) + i] = back[i]
  <2>1. \A i \in 1..Len(b) : i \in 1..Len(c) /\ c[i] = b[i]
    BY <1>1, <1>2
  <2>2. ASSUME NEW i \in 1..Len(back)
        PROVE  Len(b) + i \in 1..Len(c) /\ c[Len(b) + i] = back[i]
    <3>1. Len(b) + i \in 1..(Len(b) + Len(back)) /\ ~(Len(b) + i <= Len(b))
      BY <1>1
    <3>2. (Len(b) + i) - Len(b) = i
      BY <1>1
    <3> QED
      BY <3>1, <3>2, <1>2
  <2> QED
    BY <2>1, <2>2
<1>4. ASSUME NEW i \in 1..Len(c)
      PROVE  \/ i \in 1..Len(b) /\ c[i] = b[i]
             \/ (i - Len(b) \in 1..Len(back) /\ c[i] = back[i - Len(b)])
  BY <1>1, <1>2
<1>6. BagTiles(c) = BagTiles(b) \cup BagTiles(back)
  <2>1. BagTiles(b) \cup BagTiles(back) \subseteq BagTiles(c)
    BY <1>3 DEF BagTiles
  <2>2. BagTiles(c) \subseteq BagTiles(b) \cup BagTiles(back)
    BY <1>4 DEF BagTiles
  <2> QED
    BY <2>1, <2>2
<1>5. ASSUME Distinct(b), Distinct(back), BagTiles(b) \cap BagTiles(back) = {}
      PROVE  Distinct(c)
  <2>1. \A i \in 1..Len(b), j \in 1..Len(back) : b[i] # back[j]
    BY <1>5 DEF BagTiles
  <2> QED
    BY <2>1, <1>1, <1>2, <1>5 DEF Distinct
<1> QED
  BY <1>2, <1>6, <1>5 DEF c

-----------------------------------------------------------------------------
(* The deal *)

\* Where the rack of seat p starts in a shuffle s, counted down from its end.
LEMMA DealIntervals ==
  ASSUME NEW s \in Shuffles, NEW p \in Players
  PROVE  /\ Len(s) \in Nat
         /\ p * RackSize \in Nat /\ (p - 1) * RackSize \in Nat
         /\ p * RackSize = (p - 1) * RackSize + RackSize
         /\ p * RackSize <= NumPlayers * RackSize
         /\ NumPlayers * RackSize \in 0..Len(s)
         /\ \A q \in Players : q < p => q * RackSize <= (p - 1) * RackSize
<1> USE PlayersAssumption, ProfileAssumption DEF Players
<1>1. Len(s) \in Nat /\ Len(s) >= NumPlayers * RackSize
  BY ShufflesAssumption, LenProperties
<1>2. \A a, b \in Nat : a * RackSize \in Nat /\ (a <= b => a * RackSize <= b * RackSize)
  <2>1. ASSUME NEW a \in Nat, NEW b \in Nat, a <= b
        PROVE  a * RackSize <= b * RackSize
    <3>1. b * RackSize = a * RackSize + (b - a) * RackSize
      OBVIOUS
    <3>2. (b - a) * RackSize \in Nat
      BY <2>1
    <3> QED
      BY <3>1, <3>2
  <2> QED
    BY <2>1
<1>3. p \in Nat /\ p - 1 \in Nat /\ p <= NumPlayers
  OBVIOUS
<1>4. p * RackSize = (p - 1) * RackSize + RackSize
  BY <1>3
<1>5. \A q \in Players : q < p => q \in Nat /\ q <= p - 1
  OBVIOUS
<1> QED
  BY <1>1, <1>2, <1>3, <1>4, <1>5

\* The deal takes the rack of every player and the bag from disjoint parts of
\* the shuffle, and nothing is left over.
LEMMA DealSplitsShuffle ==
  ASSUME NEW s \in Shuffles
  PROVE  /\ \A p \in Players : /\ DealtRack(s, p) \subseteq Tiles
                               /\ Cardinality(DealtRack(s, p)) = RackSize
         /\ WithoutTop(s, NumPlayers * RackSize) \in Seq(Tiles)
         /\ Distinct(WithoutTop(s, NumPlayers * RackSize))
         /\ \A p \in Players :
              DealtRack(s, p) \cap BagTiles(WithoutTop(s, NumPlayers * RackSize)) = {}
         /\ \A p, q \in Players : p # q => DealtRack(s, p) \cap DealtRack(s, q) = {}
         /\ Tiles = BagTiles(WithoutTop(s, NumPlayers * RackSize))
                      \cup UNION {DealtRack(s, p) : p \in Players}
<1> DEFINE total == NumPlayers * RackSize
           b == WithoutTop(s, total)
           Slots(p) == (Len(s) - p * RackSize + 1)..(Len(s) - (p - 1) * RackSize)
<1>1. s \in Seq(Tiles) /\ BagTiles(s) = Tiles /\ Distinct(s) /\ Len(s) \in Nat
  BY ShufflesAssumption, LenProperties DEF Distinct
<1>2. 1 \in Players /\ NumPlayers \in Players /\ total \in 0..Len(s)
  BY DealIntervals, PlayersAssumption DEF Players
<1>3. /\ b \in Seq(Tiles) /\ Distinct(b)
      /\ BagTiles(b) \cap TopTiles(s, total) = {}
      /\ BagTiles(s) = BagTiles(b) \cup TopTiles(s, total)
  BY <1>1, <1>2, DrawSplitsBag
<1>4. \A p \in Players : DealtRack(s, p) = {s[i] : i \in Slots(p)}
  BY DEF DealtRack
<1> HIDE DEF total, b
<1>5. ASSUME NEW p \in Players
      PROVE  /\ Slots(p) \subseteq (Len(s) - total + 1)..Len(s)
             /\ Slots(p) \subseteq 1..Len(s)
             /\ IsFiniteSet(Slots(p)) /\ Cardinality(Slots(p)) = RackSize
  <2> DEFINE before == (p - 1) * RackSize
             after == p * RackSize
             lo == Len(s) - after + 1
             hi == Len(s) - before
  <2>1. before \in Nat /\ after \in Nat /\ after = before + RackSize /\ after <= total
    BY DealIntervals DEF total
  <2> HIDE DEF before, after
  <2>2. /\ lo \in Int /\ hi \in Int
        /\ hi - lo + 1 = RackSize /\ ~(lo > hi)
        /\ Len(s) - total + 1 <= lo /\ hi <= Len(s) /\ 1 <= lo
    BY <2>1, <1>1, <1>2, ProfileAssumption
  <2>3. IsFiniteSet(lo..hi) /\ Cardinality(lo..hi) = RackSize
    <3> HIDE DEF lo, hi
    <3> QED
      BY <2>2, FS_Interval
  <2>4. Slots(p) = lo..hi
    BY DEF before, after
  <2> HIDE DEF lo, hi, Slots
  <2> QED
    BY <2>2, <2>3, <2>4, <1>1, <1>2
<1>6. ASSUME NEW p \in Players, NEW q \in Players, q < p
      PROVE  Slots(p) \cap Slots(q) = {}
  <2>1. /\ p * RackSize \in Nat /\ (p - 1) * RackSize \in Nat
        /\ q * RackSize \in Nat /\ (q - 1) * RackSize \in Nat
        /\ q * RackSize <= (p - 1) * RackSize
    BY <1>6, DealIntervals
  <2> QED
    BY <2>1, <1>1
<1>7. \A p, q \in Players : p # q => Slots(p) \cap Slots(q) = {}
  BY <1>6, PlayersAssumption DEF Players
<1>8. ASSUME NEW i \in (Len(s) - total + 1)..Len(s)
      PROVE  \E p \in Players : i \in Slots(p)
  <2> DEFINE K == {p \in Players : i > Len(s) - p * RackSize}
  <2>1. NumPlayers \in K
    BY <1>2, <1>1 DEF total
  <2>2. PICK p \in K : \A k \in K : p <= k
    <3>1. K # {} /\ K \in SUBSET Nat
      BY <2>1, PlayersAssumption DEF Players
    <3> HIDE DEF K
    <3> QED
      BY <3>1, LeastNatural
  <2>3. p \in Players /\ i > Len(s) - p * RackSize
    BY <2>2
  <2>4. i <= Len(s) - (p - 1) * RackSize
    <3>1. CASE p = 1
      BY <3>1, <1>1, <1>2, ProfileAssumption
    <3>2. CASE p # 1
      <4>1. p - 1 \in Players /\ ~(p <= p - 1)
        BY <3>2, <2>3, PlayersAssumption DEF Players
      <4>2. p - 1 \notin K
        BY <4>1, <2>2
      <4>3. (p - 1) * RackSize \in Nat
        BY <2>3, DealIntervals
      <4> QED
        BY <4>1, <4>2, <4>3, <1>1, <1>2
    <3> QED
      BY <3>1, <3>2
  <2>5. p * RackSize \in Nat /\ (p - 1) * RackSize \in Nat
    BY <2>3, DealIntervals
  <2> QED
    BY <2>3, <2>4, <2>5, <1>1, <1>2
<1>9. \A p \in Players : /\ DealtRack(s, p) \subseteq TopTiles(s, total)
                         /\ DealtRack(s, p) \subseteq Tiles
  BY <1>4, <1>5, <1>1, ElementOfSeq DEF TopTiles
<1>10. ASSUME NEW p \in Players
       PROVE  Cardinality(DealtRack(s, p)) = RackSize
  <2>1. [i \in Slots(p) |-> s[i]] \in Bijection(Slots(p), DealtRack(s, p))
    BY <1>1, <1>4, <1>5 DEF Distinct, Bijection, Injection, Surjection, IsInjective
  <2> QED
    BY <2>1, <1>5, FS_Bijection DEF ExistsBijection
<1>11. \A p, q \in Players : p # q => DealtRack(s, p) \cap DealtRack(s, q) = {}
  BY <1>4, <1>5, <1>7, <1>1 DEF Distinct
<1>12. TopTiles(s, total) = UNION {DealtRack(s, p) : p \in Players}
  <2>1. TopTiles(s, total) \subseteq UNION {DealtRack(s, p) : p \in Players}
    BY <1>4, <1>8 DEF TopTiles
  <2> QED
    BY <2>1, <1>9
<1> QED
  BY <1>1, <1>3, <1>9, <1>10, <1>11, <1>12 DEF b, total

-----------------------------------------------------------------------------
(* Racks and scores *)

\* Racks, and the tiles a command names, are finite.
LEMMA TilesAreFinite ==
  ASSUME NEW S \in SUBSET Tiles
  PROVE  IsFiniteSet(S) /\ Cardinality(S) \in Nat
BY TilesAssumption, FS_Subset, FS_CardinalityType

\* What a rack holds after n of its tiles T are replaced from the bag.
LEMMA RefilledRack ==
  ASSUME NEW rack \in SUBSET Tiles, NEW T \in SUBSET rack,
         NEW D \in SUBSET Tiles, rack \cap D = {}
  PROVE  /\ Cardinality((rack \ T) \cup D)
              = Cardinality(rack) - Cardinality(T) + Cardinality(D)
         /\ Cardinality(T) <= Cardinality(rack)
<1>1. /\ IsFiniteSet(rack) /\ IsFiniteSet(T) /\ IsFiniteSet(D) /\ IsFiniteSet(rack \ T)
      /\ Cardinality(rack) \in Nat /\ Cardinality(T) \in Nat /\ Cardinality(D) \in Nat
      /\ Cardinality(rack \ T) \in Nat
  BY TilesAreFinite
<1>2. Cardinality(rack \ T) = Cardinality(rack) - Cardinality(T)
  <2>1. rack \cap T = T
    OBVIOUS
  <2> QED
    BY <1>1, <2>1, FS_Difference
<1>3. Cardinality((rack \ T) \cup D) = Cardinality(rack \ T) + Cardinality(D) - 0
  <2>1. (rack \ T) \cap D = {}
    OBVIOUS
  <2> QED
    BY <1>1, <2>1, FS_Union, FS_EmptySet
<1>4. Cardinality(T) <= Cardinality(rack)
  BY <1>1, FS_Subset
<1> QED
  BY <1>1, <1>2, <1>3, <1>4

\* Every settlement is in naturals: a penalty stops at zero.
LEMMA SaturatingSubType ==
  ASSUME NEW a \in Nat, NEW b \in Nat
  PROVE  SaturatingSub(a, b) \in Nat
BY DEF SaturatingSub

\* Settled scores are never negative.
LEMMA SettlementTypes ==
  ASSUME NEW s \in [Players -> Nat], NEW r \in [Players -> SUBSET Tiles]
  PROVE  /\ PenalisedScores(s, r) \in [Players -> Nat]
         /\ \A p \in Players, score \in Nat : RackOutScores(s, r, p, score) \in [Players -> Nat]
<1>1. \A q \in Players : s[q] \in Nat /\ RackPoints[r[q]] \in Nat
  BY PointsAssumption
<1>2. PenalisedScores(s, r) \in [Players -> Nat]
  BY <1>1, SaturatingSubType DEF PenalisedScores
<1>3. ASSUME NEW p \in Players, NEW score \in Nat
      PROVE  RackOutScores(s, r, p, score) \in [Players -> Nat]
  <2>1. UNION {r[q] : q \in Players \ {p}} \in SUBSET Tiles
    OBVIOUS
  <2>2. s[p] + score + RackPoints[UNION {r[q] : q \in Players \ {p}}] \in Nat
    BY <2>1, <1>1, PointsAssumption
  <2> QED
    BY <2>2, <1>1, SaturatingSubType DEF RackOutScores
<1> QED
  BY <1>2, <1>3
=============================================================================
