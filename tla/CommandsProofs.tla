--------------------------- MODULE CommandsProofs ---------------------------
(***************************************************************************)
(* Proofs about the module Commands, for any number of requests, commands, *)
(* idempotency keys and events of a command, and without its bound: the    *)
(* journal is contiguous, what is recovered is the game, and the service   *)
(* implements CommandLog.                                                  *)
(***************************************************************************)
EXTENDS Commands, SequenceTheorems, TLAPS

\* A request that has decided did so on a game of the revision it expects.
DecidedOnExpected ==
  \A q \in Requests :
    (Goes(q, "Decided") \/ Goes(q, "Checked")) => Len(requests[q].game) = requests[q].expected

\* No command has led further than the game is.
AcceptedInThePast == \A row \in accepted : row.resulting <= revision

\* JournalIsContiguous says of each revision that one row accounts for it; the
\* next row has to start where the game is (AcceptedInThePast).  A snapshot or
\* a decision is a prefix of the journal (RecoveredIsJournal), and of the whole
\* of it at the commit, where the conditional update finds the revision that
\* the request has decided on (DecidedOnExpected).
IInv ==
  /\ TypeOK
  /\ JournalIsContiguous
  /\ RecoveredIsJournal
  /\ DecidedOnExpected
  /\ AcceptedInThePast

-----------------------------------------------------------------------------
(* Games *)

\* A sequence that agrees with s, and beyond it with t, is s \o t.
LEMMA Continued ==
  ASSUME NEW S, NEW s \in Seq(S), NEW t \in Seq(S), NEW w \in Seq(S),
         Len(w) = Len(s) + Len(t),
         \A i \in 1..Len(s) : w[i] = s[i],
         \A i \in 1..Len(t) : w[Len(s) + i] = t[i]
  PROVE  s \o t = w
<1> DEFINE u == s \o t
<1>1. Len(s) \in Nat /\ Len(t) \in Nat
  BY LenProperties
<1>2. /\ u \in Seq(S) /\ Len(u) = Len(s) + Len(t)
      /\ \A i \in 1..(Len(s) + Len(t)) : u[i] = IF i <= Len(s) THEN s[i] ELSE t[i - Len(s)]
  BY ConcatProperties
<1> HIDE DEF u
<1>3. ASSUME NEW i \in 1..Len(u)
      PROVE  u[i] = w[i]
  <2>1. CASE i <= Len(s)
    BY <2>1, <1>1, <1>2
  <2>2. CASE ~(i <= Len(s))
    <3>1. i - Len(s) \in 1..Len(t) /\ Len(s) + (i - Len(s)) = i
      BY <2>2, <1>1, <1>2
    <3>2. w[Len(s) + (i - Len(s))] = t[i - Len(s)]
      BY <3>1
    <3> QED
      BY <3>1, <3>2, <2>2, <1>2
  <2> QED
    BY <2>1, <2>2
<1>4. u = w
  BY <1>2, <1>3, SeqEqual
<1> QED
  BY <1>4 DEF u

\* The journal's game at each of its revisions is a game, of that length.
LEMMA GameAtType ==
  ASSUME TypeOK, DOMAIN game_journal = 1..revision, NEW r \in 0..revision
  PROVE  GameAt(r) \in Games /\ Len(GameAt(r)) = r
<1>1. \A i \in 1..r : game_journal[i].command \in Commands \cup {Created}
  BY DEF TypeOK
<1> QED
  BY <1>1 DEF GameAt, Games, TypeOK

\* load_events returns the rest of the game after a prefix of it.
LEMMA TailCompletes ==
  ASSUME TypeOK, DOMAIN game_journal = 1..revision,
         NEW k \in 0..revision, NEW game \in Games, game = GameAt(k)
  PROVE  game \o TailAfter(game) = GameAt(revision)
<1>1. Len(game) = k /\ \A i \in 1..k : game[i] = game_journal[i].command
  BY GameAtType DEF GameAt
<1>2. revision \in Nat /\ k \in Nat /\ revision - k \in Nat
  BY DEF TypeOK
<1> DEFINE tail == [i \in 1..(revision - k) |-> game_journal[k + i].command]
<1>3. TailAfter(game) = tail
  BY <1>1 DEF TailAfter
<1>4. \A i \in 1..(revision - k) : game_journal[k + i].command \in Commands \cup {Created}
  <2>1. \A i \in 1..(revision - k) : k + i \in 1..revision
    BY <1>2
  <2> QED
    BY <2>1 DEF TypeOK
<1>5. tail \in Games /\ Len(tail) = revision - k
  BY <1>2, <1>4 DEF Games
<1>6. GameAt(revision) \in Games /\ Len(GameAt(revision)) = revision
  BY <1>2, GameAtType
<1>7. /\ \A i \in 1..k : GameAt(revision)[i] = game[i]
      /\ \A i \in 1..(revision - k) : GameAt(revision)[k + i] = tail[i]
  BY <1>1, <1>2 DEF GameAt
<1> HIDE DEF tail
<1>8. game \o tail = GameAt(revision)
  <2> DEFINE S == Commands \cup {Created}
             w == GameAt(revision)
  <2>1. game \in Seq(S) /\ tail \in Seq(S) /\ w \in Seq(S)
    BY <1>5, <1>6 DEF Games
  <2>2. Len(w) = Len(game) + Len(tail)
    BY <1>1, <1>2, <1>5, <1>6
  <2>3. /\ \A i \in 1..Len(game) : w[i] = game[i]
        /\ \A i \in 1..Len(tail) : w[Len(game) + i] = tail[i]
    BY <1>1, <1>5, <1>7
  <2> HIDE DEF S, w
  <2>4. game \o tail = w
    BY <2>1, <2>2, <2>3, Continued
  <2> QED
    BY <2>4 DEF w
<1> QED
  BY <1>3, <1>8

-----------------------------------------------------------------------------
(* Requests that do not commit *)

\* A step that changes one request and no row, and leaves it with a prefix of
\* the journal, keeps the invariant.
LEMMA OneRequest ==
  ASSUME IInv, UNCHANGED rows, NEW q \in Requests, NEW x \in {Idle} \cup Request,
         requests' = [requests EXCEPT ![q] = x],
         x # Idle =>
           /\ Len(x.game) <= revision /\ x.game = GameAt(Len(x.game))
           /\ x.step \in {"Decided", "Checked"} => Len(x.game) = x.expected
  PROVE  IInv'
<1>1. TypeOK /\ TypeOK'
  BY DEF IInv, TypeOK, rows
<1>2. \A p \in Requests : requests'[p] = IF p = q THEN x ELSE requests[p]
  BY <1>1 DEF TypeOK
<1>3. JournalIsContiguous' /\ AcceptedInThePast'
  BY DEF IInv, JournalIsContiguous, AcceptedInThePast, rows
<1>4. \A k : GameAt(k)' = GameAt(k)
  BY DEF GameAt, rows
<1>5. RecoveredIsJournal'
  BY <1>2, <1>4 DEF IInv, RecoveredIsJournal, rows
<1>6. DecidedOnExpected'
  BY <1>2 DEF IInv, DecidedOnExpected, Goes
<1> QED
  BY <1>1, <1>3, <1>5, <1>6 DEF IInv

\* The steps of a request before its commit
LEMMA ReadingKeepsInv ==
  ASSUME IInv, NEW q \in Requests,
         \/ \E c \in Commands, expected \in 1..revision : Receive(q, c, expected)
         \/ ReadSnapshot(q) \/ ReadTail(q) \/ Check(q) \/ RollBack(q)
  PROVE  IInv'
<1> USE DEF IInv
<1>1. ASSUME NEW c \in Commands, NEW expected \in 1..revision, Receive(q, c, expected)
      PROVE  IInv'
  <2> DEFINE x == [step |-> "Received", command |-> c, expected |-> expected, game |-> <<>>]
  <2>1. x \in Request
    BY DEF Request, Games, TypeOK
  <2>2. x.game = GameAt(Len(x.game)) /\ Len(x.game) <= revision
    BY DEF GameAt, TypeOK
  <2>3. UNCHANGED rows /\ requests' = [requests EXCEPT ![q] = x]
    BY <1>1 DEF Receive
  <2> QED
    BY <2>1, <2>2, <2>3, OneRequest
<1>2. CASE ReadSnapshot(q)
  <2>1. PICK game \in (IF snapshots = {} THEN {<<>>} ELSE snapshots) :
          requests' = [requests EXCEPT ![q].step = "Snapshot", ![q].game = game]
    BY <1>2 DEF ReadSnapshot
  <2>2. game \in Games /\ Len(game) <= revision /\ game = GameAt(Len(game))
    <3>1. CASE game \in snapshots
      BY <3>1 DEF RecoveredIsJournal, TypeOK
    <3>2. CASE game = <<>>
      BY <3>2 DEF TypeOK, Games, GameAt
    <3> QED
      BY <3>1, <3>2
  <2> DEFINE x == [requests[q] EXCEPT !.step = "Snapshot", !.game = game]
  <2>3. requests[q] \in Request
    BY <1>2 DEF ReadSnapshot, Goes, TypeOK
  <2>4. x \in Request /\ x.game = game /\ x.step = "Snapshot"
    BY <2>2, <2>3 DEF Request
  <2>5. UNCHANGED rows /\ requests' = [requests EXCEPT ![q] = x]
    BY <1>2, <2>1 DEF ReadSnapshot
  <2> HIDE DEF x
  <2> QED
    BY <2>2, <2>4, <2>5, OneRequest
<1>3. CASE ReadTail(q)
  <2> DEFINE game == requests[q].game \o TailAfter(requests[q].game)
  <2>1. requests[q] \in Request /\ requests[q] # Idle
    BY <1>3 DEF ReadTail, Goes, TypeOK
  <2>2. game = GameAt(revision)
    <3>1. /\ requests[q].game \in Games
          /\ Len(requests[q].game) \in 0..revision
          /\ requests[q].game = GameAt(Len(requests[q].game))
      BY <2>1 DEF Request, RecoveredIsJournal, Games, TypeOK
    <3> QED
      BY <3>1, TailCompletes DEF JournalIsContiguous
  <2>3. game \in Games /\ Len(game) = revision
    <3>1. revision \in 0..revision /\ DOMAIN game_journal = 1..revision
      BY DEF JournalIsContiguous, TypeOK
    <3>2. GameAt(revision) \in Games /\ Len(GameAt(revision)) = revision
      BY <3>1, GameAtType
    <3> QED
      BY <2>2, <3>2
  <2>4. CASE Len(game) = requests[q].expected
              /\ requests' = [requests EXCEPT ![q].step = "Decided", ![q].game = game]
    <3> DEFINE x == [requests[q] EXCEPT !.step = "Decided", !.game = game]
    <3> HIDE DEF game
    <3>1. x \in Request /\ x.game = game /\ x.expected = requests[q].expected
      BY <2>1, <2>3 DEF Request
    <3>2. UNCHANGED rows /\ requests' = [requests EXCEPT ![q] = x]
      BY <1>3, <2>4 DEF ReadTail
    <3>3. Len(game) <= revision /\ game = GameAt(Len(game))
      BY <2>2, <2>3 DEF TypeOK
    <3> HIDE DEF x
    <3> QED
      BY <2>4, <3>1, <3>2, <3>3, OneRequest
  <2>5. CASE End(q)
    BY <1>3, <2>5, OneRequest DEF ReadTail, End
  <2> QED
    BY <1>3, <2>4, <2>5 DEF ReadTail
<1>4. CASE Check(q)
  <2> DEFINE x == [requests[q] EXCEPT !.step = "Checked"]
  <2>1. requests[q] \in Request /\ requests[q] # Idle /\ Goes(q, "Decided")
    BY <1>4 DEF Check, Goes, TypeOK
  <2>2. /\ x \in Request /\ x.game = requests[q].game
        /\ x.expected = requests[q].expected
    BY <2>1 DEF Request
  <2>3. UNCHANGED rows /\ requests' = [requests EXCEPT ![q] = x]
    BY <1>4 DEF Check
  <2>4. /\ Len(requests[q].game) <= revision
        /\ requests[q].game = GameAt(Len(requests[q].game))
        /\ Len(requests[q].game) = requests[q].expected
    BY <2>1 DEF RecoveredIsJournal, DecidedOnExpected
  <2> HIDE DEF x
  <2> QED
    BY <2>2, <2>3, <2>4, OneRequest
<1>5. CASE RollBack(q)
  BY <1>5, OneRequest DEF RollBack, End
<1> QED
  BY <1>1, <1>2, <1>3, <1>4, <1>5

-----------------------------------------------------------------------------
\* The journal as it was created
LEMMA InitInv == CommandsInit => IInv
<1> SUFFICES ASSUME CommandsInit
             PROVE  IInv
  OBVIOUS
<1>1. TypeOK
  BY DEF CommandsInit, TypeOK, Event, Games
<1>2. JournalIsContiguous
  BY DEF CommandsInit, JournalIsContiguous
<1>3. RecoveredIsJournal
  BY DEF CommandsInit, RecoveredIsJournal
<1>4. DecidedOnExpected /\ AcceptedInThePast
  BY DEF CommandsInit, DecidedOnExpected, AcceptedInThePast, Goes
<1> QED
  BY <1>1, <1>2, <1>3, <1>4 DEF IInv

-----------------------------------------------------------------------------
(* The commit *)

\* What a commit finds and what it leaves: the request has decided on the
\* whole journal, which gets the n events of its command.
LEMMA CommitEffect ==
  ASSUME IInv, NEW q \in Requests, NEW n \in 1..MaxEvents, Commit(q, n)
  PROVE  LET c == requests[q].command
             game == GameAt(revision)
         IN  /\ c \in Commands /\ ~IsDuplicate(c)
             /\ n \in Nat /\ 1 <= n
             /\ revision' = revision + n
             /\ DOMAIN game_journal' = 1..(revision + n)
             /\ \A r \in 1..revision : game_journal'[r] = game_journal[r]
             /\ \A r \in (revision + 1)..(revision + n) : game_journal'[r] = Event(c, game)
             /\ accepted' = accepted \cup
                  {[command |-> c, expected |-> revision, resulting |-> revision + n]}
             /\ snapshots' \subseteq snapshots \cup {GameAfter(game, c, n)}
             /\ requests' = [requests EXCEPT ![q] = Idle]
<1> DEFINE c == requests[q].command
           game == requests[q].game
           added == (revision + 1)..(revision + n)
<1>1. requests[q] \in Request /\ requests[q] # Idle /\ Goes(q, "Checked")
  BY DEF IInv, TypeOK, Commit, Goes
<1>2. c \in Commands /\ requests[q].expected = revision /\ ~IsDuplicate(c)
  BY <1>1 DEF Request, Commit
<1>3. Len(game) = revision /\ game = GameAt(revision)
  BY <1>1, <1>2 DEF IInv, DecidedOnExpected, RecoveredIsJournal
<1>4. n \in Nat /\ 1 <= n /\ revision \in Nat
  BY EventsAssumption DEF IInv, TypeOK
<1>5. /\ game_journal' = [r \in DOMAIN game_journal \cup added |->
                                  IF r \in added THEN Event(c, game) ELSE game_journal[r]]
      /\ revision' = revision + n
      /\ accepted' = accepted \cup
           {[command |-> c, expected |-> revision, resulting |-> revision + n]}
      /\ snapshots' \subseteq snapshots \cup {GameAfter(game, c, n)}
      /\ requests' = [requests EXCEPT ![q] = Idle]
  BY <1>2 DEF Commit, End, ResultingRevision
<1>6. DOMAIN game_journal = 1..revision
  BY DEF IInv, JournalIsContiguous
<1>7. DOMAIN game_journal \cup added = 1..(revision + n)
  BY <1>4, <1>6
<1>8. /\ \A r \in 1..revision : r \notin added /\ r \in 1..(revision + n)
      /\ \A r \in added : r \in 1..(revision + n)
  BY <1>4
<1>9. /\ \A r \in 1..revision : game_journal'[r] = game_journal[r]
      /\ \A r \in added : game_journal'[r] = Event(c, game)
  BY <1>5, <1>7, <1>8
<1>10. DOMAIN game_journal' = 1..(revision + n)
  BY <1>5, <1>7
<1> QED
  BY <1>2, <1>3, <1>4, <1>5, <1>9, <1>10

\* The events of a command continue the game it was decided on.
LEMMA CommitKeepsTypes ==
  ASSUME IInv, NEW q \in Requests, NEW n \in 1..MaxEvents, Commit(q, n)
  PROVE  /\ TypeOK'
         /\ \A k \in 0..revision : GameAt(k)' = GameAt(k)
         /\ GameAfter(GameAt(revision), requests[q].command, n) = GameAt(revision)'
<1> DEFINE c == requests[q].command
           game == GameAt(revision)
           after == GameAfter(game, c, n)
           more == [i \in 1..n |-> c]
           S == Commands \cup {Created}
           whole == GameAt(revision)'
<1>1. TypeOK /\ DOMAIN game_journal = 1..revision /\ revision \in Nat \ {0} /\ revision \in 0..revision
  BY DEF IInv, TypeOK, JournalIsContiguous
<1>2. /\ c \in Commands /\ n \in Nat /\ 1 <= n
      /\ revision' = revision + n /\ DOMAIN game_journal' = 1..(revision + n)
      /\ \A r \in 1..revision : game_journal'[r] = game_journal[r]
      /\ \A r \in (revision + 1)..(revision + n) : game_journal'[r] = Event(c, game)
      /\ accepted' = accepted \cup
           {[command |-> c, expected |-> revision, resulting |-> revision + n]}
      /\ snapshots' \subseteq snapshots \cup {after}
      /\ requests' = [requests EXCEPT ![q] = Idle]
  BY CommitEffect
<1>3. game \in Games /\ Len(game) = revision
  BY <1>1, GameAtType
<1>4. \A r \in 1..(revision + n) : r \in 1..revision \/ r \in (revision + 1)..(revision + n)
  BY <1>1, <1>2
<1>5. \A r \in 1..(revision + n) : game_journal'[r] \in [command : S, decided_on : Games]
  <2>1. Event(c, game) \in [command : S, decided_on : Games]
    BY <1>2, <1>3 DEF Event
  <2> QED
    BY <2>1, <1>1, <1>2, <1>4 DEF TypeOK
<1>6. \A k \in 0..revision : GameAt(k)' = GameAt(k)
  <2>1. ASSUME NEW k \in 0..revision
        PROVE  \A i \in 1..k : game_journal'[i].command = game_journal[i].command
    BY <1>1, <1>2
  <2> QED
    BY <2>1 DEF GameAt
<1>7. whole \in Seq(S) /\ Len(whole) = revision + n
      /\ \A i \in 1..(revision + n) : whole[i] = game_journal'[i].command
  <2>1. \A i \in 1..(revision + n) : game_journal'[i].command \in S
    BY <1>5
  <2>2. whole = [i \in 1..(revision + n) |-> game_journal'[i].command]
    BY <1>2 DEF GameAt
  <2>3. revision + n \in Nat
    BY <1>1, <1>2
  <2> HIDE DEF whole, S
  <2> QED
    BY <2>1, <2>2, <2>3
<1>8. more \in Seq(S) /\ Len(more) = n
  BY <1>2
<1>9. after = whole
  <2>1. \A i \in 1..Len(game) : whole[i] = game[i]
    BY <1>1, <1>2, <1>3, <1>7 DEF GameAt
  <2>2. \A i \in 1..Len(more) : whole[Len(game) + i] = more[i]
    <3>1. ASSUME NEW i \in 1..n
          PROVE  revision + i \in (revision + 1)..(revision + n)
                 /\ revision + i \in 1..(revision + n)
      BY <1>1, <1>2
    <3>2. ASSUME NEW i \in 1..n
          PROVE  whole[revision + i] = c
      BY <3>1, <1>2, <1>7 DEF Event
    <3> QED
      BY <3>2, <1>3, <1>8
  <2>3. game \in Seq(S) /\ Len(whole) = Len(game) + Len(more)
    BY <1>3, <1>7, <1>8 DEF Games
  <2>4. after = game \o more
    BY DEF GameAfter
  <2> HIDE DEF S, whole, more, game, after
  <2> QED
    BY <2>1, <2>2, <2>3, <2>4, <1>7, <1>8, Continued
<1>10. TypeOK'
  <2>1. revision' \in Nat \ {0} /\ DOMAIN game_journal' \subseteq Nat \ {0}
    BY <1>1, <1>2
  <2>2. /\ accepted' \subseteq [command : Commands, expected : Nat, resulting : Nat]
        /\ \A row \in accepted' : row.expected < row.resulting
    BY <1>1, <1>2 DEF TypeOK
  <2>3. snapshots' \subseteq Games
    BY <1>1, <1>2, <1>7, <1>9 DEF TypeOK, Games
  <2>4. requests' \in [Requests -> {Idle} \cup Request]
    BY <1>1, <1>2 DEF TypeOK
  <2> QED
    BY <2>1, <2>2, <2>3, <2>4, <1>2, <1>5 DEF TypeOK
<1> QED
  BY <1>6, <1>9, <1>10

\* Commit keeps the invariant.
LEMMA CommitKeepsInv ==
  ASSUME IInv, NEW q \in Requests, NEW n \in 1..MaxEvents, Commit(q, n)
  PROVE  IInv'
<1> DEFINE c == requests[q].command
           new == [command |-> c, expected |-> revision, resulting |-> revision + n]
<1>1. /\ n \in Nat /\ 1 <= n /\ revision \in Nat
      /\ revision' = revision + n /\ DOMAIN game_journal' = 1..(revision + n)
      /\ \A r \in 1..revision : game_journal'[r] = game_journal[r]
      /\ \A r \in (revision + 1)..(revision + n) : game_journal'[r] = Event(c, GameAt(revision))
      /\ accepted' = accepted \cup {new}
      /\ snapshots' \subseteq snapshots \cup {GameAfter(GameAt(revision), c, n)}
      /\ requests' = [requests EXCEPT ![q] = Idle]
  BY CommitEffect DEF IInv, TypeOK
<1>2. /\ TypeOK /\ TypeOK'
      /\ \A k \in 0..revision : GameAt(k)' = GameAt(k)
      /\ GameAfter(GameAt(revision), c, n) = GameAt(revision)'
  BY CommitKeepsTypes DEF IInv
<1>3. \A p \in Requests : requests'[p] = IF p = q THEN Idle ELSE requests[p]
  BY <1>1, <1>2 DEF TypeOK
<1>4. AcceptedInThePast'
  BY <1>1, <1>2 DEF IInv, AcceptedInThePast, TypeOK
<1>5. JournalIsContiguous'
  <2>1. \A row \in accepted : row.expected \in Nat /\ row.resulting \in Nat
                              /\ row.resulting <= revision
    BY <1>2 DEF IInv, AcceptedInThePast, TypeOK
  <2>2. ASSUME NEW r \in 2..revision
        PROVE  \E row \in accepted' :
                 /\ row.expected < r /\ r <= row.resulting /\ row.command = game_journal'[r].command
                 /\ \A other \in accepted' \ {row} : ~(other.expected < r /\ r <= other.resulting)
    <3>1. PICK row \in accepted :
            /\ row.expected < r /\ r <= row.resulting /\ row.command = game_journal[r].command
            /\ \A other \in accepted \ {row} : ~(other.expected < r /\ r <= other.resulting)
      BY DEF IInv, JournalIsContiguous
    <3>2. ~(new.expected < r)
      BY <1>1
    <3>3. game_journal'[r] = game_journal[r]
      BY <1>1
    <3> QED
      BY <3>1, <3>2, <3>3, <1>1
  <2>3. ASSUME NEW r \in (revision + 1)..(revision + n)
        PROVE  \E row \in accepted' :
                 /\ row.expected < r /\ r <= row.resulting /\ row.command = game_journal'[r].command
                 /\ \A other \in accepted' \ {row} : ~(other.expected < r /\ r <= other.resulting)
    <3>1. new.expected < r /\ r <= new.resulting /\ new.command = game_journal'[r].command
      BY <1>1 DEF Event
    <3>2. \A other \in accepted : ~(r <= other.resulting)
      BY <2>1, <1>1
    <3> QED
      BY <3>1, <3>2, <1>1
  <2>4. \A r \in 2..(revision + n) : r \in 2..revision \/ r \in (revision + 1)..(revision + n)
    BY <1>1
  <2> QED
    BY <2>2, <2>3, <2>4, <1>1 DEF JournalIsContiguous
<1>6. RecoveredIsJournal'
  <2>1. ASSUME NEW game \in Games, Len(game) <= revision, game = GameAt(Len(game))
        PROVE  Len(game) <= revision + n /\ game = GameAt(Len(game))'
    <3>1. Len(game) \in 0..revision
      BY <2>1, <1>1 DEF Games
    <3>2. \A k \in 0..revision : GameAt(k)' = GameAt(k)
      BY <1>2
    <3>3. Len(game)' = Len(game)
      OBVIOUS
    <3> QED
      BY <2>1, <3>1, <3>2, <1>1 DEF GameAt
  <2>2. Len(GameAfter(GameAt(revision), c, n)) = revision + n
    <3>1. GameAt(revision)' = [i \in 1..(revision + n) |-> game_journal'[i].command]
      BY <1>1 DEF GameAt
    <3>2. Len(GameAt(revision)') = revision + n
      BY <3>1, <1>1
    <3> QED
      BY <3>2, <1>2
  <2>3. ASSUME NEW game \in snapshots'
        PROVE  Len(game) <= revision' /\ game = GameAt(Len(game))'
    <3>1. CASE game \in snapshots
      BY <3>1, <2>1, <1>1, <1>2 DEF IInv, RecoveredIsJournal, TypeOK
    <3>2. CASE game = GameAfter(GameAt(revision), c, n)
      <4>1. game = GameAt(revision)' /\ Len(game) = revision'
        BY <3>2, <2>2, <1>1, <1>2
      <4>2. GameAt(Len(game))' = [i \in 1..Len(game) |-> game_journal'[i].command]
        BY DEF GameAt
      <4>3. GameAt(revision)' = [i \in 1..revision' |-> game_journal'[i].command]
        BY DEF GameAt
      <4> QED
        BY <4>1, <4>2, <4>3, <1>1
    <3> QED
      BY <3>1, <3>2, <1>1
  <2>4. \A p \in Requests :
          requests'[p] # Idle =>
            /\ Len(requests'[p].game) <= revision'
            /\ requests'[p].game = GameAt(Len(requests[p].game))'
    BY <2>1, <1>1, <1>2, <1>3 DEF IInv, RecoveredIsJournal, TypeOK, Request
  <2> QED
    BY <2>3, <2>4 DEF RecoveredIsJournal
<1>7. DecidedOnExpected'
  BY <1>3 DEF IInv, DecidedOnExpected, Goes
<1> QED
  BY <1>2, <1>4, <1>5, <1>6, <1>7 DEF IInv

\* Every step keeps it.
LEMMA NextInv == IInv /\ [CommandsNext]_commands_vars => IInv'
<1> SUFFICES ASSUME IInv, [CommandsNext]_commands_vars
             PROVE  IInv'
  OBVIOUS
<1>1. ASSUME NEW q \in Requests, NEW n \in 1..MaxEvents, Commit(q, n)
      PROVE  IInv'
  BY <1>1, CommitKeepsInv
<1>2. ASSUME NEW q \in Requests,
             \/ \E c \in Commands, expected \in 1..revision : Receive(q, c, expected)
             \/ ReadSnapshot(q) \/ ReadTail(q) \/ Check(q) \/ RollBack(q)
      PROVE  IInv'
  BY <1>2, ReadingKeepsInv
<1>3. CASE UNCHANGED commands_vars
  <2>1. \A k : GameAt(k)' = GameAt(k)
    BY <1>3 DEF GameAt, commands_vars, rows
  <2> QED
    BY <2>1, <1>3 DEF IInv, TypeOK, JournalIsContiguous, RecoveredIsJournal,
       DecidedOnExpected, AcceptedInThePast, Goes, commands_vars, rows
<1> QED
  BY <1>1, <1>2, <1>3 DEF CommandsNext

\* The inductive invariant holds in every reachable state.
LEMMA CommandsInvariance == CommandsSpec => []IInv
BY InitInv, NextInv, PTL DEF CommandsSpec

-----------------------------------------------------------------------------
(* Theorems *)

\* Rows and requests have their types; an accepted command has led to a later
\* revision (append_events).
THEOREM RowsHaveTypes == CommandsSpec => []TypeOK
<1>1. IInv => TypeOK
  BY DEF IInv
<1> QED
  BY <1>1, CommandsInvariance, PTL

\* However many requests overlap, repeat and fail, the journal has no gap, ends
\* at the revision of the game, and every event after the first belongs to
\* exactly one accepted command (append_events).
THEOREM JournalStaysContiguous == CommandsSpec => []JournalIsContiguous
<1>1. IInv => JournalIsContiguous
  BY DEF IInv
<1> QED
  BY <1>1, CommandsInvariance, PTL

\* Every snapshot and every game a command is decided on is the replay of the
\* journal up to its revision (store_snapshot, recover_game).
THEOREM RecoveryIsReplay == CommandsSpec => []RecoveredIsJournal
<1>1. IInv => RecoveredIsJournal
  BY DEF IInv
<1> QED
  BY <1>1, CommandsInvariance, PTL

-----------------------------------------------------------------------------
(* Refinement of CommandLog *)

\* The log is a sequence as long as the game has revisions.
LEMMA LogType ==
  ASSUME IInv
  PROVE  /\ Log \in Seq([command : Commands \cup {Created}, decided_on : Games])
         /\ Len(Log) = revision
         /\ \A i \in 1..revision : Log[i] = game_journal[i]
<1>1. \A i \in 1..revision : game_journal[i] \in [command : Commands \cup {Created}, decided_on : Games]
  BY DEF IInv, TypeOK, JournalIsContiguous
<1> QED
  BY <1>1 DEF Log, IInv, TypeOK

\* A commit accepts a command that is new, on the game of the whole log.
LEMMA CommitAccepts ==
  ASSUME IInv, NEW q \in Requests, NEW n \in 1..MaxEvents, Commit(q, n)
  PROVE  CommandLogOfGame!Next
<1> DEFINE c == requests[q].command
           game == GameAt(revision)
           S == [command : Commands \cup {Created}, decided_on : Games]
           more == [i \in 1..n |-> Event(c, game)]
<1>1. /\ c \in Commands /\ ~IsDuplicate(c)
      /\ n \in Nat /\ 1 <= n /\ revision \in Nat /\ revision \in 0..revision
      /\ revision' = revision + n /\ DOMAIN game_journal' = 1..(revision + n)
      /\ \A r \in 1..revision : game_journal'[r] = game_journal[r]
      /\ \A r \in (revision + 1)..(revision + n) : game_journal'[r] = Event(c, game)
  <2>1. revision \in Nat /\ revision \in 0..revision
    BY DEF IInv, TypeOK
  <2> QED
    BY <2>1, CommitEffect
<1>2. Log \in Seq(S) /\ Len(Log) = revision /\ \A i \in 1..revision : Log[i] = game_journal[i]
  BY LogType
<1>3. CommandLogOfGame!IsNew(c)
  <2>1. ASSUME NEW i \in 2..revision
        PROVE  game_journal[i].command # c /\ Key[game_journal[i].command] # Key[c]
    <3>1. PICK row \in accepted : row.command = game_journal[i].command
      BY DEF IInv, JournalIsContiguous
    <3> QED
      BY <3>1, <1>1 DEF IsDuplicate
  <2>2. \A i \in 2..revision : i \in 1..revision
    OBVIOUS
  <2> QED
    BY <2>1, <2>2, <1>2 DEF CommandLogOfGame!IsNew
<1>4. CommandLogOfGame!GameOf(Log) = game
  BY <1>2 DEF CommandLogOfGame!GameOf, GameAt
<1>5. Log' = Log \o more
  <2> DEFINE whole == [r \in 1..(revision + n) |-> game_journal'[r]]
  <2>1. Log' = whole
    BY <1>1 DEF Log
  <2>2. Event(c, game) \in S
    BY <1>1, GameAtType DEF Event, IInv, JournalIsContiguous
  <2>3. more \in Seq(S) /\ Len(more) = n
    BY <2>2, <1>1
  <2>4. IInv'
    BY CommitKeepsInv
  <2>5. \A r \in 1..(revision + n) : game_journal'[r] \in S
    BY <2>4, <1>1 DEF IInv, TypeOK
  <2>6. whole \in Seq(S) /\ Len(whole) = Len(Log) + Len(more)
    BY <2>3, <2>5, <1>1, <1>2
  <2>7. \A i \in 1..Len(Log) : whole[i] = Log[i]
    BY <1>1, <1>2
  <2>8. \A i \in 1..Len(more) : whole[Len(Log) + i] = more[i]
    <3>1. ASSUME NEW i \in 1..n
          PROVE  /\ revision + i \in (revision + 1)..(revision + n)
                 /\ revision + i \in 1..(revision + n)
      BY <1>1
    <3> QED
      BY <3>1, <2>3, <1>1, <1>2
  <2> HIDE DEF S, whole, more
  <2> QED
    BY <2>1, <2>3, <2>6, <2>7, <2>8, <1>2, Continued
<1>6. Log' = Log \o [i \in 1..n |->
                CommandLogOfGame!Event(c, CommandLogOfGame!GameOf(Log))]
  BY <1>4, <1>5 DEF CommandLogOfGame!Event, Event
<1>7. CommandLogOfGame!Accept(c)
  BY <1>3, <1>6 DEF CommandLogOfGame!Accept
<1> QED
  BY <1>1, <1>7 DEF CommandLogOfGame!Next

\* Overlapping, repeated and failing requests amount to commands accepted one
\* at a time, each decided on the current game and none taken twice.
THEOREM ServiceImplementsLog == CommandsSpec => ImplementsCommandLog
<1>1. CommandsInit => CommandLogOfGame!Init
  BY DEF CommandsInit, CommandLogOfGame!Init, Log, Event, CommandLogOfGame!Event
<1>2. IInv /\ [CommandsNext]_commands_vars => [CommandLogOfGame!Next]_Log
  <2> SUFFICES ASSUME IInv, [CommandsNext]_commands_vars
               PROVE  CommandLogOfGame!Next \/ Log' = Log
    OBVIOUS
  <2>1. ASSUME NEW q \in Requests, NEW n \in 1..MaxEvents, Commit(q, n)
        PROVE  CommandLogOfGame!Next
    BY <2>1, CommitAccepts
  <2>2. CASE UNCHANGED rows
    BY <2>2 DEF rows, Log
  <2> QED
    BY <2>1, <2>2 DEF CommandsNext, commands_vars, Receive, ReadSnapshot, ReadTail, Check, RollBack
<1> QED
  BY <1>1, <1>2, CommandsInvariance, PTL DEF CommandsSpec, ImplementsCommandLog, CommandLogOfGame!Spec
=============================================================================
