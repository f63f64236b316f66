---------------------------- MODULE SignInProofs ----------------------------
(***************************************************************************)
(* Proofs about the module SignIn, for any number of users, identities,    *)
(* attempts and callbacks.                                                 *)
(***************************************************************************)
EXTENDS SignIn, FiniteSetTheorems, SequenceTheorems, TLAPS

Before == {"Claimed", "Login", "Migrate", "Unknown", "Found", "Account"}
Behind == {"Session", "SignedIn", "Avatar", "Completed"}

AttemptRow ==
  [status : {"PENDING", "CLAIMED", "CONSUMED"}, user : Legacy \cup {Nobody}, expired : BOOLEAN]
SessionRow ==
  [user : Users, attempt : Attempts \cup {Nobody}, subject : Subjects \cup {Nobody},
   revoked : BOOLEAN, expired : BOOLEAN, given : BOOLEAN]
Callback ==
  [step : Before \cup Behind, attempt : Attempts, subject : Subjects \cup {Nobody},
   user : Users \cup {Nobody}, read : Profile \cup {NoProfile}, session : Nat]

\* Types of the rows.
RowTypes ==
  /\ profiles \in [Users -> Profile \cup {NoProfile}]
  /\ images \in [Users -> {"None", "Google", "Custom"}]
  /\ attempts \in [Attempts -> {NotMade, Deleted} \cup AttemptRow]
  /\ identities \in [Subjects -> Users \cup {Nobody}]
  /\ passwords \subseteq Legacy /\ proved \subseteq Legacy
  /\ Legacy \subseteq accounts /\ accounts \subseteq Users
  /\ sessions \in Seq(SessionRow)
  /\ DOMAIN callbacks = Callbacks

\* An account has a password or one identity, and not both; who has no account
\* has neither.  A profile comes with the identity.
Linking ==
  \A u \in Users :
    /\ \A s, t \in Subjects : identities[s] = u /\ identities[t] = u => s = t
    /\ u \in passwords => \A s \in Subjects : identities[s] # u
    /\ u \in accounts \ passwords => \E s \in Subjects : identities[s] = u
    /\ u \notin accounts => \A s \in Subjects : identities[s] # u
    /\ HasProfile(u) <=> \E s \in Subjects : identities[s] = u

\* An attempt that was claimed.
IsSpent(a) == attempts[a].status \notin {"NOT_MADE", "PENDING"}

\* What a callback in flight knows: the identity it was given is its user's from
\* the moment it has found or made the account, and from its session on, the
\* session is the one of its attempt.
Holds(c) ==
  /\ c \in Callback
  /\ IsSpent(c.attempt)
  /\ c.step = "Claimed" => c.user \in Legacy \cup {Nobody}
  /\ c.step \in Before \ {"Claimed"} => c.subject \in Subjects
  /\ c.step = "Migrate" => c.user \in Legacy
  /\ c.step \in {"Found", "Account"} => c.user \in Users /\ identities[c.subject] = c.user
  /\ c.step \in Before =>
       c.session = 0 /\ \A n \in DOMAIN sessions : sessions[n].attempt # c.attempt
  /\ c.step \in Behind =>
       /\ c.user \in Users /\ HasProfile(c.user)
       /\ c.session \in DOMAIN sessions /\ sessions[c.session].attempt = c.attempt

CallbacksHold ==
  /\ \A k \in Callbacks : callbacks[k] # Idle => Holds(callbacks[k])
  /\ \A j, k \in Callbacks :
       callbacks[j] # Idle /\ callbacks[k] # Idle /\ callbacks[j].attempt = callbacks[k].attempt
         => j = k

\* Sessions through Google: for the user of the identity, of an attempt that was
\* claimed, and one for each.  Sessions of another kind are of no attempt.
SessionsHold ==
  \A n \in DOMAIN sessions :
    /\ sessions[n].user \in accounts
    /\ sessions[n].subject # Nobody =>
         /\ sessions[n].user = identities[sessions[n].subject]
         /\ sessions[n].attempt \in Attempts /\ IsSpent(sessions[n].attempt)
         /\ \A m \in DOMAIN sessions : sessions[m].attempt = sessions[n].attempt => m = n
    /\ sessions[n].subject = Nobody =>
         /\ sessions[n].attempt = Nobody
         /\ sessions[n].user \notin passwords => sessions[n].revoked

IInv == RowTypes /\ Linking /\ CallbacksHold /\ SessionsHold

-----------------------------------------------------------------------------
\* The absence of a profile is no profile.
LEMMA NoProfileIsNone == NoProfile \notin Profile
<1>1. DOMAIN NoProfile = {"name"} /\ "avatar_source" \notin DOMAIN NoProfile
  BY DEF NoProfile
<1>2. \A p \in Profile : "avatar_source" \in DOMAIN p
  BY DEF Profile
<1> QED
  BY <1>1, <1>2

\* The row of a session.
LEMMA SessionType ==
  ASSUME NEW u \in Users, NEW a \in Attempts \cup {Nobody}, NEW s \in Subjects \cup {Nobody}
  PROVE  /\ Session(u, a, s) \in SessionRow
         /\ Session(u, a, s).user = u /\ Session(u, a, s).attempt = a
         /\ Session(u, a, s).subject = s
<1> DEFINE given == a = Nobody
<1>1. given \in BOOLEAN
  OBVIOUS
<1>2. Session(u, a, s) =
        [user |-> u, attempt |-> a, subject |-> s, revoked |-> FALSE, expired |-> FALSE,
         given |-> given]
  BY DEF Session
<1> HIDE DEF given
<1> QED
  BY <1>1, <1>2 DEF SessionRow

\* The invariant holds at the start.
LEMMA InitIInv == Init => IInv
<1> SUFFICES ASSUME Init PROVE IInv
  OBVIOUS
<1> USE LegacyAssumption, NobodyAssumption
<1> DEFINE first == {Session(u, Nobody, Nobody) : u \in Legacy}
<1>1. PICK n \in Nat : sessions \in [1..n -> first]
  BY FS_CardinalityType DEF Init
<1>2. first \subseteq SessionRow
  BY SessionType
<1>3. sessions \in Seq(SessionRow) /\ DOMAIN sessions = 1..n
  BY <1>1, <1>2
<1>4. \A i \in DOMAIN sessions : /\ sessions[i].user \in Legacy /\ sessions[i].subject = Nobody
                                 /\ sessions[i].attempt = Nobody
  BY <1>1 DEF Session
<1>5. RowTypes
  BY <1>3 DEF Init, RowTypes
<1>6. Linking
  BY DEF Init, Linking, HasProfile
<1>7. SessionsHold
  BY <1>4 DEF Init, SessionsHold
<1>8. CallbacksHold
  BY DEF Init, CallbacksHold, HasProfile
<1> QED
  BY <1>5, <1>6, <1>7, <1>8 DEF IInv

-----------------------------------------------------------------------------
(* What every step leaves to the callbacks of other requests *)

\* The tables only move on: a link stays, a profile stays, a session stays with
\* its attempt, and an attempt that was claimed is not open again.
MovesOn ==
  /\ \A s \in Subjects : identities[s] # Nobody => identities'[s] = identities[s]
  /\ \A u \in Users : profiles[u] # NoProfile => profiles'[u] # NoProfile
  /\ \A n \in DOMAIN sessions : n \in DOMAIN sessions' /\ sessions'[n].attempt = sessions[n].attempt
  /\ \A a \in Attempts : attempts[a].status \notin {"NOT_MADE", "PENDING"} =>
                         attempts'[a].status \notin {"NOT_MADE", "PENDING"}

\* What a callback relies on outlasts every step that makes no session of its
\* attempt.
LEMMA HoldsOn ==
  ASSUME NEW c, Holds(c), MovesOn,
         \A n \in DOMAIN sessions' \ DOMAIN sessions : sessions'[n].attempt # c.attempt
  PROVE  Holds(c)'
<1>1. c \in Callback
  BY DEF Holds
<1>2. c.attempt \in Attempts /\ IsSpent(c.attempt)'
  BY <1>1 DEF Holds, MovesOn, IsSpent, Callback
<1>3. c.step \in {"Found", "Account"} => c.user \in Users /\ identities'[c.subject] = c.user
  BY NobodyAssumption DEF Holds, MovesOn, Before
<1>4. c.step \in Before =>
        c.session = 0 /\ \A n \in DOMAIN sessions' : sessions'[n].attempt # c.attempt
  BY DEF Holds, MovesOn
<1>5. c.step \in Behind =>
       /\ c.user \in Users /\ profiles'[c.user] # NoProfile
       /\ c.session \in DOMAIN sessions' /\ sessions'[c.session].attempt = c.attempt
  BY DEF Holds, MovesOn, HasProfile
<1> QED
  BY <1>1, <1>2, <1>3, <1>4, <1>5 DEF Holds, HasProfile

\* A callback k goes on to c, or starts with an attempt no other callback has.
LEMMA OneCallback ==
  ASSUME IInv, NEW k \in Callbacks, NEW c, callbacks' = [callbacks EXCEPT ![k] = c],
         MovesOn, c # Idle => Holds(c)',
         \A n \in DOMAIN sessions' \ DOMAIN sessions : sessions'[n].attempt = c.attempt,
         c # Idle \/ DOMAIN sessions' # DOMAIN sessions =>
           \A j \in Callbacks \ {k} : callbacks[j] # Idle => callbacks[j].attempt # c.attempt
  PROVE  CallbacksHold' /\ DOMAIN callbacks' = Callbacks
<1>1. /\ DOMAIN callbacks' = Callbacks /\ callbacks'[k] = c
      /\ \A j \in Callbacks : j # k => callbacks'[j] = callbacks[j]
  BY DEF IInv, RowTypes
<1>2. ASSUME NEW j \in Callbacks, j # k, callbacks[j] # Idle
      PROVE  Holds(callbacks[j])'
  <2> PICK d : d = callbacks[j]
    OBVIOUS
  <2>1. Holds(d)
    BY <1>2 DEF IInv, CallbacksHold
  <2>2. \A n \in DOMAIN sessions' \ DOMAIN sessions : sessions'[n].attempt # d.attempt
    BY <1>2
  <2>3. Holds(d)'
    BY <2>1, <2>2, HoldsOn
  <2>4. callbacks'[j] = d
    BY <1>1, <1>2
  <2> QED
    BY <2>3, <2>4 DEF Holds, IsSpent, HasProfile
<1>3. \A j \in Callbacks : callbacks'[j] # Idle => Holds(callbacks[j])'
  <2>1. callbacks'[k] # Idle => Holds(callbacks[k])'
    BY <1>1 DEF Holds, IsSpent, HasProfile
  <2> QED
    BY <1>1, <1>2, <2>1
<1>4. \A i, j \in Callbacks :
        callbacks'[i] # Idle /\ callbacks'[j] # Idle
          /\ callbacks'[i].attempt = callbacks'[j].attempt => i = j
  BY <1>1 DEF IInv, CallbacksHold
<1> QED
  BY <1>1, <1>3, <1>4 DEF CallbacksHold

\* Callbacks that a step leaves alone keep what they rely on.
LEMMA CallbacksKept ==
  ASSUME IInv, MovesOn, UNCHANGED callbacks, DOMAIN sessions' = DOMAIN sessions
  PROVE  CallbacksHold' /\ DOMAIN callbacks' = Callbacks
<1>1. ASSUME NEW k \in Callbacks, callbacks[k] # Idle
      PROVE  Holds(callbacks[k])'
  <2> PICK c : c = callbacks[k]
    OBVIOUS
  <2>1. Holds(c)'
    BY <1>1, HoldsOn DEF IInv, CallbacksHold
  <2>2. callbacks'[k] = c
    OBVIOUS
  <2> QED
    BY <2>1, <2>2 DEF Holds, IsSpent, HasProfile
<1> QED
  BY <1>1 DEF IInv, RowTypes, CallbacksHold

-----------------------------------------------------------------------------
(* Steps of a callback that touch nothing else *)

Tables == <<profiles, images, attempts, identities, passwords, accounts, sessions>>

\* A step that leaves the tables alone keeps the invariant.
LEMMA TablesKept ==
  ASSUME IInv, UNCHANGED Tables, proved' \subseteq Legacy, CallbacksHold',
         DOMAIN callbacks' = Callbacks
  PROVE  IInv'
<1>1. UNCHANGED <<profiles, images, attempts, identities, passwords, accounts, sessions>>
  BY DEF Tables
<1>2. RowTypes'
  BY <1>1 DEF IInv, RowTypes
<1>3. Linking'
  BY <1>1 DEF IInv, Linking, HasProfile
<1>4. SessionsHold'
  BY <1>1 DEF IInv, SessionsHold, IsSpent
<1> QED
  BY <1>2, <1>3, <1>4 DEF IInv

\* So does one that moves a single callback on.
LEMMA CallbackOnly ==
  ASSUME IInv, NEW k \in Callbacks, NEW c, callbacks[k] # Idle, UNCHANGED <<Tables, proved>>,
         callbacks' = [callbacks EXCEPT ![k] = c],
         c # Idle => c.attempt = callbacks[k].attempt /\ Holds(c)
  PROVE  IInv'
<1>1. UNCHANGED <<profiles, images, attempts, identities, passwords, accounts, sessions>>
  BY DEF Tables
<1>2. MovesOn
  BY <1>1 DEF MovesOn
<1>3. c # Idle => Holds(c)'
  BY <1>1 DEF Holds, IsSpent, HasProfile
<1>4. c # Idle =>
        \A j \in Callbacks \ {k} : callbacks[j] # Idle => callbacks[j].attempt # c.attempt
  BY DEF IInv, CallbacksHold
<1>5. CallbacksHold' /\ DOMAIN callbacks' = Callbacks
  BY <1>1, <1>2, <1>3, <1>4, OneCallback
<1> QED
  BY <1>5, TablesKept DEF IInv, RowTypes

\* What is known of a callback that is at a step.
LEMMA AtStep ==
  ASSUME IInv, NEW k \in Callbacks, NEW step, Goes(k, step)
  PROVE  /\ callbacks[k] # Idle /\ callbacks[k].step = step
         /\ callbacks[k] \in Callback /\ Holds(callbacks[k])
BY DEF Goes, IInv, CallbacksHold, Holds

\* Exchange keeps the invariant.
LEMMA ExchangeKeepsInv ==
  ASSUME IInv, NEW k \in Callbacks, NEW s \in Subjects, Exchange(k, s)
  PROVE  IInv'
<1> PICK b : b = callbacks[k]
  OBVIOUS
<1> DEFINE to == IF b.user = Nobody THEN "Login" ELSE "Migrate"
           c == [b EXCEPT !.subject = s, !.step = to]
<1>1. b # Idle /\ b.step = "Claimed" /\ b \in Callback /\ Holds(b)
  BY AtStep DEF Exchange
<1>2. callbacks' = [callbacks EXCEPT ![k] = c] /\ UNCHANGED <<Tables, proved>>
  BY <1>1 DEF Exchange, IInv, RowTypes, Tables, profile_vars
<1>3. /\ c \in Callback /\ c.attempt = b.attempt /\ c.subject = s /\ c.user = b.user
      /\ c.session = b.session /\ c.step \in {"Login", "Migrate"}
      /\ c.step = "Migrate" => b.user # Nobody
  BY <1>1 DEF Callback, Before
<1> HIDE DEF c
<1>4. Holds(c)
  BY <1>1, <1>3 DEF Holds, Before, Behind
<1> QED
  BY <1>1, <1>2, <1>3, <1>4, CallbackOnly

\* FindAccount keeps the invariant.
LEMMA FindAccountKeepsInv ==
  ASSUME IInv, NEW k \in Callbacks, FindAccount(k)
  PROVE  IInv'
<1> PICK b : b = callbacks[k]
  OBVIOUS
<1>1. b # Idle /\ b.step = "Login" /\ b \in Callback /\ Holds(b)
  BY AtStep DEF FindAccount
<1>2. b.subject \in Subjects /\ identities[b.subject] \in Users \cup {Nobody}
  BY <1>1 DEF Holds, Before, IInv, RowTypes
<1>3. UNCHANGED <<Tables, proved>>
  BY DEF FindAccount, Tables, profile_vars
<1>4. CASE identities[b.subject] = Nobody
  <2> DEFINE c == [b EXCEPT !.step = "Unknown"]
  <2>1. callbacks' = [callbacks EXCEPT ![k] = c]
    BY <1>4 DEF FindAccount, IInv, RowTypes
  <2>2. /\ c \in Callback /\ c.attempt = b.attempt /\ c.subject = b.subject /\ c.step = "Unknown"
        /\ c.session = b.session
    BY <1>1 DEF Callback, Before
  <2> HIDE DEF c
  <2>3. Holds(c)
    BY <1>1, <2>2 DEF Holds, Before, Behind
  <2> QED
    BY <1>1, <1>3, <2>1, <2>2, <2>3, CallbackOnly
<1>5. CASE identities[b.subject] # Nobody
  <2> PICK u \in Users : u = identities[b.subject]
    BY <1>2, <1>5
  <2> DEFINE c == [b EXCEPT !.step = "Found", !.user = u, !.read = profiles[u]]
  <2>1. callbacks' = [callbacks EXCEPT ![k] = c]
    BY <1>5 DEF FindAccount, IInv, RowTypes
  <2>2. profiles[u] \in Profile \cup {NoProfile}
    BY DEF IInv, RowTypes
  <2>3. /\ c \in Callback /\ c.attempt = b.attempt /\ c.subject = b.subject /\ c.step = "Found"
        /\ c.session = b.session /\ c.user = u
    BY <1>1, <2>2 DEF Callback, Before
  <2> HIDE DEF c
  <2>4. Holds(c)
    BY <1>1, <2>3 DEF Holds, Before, Behind
  <2> QED
    BY <1>1, <1>3, <2>1, <2>3, <2>4, CallbackOnly
<1> QED
  BY <1>4, <1>5

\* AdoptWinner keeps the invariant.
LEMMA AdoptWinnerKeepsInv ==
  ASSUME IInv, NEW k \in Callbacks, AdoptWinner(k)
  PROVE  IInv'
<1> PICK b : b = callbacks[k]
  OBVIOUS
<1>1. b # Idle /\ b.step = "Unknown" /\ b \in Callback /\ Holds(b)
  BY AtStep DEF AdoptWinner
<1>2. b.subject \in Subjects /\ identities[b.subject] \in Users
  BY <1>1 DEF Holds, Before, IInv, RowTypes, AdoptWinner
<1> DEFINE c == [b EXCEPT !.step = "Account", !.user = identities[b.subject]]
<1>3. callbacks' = [callbacks EXCEPT ![k] = c] /\ UNCHANGED <<Tables, proved>>
  BY <1>1 DEF AdoptWinner, IInv, RowTypes, Tables, profile_vars
<1>4. /\ c \in Callback /\ c.attempt = b.attempt /\ c.subject = b.subject /\ c.step = "Account"
      /\ c.session = b.session /\ c.user = identities[b.subject]
  BY <1>1, <1>2 DEF Callback, Before
<1>5. Holds(c)
  <2> HIDE DEF c
  <2> QED
    BY <1>1, <1>2, <1>4 DEF Holds, Before, Behind
<1>6. PICK d : d = c
  OBVIOUS
<1> QED
  BY <1>1, <1>3, <1>4, <1>5, <1>6, CallbackOnly

\* Steps behind the session.
LEMMA BehindKeepsInv ==
  ASSUME IInv, NEW k \in Callbacks, NEW from \in Behind, NEW to \in Behind,
         Goes(k, from), To(k, to), UNCHANGED <<Tables, proved>>
  PROVE  IInv'
<1> PICK b : b = callbacks[k]
  OBVIOUS
<1> DEFINE c == [b EXCEPT !.step = to]
<1>1. b # Idle /\ b.step = from /\ b \in Callback /\ Holds(b)
  BY AtStep
<1>2. callbacks' = [callbacks EXCEPT ![k] = c]
  BY <1>1 DEF To, IInv, RowTypes
<1>3. /\ c \in Callback /\ c.attempt = b.attempt /\ c.step = to
      /\ c.session = b.session /\ c.user = b.user
  BY <1>1 DEF Callback
<1> HIDE DEF c
<1>4. Holds(c)
  BY <1>1, <1>3 DEF Holds, Before, Behind
<1> QED
  BY <1>1, <1>2, <1>3, <1>4, CallbackOnly

-----------------------------------------------------------------------------
(* Steps on the attempts *)

\* Attempts change, and none that was claimed is open again.
LEMMA AttemptsMove ==
  ASSUME IInv, attempts' \in [Attempts -> {NotMade, Deleted} \cup AttemptRow],
         \A a \in Attempts : IsSpent(a) => IsSpent(a)',
         UNCHANGED <<profiles, images, identities, passwords, accounts, sessions>>,
         proved' \subseteq Legacy, CallbacksHold', DOMAIN callbacks' = Callbacks
  PROVE  IInv'
<1>1. RowTypes'
  BY DEF IInv, RowTypes
<1>2. Linking'
  BY DEF IInv, Linking, HasProfile
<1>3. \A n \in DOMAIN sessions :
        sessions[n].attempt \in Attempts /\ IsSpent(sessions[n].attempt)
          => attempts'[sessions[n].attempt].status \notin {"NOT_MADE", "PENDING"}
  BY DEF IsSpent
<1>4. SessionsHold'
  BY <1>3 DEF IInv, SessionsHold, IsSpent
<1> QED
  BY <1>1, <1>2, <1>4 DEF IInv

\* So does one that changes attempts and leaves the spent ones spent.
LEMMA AttemptsOnly ==
  ASSUME IInv, attempts' \in [Attempts -> {NotMade, Deleted} \cup AttemptRow],
         \A a \in Attempts : IsSpent(a) => IsSpent(a)',
         UNCHANGED <<profiles, images, identities, passwords, accounts, sessions, callbacks>>,
         proved' \subseteq Legacy
  PROVE  IInv'
<1>1. MovesOn
  BY DEF MovesOn, IsSpent
<1> QED
  BY <1>1, CallbacksKept, AttemptsMove

\* Attempt keeps the invariant.
LEMMA AttemptKeepsInv ==
  ASSUME IInv, NEW a \in Attempts,
         StartLogin(a) \/ Expire(a) \/ \E u \in Legacy : StartMigration(a, u)
  PROVE  IInv'
<1> USE DEF profile_vars
<1>1. \A b \in Attempts : attempts[b] \in {NotMade, Deleted} \cup AttemptRow
  BY DEF IInv, RowTypes
<1>2. /\ NewAttempt(a, Nobody) \in AttemptRow
      /\ \A u \in Legacy : NewAttempt(a, u) \in AttemptRow
  BY DEF NewAttempt, AttemptRow
<1>3. /\ NotMade.status = "NOT_MADE" /\ Deleted.status = "DELETED"
      /\ \A r \in AttemptRow : r.status \in {"PENDING", "CLAIMED", "CONSUMED"}
  BY DEF NotMade, Deleted, AttemptRow
<1>4. CASE StartLogin(a)
  <2> PICK removed \in SUBSET Removable :
        attempts' = [b \in Attempts |-> IF b = a THEN NewAttempt(a, Nobody)
                                        ELSE IF b \in removed THEN Deleted ELSE attempts[b]]
    BY <1>4 DEF StartLogin
  <2>1. attempts' \in [Attempts -> {NotMade, Deleted} \cup AttemptRow]
    BY <1>1, <1>2
  <2>2. \A b \in Attempts : IsSpent(b) => IsSpent(b)'
    BY <1>3, <1>4 DEF StartLogin, IsSpent
  <2> QED
    BY <1>4, <2>1, <2>2, AttemptsOnly DEF StartLogin, IInv, RowTypes
<1>5. ASSUME NEW u \in Legacy, StartMigration(a, u)
      PROVE  IInv'
  <2>1. attempts' = [attempts EXCEPT ![a] = NewAttempt(a, u)] /\ attempts[a] = NotMade
    BY <1>5 DEF StartMigration
  <2>2. attempts' \in [Attempts -> {NotMade, Deleted} \cup AttemptRow]
    BY <1>1, <1>2, <2>1 DEF IInv, RowTypes
  <2>3. \A b \in Attempts : IsSpent(b) => IsSpent(b)'
    BY <1>3, <2>1 DEF IsSpent, IInv, RowTypes
  <2> QED
    BY <1>5, <2>2, <2>3, AttemptsOnly DEF StartMigration, IInv, RowTypes
<1>6. CASE Expire(a)
  <2>1. attempts[a] \in AttemptRow
    BY <1>1, <1>6 DEF Expire, Exists
  <2>2. attempts' = [attempts EXCEPT ![a] = [@ EXCEPT !.expired = TRUE]]
    BY <1>6 DEF Expire
  <2> DEFINE r == [attempts[a] EXCEPT !.expired = TRUE]
  <2>3. r \in AttemptRow /\ r.status = attempts[a].status
    BY <2>1 DEF AttemptRow
  <2> HIDE DEF r
  <2>4. attempts' = [attempts EXCEPT ![a] = r]
    BY <2>2 DEF r
  <2>5. attempts' \in [Attempts -> {NotMade, Deleted} \cup AttemptRow]
    BY <2>3, <2>4 DEF IInv, RowTypes
  <2>6. \A b \in Attempts : IsSpent(b) => IsSpent(b)'
    BY <2>3, <2>4 DEF IsSpent, IInv, RowTypes
  <2> QED
    BY <1>6, <2>5, <2>6, AttemptsOnly DEF Expire, IInv, RowTypes
<1> QED
  BY <1>4, <1>5, <1>6

\* The status of an attempt moves from open to claimed, or from claimed to consumed.
LEMMA StatusMoves ==
  ASSUME IInv, NEW a \in Attempts, NEW status \in {"CLAIMED", "CONSUMED"}, Exists(a),
         attempts' = [attempts EXCEPT ![a].status = status]
  PROVE  /\ attempts' \in [Attempts -> {NotMade, Deleted} \cup AttemptRow]
         /\ \A b \in Attempts : IsSpent(b) => IsSpent(b)'
         /\ attempts'[a].status = status
         /\ attempts[a] \in AttemptRow
<1> DEFINE r == [attempts[a] EXCEPT !.status = status]
<1>1. attempts[a] \in AttemptRow
  BY DEF IInv, RowTypes, Exists
<1>2. r \in AttemptRow /\ r.status = status
  BY <1>1 DEF AttemptRow
<1>3. attempts' = [attempts EXCEPT ![a] = r]
  OBVIOUS
<1> HIDE DEF r
<1> QED
  BY <1>1, <1>2, <1>3 DEF IInv, RowTypes, IsSpent

\* Claim keeps the invariant.
LEMMA ClaimKeepsInv ==
  ASSUME IInv, NEW k \in Callbacks, NEW a \in Attempts, Claim(k, a)
  PROVE  IInv'
<1> PICK u : u = attempts[a].user
  OBVIOUS
<1> DEFINE c == [step |-> "Claimed", attempt |-> a, subject |-> Nobody, user |-> u,
                 read |-> NoProfile, session |-> 0]
<1>1. /\ callbacks[k] = Idle /\ Exists(a) /\ attempts[a].status = "PENDING"
      /\ attempts' = [attempts EXCEPT ![a].status = "CLAIMED"]
      /\ callbacks' = [callbacks EXCEPT ![k] = c]
      /\ UNCHANGED <<profiles, images, identities, passwords, accounts, sessions, proved>>
  BY DEF Claim, IsClaimable, profile_vars
<1>2. /\ attempts' \in [Attempts -> {NotMade, Deleted} \cup AttemptRow]
      /\ \A b \in Attempts : IsSpent(b) => IsSpent(b)'
      /\ attempts'[a].status = "CLAIMED" /\ u \in Legacy \cup {Nobody}
  BY <1>1, StatusMoves DEF AttemptRow
<1>3. /\ c \in Callback /\ c.step = "Claimed" /\ c.attempt = a /\ c.user = u /\ c.session = 0
  BY <1>2, LegacyAssumption DEF Callback, Before
<1> HIDE DEF c
<1>4. \A n \in DOMAIN sessions : sessions[n].attempt # a
  <2>1. ASSUME NEW n \in DOMAIN sessions, sessions[n].attempt = a
        PROVE  FALSE
    <3>1. sessions[n].subject # Nobody
      BY <2>1, NobodyAssumption DEF IInv, SessionsHold
    <3> QED
      BY <2>1, <3>1, <1>1 DEF IInv, SessionsHold, IsSpent
  <2> QED
    BY <2>1
<1>5. Holds(c)'
  BY <1>1, <1>2, <1>3, <1>4 DEF Holds, Before, Behind, IsSpent
<1>6. \A j \in Callbacks \ {k} : callbacks[j] # Idle => callbacks[j].attempt # a
  BY <1>1 DEF IInv, CallbacksHold, Holds, IsSpent
<1>7. MovesOn
  BY <1>1, <1>2 DEF MovesOn, IsSpent
<1>8. CallbacksHold' /\ DOMAIN callbacks' = Callbacks
  BY <1>1, <1>3, <1>5, <1>6, <1>7, OneCallback
<1> QED
  BY <1>1, <1>2, <1>8, AttemptsMove DEF IInv, RowTypes

-----------------------------------------------------------------------------
(* Steps on the profiles *)

\* Profiles change where there are profiles, and stay profiles.
LEMMA ProfilesMove ==
  ASSUME IInv, profiles' \in [Users -> Profile \cup {NoProfile}],
         images' \in [Users -> {"None", "Google", "Custom"}],
         \A u \in Users : HasProfile(u) <=> HasProfile(u)',
         UNCHANGED <<attempts, identities, passwords, accounts, sessions, proved>>,
         CallbacksHold', DOMAIN callbacks' = Callbacks
  PROVE  IInv'
<1>1. RowTypes'
  BY DEF IInv, RowTypes
<1>2. Linking'
  BY DEF IInv, Linking
<1>3. SessionsHold'
  BY DEF IInv, SessionsHold, IsSpent
<1> QED
  BY <1>1, <1>2, <1>3 DEF IInv

\* A change of profiles loses none.
LEMMA ProfilesMoveOn ==
  ASSUME IInv, \A u \in Users : HasProfile(u) <=> HasProfile(u)',
         UNCHANGED <<attempts, identities, sessions>>
  PROVE  MovesOn
BY DEF MovesOn, HasProfile

\* One field of one profile.
LEMMA ProfileEdit ==
  ASSUME IInv, NEW u \in Users, HasProfile(u), NEW p \in Profile,
         profiles' = [profiles EXCEPT ![u] = p]
  PROVE  /\ profiles' \in [Users -> Profile \cup {NoProfile}]
         /\ \A v \in Users : HasProfile(v) <=> HasProfile(v)'
<1>1. /\ profiles'[u] = p /\ p # NoProfile
      /\ \A v \in Users : v # u => profiles'[v] = profiles[v]
  BY NoProfileIsNone DEF IInv, RowTypes
<1>2. \A v \in Users : HasProfile(v) <=> HasProfile(v)'
  BY <1>1 DEF HasProfile
<1> QED
  BY <1>2 DEF IInv, RowTypes

\* ChangeSettings keeps the invariant.
LEMMA SettingsKeepInv ==
  ASSUME IInv, NEW u \in Users, ChangeSettings(u)
  PROVE  IInv'
<1>1. /\ Settings(u) /\ HasProfile(u)
      /\ UNCHANGED <<attempts, identities, passwords, accounts, sessions, callbacks, proved>>
  BY DEF ChangeSettings, Settings, SetCustomName, UseGoogleName, SetCustomAvatar,
         UseGoogleAvatar, RemoveCustomAvatar
<1>2. profiles[u] \in Profile /\ images \in [Users -> {"None", "Google", "Custom"}]
  BY <1>1 DEF HasProfile, IInv, RowTypes
<1> DEFINE Good == /\ profiles' \in [Users -> Profile \cup {NoProfile}]
                   /\ images' \in [Users -> {"None", "Google", "Custom"}]
                   /\ \A v \in Users : HasProfile(v) <=> HasProfile(v)'
<1>4. ASSUME SetCustomName(u) PROVE Good
  <2> DEFINE p == [profiles[u] EXCEPT !.name = "Custom", !.name_source = "CUSTOM"]
  <2>1. p \in Profile
    BY <1>2 DEF Profile
  <2>2. profiles' = [profiles EXCEPT ![u] = p] /\ UNCHANGED images
    BY <1>4 DEF SetCustomName, IInv, RowTypes
  <2> HIDE DEF p
  <2> QED
    BY <1>1, <1>2, <2>1, <2>2, ProfileEdit
<1>5. ASSUME UseGoogleName(u) PROVE Good
  <2> DEFINE p == [profiles[u] EXCEPT !.name_source = "GOOGLE"]
  <2>1. p \in Profile
    BY <1>2 DEF Profile
  <2>2. profiles' = [profiles EXCEPT ![u] = p] /\ UNCHANGED images
    BY <1>5 DEF UseGoogleName, IInv, RowTypes
  <2> HIDE DEF p
  <2> QED
    BY <1>1, <1>2, <2>1, <2>2, ProfileEdit
<1>6. ASSUME SetCustomAvatar(u) PROVE Good
  <2> DEFINE p == [profiles[u] EXCEPT !.avatar_source = "CUSTOM"]
  <2>1. p \in Profile
    BY <1>2 DEF Profile
  <2>2. profiles' = [profiles EXCEPT ![u] = p] /\ images' = [images EXCEPT ![u] = "Custom"]
    BY <1>6 DEF SetCustomAvatar, StoreImage, IInv, RowTypes
  <2> HIDE DEF p
  <2> QED
    BY <1>1, <1>2, <2>1, <2>2, ProfileEdit
<1>7. ASSUME UseGoogleAvatar(u) PROVE Good
  <2> DEFINE p == [profiles[u] EXCEPT !.avatar_source = "GOOGLE"]
  <2>1. p \in Profile
    BY <1>2 DEF Profile
  <2>2. profiles' = [profiles EXCEPT ![u] = p] /\ UNCHANGED images
    BY <1>7 DEF UseGoogleAvatar, IInv, RowTypes
  <2> HIDE DEF p
  <2> QED
    BY <1>1, <1>2, <2>1, <2>2, ProfileEdit
<1>8. ASSUME RemoveCustomAvatar(u) PROVE Good
  <2> DEFINE p == [profiles[u] EXCEPT !.avatar_source = "CUSTOM_NONE"]
  <2>1. p \in Profile
    BY <1>2 DEF Profile
  <2>2. profiles' = [profiles EXCEPT ![u] = p] /\ images' = [images EXCEPT ![u] = "None"]
    BY <1>8 DEF RemoveCustomAvatar, WithoutImage, IInv, RowTypes
  <2> HIDE DEF p
  <2> QED
    BY <1>1, <1>2, <2>1, <2>2, ProfileEdit
<1>9. Good
  BY <1>1, <1>4, <1>5, <1>6, <1>7, <1>8 DEF Settings
<1>10. MovesOn
  BY <1>1, <1>9, ProfilesMoveOn
<1>11. CallbacksHold' /\ DOMAIN callbacks' = Callbacks
  BY <1>1, <1>10, CallbacksKept
<1> QED
  BY <1>1, <1>9, <1>11, ProfilesMove

\* A callback k edits a profile of a user who has one, and goes on to c.
LEMMA EditKeepsInv ==
  ASSUME IInv, NEW k \in Callbacks, NEW c \in Callback, callbacks[k] # Idle,
         Holds(c), c.attempt = callbacks[k].attempt,
         callbacks' = [callbacks EXCEPT ![k] = c],
         UNCHANGED <<attempts, identities, passwords, accounts, sessions, proved>>,
         profiles' \in [Users -> Profile \cup {NoProfile}],
         images' \in [Users -> {"None", "Google", "Custom"}],
         \A u \in Users : HasProfile(u) <=> HasProfile(u)'
  PROVE  IInv'
<1>1. MovesOn
  BY ProfilesMoveOn
<1>2. Holds(c)'
  BY <1>1, HoldsOn
<1>3. \A j \in Callbacks \ {k} : callbacks[j] # Idle => callbacks[j].attempt # c.attempt
  BY DEF IInv, CallbacksHold
<1>4. CallbacksHold' /\ DOMAIN callbacks' = Callbacks
  <2>1. \A n \in DOMAIN sessions' \ DOMAIN sessions : sessions'[n].attempt = c.attempt
    OBVIOUS
  <2> QED
    BY <1>1, <1>2, <1>3, <2>1, OneCallback
<1> QED
  BY <1>4, ProfilesMove

\* Synchronize keeps the invariant.
LEMMA SynchronizeKeepsInv ==
  ASSUME IInv, NEW k \in Callbacks, SynchronizeProfile(k)
  PROVE  IInv'
<1> PICK b : b = callbacks[k]
  OBVIOUS
<1> DEFINE c == [b EXCEPT !.step = "Account", !.read = NoProfile]
<1>1. b # Idle /\ b.step = "Found" /\ b \in Callback /\ Holds(b)
  BY AtStep DEF SynchronizeProfile
<1>2. /\ callbacks' = [callbacks EXCEPT ![k] = c] /\ Synchronize(b.user, b.read)
      /\ UNCHANGED <<attempts, identities, passwords, accounts, sessions, proved>>
  BY <1>1 DEF SynchronizeProfile, IInv, RowTypes
<1>3. /\ c \in Callback /\ c.attempt = b.attempt /\ c.subject = b.subject /\ c.step = "Account"
      /\ c.session = b.session /\ c.user = b.user
  BY <1>1 DEF Callback, Before
<1> HIDE DEF c
<1>4. Holds(c)
  BY <1>1, <1>3 DEF Holds, Before, Behind
<1> PICK u : u = b.user
  OBVIOUS
<1>5. u \in Users /\ HasProfile(u)
  BY <1>1 DEF Holds, Before, IInv, Linking
<1>6. /\ profiles[u] \in Profile /\ images \in [Users -> {"None", "Google", "Custom"}]
  BY <1>5 DEF HasProfile, IInv, RowTypes
<1>7. /\ profiles' \in [Users -> Profile \cup {NoProfile}]
      /\ images' \in [Users -> {"None", "Google", "Custom"}]
      /\ \A v \in Users : HasProfile(v) <=> HasProfile(v)'
  <2>1. CASE b.read.name_source = "GOOGLE"
    <3> DEFINE p == [profiles[u] EXCEPT !.name = "Google"]
    <3>1. p \in Profile
      BY <1>6 DEF Profile
    <3>2. profiles' = [profiles EXCEPT ![u] = p] /\ UNCHANGED images
      BY <1>2, <2>1 DEF Synchronize
    <3> HIDE DEF p
    <3> QED
      BY <1>5, <1>6, <3>1, <3>2, ProfileEdit
  <2>2. CASE b.read.name_source # "GOOGLE"
    <3>1. UNCHANGED <<profiles, images>>
      BY <1>2, <2>2 DEF Synchronize
    <3> QED
      BY <3>1 DEF IInv, RowTypes, HasProfile
  <2> QED
    BY <2>1, <2>2
<1> QED
  BY <1>1, <1>2, <1>3, <1>4, <1>7, EditKeepsInv

\* StoreAvatar keeps the invariant.
LEMMA StoreAvatarKeepsInv ==
  ASSUME IInv, NEW k \in Callbacks, StoreAvatar(k)
  PROVE  IInv'
<1> PICK b : b = callbacks[k]
  OBVIOUS
<1> DEFINE c == [b EXCEPT !.step = "Completed"]
<1>1. b # Idle /\ b.step = "Avatar" /\ b \in Callback /\ Holds(b)
  BY AtStep DEF StoreAvatar
<1>2. /\ callbacks' = [callbacks EXCEPT ![k] = c] /\ StoreImage(b.user, "GOOGLE")
      /\ UNCHANGED <<attempts, identities, passwords, accounts, sessions, proved>>
  BY <1>1 DEF StoreAvatar, To, SetGoogleAvatar, IInv, RowTypes
<1>3. /\ c \in Callback /\ c.attempt = b.attempt /\ c.step = "Completed"
      /\ c.session = b.session /\ c.user = b.user
  BY <1>1 DEF Callback, Behind
<1> HIDE DEF c
<1>4. Holds(c)
  BY <1>1, <1>3 DEF Holds, Before, Behind
<1> PICK u : u = b.user
  OBVIOUS
<1>5. u \in Users /\ HasProfile(u)
  BY <1>1 DEF Holds, Behind
<1>6. profiles[u] \in Profile /\ images \in [Users -> {"None", "Google", "Custom"}]
  BY <1>5 DEF HasProfile, IInv, RowTypes
<1> DEFINE p == [profiles[u] EXCEPT !.avatar_source = "GOOGLE"]
<1>7. p \in Profile
  BY <1>6 DEF Profile
<1>8. profiles' = [profiles EXCEPT ![u] = p] /\ images' = [images EXCEPT ![u] = "Google"]
  BY <1>2 DEF StoreImage
<1> HIDE DEF p
<1>9. /\ images' \in [Users -> {"None", "Google", "Custom"}]
      /\ \A v \in Users : v # u => images'[v] = images[v]
  BY <1>6, <1>8
<1>10. /\ profiles' \in [Users -> Profile \cup {NoProfile}]
       /\ \A v \in Users : HasProfile(v) <=> HasProfile(v)'
  BY <1>5, <1>7, <1>8, <1>9, ProfileEdit
<1> QED
  BY <1>1, <1>2, <1>3, <1>4, <1>9, <1>10, EditKeepsInv

-----------------------------------------------------------------------------
(* Steps that make accounts and sessions *)

\* A row more at the end of the sessions.
LEMMA Appended ==
  ASSUME NEW kept \in Seq(SessionRow), NEW r \in SessionRow
  PROVE  /\ Append(kept, r) \in Seq(SessionRow)
         /\ DOMAIN Append(kept, r) = DOMAIN kept \cup {Len(kept) + 1}
         /\ Len(kept) + 1 \notin DOMAIN kept
         /\ \A n \in DOMAIN kept : Append(kept, r)[n] = kept[n]
         /\ Append(kept, r)[Len(kept) + 1] = r
OBVIOUS

\* The callback k opens the session of its attempt for the user u and goes on
\* from b to c, the sessions before it being `kept` but for those it revokes.
Opens(k, b, c, u, kept) ==
  /\ b = callbacks[k] /\ b # Idle /\ b \in Callback /\ Holds(b)
  /\ b.step \in Before /\ b.subject \in Subjects
  /\ u \in accounts /\ u \in Users /\ profiles'[u] # NoProfile /\ identities'[b.subject] = u
  /\ kept \in Seq(SessionRow) /\ DOMAIN kept = DOMAIN sessions /\ Len(kept) = Len(sessions)
  /\ \A n \in DOMAIN sessions :
       /\ kept[n].user = sessions[n].user /\ kept[n].attempt = sessions[n].attempt
       /\ kept[n].subject = sessions[n].subject
       /\ kept[n].subject = Nobody /\ kept[n].user \notin passwords' => kept[n].revoked
  /\ sessions' = Append(kept, Session(u, b.attempt, b.subject))
  /\ c \in Callback /\ callbacks' = [callbacks EXCEPT ![k] = c]
  /\ c.step = "Session" /\ c.attempt = b.attempt /\ c.user = u /\ c.session = Len(sessions) + 1
  /\ UNCHANGED <<attempts, accounts>>
  /\ \A s \in Subjects : identities[s] # Nobody => identities'[s] = identities[s]
  /\ \A v \in Users : profiles[v] # NoProfile => profiles'[v] # NoProfile

\* A new session keeps what is known of the others.
LEMMA SessionOpens ==
  ASSUME IInv, NEW k \in Callbacks, NEW b, NEW c, NEW u, NEW kept, Opens(k, b, c, u, kept)
  PROVE  /\ sessions' \in Seq(SessionRow) /\ SessionsHold'
         /\ CallbacksHold' /\ DOMAIN callbacks' = Callbacks
<1> USE DEF Opens
<1> DEFINE r == Session(u, b.attempt, b.subject)
           new == Len(kept) + 1
<1>1. /\ b.attempt \in Attempts /\ b.attempt # Nobody /\ b.subject # Nobody /\ IsSpent(b.attempt)
      /\ \A n \in DOMAIN sessions : sessions[n].attempt # b.attempt
  BY NobodyAssumption DEF Callback, Holds
<1>2. r \in SessionRow /\ r.user = u /\ r.attempt = b.attempt /\ r.subject = b.subject
  BY <1>1, SessionType
<1>3. sessions' = Append(kept, r)
  OBVIOUS
<1> HIDE DEF r
<1>4. /\ sessions' \in Seq(SessionRow)
      /\ DOMAIN sessions' = DOMAIN sessions \cup {new} /\ new \notin DOMAIN sessions
      /\ \A n \in DOMAIN sessions : sessions'[n] = kept[n]
      /\ sessions'[new] = r
  BY <1>2, <1>3, Appended
<1>5. \A n \in DOMAIN sessions :
        /\ sessions'[n].user = sessions[n].user /\ sessions'[n].attempt = sessions[n].attempt
        /\ sessions'[n].subject = sessions[n].subject
        /\ sessions'[n].subject = Nobody /\ sessions'[n].user \notin passwords'
             => sessions'[n].revoked
  BY <1>4
<1> HIDE DEF new
<1>6. MovesOn
  BY <1>4, <1>5 DEF MovesOn
<1>7. Holds(c)'
  <2>1. new = c.session
    BY DEF new
  <2>2. /\ c \in Callback /\ c.step = "Session" /\ c.attempt = b.attempt /\ c.user = u
        /\ UNCHANGED attempts /\ u \in Users /\ profiles'[u] # NoProfile
    OBVIOUS
  <2>3. c.step \in Behind /\ c.step \notin Before /\ c.step \notin {"Claimed", "Migrate", "Found", "Account"}
    BY <2>2 DEF Before, Behind
  <2> HIDE DEF Opens
  <2> QED
    BY <1>1, <1>2, <1>4, <2>1, <2>2, <2>3 DEF Holds, IsSpent, HasProfile
<1>8. \A j \in Callbacks \ {k} : callbacks[j] # Idle => callbacks[j].attempt # c.attempt
  BY DEF IInv, CallbacksHold
<1>9. \A n \in DOMAIN sessions' \ DOMAIN sessions : sessions'[n].attempt = c.attempt
  BY <1>2, <1>4
<1>10. CallbacksHold' /\ DOMAIN callbacks' = Callbacks
  BY <1>6, <1>7, <1>8, <1>9, OneCallback
<1>11. \A n \in DOMAIN sessions' :
         sessions'[n].subject # Nobody =>
           \A m \in DOMAIN sessions' : sessions'[m].attempt = sessions'[n].attempt => m = n
  BY <1>1, <1>2, <1>4, <1>5 DEF IInv, SessionsHold
<1>12. SessionsHold'
  <2> SUFFICES ASSUME NEW n \in DOMAIN sessions'
               PROVE  /\ sessions'[n].user \in accounts
                      /\ sessions'[n].subject # Nobody =>
                           /\ sessions'[n].user = identities'[sessions'[n].subject]
                           /\ sessions'[n].attempt \in Attempts /\ IsSpent(sessions'[n].attempt)
                      /\ sessions'[n].subject = Nobody =>
                           /\ sessions'[n].attempt = Nobody
                           /\ sessions'[n].user \notin passwords' => sessions'[n].revoked
    BY <1>11 DEF SessionsHold, IsSpent
  <2>1. CASE n = new
    BY <1>1, <1>2, <1>4, <2>1
  <2>2. CASE n \in DOMAIN sessions
    <3>1. sessions[n] \in SessionRow
      BY <2>2 DEF IInv, RowTypes
    <3>2. sessions[n].user \in Users
      BY <3>1 DEF SessionRow
    <3>3. sessions[n].subject # Nobody =>
            identities'[sessions[n].subject] = identities[sessions[n].subject]
      BY <2>2, <3>1, <3>2, NobodyAssumption DEF IInv, SessionsHold, SessionRow
    <3> QED
      BY <1>5, <2>2, <3>3 DEF IInv, SessionsHold
  <2> QED
    BY <1>4, <2>1, <2>2
<1> QED
  BY <1>4, <1>10, <1>12

\* CreateSession keeps the invariant.
LEMMA CreateSessionKeepsInv ==
  ASSUME IInv, NEW k \in Callbacks, CreateSession(k)
  PROVE  IInv'
<1> PICK b : b = callbacks[k]
  OBVIOUS
<1> DEFINE c == [b EXCEPT !.step = "Session", !.session = Len(sessions) + 1]
<1>1. b # Idle /\ b.step = "Account" /\ b \in Callback /\ Holds(b)
  BY AtStep DEF CreateSession
<1>2. /\ sessions' = Append(sessions, Session(b.user, b.attempt, b.subject))
      /\ callbacks' = [callbacks EXCEPT ![k] = c]
      /\ UNCHANGED <<profiles, images, attempts, identities, passwords, accounts, proved>>
  BY <1>1 DEF CreateSession, profile_vars, IInv, RowTypes
<1>3. sessions \in Seq(SessionRow) /\ Len(sessions) + 1 \in Nat
  BY DEF IInv, RowTypes
<1>4. /\ c \in Callback /\ c.attempt = b.attempt /\ c.subject = b.subject /\ c.step = "Session"
      /\ c.session = Len(sessions) + 1 /\ c.user = b.user
  BY <1>1, <1>3 DEF Callback, Behind
<1> HIDE DEF c
<1>5. b.subject \in Subjects /\ b.user \in Users /\ identities[b.subject] = b.user
  BY <1>1 DEF Holds, Before
<1>6. b.user \in accounts /\ HasProfile(b.user)
  BY <1>5 DEF IInv, Linking
<1>8. \A n \in DOMAIN sessions :
        sessions[n].subject = Nobody /\ sessions[n].user \notin passwords' => sessions[n].revoked
  BY <1>2 DEF IInv, SessionsHold
<1>9. /\ sessions' \in Seq(SessionRow) /\ SessionsHold'
      /\ CallbacksHold' /\ DOMAIN callbacks' = Callbacks
  <2>1. Opens(k, b, c, b.user, sessions)
    BY <1>1, <1>2, <1>3, <1>4, <1>5, <1>6, <1>8 DEF Opens, Before, HasProfile
  <2> QED
    BY <2>1, SessionOpens
<1> QED
  BY <1>2, <1>9 DEF IInv, RowTypes, Linking, HasProfile

\* A user is linked with an identity nobody has, and gets a profile.
LEMMA LinkIsNew ==
  ASSUME IInv, NEW u \in Users, NEW s \in Subjects, identities[s] = Nobody,
         \A t \in Subjects : identities[t] # u,
         identities' = [identities EXCEPT ![s] = u],
         profiles' = [profiles EXCEPT ![u] = NewProfile], UNCHANGED images,
         passwords' = passwords \ {u}, accounts' = accounts \cup {u}
  PROVE  /\ identities' \in [Subjects -> Users \cup {Nobody}] /\ identities'[s] = u
         /\ profiles' \in [Users -> Profile \cup {NoProfile}] /\ HasProfile(u)'
         /\ \A t \in Subjects : identities[t] # Nobody => identities'[t] = identities[t]
         /\ \A v \in Users : profiles[v] # NoProfile => profiles'[v] # NoProfile
         /\ Linking'
<1>1. NewProfile \in Profile /\ NewProfile # NoProfile
  BY NoProfileIsNone DEF NewProfile, Profile
<1>2. /\ identities' \in [Subjects -> Users \cup {Nobody}] /\ identities'[s] = u
      /\ \A t \in Subjects : t # s => identities'[t] = identities[t]
  BY DEF IInv, RowTypes
<1>3. /\ profiles' \in [Users -> Profile \cup {NoProfile}] /\ profiles'[u] = NewProfile
      /\ \A v \in Users : v # u => profiles'[v] = profiles[v]
  BY <1>1 DEF IInv, RowTypes
<1>4. Linking'
  <2> SUFFICES ASSUME NEW v \in Users
               PROVE  /\ \A t, w \in Subjects : identities'[t] = v /\ identities'[w] = v => t = w
                      /\ v \in passwords' => \A t \in Subjects : identities'[t] # v
                      /\ v \in accounts' \ passwords' => \E t \in Subjects : identities'[t] = v
                      /\ v \notin accounts' => \A t \in Subjects : identities'[t] # v
                      /\ profiles'[v] # NoProfile <=> \E t \in Subjects : identities'[t] = v
    BY DEF Linking, HasProfile
  <2>1. CASE v = u
    BY <1>1, <1>2, <1>3, <2>1
  <2>2. CASE v # u
    <3>1. \A t \in Subjects : identities'[t] = v <=> identities[t] = v
      BY <1>2, <2>2, NobodyAssumption
    <3>2. profiles'[v] = profiles[v]
      BY <1>3, <2>2
    <3>3. /\ v \in passwords' <=> v \in passwords
          /\ v \in accounts' <=> v \in accounts
      BY <2>2
    <3> QED
      BY <3>1, <3>2, <3>3 DEF IInv, Linking, HasProfile
  <2> QED
    BY <2>1, <2>2
<1> QED
  BY <1>1, <1>2, <1>3, <1>4 DEF HasProfile

\* CreateAccount keeps the invariant.
LEMMA CreateAccountKeepsInv ==
  ASSUME IInv, NEW k \in Callbacks, NEW u \in Users, CreateAccount(k, u)
  PROVE  IInv'
<1> PICK b : b = callbacks[k]
  OBVIOUS
<1> DEFINE c == [b EXCEPT !.step = "Account", !.user = u]
<1>1. b # Idle /\ b.step = "Unknown" /\ b \in Callback /\ Holds(b)
  BY AtStep DEF CreateAccount
<1> PICK s \in Subjects : s = b.subject
  BY <1>1 DEF Holds, Before
<1>2. /\ callbacks' = [callbacks EXCEPT ![k] = c] /\ u \notin accounts
      /\ identities[s] = Nobody /\ identities' = [identities EXCEPT ![s] = u]
      /\ profiles' = [profiles EXCEPT ![u] = NewProfile]
      /\ accounts' = accounts \cup {u}
      /\ UNCHANGED <<images, attempts, passwords, sessions, proved>>
  BY <1>1 DEF CreateAccount, IInv, RowTypes
<1>3. /\ c \in Callback /\ c.attempt = b.attempt /\ c.subject = s /\ c.step = "Account"
      /\ c.session = b.session /\ c.user = u
  BY <1>1 DEF Callback, Before
<1> HIDE DEF c
<1>4. u \notin passwords /\ \A t \in Subjects : identities[t] # u
  BY <1>2 DEF IInv, RowTypes, Linking
<1>5. passwords' = passwords \ {u}
  BY <1>2, <1>4
<1>6. /\ identities' \in [Subjects -> Users \cup {Nobody}] /\ identities'[s] = u
      /\ profiles' \in [Users -> Profile \cup {NoProfile}]
      /\ \A t \in Subjects : identities[t] # Nobody => identities'[t] = identities[t]
      /\ \A v \in Users : profiles[v] # NoProfile => profiles'[v] # NoProfile
      /\ Linking'
  BY <1>2, <1>4, <1>5, LinkIsNew
<1>7. MovesOn
  BY <1>2, <1>6 DEF MovesOn
<1>8. Holds(c)'
  BY <1>1, <1>2, <1>3, <1>6 DEF Holds, Before, Behind, IsSpent
<1>9. \A j \in Callbacks \ {k} : callbacks[j] # Idle => callbacks[j].attempt # c.attempt
  BY <1>1, <1>3 DEF IInv, CallbacksHold
<1>10. CallbacksHold' /\ DOMAIN callbacks' = Callbacks
  <2>1. \A n \in DOMAIN sessions' \ DOMAIN sessions : sessions'[n].attempt = c.attempt
    BY <1>2
  <2> QED
    BY <1>2, <1>7, <1>8, <1>9, <2>1, OneCallback
<1>11. RowTypes'
  BY <1>2, <1>6, <1>10 DEF IInv, RowTypes
<1>12. SessionsHold'
  <2>1. \A n \in DOMAIN sessions : sessions[n].subject # Nobody =>
          identities'[sessions[n].subject] = identities[sessions[n].subject]
    <3> SUFFICES ASSUME NEW n \in DOMAIN sessions, sessions[n].subject # Nobody
                 PROVE  identities'[sessions[n].subject] = identities[sessions[n].subject]
      OBVIOUS
    <3>1. sessions[n] \in SessionRow
      BY DEF IInv, RowTypes
    <3> QED
      BY <1>6, <3>1, NobodyAssumption DEF IInv, SessionsHold, SessionRow
  <2> QED
    BY <1>2, <2>1 DEF IInv, SessionsHold, IsSpent
<1> QED
  BY <1>6, <1>10, <1>11, <1>12 DEF IInv

\* Migrate keeps the invariant.
LEMMA MigrateKeepsInv ==
  ASSUME IInv, NEW k \in Callbacks, Migrate(k)
  PROVE  IInv'
<1> PICK b : b = callbacks[k]
  OBVIOUS
<1> DEFINE c == [b EXCEPT !.step = "Session", !.session = Len(sessions) + 1]
<1>1. b # Idle /\ b.step = "Migrate" /\ b \in Callback /\ Holds(b)
  BY AtStep DEF Migrate
<1> PICK s \in Subjects : s = b.subject
  BY <1>1 DEF Holds, Before
<1> PICK u \in Legacy : u = b.user
  BY <1>1 DEF Holds
<1> DEFINE kept == SessionsRevoked(u)
<1>2. /\ callbacks' = [callbacks EXCEPT ![k] = c]
      /\ identities[s] = Nobody /\ \A other \in Subjects : identities[other] # u
      /\ identities' = [identities EXCEPT ![s] = u]
      /\ profiles' = [profiles EXCEPT ![u] = NewProfile]
      /\ passwords' = passwords \ {u}
      /\ sessions' = Append(kept, Session(u, b.attempt, s))
      /\ UNCHANGED <<images, attempts, accounts, proved>>
  BY <1>1 DEF Migrate, PasswordDeleted, IInv, RowTypes
<1>3. u \in Users /\ u \in accounts /\ accounts' = accounts \cup {u}
  BY <1>2, LegacyAssumption DEF IInv, RowTypes
<1>4. sessions \in Seq(SessionRow) /\ Len(sessions) + 1 \in Nat
  BY DEF IInv, RowTypes
<1>5. /\ c \in Callback /\ c.attempt = b.attempt /\ c.subject = s /\ c.step = "Session"
      /\ c.session = Len(sessions) + 1 /\ c.user = u
  BY <1>1, <1>4 DEF Callback, Behind
<1> HIDE DEF c
<1>6. /\ kept \in Seq(SessionRow) /\ DOMAIN kept = DOMAIN sessions /\ Len(kept) = Len(sessions)
      /\ \A n \in DOMAIN sessions :
           /\ kept[n].user = sessions[n].user /\ kept[n].attempt = sessions[n].attempt
           /\ kept[n].subject = sessions[n].subject
           /\ sessions[n].revoked => kept[n].revoked
           /\ sessions[n].user = u => kept[n].revoked
  <2>1. DOMAIN sessions = 1..Len(sessions) /\ Len(sessions) \in Nat
    BY <1>4
  <2>2. \A n \in DOMAIN sessions : sessions[n] \in SessionRow
    BY <1>4
  <2>3. DOMAIN kept = 1..Len(sessions)
    BY <2>1 DEF SessionsRevoked
  <2>4. \A n \in DOMAIN sessions :
           /\ kept[n] \in SessionRow
           /\ kept[n].user = sessions[n].user /\ kept[n].attempt = sessions[n].attempt
           /\ kept[n].subject = sessions[n].subject
           /\ sessions[n].revoked => kept[n].revoked
           /\ sessions[n].user = u => kept[n].revoked
    <3> SUFFICES ASSUME NEW n \in DOMAIN sessions
                 PROVE  /\ kept[n] \in SessionRow
                        /\ kept[n].user = sessions[n].user /\ kept[n].attempt = sessions[n].attempt
                        /\ kept[n].subject = sessions[n].subject
                        /\ sessions[n].revoked => kept[n].revoked
                        /\ sessions[n].user = u => kept[n].revoked
      OBVIOUS
    <3> DEFINE x == [sessions[n] EXCEPT !.revoked = TRUE]
    <3>1. /\ x \in SessionRow /\ x.user = sessions[n].user /\ x.attempt = sessions[n].attempt
          /\ x.subject = sessions[n].subject /\ x.revoked = TRUE
      BY <2>2 DEF SessionRow
    <3>2. kept[n] = IF sessions[n].user = u THEN x ELSE sessions[n]
      BY DEF SessionsRevoked
    <3> HIDE DEF kept, x
    <3> QED
      BY <2>2, <3>1, <3>2
  <2>5. kept \in [1..Len(sessions) -> SessionRow]
    BY <2>1, <2>3, <2>4 DEF SessionsRevoked
  <2> HIDE DEF kept
  <2>6. kept \in Seq(SessionRow) /\ Len(kept) = Len(sessions)
    BY <2>1, <2>5
  <2> QED
    BY <2>1, <2>3, <2>4, <2>6
<1> HIDE DEF kept
<1>7. \A n \in DOMAIN sessions :
        kept[n].subject = Nobody /\ kept[n].user \notin passwords' => kept[n].revoked
  BY <1>2, <1>6 DEF IInv, SessionsHold
<1>8. /\ identities' \in [Subjects -> Users \cup {Nobody}] /\ identities'[s] = u
      /\ profiles' \in [Users -> Profile \cup {NoProfile}] /\ HasProfile(u)'
      /\ \A t \in Subjects : identities[t] # Nobody => identities'[t] = identities[t]
      /\ \A v \in Users : profiles[v] # NoProfile => profiles'[v] # NoProfile
      /\ Linking'
  BY <1>2, <1>3, LinkIsNew
<1>9. /\ sessions' \in Seq(SessionRow) /\ SessionsHold'
      /\ CallbacksHold' /\ DOMAIN callbacks' = Callbacks
  <2> PICK q : q = kept
    OBVIOUS
  <2>1. b.step \in Before /\ b.subject \in Subjects /\ identities'[b.subject] = u
    BY <1>1, <1>8 DEF Before
  <2>2. sessions' = Append(q, Session(u, b.attempt, b.subject))
    BY <1>2
  <2>3. \A n \in DOMAIN sessions :
          /\ q[n].user = sessions[n].user /\ q[n].attempt = sessions[n].attempt
          /\ q[n].subject = sessions[n].subject
          /\ q[n].subject = Nobody /\ q[n].user \notin passwords' => q[n].revoked
    BY <1>6, <1>7
  <2>4. q \in Seq(SessionRow) /\ DOMAIN q = DOMAIN sessions /\ Len(q) = Len(sessions)
    BY <1>6
  <2>5. UNCHANGED <<attempts, accounts>> /\ u \in accounts /\ u \in Users
    BY <1>2, <1>3
  <2> PICK d : d = c
    OBVIOUS
  <2>6. /\ d \in Callback /\ d.step = "Session" /\ d.attempt = b.attempt /\ d.user = u
        /\ d.session = Len(sessions) + 1 /\ callbacks' = [callbacks EXCEPT ![k] = d]
    BY <1>2, <1>5
  <2>7. /\ \A t \in Subjects : identities[t] # Nobody => identities'[t] = identities[t]
        /\ \A v \in Users : profiles[v] # NoProfile => profiles'[v] # NoProfile
        /\ HasProfile(u)'
    BY <1>8
  <2> QED
    <3>1. Opens(k, b, d, u, q)
      BY <1>1, <2>1, <2>2, <2>3, <2>4, <2>5, <2>6, <2>7 DEF Opens, HasProfile
    <3> QED
      BY <3>1, SessionOpens
<1>10. RowTypes'
  BY <1>2, <1>8, <1>9 DEF IInv, RowTypes
<1> QED
  BY <1>8, <1>9, <1>10 DEF IInv

-----------------------------------------------------------------------------
(* Steps that set a flag of a session *)

\* The session n is r now, which differs in its flags.
LEMMA FlagSet ==
  ASSUME IInv, NEW n \in DOMAIN sessions, NEW r \in SessionRow,
         r.user = sessions[n].user, r.attempt = sessions[n].attempt,
         r.subject = sessions[n].subject, r.revoked = TRUE \/ r.revoked = sessions[n].revoked,
         sessions' = [sessions EXCEPT ![n] = r]
  PROVE  /\ sessions' \in Seq(SessionRow) /\ DOMAIN sessions' = DOMAIN sessions
         /\ \A m \in DOMAIN sessions :
              /\ sessions'[m].user = sessions[m].user
              /\ sessions'[m].attempt = sessions[m].attempt
              /\ sessions'[m].subject = sessions[m].subject
              /\ sessions[m].revoked => sessions'[m].revoked
<1>1. sessions \in Seq(SessionRow)
  BY DEF IInv, RowTypes
<1> QED
  BY <1>1

\* Revoking sessions and changing attempts keeps the invariant.
LEMMA FlagsKeepInv ==
  ASSUME IInv, sessions' \in Seq(SessionRow), DOMAIN sessions' = DOMAIN sessions,
         \A m \in DOMAIN sessions :
           /\ sessions'[m].user = sessions[m].user
           /\ sessions'[m].attempt = sessions[m].attempt
           /\ sessions'[m].subject = sessions[m].subject
           /\ sessions[m].revoked => sessions'[m].revoked,
         attempts' \in [Attempts -> {NotMade, Deleted} \cup AttemptRow],
         \A a \in Attempts : IsSpent(a) => IsSpent(a)',
         UNCHANGED <<profiles, images, identities, passwords, accounts, proved>>,
         CallbacksHold', DOMAIN callbacks' = Callbacks
  PROVE  IInv'
<1>1. RowTypes'
  BY DEF IInv, RowTypes
<1>2. Linking'
  BY DEF IInv, Linking, HasProfile
<1>3. SessionsHold'
  <2>1. \A a \in Attempts : attempts[a].status \notin {"NOT_MADE", "PENDING"} =>
                           attempts'[a].status \notin {"NOT_MADE", "PENDING"}
    BY DEF IsSpent
  <2> QED
    BY <2>1 DEF IInv, SessionsHold, IsSpent
<1> QED
  BY <1>1, <1>2, <1>3 DEF IInv

\* SessionEnds keeps the invariant.
LEMMA SessionEndsKeepsInv ==
  ASSUME IInv, NEW n \in DOMAIN sessions, Logout(n) \/ ExpireSession(n)
  PROVE  IInv'
<1>1. sessions[n] \in SessionRow
  BY DEF IInv, RowTypes
<1>2. UNCHANGED <<profiles, images, attempts, identities, passwords, accounts, callbacks, proved>>
  BY DEF Logout, ExpireSession, profile_vars
<1>3. PICK r \in SessionRow :
        /\ r.user = sessions[n].user /\ r.attempt = sessions[n].attempt
        /\ r.subject = sessions[n].subject /\ (r.revoked = TRUE \/ r.revoked = sessions[n].revoked)
        /\ sessions' = [sessions EXCEPT ![n] = r]
  <2>1. CASE Logout(n)
    <3> DEFINE r == [sessions[n] EXCEPT !.revoked = TRUE]
    <3>1. /\ r \in SessionRow /\ r.user = sessions[n].user /\ r.attempt = sessions[n].attempt
          /\ r.subject = sessions[n].subject /\ r.revoked = TRUE
      BY <1>1 DEF SessionRow
    <3>2. sessions' = [sessions EXCEPT ![n] = r]
      BY <2>1 DEF Logout
    <3> HIDE DEF r
    <3> QED
      BY <3>1, <3>2
  <2>2. CASE ExpireSession(n)
    <3> DEFINE r == [sessions[n] EXCEPT !.expired = TRUE]
    <3>1. /\ r \in SessionRow /\ r.user = sessions[n].user /\ r.attempt = sessions[n].attempt
          /\ r.subject = sessions[n].subject /\ r.revoked = sessions[n].revoked
      BY <1>1 DEF SessionRow
    <3>2. sessions' = [sessions EXCEPT ![n] = r]
      BY <2>2 DEF ExpireSession
    <3> HIDE DEF r
    <3> QED
      BY <3>1, <3>2
  <2> QED
    BY <2>1, <2>2
<1>4. \A a \in Attempts : IsSpent(a) => IsSpent(a)'
  BY <1>2 DEF IsSpent
<1>5. /\ sessions' \in Seq(SessionRow) /\ DOMAIN sessions' = DOMAIN sessions
      /\ \A m \in DOMAIN sessions :
           /\ sessions'[m].user = sessions[m].user
           /\ sessions'[m].attempt = sessions[m].attempt
           /\ sessions'[m].subject = sessions[m].subject
           /\ sessions[m].revoked => sessions'[m].revoked
  BY <1>3, FlagSet
<1>6. MovesOn
  BY <1>2, <1>5 DEF MovesOn
<1>7. CallbacksHold' /\ DOMAIN callbacks' = Callbacks
  BY <1>2, <1>5, <1>6, CallbacksKept
<1> QED
  BY <1>2, <1>4, <1>5, <1>7, FlagsKeepInv DEF IInv, RowTypes

\* Consume keeps the invariant.
LEMMA ConsumeKeepsInv ==
  ASSUME IInv, NEW k \in Callbacks, Consume(k)
  PROVE  IInv'
<1> PICK b : b = callbacks[k]
  OBVIOUS
<1> PICK n : n = b.session
  OBVIOUS
<1> PICK a : a = b.attempt
  OBVIOUS
<1>1. b # Idle /\ b.step = "Completed" /\ b \in Callback /\ Holds(b)
  BY AtStep DEF Consume
<1>2. a \in Attempts /\ n \in DOMAIN sessions
  BY <1>1 DEF Holds, Behind, Callback
<1>3. /\ attempts[a].status = "CLAIMED" /\ attempts' = [attempts EXCEPT ![a].status = "CONSUMED"]
      /\ sessions' = [sessions EXCEPT ![n] = [sessions[n] EXCEPT !.given = TRUE]]
      /\ callbacks' = [callbacks EXCEPT ![k] = Idle]
      /\ UNCHANGED <<profiles, images, identities, passwords, accounts, proved>>
  BY DEF Consume, profile_vars
<1>4. Exists(a)
  BY <1>2, <1>3 DEF Exists, NotMade, Deleted
<1>5. /\ attempts' \in [Attempts -> {NotMade, Deleted} \cup AttemptRow]
      /\ \A x \in Attempts : IsSpent(x) => IsSpent(x)'
  BY <1>2, <1>3, <1>4, StatusMoves
<1> DEFINE r == [sessions[n] EXCEPT !.given = TRUE]
<1>6. sessions[n] \in SessionRow
  BY <1>2 DEF IInv, RowTypes
<1>7. /\ r \in SessionRow /\ r.user = sessions[n].user /\ r.attempt = sessions[n].attempt
      /\ r.subject = sessions[n].subject /\ r.revoked = sessions[n].revoked
  BY <1>6 DEF SessionRow
<1>8. sessions' = [sessions EXCEPT ![n] = r]
  BY <1>3
<1> HIDE DEF r
<1>9. /\ sessions' \in Seq(SessionRow) /\ DOMAIN sessions' = DOMAIN sessions
      /\ \A m \in DOMAIN sessions :
           /\ sessions'[m].user = sessions[m].user
           /\ sessions'[m].attempt = sessions[m].attempt
           /\ sessions'[m].subject = sessions[m].subject
           /\ sessions[m].revoked => sessions'[m].revoked
  BY <1>2, <1>7, <1>8, FlagSet
<1>10. MovesOn
  BY <1>3, <1>5, <1>9 DEF MovesOn, IsSpent
<1>11. CallbacksHold' /\ DOMAIN callbacks' = Callbacks
  <2> PICK idle : idle = Idle
    OBVIOUS
  <2> QED
    BY <1>3, <1>9, <1>10, OneCallback
<1> QED
  BY <1>3, <1>5, <1>9, <1>11, FlagsKeepInv

\* Fail keeps the invariant.
LEMMA FailKeepsInv ==
  ASSUME IInv, NEW k \in Callbacks, Fail(k)
  PROVE  IInv'
<1> PICK idle : idle = Idle
  OBVIOUS
<1>1. /\ callbacks[k] # Idle /\ callbacks' = [callbacks EXCEPT ![k] = idle]
      /\ UNCHANGED <<Tables, proved>>
  BY DEF Fail, Tables, profile_vars
<1> QED
  BY <1>1, CallbackOnly

-----------------------------------------------------------------------------
(* Every step *)

\* Every step keeps it.
LEMMA NextIInv == IInv /\ [Next]_vars => IInv'
<1> SUFFICES ASSUME IInv, [Next]_vars PROVE IInv'
  OBVIOUS
<1>1. ASSUME NEW u \in Legacy, ProvePassword(u)
      PROVE  IInv'
  <2>1. UNCHANGED <<Tables, callbacks>> /\ proved' \subseteq Legacy
    BY <1>1 DEF ProvePassword, Tables, profile_vars, IInv, RowTypes
  <2>2. MovesOn /\ DOMAIN sessions' = DOMAIN sessions
    BY <2>1 DEF MovesOn, Tables
  <2> QED
    BY <2>1, <2>2, CallbacksKept, TablesKept
<1>2. ASSUME NEW k \in Callbacks, ResolveSession(k) \/ FindAvatar(k) \/ SkipAvatar(k)
      PROVE  IInv'
  <2>1. UNCHANGED <<Tables, proved>>
    BY <1>2 DEF ResolveSession, FindAvatar, SkipAvatar, Tables, profile_vars
  <2>2. PICK from \in Behind, to \in Behind : Goes(k, from) /\ To(k, to)
    BY <1>2 DEF ResolveSession, FindAvatar, SkipAvatar, Behind
  <2> QED
    BY <2>1, <2>2, BehindKeepsInv
<1>3. CASE UNCHANGED vars
  <2>1. UNCHANGED <<Tables, callbacks, proved>>
    BY <1>3 DEF vars, Tables
  <2>2. MovesOn /\ DOMAIN sessions' = DOMAIN sessions
    BY <2>1 DEF MovesOn, Tables
  <2>3. proved' \subseteq Legacy
    BY <2>1 DEF IInv, RowTypes
  <2> QED
    BY <2>1, <2>2, <2>3, CallbacksKept, TablesKept
<1>4. CASE Next
  BY <1>1, <1>2, <1>4, AttemptKeepsInv, ClaimKeepsInv, ExchangeKeepsInv, FindAccountKeepsInv,
     SynchronizeKeepsInv, CreateAccountKeepsInv, AdoptWinnerKeepsInv, CreateSessionKeepsInv,
     MigrateKeepsInv, StoreAvatarKeepsInv, ConsumeKeepsInv, FailKeepsInv, SessionEndsKeepsInv,
     SettingsKeepInv DEF Next
<1> QED
  BY <1>3, <1>4

\* It holds in every reachable state.
LEMMA AlwaysIInv == Spec => []IInv
BY InitIInv, NextIInv, PTL DEF Spec

-----------------------------------------------------------------------------
(* Theorems *)

\* The type invariant of the module.
LEMMA TypesHold == IInv => TypeOK
<1> SUFFICES ASSUME IInv PROVE TypeOK
  OBVIOUS
<1>1. ProfilesTyped /\ identities \in [Subjects -> Users \cup {Nobody}]
  BY DEF IInv, RowTypes, ProfilesTyped
<1>2. \A a \in Attempts :
       Exists(a) => attempts[a] \in [status : {"PENDING", "CLAIMED", "CONSUMED"},
                                     user : Legacy \cup {Nobody}, expired : BOOLEAN]
  BY DEF IInv, RowTypes, Exists, AttemptRow
<1>3. /\ passwords \subseteq Legacy /\ proved \subseteq Legacy
      /\ Legacy \subseteq accounts /\ accounts \subseteq Users
      /\ \A n \in DOMAIN sessions : sessions[n].user \in accounts
  BY DEF IInv, RowTypes, SessionsHold
<1>4. ASSUME NEW k \in Callbacks, callbacks[k] # Idle
      PROVE  /\ attempts[callbacks[k].attempt].status \notin {"NOT_MADE", "PENDING"}
             /\ callbacks[k].session # 0 =>
                  /\ callbacks[k].session \in DOMAIN sessions
                  /\ sessions[callbacks[k].session].attempt = callbacks[k].attempt
  <2>1. Holds(callbacks[k])
    BY <1>4 DEF IInv, CallbacksHold
  <2>2. callbacks[k].step \in Before \cup Behind
    BY <2>1 DEF Holds, Callback
  <2> QED
    BY <2>1, <2>2 DEF Holds, IsSpent
<1> QED
  BY <1>1, <1>2, <1>3, <1>4 DEF TypeOK

\* The invariant leaves every account one way to sign in.
LEMMA OneWay == IInv => OneWayToSignIn
<1> SUFFICES ASSUME IInv PROVE OneWayToSignIn
  OBVIOUS
<1>1. ASSUME NEW u \in Users
      PROVE  /\ u \in accounts => Cardinality(Linked(u)) + (IF u \in passwords THEN 1 ELSE 0) = 1
             /\ u \notin accounts => Linked(u) = {}
             /\ HasProfile(u) <=> Linked(u) # {}
  <2>1. /\ \A s, t \in Linked(u) : s = t
        /\ u \in passwords => Linked(u) = {}
        /\ u \in accounts \ passwords => Linked(u) # {}
        /\ u \notin accounts => Linked(u) = {}
        /\ HasProfile(u) <=> Linked(u) # {}
    BY DEF IInv, Linking, Linked
  <2>2. CASE Linked(u) = {}
    <3>1. Cardinality(Linked(u)) = 0
      BY <2>2, FS_EmptySet
    <3> QED
      BY <2>1, <2>2, <3>1
  <2>3. CASE Linked(u) # {}
    <3>1. PICK s \in Linked(u) : Linked(u) = {s}
      BY <2>1, <2>3
    <3>2. Cardinality(Linked(u)) = 1
      BY <3>1, FS_Singleton
    <3> QED
      BY <2>1, <2>3, <3>2
  <2> QED
    BY <2>2, <2>3
<1> QED
  BY <1>1, TypesHold DEF OneWayToSignIn

\* Whatever callbacks of however many tabs overlap, an account has one way to
\* sign in: resolve_or_create_external_account makes one account for an identity,
\* and complete_legacy_google_migration swaps the password for the identity.
THEOREM EverybodySignsInOneWay == Spec => []OneWayToSignIn
BY AlwaysIInv, OneWay, PTL

\* A session through Google is its identity's user's and the only one of its
\* attempt: an attempt is claimed by one callback, which makes one session.
THEOREM SessionsStayEarned == Spec => []SessionsAreEarned
<1>1. IInv => SessionsAreEarned
  BY DEF IInv, SessionsHold, SessionsAreEarned
<1> QED
  BY <1>1, AlwaysIInv, PTL

\* complete_legacy_google_migration leaves no session made with the password,
\* and none is made later.
THEOREM MigrationRevokes == Spec => []MigrationEndsOldSessions
<1>1. IInv => MigrationEndsOldSessions
  BY DEF IInv, SessionsHold, MigrationEndsOldSessions
<1> QED
  BY <1>1, AlwaysIInv, PTL
=============================================================================
