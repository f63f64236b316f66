------------------------------- MODULE SignIn -------------------------------
(***************************************************************************)
(* Signing in with Google: attempts (oidc_attempts.rs), the callback       *)
(* (google_callback_route, routes.rs), accounts and identities             *)
(* (external_identities.rs, google_accounts.rs), and sessions              *)
(* (sessions.rs).  A callback is many steps, each ends at an await, and    *)
(* callbacks of several tabs, reloads and accounts overlap.  Google itself *)
(* is external: it answers with any of its identities, or with an error.   *)
(*                                                                         *)
(* Statements and transactions are atomic, and the unique indexes on       *)
(* identities, (issuer, subject) and (user, issuer), refuse a second row.  *)
(***************************************************************************)
EXTENDS Profiles, Naturals, Sequences, FiniteSets

CONSTANTS
  Legacy,     \* users from before Google sign-in, who have a password
  Subjects,   \* Google identities
  Attempts,   \* ids of attempts that may ever be made
  Callbacks,  \* callback requests that may be in flight at once
  Nobody, Idle

ASSUME LegacyAssumption == Legacy \subseteq Users /\ IsFiniteSet(Legacy)
ASSUME NobodyAssumption == Nobody \notin Users \cup Subjects \cup Attempts

VARIABLES
  attempts,    \* attempts[a]: its auth_login_attempts row, or its absence
  identities,  \* identities[s]: the user linked with subject s, or Nobody
  passwords,   \* users with a row in password_credentials
  proved,      \* users whose password a request has proved, and goes on
  accounts,    \* users with a row in users
  sessions,    \* auth_sessions in the order of their creation
  callbacks    \* what each callback in flight holds

profile_vars == <<profiles, images>>
vars ==
  <<profiles, images, attempts, identities, passwords, proved, accounts, sessions, callbacks>>

NotMade == [status |-> "NOT_MADE"]
Deleted == [status |-> "DELETED"]

\* A session through Google is not in a browser before its callback answers.
Session(u, a, s) ==
  [user |-> u, attempt |-> a, subject |-> s, revoked |-> FALSE, expired |-> FALSE,
   given |-> a = Nobody]

\* Legacy users may still hold a session made with their password.
Init ==
  /\ profiles = [u \in Users |-> NoProfile] /\ images = [u \in Users |-> "None"]
  /\ attempts = [a \in Attempts |-> NotMade]
  /\ identities = [s \in Subjects |-> Nobody]
  /\ passwords = Legacy /\ proved = {} /\ accounts = Legacy
  /\ sessions \in {s \in [1..Cardinality(Legacy) -> {Session(u, Nobody, Nobody) : u \in Legacy}] :
                     \A u \in Legacy : \E n \in DOMAIN s : s[n].user = u}
  /\ callbacks = [k \in Callbacks |-> Idle]

-----------------------------------------------------------------------------
(* Attempts *)

NewAttempt(a, user) ==
  [status |-> "PENDING", user |-> user, expired |-> FALSE]

Exists(a) == attempts[a] \notin {NotMade, Deleted}

\* cleanup_oidc_attempts deletes row by row what it found expired or consumed.
Removable ==
  {a \in Attempts : Exists(a) /\ (attempts[a].expired \/ attempts[a].status = "CONSUMED")}

\* google_start_route: cleanup, as far as it comes, and create_oidc_attempt
StartLogin(a) ==
  /\ attempts[a] = NotMade
  /\ \E removed \in SUBSET Removable :
       attempts' = [b \in Attempts |-> IF b = a THEN NewAttempt(a, Nobody)
                                       ELSE IF b \in removed THEN Deleted ELSE attempts[b]]
  /\ UNCHANGED <<profile_vars, identities, passwords, accounts, sessions, callbacks, proved>>

\* migration_start_route proves the password (authenticate) ...
ProvePassword(u) ==
  /\ u \in passwords
  /\ proved' = proved \cup {u}
  /\ UNCHANGED <<profile_vars, attempts, identities, passwords, accounts, sessions, callbacks>>

\* ... and makes the attempt an await later: by then the user may have migrated,
\* and have no password any more.
StartMigration(a, u) ==
  /\ attempts[a] = NotMade /\ u \in proved
  /\ attempts' = [attempts EXCEPT ![a] = NewAttempt(a, u)]
  /\ proved' = proved \ {u}
  /\ UNCHANGED <<profile_vars, identities, passwords, accounts, sessions, callbacks>>

\* Time passes the expires_at_ms of an attempt; nothing is written.
Expire(a) ==
  /\ Exists(a) /\ ~attempts[a].expired
  /\ attempts' = [attempts EXCEPT ![a].expired = TRUE]
  /\ UNCHANGED <<profile_vars, identities, passwords, accounts, sessions, callbacks, proved>>

-----------------------------------------------------------------------------
(* The callback *)

Goes(k, step) == callbacks[k] # Idle /\ callbacks[k].step = step

To(k, step) == callbacks' = [callbacks EXCEPT ![k].step = step]

\* Faulty: an attempt that is claimed already is claimed again.
IsClaimableAgain(a) == Exists(a) /\ attempts[a].status # "CONSUMED" /\ ~attempts[a].expired

IsClaimable(a) == Exists(a) /\ attempts[a].status = "PENDING" /\ ~attempts[a].expired

\* claim_oidc_attempt
Claim(k, a) ==
  /\ callbacks[k] = Idle /\ IsClaimable(a)
  /\ attempts' = [attempts EXCEPT ![a].status = "CLAIMED"]
  /\ callbacks' = [callbacks EXCEPT ![k] =
       [step |-> "Claimed", attempt |-> a, subject |-> Nobody, user |-> attempts[a].user,
        read |-> NoProfile, session |-> 0]]
  /\ UNCHANGED <<profile_vars, identities, passwords, accounts, sessions, proved>>

\* exchange_callback: login or migration goes on with a verified identity.
Exchange(k, s) ==
  /\ Goes(k, "Claimed")
  /\ callbacks' = [callbacks EXCEPT ![k].subject = s,
       ![k].step = IF callbacks[k].user = Nobody THEN "Login" ELSE "Migrate"]
  /\ UNCHANGED <<profile_vars, attempts, identities, passwords, accounts, sessions, proved>>

\* resolve_or_create_external_account looks the identity up; a known one's
\* profile is read ...
FindAccount(k) ==
  /\ Goes(k, "Login")
  /\ LET user == identities[callbacks[k].subject]
     IN  callbacks' = [callbacks EXCEPT ![k] =
           IF user = Nobody THEN [@ EXCEPT !.step = "Unknown"]
           ELSE [@ EXCEPT !.step = "Found", !.user = user, !.read = profiles[user]]]
  /\ UNCHANGED <<profile_vars, attempts, identities, passwords, accounts, sessions, proved>>

\* ... and synchronised.
SynchronizeProfile(k) ==
  /\ Goes(k, "Found")
  /\ Synchronize(callbacks[k].user, callbacks[k].read)
  /\ callbacks' = [callbacks EXCEPT ![k].step = "Account", ![k].read = NoProfile]
  /\ UNCHANGED <<attempts, identities, passwords, accounts, sessions, proved>>

\* An unknown identity gets an account, profile and link in one transaction.
CreateAccount(k, u) ==
  /\ Goes(k, "Unknown") /\ u \notin accounts
  /\ identities[callbacks[k].subject] = Nobody
  /\ accounts' = accounts \cup {u}
  /\ profiles' = [profiles EXCEPT ![u] = NewProfile]
  /\ identities' = [identities EXCEPT ![callbacks[k].subject] = u]
  /\ callbacks' = [callbacks EXCEPT ![k].step = "Account", ![k].user = u]
  /\ UNCHANGED <<images, attempts, passwords, sessions, proved>>

\* Faulty: the user is created before the transaction, and stays.
AdoptWinnerLate(k) ==
  /\ Goes(k, "Unknown") /\ identities[callbacks[k].subject] # Nobody
  /\ \E u \in Users \ accounts :
       /\ accounts' = accounts \cup {u}
       /\ callbacks' = [callbacks EXCEPT ![k].step = "Account", ![k].user = u]
  /\ UNCHANGED <<profile_vars, attempts, identities, passwords, sessions, proved>>

\* Another callback has linked it in the meantime: the transaction is rolled
\* back and the winner's account taken.
AdoptWinner(k) ==
  /\ Goes(k, "Unknown") /\ identities[callbacks[k].subject] # Nobody
  /\ callbacks' = [callbacks EXCEPT ![k].step = "Account",
                                    ![k].user = identities[callbacks[k].subject]]
  /\ UNCHANGED <<profile_vars, attempts, identities, passwords, accounts, sessions, proved>>

\* create_session, for an account that signs in
CreateSession(k) ==
  /\ Goes(k, "Account")
  /\ sessions' = Append(sessions,
       Session(callbacks[k].user, callbacks[k].attempt, callbacks[k].subject))
  /\ callbacks' = [callbacks EXCEPT ![k].step = "Session", ![k].session = Len(sessions) + 1]
  /\ UNCHANGED <<profile_vars, attempts, identities, passwords, accounts, proved>>

\* Faulty: the sessions of the user are left as they are, or their rows are
\* deleted; the password is left.
SessionsKept(u) == sessions
SessionsDeleted(u) == SelectSeq(sessions, LAMBDA session : session.user # u)
PasswordsKept(u) == passwords

SessionsRevoked(u) ==
  [n \in DOMAIN sessions |->
     IF sessions[n].user = u THEN [sessions[n] EXCEPT !.revoked = TRUE] ELSE sessions[n]]

PasswordDeleted(u) == passwords \ {u}

\* complete_legacy_google_migration: one transaction, which a taken identity,
\* a linked user or a missing password makes fail.
Migrate(k) ==
  /\ Goes(k, "Migrate")
  /\ LET u == callbacks[k].user
         s == callbacks[k].subject
     IN  /\ identities[s] = Nobody
         /\ \A other \in Subjects : identities[other] # u
         /\ u \in passwords
         /\ identities' = [identities EXCEPT ![s] = u]
         /\ profiles' = [profiles EXCEPT ![u] = NewProfile]
         /\ passwords' = PasswordDeleted(u)
         /\ sessions' = Append(SessionsRevoked(u), Session(u, callbacks[k].attempt, s))
         /\ callbacks' = [callbacks EXCEPT ![k].step = "Session", ![k].session = Len(sessions) + 1]
  /\ UNCHANGED <<images, attempts, accounts, proved>>

\* resolve_session takes a session that is neither revoked nor expired.
IsLive(n) == ~sessions[n].revoked /\ ~sessions[n].expired

\* resolve_session; then an invitation the attempt carries is redeemed, which
\* is CommitRedeem of Offers, or fails, which is Fail here.
ResolveSession(k) ==
  /\ Goes(k, "Session") /\ IsLive(callbacks[k].session)
  /\ To(k, "SignedIn")
  /\ UNCHANGED <<profile_vars, attempts, identities, passwords, accounts, sessions, proved>>

\* set_google_avatar reads who owns the picture ...
FindAvatar(k) ==
  /\ Goes(k, "SignedIn") /\ profiles[callbacks[k].user].avatar_source = "GOOGLE"
  /\ To(k, "Avatar")
  /\ UNCHANGED <<profile_vars, attempts, identities, passwords, accounts, sessions, proved>>

\* ... and stores the one it was given.
StoreAvatar(k) ==
  /\ Goes(k, "Avatar")
  /\ SetGoogleAvatar(callbacks[k].user)
  /\ To(k, "Completed")
  /\ UNCHANGED <<attempts, identities, passwords, accounts, sessions, proved>>

\* There is no picture, it is the user's own, or it cannot be stored.
SkipAvatar(k) ==
  /\ Goes(k, "SignedIn") \/ Goes(k, "Avatar")
  /\ To(k, "Completed")
  /\ UNCHANGED <<profile_vars, attempts, identities, passwords, accounts, sessions, proved>>

\* consume_oidc_attempt; the browser is given the session.
Consume(k) ==
  /\ Goes(k, "Completed")
  /\ attempts[callbacks[k].attempt].status = "CLAIMED"
  /\ attempts' = [attempts EXCEPT ![callbacks[k].attempt].status = "CONSUMED"]
  /\ sessions' = [sessions EXCEPT ![callbacks[k].session].given = TRUE]
  /\ callbacks' = [callbacks EXCEPT ![k] = Idle]
  /\ UNCHANGED <<profile_vars, identities, passwords, accounts, proved>>

\* Any step returns an error, or the process crashes.
Fail(k) ==
  /\ callbacks[k] # Idle
  /\ callbacks' = [callbacks EXCEPT ![k] = Idle]
  /\ UNCHANGED <<profile_vars, attempts, identities, passwords, accounts, sessions, proved>>

-----------------------------------------------------------------------------
\* The browser has the session, and resolve_session takes it.
IsInUse(n) == sessions[n].given /\ IsLive(n)

SignedIn(u) == \E n \in DOMAIN sessions : sessions[n].user = u /\ IsInUse(n)

\* Time passes the expires_at_ms of a session.
ExpireSession(n) ==
  /\ ~sessions[n].expired
  /\ sessions' = [sessions EXCEPT ![n].expired = TRUE]
  /\ UNCHANGED <<profile_vars, attempts, identities, passwords, accounts, callbacks, proved>>

\* logout_session
Logout(n) ==
  /\ sessions[n].given /\ ~sessions[n].revoked
  /\ sessions' = [sessions EXCEPT ![n].revoked = TRUE]
  /\ UNCHANGED <<profile_vars, attempts, identities, passwords, accounts, callbacks, proved>>

ChangeSettings(u) ==
  /\ SignedIn(u) /\ Settings(u)
  /\ UNCHANGED <<attempts, identities, passwords, accounts, sessions, callbacks, proved>>

Next ==
  \/ \E a \in Attempts : StartLogin(a) \/ Expire(a)
  \/ \E u \in Legacy : ProvePassword(u)
  \/ \E a \in Attempts, u \in Legacy : StartMigration(a, u)
  \/ \E k \in Callbacks, a \in Attempts : Claim(k, a)
  \/ \E k \in Callbacks, s \in Subjects : Exchange(k, s)
  \/ \E k \in Callbacks, u \in Users : CreateAccount(k, u)
  \/ \E k \in Callbacks :
       \/ FindAccount(k) \/ SynchronizeProfile(k) \/ AdoptWinner(k) \/ CreateSession(k)
       \/ Migrate(k) \/ ResolveSession(k) \/ FindAvatar(k) \/ StoreAvatar(k) \/ SkipAvatar(k)
       \/ Consume(k) \/ Fail(k)
  \/ \E n \in DOMAIN sessions : Logout(n) \/ ExpireSession(n)
  \/ \E u \in Users : ChangeSettings(u)

Spec == Init /\ [][Next]_vars

-----------------------------------------------------------------------------
(* Properties *)

\* Types; a callback in flight holds an attempt that was claimed, and a session
\* of its own.
TypeOK ==
  /\ ProfilesTyped
  /\ \A a \in Attempts :
       Exists(a) => attempts[a] \in [status : {"PENDING", "CLAIMED", "CONSUMED"},
                                     user : Legacy \cup {Nobody}, expired : BOOLEAN]
  /\ identities \in [Subjects -> Users \cup {Nobody}]
  /\ passwords \subseteq Legacy /\ proved \subseteq Legacy
  /\ Legacy \subseteq accounts /\ accounts \subseteq Users
  /\ \A n \in DOMAIN sessions : sessions[n].user \in accounts
  /\ \A k \in Callbacks :
       callbacks[k] # Idle =>
         /\ attempts[callbacks[k].attempt].status \notin {"NOT_MADE", "PENDING"}
         /\ callbacks[k].session # 0 =>
              /\ callbacks[k].session \in DOMAIN sessions
              /\ sessions[callbacks[k].session].attempt = callbacks[k].attempt

Linked(u) == {s \in Subjects : identities[s] = u}

\* However callbacks of one identity overlap, it has one account, the account
\* of no other identity, and no account is left over without an identity or a
\* password: everybody has exactly one way to sign in, also across a migration.
OneWayToSignIn ==
  /\ TypeOK
  /\ \A u \in Users :
       /\ u \in accounts => Cardinality(Linked(u)) + (IF u \in passwords THEN 1 ELSE 0) = 1
       /\ u \notin accounts => Linked(u) = {}
       /\ HasProfile(u) <=> Linked(u) # {}

\* A session made through Google is for the account of the identity Google
\* verified, and an attempt leads to one session at most.
SessionsAreEarned ==
  \A n \in DOMAIN sessions :
    sessions[n].subject # Nobody =>
      /\ sessions[n].user = identities[sessions[n].subject]
      /\ \A m \in DOMAIN sessions :
           sessions[m].attempt = sessions[n].attempt => m = n

\* "Existing sessions are revoked before issuing one new session": once an
\* account has moved to Google, no session from its password works.
MigrationEndsOldSessions ==
  \A n \in DOMAIN sessions :
    (sessions[n].subject = Nobody /\ sessions[n].user \notin passwords) => sessions[n].revoked
=============================================================================
