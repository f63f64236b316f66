SPECIFICATION Spec
CONSTANTS
  Users = {old, new1, new2}
  Legacy = {old}
  Subjects = {s1, s2}
  Attempts = {a1, a2}
  Callbacks = {k1, k2}
  Nobody = Nobody
  Idle = Idle
SYMMETRY Symmetry
INVARIANTS
  OneWayToSignIn
  SessionsAreEarned
  MigrationEndsOldSessions
\* Attempts run out and sessions end.
CHECK_DEADLOCK FALSE
