SPECIFICATION Spec
CONSTANTS
  Users = {new}
  Legacy = {}
  Subjects = {s1}
  Attempts = {a1, a2}
  Callbacks = {k1}
  Nobody = Nobody
  Idle = Idle
SYMMETRY Symmetry
INVARIANTS
  CustomNameIsShown
CHECK_DEADLOCK FALSE
