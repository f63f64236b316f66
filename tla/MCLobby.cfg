SPECIFICATION Spec
CONSTANTS
  Users = {alice, bob, carol, dave, erin}
  Creator = alice
  Slots = {s1, s2}
  Idle = Idle
  PolicyMax = 4
  Settings <- MCSettings
  MaxRevision = 5
SYMMETRY Symmetry
INVARIANTS
  SeatsAreCompact
  StartedGameSeatsTheLobby
  MembersAreNotInvited
  WithinPolicy
PROPERTIES
  OrderIsKept
\* A closed lobby with nothing in flight takes no more requests.
CHECK_DEADLOCK FALSE
