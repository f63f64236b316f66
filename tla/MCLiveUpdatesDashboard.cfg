SPECIFICATION Spec
CONSTANTS
  bob = bob
  g1 = g1
  page = page
  board = board
  Games = {g1, g2}
  Users = {bob}
  Subscriptions = {board}
  Owner <- BoardOwner
  Topic <- BoardTopic
  Dashboard = Dashboard
  Handlers = {h1}
  Idle = Idle
  MaxRevision = 3
  MaxDashboard = 0
INVARIANTS
  DashboardsConverge
CHECK_DEADLOCK FALSE
