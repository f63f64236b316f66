SPECIFICATION PagesSpec
CONSTANTS
  bob = bob
  g1 = g1
  page = page
  board = board
  Games = {g1}
  Users = {bob}
  Subscriptions = {page, board}
  Owner <- MCOwner
  Topic <- MCTopic
  Dashboard = Dashboard
  Handlers = {h1, h2}
  Idle = Idle
  MaxRevision = 3
  MaxDashboard = 2
  RowGames = {r1, r2}
  Viewers = {v1, v2}
  NoRepair = NoRepair
  RowRevision = 4
INVARIANTS
  GamePagesConverge
  RowsDescribeOneRevision
PROPERTIES
  GamePagesCatchUp
\* Revisions are bounded, repairs end, and clients may go away for good.
CHECK_DEADLOCK FALSE
