SPECIFICATION MCSpec
CONSTANTS
  Parts = {"location"}
  Procs = {x1, x2}
  Users = {z1, z2}
  MaxAttempts = 2
  BoardingCodes = {c1, c2, c3}
  Links = {l1, l2}
  Tabs = {x1, x2}
  Calls = {y1, y2}
  Rider = rider
  Passengers = {y1, y2}
  Maps = {x1, x2}
  Rides = {y1, y2}
  JoinIds = {z1, z2}
  MaxUp = 3
  MaxRows = 3
  MaxFetches = 2
  NoLink = NoLink
  NoTab = NoTab
  NoMap = NoMap
  NoRide = NoRide
  NoUser = NoUser
  NoCode = NoCode
SYMMETRY Alike
INVARIANTS
  FellowsUnseen
CHECK_DEADLOCK FALSE
