SPECIFICATION MCSpec
CONSTANTS
  Users = {u1, u2}
  Procs = {p1, p2}
  MaxAttempts = 1
  VehicleIds = {v1, v2}
  Plates = {A, B}
  RideIds = {r1, r2}
  Numbers = {d1, d2}
  Lookups = {k1, k2}
  MaxEdits = 4
  Ambiguous = {}
  OnRouteM = 2500
  DetourPercent = 20
  DetourMaxM = 30000
  TipRatePerKm = 5
  Asks <- SomeAsks
  Parts = {"plates", "rides", "licences", "route", "zone"}
  NoUser = NoUser
  NoCode = NoCode
  NoPlate = NoPlate
  NoVehicle = NoVehicle
  NoRide = NoRide
  NoNumber = NoNumber
SYMMETRY Interchangeable
INVARIANTS
  VerifiedIsProven
  OneOpenRide
  OpenRideHasVehicle
  OneLicencePerNumber
  RouteFitsEnds
  
  DetourIsPaid
PROPERTIES
  VerifiedPlateKept
CHECK_DEADLOCK FALSE
