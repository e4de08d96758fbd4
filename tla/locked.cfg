SPECIFICATION Spec
CONSTANTS
  r1 = r1
  r2 = r2
  r3 = r3
  alice = alice
  bob = bob
  Requests = {r1, r2}
  Passengers = {alice, bob}
  PassengerOf <- AliceAndBob
  SeatsRequested <- OneTwoSeats
  TotalSeats = 2
  Procs = {p1, p2, p3}
  Ops <- LockedOps
  MayFail = FALSE
  SeatBound = 2
  NoProc = NoProc
  NoRequest = NoRequest
INVARIANTS
  NeverOversold
PROPERTIES
  LedgerSpec
