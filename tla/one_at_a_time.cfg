SPECIFICATION Spec
CONSTANTS
  r1 = r1
  r2 = r2
  r3 = r3
  alice = alice
  bob = bob
  Requests = {r1, r2, r3}
  Passengers = {alice, bob}
  PassengerOf <- AliceTwiceAndBob
  SeatsRequested <- OneOneTwoSeats
  TotalSeats = 2
  Procs = {p1}
  Ops <- AllOps
  MayFail = TRUE
  SeatBound = 4
  NoProc = NoProc
  NoRequest = NoRequest
INVARIANTS
  TypeOK
  SeatsConserved
  RequestMatchesBooking
  ClosedRideIsEmpty
  OneActiveRequest
  NobodyLeftOnBoard
  PayoutFollowsDrop
  NoUnpaidPassenger
  RefundsSettled
PROPERTIES
  FollowsStateMachines
  BoardingForward
