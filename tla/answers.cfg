SPECIFICATION FairSpec
CONSTANTS
  r1 = r1
  r2 = r2
  r3 = r3
  alice = alice
  bob = bob
  Requests = {r1}
  Passengers = {alice, bob}
  PassengerOf <- Alice
  SeatsRequested <- OneSeat
  TotalSeats = 1
  Procs = {p1, p2}
  Ops = {"createRequest", "acceptRequest", "publish", "sweep", "start", "cancelRide", "cancelBooking", "createOrder", "verifyPayment", "webhook"}
  MayFail = FALSE
  SeatBound = 2
  NoProc = NoProc
  NoRequest = NoRequest
PROPERTIES
  HandlersAnswer
