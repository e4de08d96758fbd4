----------------------------- MODULE TripStore -----------------------------
(***************************************************************************)
(* What the handlers of one trip share: the database rows of a ride, its   *)
(* requests, their bookings and payments; the two row locks that are held  *)
(* across statements; and, for every handler in flight, where it is and    *)
(* what it remembers from rows it has already read.                        *)
(*                                                                         *)
(* A step of a handler is one SQL statement or one transaction body, which *)
(* is what READ COMMITTED makes atomic: a plain read sees the last commit, *)
(* a transaction's writes become visible together when it commits.  A      *)
(* transaction that reads a row it does not lock takes two steps, and      *)
(* keeps the lock it does hold between them.                               *)
(*                                                                         *)
(* A booking is keyed by its request: bookings.ride_request_id is UNIQUE.  *)
(* A payment is keyed the same way: its idempotency key is the booking id. *)
(***************************************************************************)
EXTENDS Integers, FiniteSets, StateMachine

CONSTANTS
  Requests,        \* the ride requests passengers may send
  Passengers,      \* the passengers who send them
  PassengerOf,     \* the passenger of each request
  SeatsRequested,  \* the seats each request asks for
  TotalSeats,      \* the seats the ride is created with
  Procs,           \* the handlers that can be in flight at once
  Ops,             \* the operations that are invoked
  MayFail,         \* whether a handler can die between two of its steps
  SeatBound,       \* bound: no cancellation starts above this many free seats
  NoProc,          \* owner of a free row lock
  NoRequest        \* subject of a handler that works on no request

ASSUME RequestsAssumption ==
  /\ PassengerOf \in [Requests -> Passengers]
  /\ SeatsRequested \in [Requests -> Nat \ {0}]
  /\ TotalSeats \in Nat \ {0}
  /\ SeatBound \in Nat
  /\ MayFail \in BOOLEAN

ASSUME NamesAssumption ==
  /\ NoProc \notin Procs
  /\ NoRequest \notin Requests

VARIABLES
  rideStatus,      \* rides.status
  availableSeats,  \* rides.available_seats
  requestStatus,   \* ride_requests.status, "NONE" before the row is inserted
  bookingStatus,   \* bookings.booking_status, "NONE" before the row is inserted
  paymentStatus,   \* bookings.payment_status
  payoutStatus,    \* bookings.rider_payout_status
  boardingStatus,  \* bookings.boarding_status
  storedOtp,       \* the stage bookings.pickup_otp_hash is for, "NONE" if NULL
  payment,         \* payments.status, "NONE" before the row is inserted
  rideLock,        \* the handler whose transaction holds the ride row
  paymentLock,     \* the handler whose transaction holds each payment row
  op,              \* the operation each handler runs
  pc,              \* its next step
  on,              \* the request or booking it is working on
  todo,            \* the bookings it has read and still has to deal with
  crashed          \* history: a handler has died

rideVars    == <<rideStatus, availableSeats>>
otpVars     == <<boardingStatus, storedOtp>>
bookingVars == <<bookingStatus, paymentStatus, payoutStatus, boardingStatus, storedOtp>>
rows        == <<rideStatus, availableSeats, requestStatus, bookingStatus, paymentStatus,
                 payoutStatus, boardingStatus, storedOtp, payment>>
locks       == <<rideLock, paymentLock>>
procVars    == <<op, pc, on, todo>>
vars        == <<rideStatus, availableSeats, requestStatus, bookingStatus, paymentStatus,
                 payoutStatus, boardingStatus, storedOtp, payment, rideLock, paymentLock,
                 op, pc, on, todo, crashed>>

---------------------------------------------------------------------------
(* Rows.                                                                   *)

Active == {r \in Requests : bookingStatus[r] \in {"PAYMENT_PENDING", "CONFIRMED"}}

(* Fault: the requests nobody has answered are forgotten ...                 *)
ForgetsWaiting == {r \in Requests : requestStatus[r] = "ACCEPTED"}

(* ... or the accepted ones are.                                             *)
ForgetsAccepted == {r \in Requests : requestStatus[r] = "REQUESTED"}

ActiveRequests == {r \in Requests : requestStatus[r] \in {"REQUESTED", "ACCEPTED"}}

(* Fault: a passenger with a drop-off code counts as dropped.                *)
OnBoardFault ==
  {r \in Requests : bookingStatus[r] = "CONFIRMED" /\ boardingStatus[r] = "BOARDED"}

OnBoard ==
  {r \in Requests : /\ bookingStatus[r] = "CONFIRMED"
                    /\ boardingStatus[r] \in {"BOARDED", "DROP_OTP_SENT"}}

(* The write set shared by every way a single seat is given back: the        *)
(* booking and its request are cancelled and the seats return to the ride.   *)
ReleaseSeats(r) ==
  /\ bookingStatus' = [bookingStatus EXCEPT ![r] = "CANCELLED"]
  /\ availableSeats' = availableSeats + SeatsRequested[r]
  /\ requestStatus' = [requestStatus EXCEPT ![r] = "CANCELLED"]

---------------------------------------------------------------------------
(* Handlers.                                                               *)

OpNames ==
  {"none", "createRequest", "acceptRequest", "rejectRequest", "cancelRequest",
   "cancelBooking", "publish", "cancelRide", "start", "complete", "sweep",
   "createOrder", "verifyPayment", "webhook",
   "sendPickupOtp", "sendDropOtp", "verifyPickupOtp", "verifyDropOtp"}

Steps ==
  {"idle", "findDuplicate", "insertRequest", "acceptTx", "rejectWrite",
   "withdrawFind", "withdrawWrite", "cancelRead", "cancelTx",
   "publishWrite", "startWrite", "startFind", "completeCount", "completeWrite",
   "closeLock", "closeWrite", "sweepFind", "dropLock", "dropWrite",
   "refundRead", "refundTx", "refundHeld", "refundPlain",
   "insertOrder", "settleTx", "settleConfirm", "settleLate", "failWrite",
   "otpSave", "otpCompare", "otpMark"}

Idle(p) == pc[p] = "idle"

(* A request comes in, or the timer fires: handler p starts operation o.     *)
Begin(p, o, r, step) ==
  /\ Idle(p)
  /\ o \in Ops
  /\ op' = [op EXCEPT ![p] = o]
  /\ pc' = [pc EXCEPT ![p] = step]
  /\ on' = [on EXCEPT ![p] = r]

At(p, step) == pc[p] = step

Goto(p, step) ==
  /\ pc' = [pc EXCEPT ![p] = step]
  /\ UNCHANGED <<op, on, todo>>

(* The handler answers its caller, successfully or with an error, and        *)
(* forgets what it read.                                                     *)
Return(p) ==
  /\ op' = [op EXCEPT ![p] = "none"]
  /\ pc' = [pc EXCEPT ![p] = "idle"]
  /\ on' = [on EXCEPT ![p] = NoRequest]
  /\ todo' = [todo EXCEPT ![p] = {}]

RideUnlocked == rideLock = NoProc

PaymentUnlocked(r) == paymentLock[r] = NoProc

Init ==
  /\ rideStatus = "DRAFT"
  /\ availableSeats = TotalSeats
  /\ requestStatus = [r \in Requests |-> "NONE"]
  /\ bookingStatus = [r \in Requests |-> "NONE"]
  /\ paymentStatus = [r \in Requests |-> "NOT_REQUIRED"]
  /\ payoutStatus = [r \in Requests |-> "NONE"]
  /\ boardingStatus = [r \in Requests |-> "NOT_BOARDED"]
  /\ storedOtp = [r \in Requests |-> "NONE"]
  /\ payment = [r \in Requests |-> "NONE"]
  /\ rideLock = NoProc
  /\ paymentLock = [r \in Requests |-> NoProc]
  /\ op = [p \in Procs |-> "none"]
  /\ pc = [p \in Procs |-> "idle"]
  /\ on = [p \in Procs |-> NoRequest]
  /\ todo = [p \in Procs |-> {}]
  /\ crashed = FALSE

(* The server process, its database connection or a deadlock victim's        *)
(* transaction dies between two steps: what it committed stays, an open      *)
(* transaction rolls back and its locks are freed, the rest never happens.   *)
Fail(p) ==
  /\ MayFail
  /\ ~Idle(p)
  /\ crashed' = TRUE
  /\ Return(p)
  /\ rideLock' = IF rideLock = p THEN NoProc ELSE rideLock
  /\ paymentLock' = [r \in Requests |-> IF paymentLock[r] = p THEN NoProc ELSE paymentLock[r]]
  /\ UNCHANGED rows

---------------------------------------------------------------------------
RowsTypeOK ==
  /\ rideStatus \in RideStatus
  /\ availableSeats \in Nat
  /\ requestStatus \in [Requests -> RequestStatus \cup {"NONE"}]
  /\ bookingStatus \in [Requests -> BookingStatus \cup {"NONE"}]
  /\ paymentStatus \in [Requests -> {"NOT_REQUIRED", "PENDING", "SUCCESS", "REFUNDED"}]
  /\ payoutStatus \in [Requests -> {"NONE", "HELD", "RELEASED", "REFUNDED"}]
  /\ boardingStatus \in [Requests -> {"NOT_BOARDED", "OTP_SENT", "BOARDED",
                                      "DROP_OTP_SENT", "DROPPED"}]
  /\ storedOtp \in [Requests -> {"NONE", "PICKUP", "DROP"}]
  /\ payment \in [Requests -> {"NONE", "PENDING", "SUCCESS", "FAILED", "REFUNDED"}]

LocksTypeOK ==
  /\ rideLock \in Procs \cup {NoProc}
  /\ paymentLock \in [Requests -> Procs \cup {NoProc}]

HandlersTypeOK ==
  /\ op \in [Procs -> OpNames]
  /\ pc \in [Procs -> Steps]
  /\ on \in [Procs -> Requests \cup {NoRequest}]
  /\ todo \in [Procs -> SUBSET Requests]
  /\ crashed \in BOOLEAN

TypeOK == RowsTypeOK /\ LocksTypeOK /\ HandlersTypeOK

(* The steps of a handler that works on one request; at the others it works  *)
(* on the ride, or on the bookings in todo.                                  *)
RequestSteps ==
  {"findDuplicate", "insertRequest", "acceptTx", "rejectWrite",
   "withdrawFind", "withdrawWrite", "cancelRead", "cancelTx", "dropWrite",
   "refundTx", "refundHeld", "refundPlain",
   "insertOrder", "settleTx", "settleConfirm", "settleLate", "failWrite",
   "otpSave", "otpCompare", "otpMark"}

(* No handler loses sight of the request it is to write: between its reads   *)
(* and its writes, over loops and nested calls, it has one in hand.          *)
KnowsRequest == \A p \in Procs : pc[p] \in RequestSteps => on[p] \in Requests
===========================================================================
