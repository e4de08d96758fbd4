------------------------------ MODULE RideTrip ------------------------------
(***************************************************************************)
(* One trip, with every handler that touches it: the composition of the    *)
(* booking, payment, lifecycle and boarding services over the rows they    *)
(* share, and what the system promises about those rows.                   *)
(***************************************************************************)
EXTENDS BookingService, PaymentService, TripLifecycle, BoardingService

HandlerStep(p) ==
  /\ \/ BookingStep(p)
     \/ PaymentStep(p)
     \/ LifecycleStep(p)
     \/ BoardingStep(p)
  /\ UNCHANGED crashed

Step(p) == HandlerStep(p) \/ Fail(p)

Next == \E p \in Procs : Step(p)

Spec == Init /\ [][Next]_vars

---------------------------------------------------------------------------
(* The ride's seat counter and its active bookings, as the ledger that the   *)
(* transactions under the ride's row lock keep.                              *)
Ledger == INSTANCE SeatLedger WITH free <- availableSeats, holders <- Active

LedgerSpec == Ledger!LedgerSpec

HeldSeats == Ledger!Places(Active)

(* acceptRequest checks availableSeats under the ride's row lock "so two     *)
(* concurrent accepts can never both succeed": while the ride takes          *)
(* passengers or carries them, free seats and held seats are the seats it    *)
(* was created with.  Every give-back has to happen exactly once.            *)
SeatsConserved ==
  rideStatus \in {"DRAFT", "PUBLISHED", "STARTED", "COMPLETED"} =>
    availableSeats + Cardinality(HeldSeats) = TotalSeats

(* However many accepts, closings and releases run at once, the seats on     *)
(* offer and the seats taken never exceed those the ride was created with:   *)
(* two passengers are never promised the same seat (acceptRequest's header). *)
NeverOversold ==
  /\ availableSeats >= 0
  /\ availableSeats + Cardinality(HeldSeats) <= TotalSeats

(* A request and its booking tell the passenger the same thing, as the       *)
(* header of tripLifecycle.service.js has it: "seats, requests, bookings and *)
(* refunds always line up".                                                  *)
RequestMatchesBooking ==
  \A r \in Requests : r \in Active <=> requestStatus[r] = "ACCEPTED"

(* No seat stays booked and no request stays open on a ride that was         *)
(* cancelled or expired (closeRide).                                         *)
ClosedRideIsEmpty ==
  rideStatus \in {"CANCELLED", "EXPIRED"} =>
    \A r \in Requests :
      /\ bookingStatus[r] \in {"NONE", "CANCELLED"}
      /\ requestStatus[r] \notin {"REQUESTED", "ACCEPTED"}

(* The duplicate check of rideRequest.service.js create: a passenger has at  *)
(* most one open request on the ride.                                        *)
OneActiveRequest ==
  \A r, s \in Requests :
    /\ requestStatus[r] \in {"REQUESTED", "ACCEPTED"}
    /\ requestStatus[s] \in {"REQUESTED", "ACCEPTED"}
    /\ PassengerOf[r] = PassengerOf[s]
    => r = s

(* dropUnpaidBookings at start: "Passengers who were accepted but never paid *)
(* don't come along".  Once start has answered, without having died on the   *)
(* way, nobody on the ride owes money.                                       *)
NoUnpaidPassenger ==
  (rideStatus \in {"STARTED", "COMPLETED"} /\ ~crashed /\ \A p \in Procs : op[p] # "start")
    => \A r \in Requests : bookingStatus[r] # "PAYMENT_PENDING"

(* complete counts who is on board first, "so passengers aren't left         *)
(* mid-ride and the rider's payout isn't left held".                         *)
NobodyLeftOnBoard ==
  rideStatus = "COMPLETED" =>
    \A r \in Requests :
      bookingStatus[r] = "CONFIRMED" => boardingStatus[r] \notin {"BOARDED", "DROP_OTP_SENT"}

(* Nobody keeps a seat whose money went back: a refund is made only for a    *)
(* booking that was cancelled, and a payment that comes late "must never     *)
(* bring a released seat back" (applySuccess).                               *)
RefundedIsCancelled ==
  \A r \in Requests : paymentStatus[r] = "REFUNDED" => bookingStatus[r] = "CANCELLED"

(* A cancelled booking keeps nobody's money once every handler has answered  *)
(* (one that died may leave a refund undone: nothing records that it is      *)
(* due): closeRide, cancelBooking and applySuccess all refund what was paid, *)
(* and nothing else is refunded.                                             *)
RefundsSettled ==
  /\ RefundedIsCancelled
  /\ (~crashed /\ \A p \in Procs : Idle(p)) =>
       \A r \in Requests : bookingStatus[r] = "CANCELLED" =>
         /\ payment[r] # "SUCCESS"
         /\ paymentStatus[r] # "SUCCESS"
         /\ payoutStatus[r] # "HELD"

(* The rider's share leaves escrow exactly when the passenger confirms the   *)
(* drop (markDropped), and no refund takes it back from a dropped passenger. *)
PayoutFollowsDrop ==
  \A r \in Requests :
    /\ payoutStatus[r] = "RELEASED" => boardingStatus[r] = "DROPPED"
    /\ boardingStatus[r] = "DROPPED" => payoutStatus[r] \in {"NONE", "RELEASED"}

(* A seat that costs a tip is confirmed only by a payment that succeeded, in *)
(* every interleaving of accept, verify, webhook, drop and refund.  The      *)
(* money may have gone back since: RefundedIsCancelled is about that.        *)
ConfirmedWasPaid ==
  \A r \in Requests :
    bookingStatus[r] = "CONFIRMED" =>
      \/ paymentStatus[r] = "NOT_REQUIRED"
      \/ paymentStatus[r] \in {"SUCCESS", "REFUNDED"} /\ payment[r] # "NONE"

(* sendOtp refuses a passenger who "hasn't completed payment yet": whoever   *)
(* was sent a code, is on board or was dropped has a booking that was        *)
(* confirmed, and has paid if it costs anything.                             *)
BoardedHasPaid ==
  \A r \in Requests :
    boardingStatus[r] # "NOT_BOARDED" =>
      /\ bookingStatus[r] \in {"CONFIRMED", "CANCELLED"}
      /\ paymentStatus[r] # "PENDING"

(* applySuccess and refundPayment write the payment and its booking in one   *)
(* transaction, so the two ledgers agree whatever runs between their reads   *)
(* and writes.  A FAILED payment may belong to a booking in any state.       *)
LedgersAgree ==
  \A r \in Requests :
    /\ payment[r] \in {"NONE", "PENDING"} => paymentStatus[r] \in {"NOT_REQUIRED", "PENDING"}
    /\ payment[r] = "PENDING" => paymentStatus[r] = "PENDING"
    /\ payment[r] = "SUCCESS" => paymentStatus[r] = "SUCCESS"
    /\ payment[r] = "REFUNDED" => paymentStatus[r] = "REFUNDED"
    /\ payoutStatus[r] # "NONE" => paymentStatus[r] \in {"SUCCESS", "REFUNDED"}

(* The rider is paid only for a ride someone took and paid for: a share that *)
(* was released belongs to a passenger who was sent a code on the way.       *)
ReleasedWasBoarded ==
  \A r \in Requests :
    payoutStatus[r] = "RELEASED" =>
      /\ boardingStatus[r] # "NOT_BOARDED"
      /\ paymentStatus[r] \in {"SUCCESS", "REFUNDED"}

---------------------------------------------------------------------------
(* Action properties.                                                        *)

RideMoves ==
  rideStatus' # rideStatus => Allows(RideTransitions, rideStatus, rideStatus')

BookingMoves ==
  \A r \in Requests :
    bookingStatus'[r] # bookingStatus[r] =>
      \/ bookingStatus[r] = "NONE"
      \/ Allows(BookingTransitions, bookingStatus[r], bookingStatus'[r])

(* What is written follows stateMachine.js: the machines are asserted on a   *)
(* read of the row, never on the write itself.                               *)
FollowsStateMachines == [][RideMoves /\ BookingMoves]_vars

(* A payment row exists; a booking costs a tip; a booking has been confirmed *)
(* and owes nothing.                                                         *)
HasPayment(r) == payment[r] # "NONE"

CanOwe(r) == bookingStatus[r] # "NONE" /\ paymentStatus[r] # "NOT_REQUIRED"

MayBoard(r) == bookingStatus[r] \in {"CONFIRMED", "CANCELLED"} /\ paymentStatus[r] # "PENDING"

Irrevocable ==
  \A r \in Requests :
    /\ HasPayment(r) => HasPayment(r)'
    /\ CanOwe(r) => CanOwe(r)'
    /\ MayBoard(r) => MayBoard(r)'

(* What createOrder, verifyPayment, sendOtp and verifyOtp find on reads they *)
(* neither lock nor repeat is never undone: a payment stays on record, a     *)
(* booking does not become free of charge, and one that was confirmed and    *)
(* owes nothing does not owe again.  What else they read may have changed:   *)
(* whether the seat is still booked, and whether its money went back.        *)
MoneyIsIrrevocable == [][Irrevocable]_vars

(* "a duplicate delivery of the same event can never create two successful   *)
(* payments" (handleWebhook): a payment that was refunded does not become a  *)
(* success again.                                                            *)
NoSecondSuccess ==
  [][\A r \in Requests : payment[r] = "REFUNDED" => payment'[r] # "SUCCESS"]_vars

(* "a late payment must never bring a released seat back" (applySuccess).    *)
CancelledStaysCancelled ==
  [][\A r \in Requests : bookingStatus[r] = "CANCELLED" => bookingStatus'[r] = "CANCELLED"]_vars

(* Boarding only goes forward: NOT_BOARDED, OTP_SENT, BOARDED,               *)
(* DROP_OTP_SENT, DROPPED.                                                   *)
BoardingRank ==
  [NOT_BOARDED |-> 0, OTP_SENT |-> 1, BOARDED |-> 2, DROP_OTP_SENT |-> 3, DROPPED |-> 4]

BoardingForward ==
  [][\A r \in Requests :
       BoardingRank[boardingStatus'[r]] >= BoardingRank[boardingStatus[r]]]_vars

---------------------------------------------------------------------------
(* Liveness.  A handler in flight goes on: Node resumes it when its query    *)
(* answers, and PostgreSQL hands a released row lock to those queued for it, *)
(* so a step that is enabled again and again is taken.  Nothing obliges a    *)
(* user to call an operation, or the timer to find anything overdue.         *)
Continue(p) == ~Idle(p) /\ HandlerStep(p)

FairSpec == Spec /\ \A p \in Procs : SF_vars(Continue(p))

(* Every handler answers: neither the ride's row lock nor a payment's keeps  *)
(* one waiting for ever, and the refund and release loops end.               *)
HandlersAnswer == \A p \in Procs : ~Idle(p) ~> Idle(p)
===========================================================================
