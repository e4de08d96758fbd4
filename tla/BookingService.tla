--------------------------- MODULE BookingService ---------------------------
(***************************************************************************)
(* Asking for a seat, answering the request, and giving the seat back      *)
(* (rideRequest.service.js create, booking.service.js).  Only acceptTx     *)
(* and cancelTx are transactions; every other write is a single statement  *)
(* that does not look again at what an earlier statement read.             *)
(***************************************************************************)
EXTENDS TripStore

(* create: the ride is read; the duplicate check and the insert come later.  *)
(* A request of the model is sent at most once.                              *)
RequestRead(p, r) ==
  /\ requestStatus[r] = "NONE"
  /\ \A q \in Procs : ~(op[q] = "createRequest" /\ on[q] = r)
  /\ rideStatus = "PUBLISHED"
  /\ SeatsRequested[r] <= availableSeats
  /\ Begin(p, "createRequest", r, "findDuplicate")
  /\ UNCHANGED <<rows, locks, todo>>

(* Fault: an accepted request no longer counts as active.                    *)
HasActiveRequestFault(passenger) ==
  \E s \in ActiveRequests : PassengerOf[s] = passenger /\ requestStatus[s] = "REQUESTED"

HasActiveRequest(passenger) ==
  \E s \in ActiveRequests : PassengerOf[s] = passenger

FindDuplicate(p) ==
  /\ At(p, "findDuplicate")
  /\ IF HasActiveRequest(PassengerOf[on[p]])
     THEN Return(p)
     ELSE Goto(p, "insertRequest")
  /\ UNCHANGED <<rows, locks>>

(* The foreign key check of the insert waits for a FOR UPDATE of the ride.   *)
RequestInsert(p) ==
  /\ At(p, "insertRequest")
  /\ RideUnlocked
  /\ requestStatus' = [requestStatus EXCEPT ![on[p]] = "REQUESTED"]
  /\ Return(p)
  /\ UNCHANGED <<rideVars, bookingVars, payment, locks>>

(* The pickup is too far from the route to join.                             *)
RequestTooFar(p) ==
  /\ At(p, "insertRequest")
  /\ Return(p)
  /\ UNCHANGED <<rows, locks>>

(* acceptRequest: the request's status is checked on an unlocked read.       *)
AcceptRead(p, r) ==
  /\ Allows(RequestTransitions, requestStatus[r], "ACCEPTED")
  /\ Begin(p, "acceptRequest", r, "acceptTx")
  /\ UNCHANGED <<rows, locks, todo>>

(* Fault: the locked seat count is not compared again.                       *)
CanReserveFault(r) == rideStatus = "PUBLISHED" /\ bookingStatus[r] = "NONE"

(* Fault: a request may be booked again.                                     *)
BooksAgain(r) == rideStatus = "PUBLISHED" /\ SeatsRequested[r] <= availableSeats

(* bookings.ride_request_id is UNIQUE: a second insert rolls back.           *)
CanReserve(r) ==
  /\ rideStatus = "PUBLISHED"
  /\ SeatsRequested[r] <= availableSeats
  /\ bookingStatus[r] = "NONE"

(* Fault: every booking is confirmed as it is made.                          *)
NewBookingStatusFault(paid) == "CONFIRMED"

NewBookingStatus(paid) == IF paid THEN "PAYMENT_PENDING" ELSE "CONFIRMED"

(* The transaction that holds the ride row FOR UPDATE from its first         *)
(* statement to its commit, and reads no other row.  paid: the ride's tip as *)
(* the rider last edited it, plus the detour's, is more than zero.           *)
Reserve(p, paid) ==
  /\ At(p, "acceptTx")
  /\ RideUnlocked
  /\ CanReserve(on[p])
  /\ availableSeats' = availableSeats - SeatsRequested[on[p]]
  /\ bookingStatus' = [bookingStatus EXCEPT ![on[p]] = NewBookingStatus(paid)]
  /\ paymentStatus' = [paymentStatus EXCEPT ![on[p]] =
                         IF paid THEN "PENDING" ELSE "NOT_REQUIRED"]
  /\ requestStatus' = [requestStatus EXCEPT ![on[p]] = "ACCEPTED"]
  /\ Return(p)
  /\ UNCHANGED <<rideStatus, payoutStatus, otpVars, payment, locks>>

AcceptRefused(p) ==
  /\ At(p, "acceptTx")
  /\ RideUnlocked
  /\ ~CanReserve(on[p])
  /\ Return(p)
  /\ UNCHANGED <<rows, locks>>

RejectRead(p, r) ==
  /\ Allows(RequestTransitions, requestStatus[r], "REJECTED")
  /\ Begin(p, "rejectRequest", r, "rejectWrite")
  /\ UNCHANGED <<rows, locks, todo>>

RejectWrite(p) ==
  /\ At(p, "rejectWrite")
  /\ requestStatus' = [requestStatus EXCEPT ![on[p]] = "REJECTED"]
  /\ Return(p)
  /\ UNCHANGED <<rideVars, bookingVars, payment, locks>>

(* cancelRequest: an accepted request is withdrawn by cancelling its booking.*)
WithdrawRead(p, r) ==
  /\ availableSeats <= SeatBound
  /\ Allows(RequestTransitions, requestStatus[r], "CANCELLED")
  /\ Begin(p, "cancelRequest", r,
           IF requestStatus[r] = "ACCEPTED" THEN "withdrawFind" ELSE "withdrawWrite")
  /\ UNCHANGED <<rows, locks, todo>>

WithdrawFind(p) ==
  /\ At(p, "withdrawFind")
  /\ Goto(p, IF on[p] \in Active THEN "cancelRead" ELSE "withdrawWrite")
  /\ UNCHANGED <<rows, locks>>

WithdrawWrite(p) ==
  /\ At(p, "withdrawWrite")
  /\ requestStatus' = [requestStatus EXCEPT ![on[p]] = "CANCELLED"]
  /\ Return(p)
  /\ UNCHANGED <<rideVars, bookingVars, payment, locks>>

(* Fault: a booking may be cancelled whatever its status.                    *)
MayCancelFault(r) == rideStatus \notin {"STARTED", "COMPLETED"} /\ bookingStatus[r] # "NONE"

(* cancelBooking, called by its route or by cancelRequest.  Whether there is *)
(* money to refund is decided by this read, before the transaction.          *)
MayCancel(r) ==
  /\ rideStatus \notin {"STARTED", "COMPLETED"}
  /\ Allows(BookingTransitions, bookingStatus[r], "CANCELLED")

(* Fault: a booking whose rider share is held is taken for unpaid.           *)
ToRefundFault(r) == IF paymentStatus[r] = "SUCCESS" /\ payoutStatus[r] = "NONE" THEN {r} ELSE {}

ToRefund(r) == IF paymentStatus[r] = "SUCCESS" THEN {r} ELSE {}

CancelRead(p, r) ==
  /\ availableSeats <= SeatBound
  /\ MayCancel(r)
  /\ Begin(p, "cancelBooking", r, "cancelTx")
  /\ todo' = [todo EXCEPT ![p] = ToRefund(r)]
  /\ UNCHANGED <<rows, locks>>

WithdrawCancelRead(p) ==
  /\ At(p, "cancelRead")
  /\ IF MayCancel(on[p])
     THEN /\ pc' = [pc EXCEPT ![p] = "cancelTx"]
          /\ todo' = [todo EXCEPT ![p] = ToRefund(on[p])]
          /\ UNCHANGED <<op, on>>
     ELSE Return(p)
  /\ UNCHANGED <<rows, locks>>

(* The transaction re-checks nothing; its seat update waits for the ride row.*)
CancelTx(p) ==
  /\ At(p, "cancelTx")
  /\ RideUnlocked
  /\ ReleaseSeats(on[p])
  /\ IF todo[p] = {} THEN Return(p) ELSE Goto(p, "refundRead")
  /\ UNCHANGED <<rideStatus, paymentStatus, payoutStatus, otpVars, payment, locks>>

BookingStep(p) ==
  \/ \E r \in Requests : \/ RequestRead(p, r)
                         \/ AcceptRead(p, r)
                         \/ RejectRead(p, r)
                         \/ WithdrawRead(p, r)
                         \/ CancelRead(p, r)
  \/ FindDuplicate(p)
  \/ RequestInsert(p)
  \/ RequestTooFar(p)
  \/ \E paid \in BOOLEAN : Reserve(p, paid)
  \/ AcceptRefused(p)
  \/ RejectWrite(p)
  \/ WithdrawFind(p)
  \/ WithdrawWrite(p)
  \/ WithdrawCancelRead(p)
  \/ CancelTx(p)
===========================================================================
