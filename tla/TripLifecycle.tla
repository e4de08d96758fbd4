--------------------------- MODULE TripLifecycle ---------------------------
(***************************************************************************)
(* The rider's operations on the ride itself (ride.service.js publish,     *)
(* cancel, start, complete) and the clean-up they share with the timer     *)
(* (tripLifecycle.service.js).  publish, start and complete write the      *)
(* ride's status with an unconditional UPDATE after an unlocked check;     *)
(* closeRide and dropUnpaidBookings check again under the ride's row lock. *)
(***************************************************************************)
EXTENDS TripStore

PublishRead(p) ==
  /\ Allows(RideTransitions, rideStatus, "PUBLISHED")
  /\ Begin(p, "publish", NoRequest, "publishWrite")
  /\ UNCHANGED <<rows, locks, todo>>

(* rideRepository.update: waits for the ride row, then sets the status.      *)
SetRideStatus(s) ==
  /\ RideUnlocked
  /\ rideStatus' = s
  /\ UNCHANGED <<availableSeats, requestStatus, bookingVars, payment, locks>>

PublishWrite(p) ==
  /\ At(p, "publishWrite")
  /\ SetRideStatus("PUBLISHED")
  /\ Return(p)

(* The rider's licence or vehicle is no longer verified.                     *)
PublishRefused(p) ==
  /\ At(p, "publishWrite")
  /\ Return(p)
  /\ UNCHANGED <<rows, locks>>

(* Fault: a draft can be started.                                            *)
StartReadFault(p) ==
  /\ rideStatus \in {"DRAFT", "PUBLISHED"}
  /\ Begin(p, "start", NoRequest, "startWrite")
  /\ UNCHANGED <<rows, locks, todo>>

StartRead(p) ==
  /\ Allows(RideTransitions, rideStatus, "STARTED")
  /\ Begin(p, "start", NoRequest, "startWrite")
  /\ UNCHANGED <<rows, locks, todo>>

StartWrite(p) ==
  /\ At(p, "startWrite")
  /\ SetRideStatus("STARTED")
  /\ Goto(p, "startFind")

(* Fault: only bookings with an order count as unpaid.                       *)
UnpaidFault == {r \in Requests : bookingStatus[r] = "PAYMENT_PENDING" /\ payment[r] = "PENDING"}

Unpaid == {r \in Requests : bookingStatus[r] = "PAYMENT_PENDING"}

(* Go on to drop these bookings one by one, if there are any.                *)
DropAll(p, bookings) ==
  IF bookings = {}
  THEN Return(p)
  ELSE /\ pc' = [pc EXCEPT ![p] = "dropLock"]
       /\ todo' = [todo EXCEPT ![p] = bookings]
       /\ on' = [on EXCEPT ![p] = NoRequest]
       /\ UNCHANGED op

StartFind(p) ==
  /\ At(p, "startFind")
  /\ DropAll(p, Unpaid)
  /\ UNCHANGED <<rows, locks>>

CompleteRead(p) ==
  /\ Allows(RideTransitions, rideStatus, "COMPLETED")
  /\ Begin(p, "complete", NoRequest, "completeCount")
  /\ UNCHANGED <<rows, locks, todo>>

CompleteCount(p) ==
  /\ At(p, "completeCount")
  /\ IF OnBoard = {} THEN Goto(p, "completeWrite") ELSE Return(p)
  /\ UNCHANGED <<rows, locks>>

CompleteWrite(p) ==
  /\ At(p, "completeWrite")
  /\ SetRideStatus("COMPLETED")
  /\ Return(p)

---------------------------------------------------------------------------
(* closeRide, for the rider's cancel and for the sweep's expiry.             *)

CancelRideRead(p) ==
  /\ Allows(RideTransitions, rideStatus, "CANCELLED")
  /\ Begin(p, "cancelRide", NoRequest, "closeLock")
  /\ UNCHANGED <<rows, locks, todo>>

ClosedStatus(p) == IF op[p] = "sweep" THEN "EXPIRED" ELSE "CANCELLED"

(* The transaction locks the ride and reads its active bookings; those it    *)
(* finds paid are the ones it will refund.                                   *)
CloseLock(p) ==
  /\ At(p, "closeLock")
  /\ RideUnlocked
  /\ rideStatus \in {"DRAFT", "PUBLISHED"}
  /\ rideLock' = p
  /\ todo' = [todo EXCEPT ![p] = {r \in Active : paymentStatus[r] = "SUCCESS"}]
  /\ pc' = [pc EXCEPT ![p] = "closeWrite"]
  /\ UNCHANGED <<op, on, rows, paymentLock>>

(* closeRide returns null: the sweep goes on, the rider's cancel is refused. *)
CloseRefused(p) ==
  /\ At(p, "closeLock")
  /\ RideUnlocked
  /\ rideStatus \notin {"DRAFT", "PUBLISHED"}
  /\ IF op[p] = "sweep" THEN Goto(p, "sweepFind") ELSE Return(p)
  /\ UNCHANGED <<rows, locks>>

(* Every booking active by now is cancelled and every open request closed;   *)
(* the seats are not given back, nobody can take them.                       *)
CloseWrite(p) ==
  /\ At(p, "closeWrite")
  /\ rideStatus' = ClosedStatus(p)
  /\ bookingStatus' = [r \in Requests |-> IF r \in Active THEN "CANCELLED" ELSE bookingStatus[r]]
  /\ requestStatus' = [r \in Requests |->
                         IF r \in ActiveRequests THEN ClosedStatus(p) ELSE requestStatus[r]]
  /\ rideLock' = NoProc
  /\ IF todo[p] # {} THEN Goto(p, "refundRead")
     ELSE IF op[p] = "sweep" THEN Goto(p, "sweepFind")
     ELSE Return(p)
  /\ UNCHANGED <<availableSeats, paymentStatus, payoutStatus, otpVars, payment, paymentLock>>

---------------------------------------------------------------------------
(* dropUnpaidBookings, for start and for the sweep, one transaction per      *)
(* booking: lock the ride, read the booking, release it if still unpaid.     *)

NextDrop(p) ==
  IF todo[p] = {} THEN Return(p)
  ELSE /\ pc' = [pc EXCEPT ![p] = "dropLock"]
       /\ on' = [on EXCEPT ![p] = NoRequest]
       /\ UNCHANGED <<op, todo>>

(* Fault: the booking is not read again under the lock.                      *)
StillUnpaidFault(r) == TRUE

StillUnpaid(r) == bookingStatus[r] = "PAYMENT_PENDING"

DropLock(p, r) ==
  /\ At(p, "dropLock")
  /\ r \in todo[p]
  /\ RideUnlocked
  /\ StillUnpaid(r)
  /\ rideLock' = p
  /\ pc' = [pc EXCEPT ![p] = "dropWrite"]
  /\ on' = [on EXCEPT ![p] = r]
  /\ todo' = [todo EXCEPT ![p] = @ \ {r}]
  /\ UNCHANGED <<op, rows, paymentLock>>

DropSkip(p, r) ==
  /\ At(p, "dropLock")
  /\ r \in todo[p]
  /\ RideUnlocked
  /\ ~StillUnpaid(r)
  /\ DropAll(p, todo[p] \ {r})
  /\ UNCHANGED <<rows, locks>>

(* Fault: the transaction is never committed.                                *)
DropWriteFault(p) ==
  /\ At(p, "dropWrite")
  /\ ReleaseSeats(on[p])
  /\ NextDrop(p)
  /\ UNCHANGED <<rideStatus, paymentStatus, payoutStatus, otpVars, payment, locks>>

DropWrite(p) ==
  /\ At(p, "dropWrite")
  /\ ReleaseSeats(on[p])
  /\ rideLock' = NoProc
  /\ NextDrop(p)
  /\ UNCHANGED <<rideStatus, paymentStatus, payoutStatus, otpVars, payment, paymentLock>>

---------------------------------------------------------------------------
(* sweep.  Departure times and payment deadlines are not modelled: the ride  *)
(* may or may not be overdue, and so may each unpaid booking.                *)

SweepOverdue(p) ==
  /\ rideStatus \in {"DRAFT", "PUBLISHED"}
  /\ Begin(p, "sweep", NoRequest, "closeLock")
  /\ UNCHANGED <<rows, locks, todo>>

SweepNotOverdue(p) ==
  /\ Begin(p, "sweep", NoRequest, "sweepFind")
  /\ UNCHANGED <<rows, locks, todo>>

PastDeadline == IF rideStatus = "PUBLISHED" THEN Unpaid ELSE {}

SweepFind(p, overdue) ==
  /\ At(p, "sweepFind")
  /\ DropAll(p, overdue)
  /\ UNCHANGED <<rows, locks>>

LifecycleStep(p) ==
  \/ PublishRead(p)
  \/ PublishWrite(p)
  \/ PublishRefused(p)
  \/ StartRead(p)
  \/ StartWrite(p)
  \/ StartFind(p)
  \/ CompleteRead(p)
  \/ CompleteCount(p)
  \/ CompleteWrite(p)
  \/ CancelRideRead(p)
  \/ CloseLock(p)
  \/ CloseRefused(p)
  \/ CloseWrite(p)
  \/ \E r \in Requests : DropLock(p, r) \/ DropSkip(p, r)
  \/ DropWrite(p)
  \/ SweepOverdue(p)
  \/ SweepNotOverdue(p)
  \/ \E overdue \in SUBSET PastDeadline : SweepFind(p, overdue)
===========================================================================
