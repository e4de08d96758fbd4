-------------------------- MODULE BoardingService --------------------------
(***************************************************************************)
(* Pickup and drop-off (boarding.service.js): the rider sends a one-time   *)
(* code for the stage, the passenger enters it.  Here a code is only the   *)
(* stage it was made for; its attempts, expiry and resend wait are time    *)
(* and counting that do not reach the trip.                                *)
(***************************************************************************)
EXTENDS TripStore

(* Fault: a drop-off code can be sent again after the drop.                  *)
FromFault(stage) ==
  IF stage = "PICKUP" THEN {"NOT_BOARDED", "OTP_SENT"} ELSE {"BOARDED", "DROP_OTP_SENT", "DROPPED"}

From(stage) ==
  IF stage = "PICKUP" THEN {"NOT_BOARDED", "OTP_SENT"} ELSE {"BOARDED", "DROP_OTP_SENT"}

Sent(stage) == IF stage = "PICKUP" THEN "OTP_SENT" ELSE "DROP_OTP_SENT"

SendOp(stage) == IF stage = "PICKUP" THEN "sendPickupOtp" ELSE "sendDropOtp"

VerifyOp(stage) == IF stage = "PICKUP" THEN "verifyPickupOtp" ELSE "verifyDropOtp"

Stage(p) == IF op[p] \in {"sendPickupOtp", "verifyPickupOtp"} THEN "PICKUP" ELSE "DROP"

(* Fault: a booking that is not paid yet is not refused.                     *)
OtpReadFault(p, r, stage) ==
  /\ bookingStatus[r] \notin {"NONE", "CANCELLED"}
  /\ rideStatus = "STARTED"
  /\ boardingStatus[r] \in From(stage)
  /\ Begin(p, SendOp(stage), r, "otpSave")
  /\ UNCHANGED <<rows, locks, todo>>

(* sendOtp: one joined read of the booking and its ride ...                  *)
OtpRead(p, r, stage) ==
  /\ bookingStatus[r] = "CONFIRMED"
  /\ rideStatus = "STARTED"
  /\ boardingStatus[r] \in From(stage)
  /\ Begin(p, SendOp(stage), r, "otpSave")
  /\ UNCHANGED <<rows, locks, todo>>

(* ... and an unconditional write.                                           *)
OtpSave(p) ==
  /\ At(p, "otpSave")
  /\ boardingStatus' = [boardingStatus EXCEPT ![on[p]] = Sent(Stage(p))]
  /\ storedOtp' = [storedOtp EXCEPT ![on[p]] = Stage(p)]
  /\ Return(p)
  /\ UNCHANGED <<rideVars, requestStatus, bookingStatus, paymentStatus, payoutStatus, payment, locks>>

(* verifyOtp: the booking is read, then the stored code, then the row is     *)
(* marked; three statements.                                                 *)
VerifyOtpRead(p, r, stage) ==
  /\ bookingStatus[r] = "CONFIRMED"
  /\ rideStatus = "STARTED"
  /\ boardingStatus[r] = Sent(stage)
  /\ Begin(p, VerifyOp(stage), r, "otpCompare")
  /\ UNCHANGED <<rows, locks, todo>>

(* The passenger enters a code of this stage: it matches or is refused.      *)
OtpCompare(p) ==
  /\ At(p, "otpCompare")
  /\ IF storedOtp[on[p]] = Stage(p) THEN Goto(p, "otpMark") ELSE Return(p)
  /\ UNCHANGED <<rows, locks>>

MarkBoarded(p) ==
  /\ At(p, "otpMark")
  /\ Stage(p) = "PICKUP"
  /\ boardingStatus' = [boardingStatus EXCEPT ![on[p]] = "BOARDED"]
  /\ storedOtp' = [storedOtp EXCEPT ![on[p]] = "NONE"]
  /\ Return(p)
  /\ UNCHANGED <<rideVars, requestStatus, bookingStatus, paymentStatus, payoutStatus, payment, locks>>

(* The rider is paid in the same statement that records the drop.            *)
MarkDropped(p) ==
  /\ At(p, "otpMark")
  /\ Stage(p) = "DROP"
  /\ boardingStatus' = [boardingStatus EXCEPT ![on[p]] = "DROPPED"]
  /\ storedOtp' = [storedOtp EXCEPT ![on[p]] = "NONE"]
  /\ payoutStatus' = [payoutStatus EXCEPT ![on[p]] = IF @ = "HELD" THEN "RELEASED" ELSE @]
  /\ Return(p)
  /\ UNCHANGED <<rideVars, requestStatus, bookingStatus, paymentStatus, payment, locks>>

BoardingStep(p) ==
  \/ \E r \in Requests, stage \in {"PICKUP", "DROP"} :
       \/ OtpRead(p, r, stage)
       \/ VerifyOtpRead(p, r, stage)
  \/ OtpSave(p)
  \/ OtpCompare(p)
  \/ MarkBoarded(p)
  \/ MarkDropped(p)
===========================================================================
