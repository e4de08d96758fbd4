--------------------------- MODULE PaymentService ---------------------------
(***************************************************************************)
(* Orders, the two ways a success is reported (the passenger's verify call *)
(* and the provider's webhook), and refunds (payment.service.js).          *)
(*                                                                         *)
(* The settling and the refunding transaction both update the payment row  *)
(* first and hold it to their commit; the booking they read in between is  *)
(* not locked, so its status may change before they overwrite it.          *)
(***************************************************************************)
EXTENDS TripStore

(* createOrder.  A booking with totalAmount > 0 is one that was created with *)
(* paymentStatus PENDING.                                                    *)
OrderRead(p, r) ==
  /\ bookingStatus[r] \notin {"NONE", "CANCELLED"}
  /\ paymentStatus[r] \notin {"NOT_REQUIRED", "SUCCESS"}
  /\ Begin(p, "createOrder", r, "insertOrder")
  /\ UNCHANGED <<rows, locks, todo>>

(* A PENDING payment is handed out again; any other row makes the insert     *)
(* fail on the UNIQUE idempotency key.                                       *)
OrderInsert(p) ==
  /\ At(p, "insertOrder")
  /\ payment' = [payment EXCEPT ![on[p]] = IF @ = "NONE" THEN "PENDING" ELSE @]
  /\ Return(p)
  /\ UNCHANGED <<rideVars, requestStatus, bookingVars, locks>>

(* verifyPayment and handleWebhook stop at a payment that is SUCCESS, and    *)
(* only there: PENDING, FAILED and REFUNDED ones go on to applySuccess.      *)
ToSettle(r) == payment[r] \notin {"NONE", "SUCCESS"}

VerifyRead(p, r) ==
  /\ ToSettle(r)
  /\ Begin(p, "verifyPayment", r, "settleTx")
  /\ UNCHANGED <<rows, locks, todo>>

VerifyBadSignature(p, r) ==
  /\ ToSettle(r)
  /\ Begin(p, "verifyPayment", r, "failWrite")
  /\ UNCHANGED <<rows, locks, todo>>

FailWrite(p) ==
  /\ At(p, "failWrite")
  /\ PaymentUnlocked(on[p])
  /\ payment' = [payment EXCEPT ![on[p]] = "FAILED"]
  /\ Return(p)
  /\ UNCHANGED <<rideVars, requestStatus, bookingVars, locks>>

WebhookRead(p, r) ==
  /\ ToSettle(r)
  /\ Begin(p, "webhook", r, "settleTx")
  /\ UNCHANGED <<rows, locks, todo>>

(* applySuccess: the payment row is updated (so it is held), then the        *)
(* booking is read; what it says decides the rest of the transaction.        *)
SettleTx(p) ==
  /\ At(p, "settleTx")
  /\ PaymentUnlocked(on[p])
  /\ paymentLock' = [paymentLock EXCEPT ![on[p]] = p]
  /\ Goto(p, IF bookingStatus[on[p]] = "CANCELLED" THEN "settleLate" ELSE "settleConfirm")
  /\ UNCHANGED <<rows, rideLock>>

(* Fault: the success is recorded on the payment alone.                      *)
PaidFault(p) ==
  /\ payment' = [payment EXCEPT ![on[p]] = "SUCCESS"]
  /\ UNCHANGED paymentStatus
  /\ paymentLock' = [paymentLock EXCEPT ![on[p]] = NoProc]

Paid(p) ==
  /\ payment' = [payment EXCEPT ![on[p]] = "SUCCESS"]
  /\ paymentStatus' = [paymentStatus EXCEPT ![on[p]] = "SUCCESS"]
  /\ paymentLock' = [paymentLock EXCEPT ![on[p]] = NoProc]

(* Fault: the rider is paid at once.                                         *)
SettleConfirmFault(p) ==
  /\ At(p, "settleConfirm")
  /\ Paid(p)
  /\ bookingStatus' = [bookingStatus EXCEPT ![on[p]] = "CONFIRMED"]
  /\ payoutStatus' = [payoutStatus EXCEPT ![on[p]] = "RELEASED"]
  /\ Return(p)
  /\ UNCHANGED <<rideVars, requestStatus, otpVars, rideLock>>

SettleConfirm(p) ==
  /\ At(p, "settleConfirm")
  /\ Paid(p)
  /\ bookingStatus' = [bookingStatus EXCEPT ![on[p]] = "CONFIRMED"]
  /\ payoutStatus' = [payoutStatus EXCEPT ![on[p]] = "HELD"]
  /\ Return(p)
  /\ UNCHANGED <<rideVars, requestStatus, otpVars, rideLock>>

(* Fault: a late payment confirms the booking again before it is refunded.   *)
SettleLateFault(p) ==
  /\ At(p, "settleLate")
  /\ Paid(p)
  /\ bookingStatus' = [bookingStatus EXCEPT ![on[p]] = "CONFIRMED"]
  /\ todo' = [todo EXCEPT ![p] = {on[p]}]
  /\ pc' = [pc EXCEPT ![p] = "refundRead"]
  /\ UNCHANGED <<op, on, rideVars, requestStatus, payoutStatus, otpVars, rideLock>>

(* Too late for the seat: the booking stays as it is and is refunded.        *)
SettleLate(p) ==
  /\ At(p, "settleLate")
  /\ Paid(p)
  /\ todo' = [todo EXCEPT ![p] = {on[p]}]
  /\ pc' = [pc EXCEPT ![p] = "refundRead"]
  /\ UNCHANGED <<op, on, rideVars, requestStatus, bookingStatus, payoutStatus, otpVars, rideLock>>

---------------------------------------------------------------------------
(* refundPayment, for each booking in todo.  AfterRefund is what the caller  *)
(* goes on to: the sweep looks for unpaid bookings, the others answer.       *)

AfterRefund(p, rest) ==
  IF rest # {} THEN "refundRead"
  ELSE IF op[p] = "sweep" THEN "sweepFind" ELSE "idle"

RefundDone(p, rest) ==
  IF AfterRefund(p, rest) = "idle"
  THEN Return(p)
  ELSE /\ pc' = [pc EXCEPT ![p] = AfterRefund(p, rest)]
       /\ on' = [on EXCEPT ![p] = NoRequest]
       /\ todo' = [todo EXCEPT ![p] = rest]
       /\ UNCHANGED op

RefundRead(p, r) ==
  /\ At(p, "refundRead")
  /\ r \in todo[p]
  /\ payment[r] = "SUCCESS"
  /\ pc' = [pc EXCEPT ![p] = "refundTx"]
  /\ on' = [on EXCEPT ![p] = r]
  /\ todo' = [todo EXCEPT ![p] = @ \ {r}]
  /\ UNCHANGED <<op, rows, locks>>

RefundNothing(p, r) ==
  /\ At(p, "refundRead")
  /\ r \in todo[p]
  /\ payment[r] # "SUCCESS"
  /\ RefundDone(p, todo[p] \ {r})
  /\ UNCHANGED <<rows, locks>>

(* The refunding transaction holds the payment row and reads the booking's   *)
(* payout, without locking the booking ...                                   *)
RefundTx(p) ==
  /\ At(p, "refundTx")
  /\ PaymentUnlocked(on[p])
  /\ paymentLock' = [paymentLock EXCEPT ![on[p]] = p]
  /\ Goto(p, IF payoutStatus[on[p]] = "HELD" THEN "refundHeld" ELSE "refundPlain")
  /\ UNCHANGED <<rows, rideLock>>

(* ... then writes the booking and commits.                                  *)
RefundWrite(p) ==
  /\ \/ /\ At(p, "refundHeld")
        /\ payoutStatus' = [payoutStatus EXCEPT ![on[p]] = "REFUNDED"]
     \/ /\ At(p, "refundPlain")
        /\ UNCHANGED payoutStatus
  /\ payment' = [payment EXCEPT ![on[p]] = "REFUNDED"]
  /\ paymentStatus' = [paymentStatus EXCEPT ![on[p]] = "REFUNDED"]
  /\ paymentLock' = [paymentLock EXCEPT ![on[p]] = NoProc]
  /\ RefundDone(p, todo[p])
  /\ UNCHANGED <<rideVars, requestStatus, bookingStatus, otpVars, rideLock>>

PaymentStep(p) ==
  \/ \E r \in Requests : \/ OrderRead(p, r)
                         \/ VerifyRead(p, r)
                         \/ VerifyBadSignature(p, r)
                         \/ WebhookRead(p, r)
                         \/ RefundRead(p, r)
                         \/ RefundNothing(p, r)
  \/ OrderInsert(p)
  \/ FailWrite(p)
  \/ SettleTx(p)
  \/ SettleConfirm(p)
  \/ SettleLate(p)
  \/ RefundTx(p)
  \/ RefundWrite(p)
===========================================================================
