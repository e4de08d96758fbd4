--------------------------- MODULE RideTypeProofs ---------------------------
(***************************************************************************)
(* Type correctness of the trip, for every number of handlers, requests    *)
(* and seats.  Types alone are not inductive: a handler that gives seats   *)
(* back adds SeatsRequested[on[p]], so on[p] has to be a request whenever  *)
(* the next step works on one (KnowsRequest), over the loops and nested    *)
(* calls that change it.                                                   *)
(***************************************************************************)
EXTENDS RideTrip, TLAPS

(* The inductive invariant.                                                  *)
TypeInv == TypeOK /\ KnowsRequest

USE RequestsAssumption, NamesAssumption DEF
  RowsTypeOK, LocksTypeOK, HandlersTypeOK, TypeOK, KnowsRequest, RequestSteps, OpNames, Steps,
  RideStatus, RequestStatus, BookingStatus,
  rideVars, otpVars, bookingVars, rows, locks, procVars

(* An operation that begins has its request in hand if its next step needs   *)
(* one.                                                                      *)
LEMMA BeginTypes ==
  ASSUME TypeInv, NEW p \in Procs, NEW o \in OpNames, NEW r \in Requests \cup {NoRequest},
         NEW step \in Steps, step \in RequestSteps => r \in Requests,
         Begin(p, o, r, step), UNCHANGED <<todo, crashed>>
  PROVE  HandlersTypeOK' /\ KnowsRequest'
BY DEF TypeInv, Begin

(* Going on to a step that works on a request needs one in hand.             *)
LEMMA GotoTypes ==
  ASSUME TypeInv, NEW p \in Procs,
         NEW step \in Steps, step \in RequestSteps => on[p] \in Requests,
         Goto(p, step), UNCHANGED crashed
  PROVE  HandlersTypeOK' /\ KnowsRequest'
BY DEF TypeInv, Goto

(* A handler that answers needs nothing.                                     *)
LEMMA ReturnTypes ==
  ASSUME TypeInv, NEW p \in Procs, Return(p), UNCHANGED crashed
  PROVE  HandlersTypeOK' /\ KnowsRequest'
BY DEF TypeInv, Return

(* Every step of the booking service keeps the types ...                     *)
LEMMA BookingTypes ==
  ASSUME TypeInv, NEW p \in Procs, BookingStep(p), UNCHANGED crashed
  PROVE  TypeInv'
<1> USE DEF Begin, At, Goto, Return, ReleaseSeats, TypeInv
<1>1. ASSUME NEW r \in Requests, RequestRead(p, r) \/ AcceptRead(p, r) \/ RejectRead(p, r)
      PROVE  TypeInv'
  BY <1>1 DEF RequestRead, AcceptRead, RejectRead
<1>2. ASSUME NEW r \in Requests, WithdrawRead(p, r)
      PROVE  TypeInv'
  BY <1>2 DEF WithdrawRead
<1>3. ASSUME NEW r \in Requests, CancelRead(p, r)
      PROVE  TypeInv'
  BY <1>3 DEF CancelRead, ToRefund
<1>4. CASE FindDuplicate(p)
  <2>1. on[p] \in Requests
    BY <1>4 DEF FindDuplicate
  <2>2. Return(p) \/ Goto(p, "insertRequest")
    BY <1>4 DEF FindDuplicate
  <2>3. HandlersTypeOK' /\ KnowsRequest'
    BY <2>1, <2>2, GotoTypes, ReturnTypes
  <2>4. RowsTypeOK' /\ LocksTypeOK'
    BY <1>4 DEF FindDuplicate
  <2> QED
    BY <2>3, <2>4
<1>11. CASE RequestInsert(p)
  BY <1>11 DEF RequestInsert
<1>12. CASE RequestTooFar(p)
  BY <1>12 DEF RequestTooFar
<1>5. ASSUME NEW paid \in BOOLEAN, Reserve(p, paid)
      PROVE  TypeInv'
  BY <1>5 DEF Reserve, CanReserve, NewBookingStatus
<1>6. CASE AcceptRefused(p)
  BY <1>6 DEF AcceptRefused
<1>13. CASE RejectWrite(p)
  BY <1>13 DEF RejectWrite
<1>7. CASE WithdrawFind(p)
  BY <1>7 DEF WithdrawFind
<1>8. CASE WithdrawWrite(p)
  BY <1>8 DEF WithdrawWrite
<1>9. CASE WithdrawCancelRead(p)
  <2>1. RowsTypeOK' /\ LocksTypeOK'
    BY <1>9 DEF WithdrawCancelRead
  <2>2. HandlersTypeOK' /\ KnowsRequest'
    BY <1>9 DEF WithdrawCancelRead, ToRefund
  <2> QED
    BY <2>1, <2>2
<1>10. CASE CancelTx(p)
  <2>1. RowsTypeOK' /\ LocksTypeOK'
    BY <1>10 DEF CancelTx
  <2>2. "refundRead" \in Steps /\ "refundRead" \notin RequestSteps
    OBVIOUS
  <2>3. Return(p) \/ Goto(p, "refundRead")
    BY <1>10 DEF CancelTx
  <2>4. HandlersTypeOK' /\ KnowsRequest'
    BY <2>2, <2>3, GotoTypes, ReturnTypes
  <2> QED
    BY <2>1, <2>4
<1> QED
  BY <1>1, <1>2, <1>3, <1>4, <1>5, <1>6, <1>7, <1>8, <1>9, <1>10, <1>11, <1>12, <1>13
  DEF BookingStep

(* ... every step of the payment service ...                                 *)
LEMMA PaymentTypes ==
  ASSUME TypeInv, NEW p \in Procs, PaymentStep(p), UNCHANGED crashed
  PROVE  TypeInv'
<1> USE DEF Begin, At, Goto, Return, TypeInv
<1>1. ASSUME NEW r \in Requests,
             OrderRead(p, r) \/ VerifyRead(p, r) \/ VerifyBadSignature(p, r) \/ WebhookRead(p, r)
      PROVE  TypeInv'
  BY <1>1 DEF OrderRead, VerifyRead, VerifyBadSignature, WebhookRead
<1>2. ASSUME NEW r \in Requests, RefundRead(p, r)
      PROVE  TypeInv'
  BY <1>2 DEF RefundRead
<1>3. ASSUME NEW r \in Requests, RefundNothing(p, r)
      PROVE  TypeInv'
  BY <1>3 DEF RefundNothing, RefundDone, AfterRefund
<1>4. CASE OrderInsert(p)
  <2>1. payment' \in [Requests -> {"NONE", "PENDING", "SUCCESS", "FAILED", "REFUNDED"}]
    BY <1>4 DEF OrderInsert
  <2>2. Return(p)
    BY <1>4 DEF OrderInsert
  <2> QED
    BY <1>4, <2>1, <2>2, ReturnTypes DEF OrderInsert
<1>9. CASE FailWrite(p)
  BY <1>9 DEF FailWrite
<1>5. CASE SettleTx(p) \/ RefundTx(p)
  BY <1>5 DEF SettleTx, RefundTx
<1>6. CASE SettleConfirm(p)
  BY <1>6 DEF SettleConfirm, Paid
<1>7. CASE SettleLate(p)
  BY <1>7 DEF SettleLate, Paid
<1>8. CASE RefundWrite(p)
  <2>1. RowsTypeOK' /\ LocksTypeOK'
    BY <1>8 DEF RefundWrite
  <2>2. CASE Return(p)
    BY <2>1, <2>2, ReturnTypes
  <2>3. CASE ~Return(p)
    <3>1. /\ pc' \in {[pc EXCEPT ![p] = "refundRead"], [pc EXCEPT ![p] = "sweepFind"]}
          /\ on' = [on EXCEPT ![p] = NoRequest]
          /\ todo' = [todo EXCEPT ![p] = todo[p]]
          /\ op' = op
      BY <1>8, <2>3 DEF RefundWrite, RefundDone, AfterRefund
    <3>2. UNCHANGED crashed
      OBVIOUS
    <3>3. HandlersTypeOK'
      BY <3>1, <3>2
    <3>4. KnowsRequest'
      BY <3>1
    <3> QED
      BY <2>1, <3>3, <3>4
  <2> QED
    BY <2>2, <2>3
<1> QED
  BY <1>1, <1>2, <1>3, <1>4, <1>5, <1>6, <1>7, <1>8, <1>9 DEF PaymentStep

(* ... every step of the lifecycle and the sweep ...                         *)
LEMMA LifecycleTypes ==
  ASSUME TypeInv, NEW p \in Procs, LifecycleStep(p), UNCHANGED crashed
  PROVE  TypeInv'
<1> USE DEF Begin, At, Goto, Return, TypeInv
<1>1. CASE PublishRead(p) \/ StartRead(p) \/ CompleteRead(p) \/ CancelRideRead(p)
  BY <1>1 DEF PublishRead, StartRead, CompleteRead, CancelRideRead
<1>2. CASE PublishWrite(p) \/ PublishRefused(p)
  BY <1>2 DEF PublishWrite, PublishRefused, SetRideStatus
<1>3. CASE StartWrite(p) \/ CompleteWrite(p)
  BY <1>3 DEF StartWrite, CompleteWrite, SetRideStatus
<1>4. CASE StartFind(p)
  BY <1>4 DEF StartFind, DropAll, Unpaid
<1>5. CASE CompleteCount(p)
  BY <1>5 DEF CompleteCount
<1>6. CASE CloseLock(p)
  BY <1>6 DEF CloseLock, Active
<1>7. CASE CloseRefused(p)
  <2>1. RowsTypeOK' /\ LocksTypeOK'
    BY <1>7 DEF CloseRefused
  <2>2. HandlersTypeOK' /\ KnowsRequest'
    <3>1. Return(p) \/ Goto(p, "sweepFind")
      BY <1>7 DEF CloseRefused
    <3>2. "sweepFind" \in Steps /\ "sweepFind" \notin RequestSteps
      OBVIOUS
    <3> QED
      BY <3>1, <3>2, GotoTypes, ReturnTypes
  <2> QED
    BY <2>1, <2>2
<1>8. CASE CloseWrite(p)
  <2>1. RowsTypeOK' /\ LocksTypeOK'
    BY <1>8 DEF CloseWrite, ClosedStatus
  <2>2. HandlersTypeOK' /\ KnowsRequest'
    <3>1. Return(p) \/ Goto(p, "sweepFind") \/ Goto(p, "refundRead")
      BY <1>8 DEF CloseWrite
    <3>2. {"sweepFind", "refundRead"} \subseteq Steps \ RequestSteps
      OBVIOUS
    <3>3. UNCHANGED crashed
      OBVIOUS
    <3>4. CASE Goto(p, "sweepFind")
      BY <3>2, <3>3, <3>4, GotoTypes
    <3>5. CASE Goto(p, "refundRead")
      BY <3>2, <3>3, <3>5, GotoTypes
    <3>6. CASE Return(p)
      BY <3>3, <3>6, ReturnTypes
    <3> QED
      BY <3>1, <3>4, <3>5, <3>6
  <2> QED
    BY <2>1, <2>2
<1>9. ASSUME NEW r \in Requests, DropLock(p, r)
      PROVE  TypeInv'
  BY <1>9 DEF DropLock
<1>10. ASSUME NEW r \in Requests, DropSkip(p, r)
       PROVE  TypeInv'
  <2>1. DropAll(p, todo[p] \ {r}) /\ RowsTypeOK' /\ LocksTypeOK'
    BY <1>10 DEF DropSkip
  <2>2. CASE Return(p)
    BY <2>1, <2>2, ReturnTypes
  <2>3. CASE ~Return(p)
    <3>1. /\ pc' = [pc EXCEPT ![p] = "dropLock"]
          /\ on' = [on EXCEPT ![p] = NoRequest]
          /\ todo' = [todo EXCEPT ![p] = todo[p] \ {r}]
          /\ op' = op
      BY <2>1, <2>3 DEF DropAll
    <3>2. HandlersTypeOK' /\ KnowsRequest'
      BY <3>1
    <3> QED
      BY <2>1, <3>2
  <2> QED
    BY <2>2, <2>3
<1>11. CASE DropWrite(p)
  <2>1. RowsTypeOK' /\ LocksTypeOK'
    BY <1>11 DEF DropWrite, ReleaseSeats
  <2>2. CASE Return(p)
    BY <2>1, <2>2, ReturnTypes
  <2>3. CASE ~Return(p)
    <3>1. /\ pc' = [pc EXCEPT ![p] = "dropLock"]
          /\ on' = [on EXCEPT ![p] = NoRequest]
          /\ todo' = todo
          /\ op' = op
      BY <1>11, <2>3 DEF DropWrite, NextDrop
    <3>2. HandlersTypeOK' /\ KnowsRequest'
      BY <3>1
    <3> QED
      BY <2>1, <3>2
  <2> QED
    BY <2>2, <2>3
<1>12. CASE SweepOverdue(p) \/ SweepNotOverdue(p)
  BY <1>12 DEF SweepOverdue, SweepNotOverdue
<1>13. ASSUME NEW overdue \in SUBSET PastDeadline, SweepFind(p, overdue)
       PROVE  TypeInv'
  BY <1>13 DEF SweepFind, PastDeadline, Unpaid, DropAll
<1> QED
  BY <1>1, <1>2, <1>3, <1>4, <1>5, <1>6, <1>7, <1>8, <1>9, <1>10, <1>11, <1>12, <1>13
  DEF LifecycleStep

(* ... every step of the boarding service ...                                *)
LEMMA BoardingTypes ==
  ASSUME TypeInv, NEW p \in Procs, BoardingStep(p), UNCHANGED crashed
  PROVE  TypeInv'
<1> USE DEF Begin, At, Goto, Return, TypeInv
<1>1. ASSUME NEW r \in Requests, NEW stage \in {"PICKUP", "DROP"},
             OtpRead(p, r, stage) \/ VerifyOtpRead(p, r, stage)
      PROVE  TypeInv'
  <2>1. PICK o \in OpNames, step \in {"otpSave", "otpCompare"} : Begin(p, o, r, step)
    BY <1>1 DEF OtpRead, VerifyOtpRead, SendOp, VerifyOp
  <2>2. UNCHANGED <<rows, locks, todo>>
    BY <1>1 DEF OtpRead, VerifyOtpRead
  <2>3. HandlersTypeOK' /\ KnowsRequest'
    BY <2>1, <2>2
  <2> QED
    BY <2>2, <2>3
<1>2. CASE OtpSave(p)
  <2>1. RowsTypeOK' /\ LocksTypeOK'
    BY <1>2 DEF OtpSave, Sent, Stage
  <2>2. HandlersTypeOK' /\ KnowsRequest'
    BY <1>2, ReturnTypes DEF OtpSave
  <2> QED
    BY <2>1, <2>2
<1>3. CASE OtpCompare(p)
  <2>1. RowsTypeOK' /\ LocksTypeOK'
    BY <1>3 DEF OtpCompare
  <2>2. on[p] \in Requests /\ "otpMark" \in Steps
    BY <1>3 DEF OtpCompare
  <2>3. Return(p) \/ Goto(p, "otpMark")
    BY <1>3 DEF OtpCompare
  <2>4. HandlersTypeOK' /\ KnowsRequest'
    BY <2>2, <2>3, GotoTypes, ReturnTypes
  <2> QED
    BY <2>1, <2>4
<1>4. CASE MarkBoarded(p)
  BY <1>4 DEF MarkBoarded
<1>5. CASE MarkDropped(p)
  BY <1>5 DEF MarkDropped
<1> QED
  BY <1>1, <1>2, <1>3, <1>4, <1>5 DEF BoardingStep

(* ... and a handler that dies.                                              *)
LEMMA FailTypes ==
  ASSUME TypeInv, NEW p \in Procs, Fail(p)
  PROVE  TypeInv'
BY DEF Fail, Return, TypeInv

(* A step of one handler does not move another.                              *)
LEMMA StepOfOne ==
  ASSUME TypeInv, NEW p \in Procs, Step(p), NEW q \in Procs, q # p
  PROVE  pc'[q] = pc[q] /\ on'[q] = on[q]
<1> USE DEF Begin, At, Goto, Return, TypeInv
<1>1. CASE BookingStep(p)
  BY <1>1 DEF BookingStep, RequestRead, AcceptRead, RejectRead, WithdrawRead, CancelRead,
              FindDuplicate, RequestInsert, RequestTooFar, Reserve, AcceptRefused, RejectWrite,
              WithdrawFind, WithdrawWrite, WithdrawCancelRead, CancelTx
<1>2. CASE PaymentStep(p)
  <2>1. ASSUME NEW rest, RefundDone(p, rest)
        PROVE  pc'[q] = pc[q] /\ on'[q] = on[q]
    BY <2>1 DEF RefundDone
  <2>2. CASE RefundWrite(p) \/ \E r \in Requests : RefundNothing(p, r)
    BY <2>1, <2>2 DEF RefundWrite, RefundNothing
  <2> QED
    BY <1>2, <2>2
    DEF PaymentStep, OrderRead, VerifyRead, VerifyBadSignature, WebhookRead, RefundRead,
        OrderInsert, FailWrite, SettleTx, SettleConfirm, SettleLate, RefundTx
<1>3. CASE LifecycleStep(p)
  <2>1. CASE \E r \in Requests : DropLock(p, r) \/ DropSkip(p, r)
    BY <2>1 DEF DropLock, DropSkip, DropAll
  <2>2. CASE DropWrite(p) \/ CloseRefused(p) \/ CloseWrite(p)
    BY <2>2 DEF DropWrite, NextDrop, CloseRefused, CloseWrite
  <2>3. CASE StartFind(p) \/ CompleteCount(p) \/ \E overdue \in SUBSET PastDeadline : SweepFind(p, overdue)
    BY <2>3 DEF StartFind, CompleteCount, SweepFind, DropAll
  <2> QED
    BY <1>3, <2>1, <2>2, <2>3
    DEF LifecycleStep, PublishRead, PublishWrite, PublishRefused, StartRead, StartWrite,
        CompleteRead, CompleteWrite, CancelRideRead, CloseLock, SweepOverdue, SweepNotOverdue
<1>4. CASE BoardingStep(p)
  BY <1>4 DEF BoardingStep, OtpRead, VerifyOtpRead, OtpSave, OtpCompare, MarkBoarded, MarkDropped
<1>5. CASE Fail(p)
  BY <1>5 DEF Fail
<1> QED
  BY <1>1, <1>2, <1>3, <1>4, <1>5 DEF Step, HandlerStep

(* In every reachable state each row, lock and handler has its type, and a   *)
(* handler about to write a request's row knows which one; the seat counter  *)
(* is never negative.                                                        *)
THEOREM TypeCorrect == Spec => []TypeInv
<1>1. Init => TypeInv
  <2> SUFFICES ASSUME Init
               PROVE  TypeInv
    OBVIOUS
  <2>1. RowsTypeOK /\ LocksTypeOK
    BY DEF Init
  <2>2. HandlersTypeOK /\ KnowsRequest
    BY DEF Init
  <2> QED
    BY <2>1, <2>2 DEF TypeInv
<1>2. TypeInv /\ [Next]_vars => TypeInv'
  <2> SUFFICES ASSUME TypeInv, [Next]_vars
               PROVE  TypeInv'
    OBVIOUS
  <2>1. ASSUME NEW p \in Procs, HandlerStep(p)
        PROVE  TypeInv'
    BY <2>1, BookingTypes, PaymentTypes, LifecycleTypes, BoardingTypes DEF HandlerStep
  <2>2. ASSUME NEW p \in Procs, Fail(p)
        PROVE  TypeInv'
    BY <2>2, FailTypes
  <2>3. CASE UNCHANGED vars
    BY <2>3 DEF vars, TypeInv
  <2> QED
    BY <2>1, <2>2, <2>3 DEF Next, Step
<1> QED
  BY <1>1, <1>2, PTL DEF Spec

(* The type invariant the runs check, for every instance.                    *)
THEOREM TypesHold == Spec => []TypeOK
<1>1. TypeInv => TypeOK
  BY DEF TypeInv
<1> QED
  BY <1>1, TypeCorrect, PTL
=============================================================================
