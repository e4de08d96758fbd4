------------------------ MODULE RideInterleavingProofs ------------------------
(***************************************************************************)
(* What a trip keeps under every interleaving of handlers that may die     *)
(* between any two statements, for every number of handlers, requests and  *)
(* seats.                                                                  *)
(*                                                                         *)
(* Locks and seats.  A handler half way through a transaction holds the    *)
(* row it locked, so there is one such handler per row (HoldsItsRows).     *)
(* Where seats are given back under the ride's lock only, what a release   *)
(* read under it is still so when it writes (LockedInv), each step that    *)
(* touches seats is a step of the ledger, and the ledger's balance carries *)
(* over to the ride.                                                       *)
(*                                                                         *)
(* Money.  The handlers act on stale reads, so the argument is about what  *)
(* they remember: a step that writes a payment remembers that there is     *)
(* one, a step that writes a boarding status remembers that the booking    *)
(* was confirmed and paid.  These facts are irrevocable: no step of any    *)
(* handler makes them false (Irrevocable), so they still hold when the     *)
(* write happens.  One lemma per service shows that its steps keep the     *)
(* rows in agreement and revoke nothing; RemembersKept carries that over   *)
(* to what the other handlers remember.                                    *)
(***************************************************************************)
EXTENDS RideTypeProofs

(* The ledger with its theorem, for the ride's counter and bookings.         *)
LedgerP == INSTANCE SeatLedgerProofs WITH free <- availableSeats, holders <- Active

USE RequestsAssumption, NamesAssumption

(* The second halves of the transactions that hold the ride row ...          *)
RideLockSteps == {"closeWrite", "dropWrite"}

(* ... and of those that hold a payment row.                                 *)
PaymentLockSteps == {"settleConfirm", "settleLate", "refundHeld", "refundPlain"}

(* A row is locked by a handler exactly while that handler is between the    *)
(* two halves of a transaction on it.                                        *)
HoldsItsRows ==
  \A p \in Procs :
    /\ rideLock = p <=> pc[p] \in RideLockSteps
    /\ \A r \in Requests :
         paymentLock[r] = p <=> pc[p] \in PaymentLockSteps /\ on[p] = r

(* A step of p takes only a free row and gives up only its own, and holds a  *)
(* row afterwards exactly if it stops half way.                              *)
OwnRide(p) ==
  /\ rideLock' # rideLock => {rideLock, rideLock'} \subseteq {p, NoProc}
  /\ rideLock' = p <=> pc'[p] \in RideLockSteps

OwnPayments(p) ==
  \A r \in Requests :
    /\ paymentLock'[r] # paymentLock[r] => {paymentLock[r], paymentLock'[r]} \subseteq {p, NoProc}
    /\ paymentLock'[r] = p <=> pc'[p] \in PaymentLockSteps /\ on'[p] = r

LockSteps == RideLockSteps \cup PaymentLockSteps

(* A step outside every transaction holds no row before or after.            *)
LEMMA OutsideTransactions ==
  ASSUME TypeInv, HoldsItsRows, NEW p \in Procs, UNCHANGED locks,
         pc[p] \notin LockSteps, pc'[p] \notin LockSteps
  PROVE  OwnRide(p) /\ OwnPayments(p)
BY DEF HoldsItsRows, OwnRide, OwnPayments, LockSteps, locks

(* Every step treats the locks so.                                           *)
LEMMA LocksMove ==
  ASSUME TypeInv, HoldsItsRows, NEW p \in Procs, Step(p)
  PROVE  OwnRide(p) /\ OwnPayments(p)
<1> USE DEF Begin, At, Idle, Goto, Return, LockSteps, RideLockSteps, PaymentLockSteps,
            TypeInv, TypeOK, LocksTypeOK, HandlersTypeOK, KnowsRequest, RequestSteps, locks,
            RideUnlocked, PaymentUnlocked
<1> DEFINE Outside == UNCHANGED locks /\ pc[p] \notin LockSteps /\ pc'[p] \notin LockSteps
<1>1. CASE BookingStep(p)
  <2>1. CASE WithdrawCancelRead(p) \/ CancelTx(p) \/ WithdrawFind(p) \/ FindDuplicate(p)
    <3>1. Outside
      BY <2>1 DEF WithdrawCancelRead, CancelTx, WithdrawFind, FindDuplicate
    <3> QED
      BY <3>1, OutsideTransactions
  <2>2. CASE ~(WithdrawCancelRead(p) \/ CancelTx(p) \/ WithdrawFind(p) \/ FindDuplicate(p))
    <3>1. Outside
      BY <1>1, <2>2
      DEF BookingStep, RequestRead, AcceptRead, RejectRead, WithdrawRead, CancelRead,
          RequestInsert, RequestTooFar, Reserve, AcceptRefused, RejectWrite, WithdrawWrite
    <3> QED
      BY <3>1, OutsideTransactions
  <2> QED
    BY <2>1, <2>2
<1>2. CASE PaymentStep(p)
  <2>1. CASE \/ OrderInsert(p) \/ FailWrite(p)
             \/ \E r \in Requests :
                  \/ OrderRead(p, r) \/ VerifyRead(p, r) \/ VerifyBadSignature(p, r)
                  \/ WebhookRead(p, r) \/ RefundRead(p, r)
    <3>1. Outside
      BY <2>1 DEF OrderRead, VerifyRead, VerifyBadSignature, WebhookRead, RefundRead,
                  OrderInsert, FailWrite
    <3> QED
      BY <3>1, OutsideTransactions
  <2>2. CASE \E r \in Requests : RefundNothing(p, r)
    <3>1. Outside
      BY <2>2 DEF RefundNothing, RefundDone, AfterRefund
    <3> QED
      BY <3>1, OutsideTransactions
  <2>3. CASE SettleTx(p) \/ RefundTx(p)
    <3>1. /\ pc[p] \in {"settleTx", "refundTx"} /\ on[p] \in Requests
          /\ paymentLock[on[p]] = NoProc
          /\ paymentLock' = [paymentLock EXCEPT ![on[p]] = p]
          /\ pc'[p] \in PaymentLockSteps
          /\ UNCHANGED <<on, rideLock>>
      BY <2>3 DEF SettleTx, RefundTx
    <3> QED
      BY <3>1 DEF HoldsItsRows, OwnRide, OwnPayments
  <2>4. CASE SettleConfirm(p) \/ SettleLate(p) \/ RefundWrite(p)
    <3>1. pc[p] \in PaymentLockSteps /\ on[p] \in Requests
      BY <2>4 DEF SettleConfirm, SettleLate, RefundWrite
    <3>2. pc'[p] \in {"refundRead", "sweepFind", "idle"}
      BY <2>4 DEF SettleConfirm, SettleLate, RefundWrite, RefundDone, AfterRefund
    <3>3. paymentLock' = [paymentLock EXCEPT ![on[p]] = NoProc] /\ UNCHANGED rideLock
      BY <2>4 DEF SettleConfirm, SettleLate, RefundWrite, Paid
    <3> QED
      BY <3>1, <3>2, <3>3, NamesAssumption DEF HoldsItsRows, OwnRide, OwnPayments
  <2> QED
    BY <1>2, <2>1, <2>2, <2>3, <2>4 DEF PaymentStep
<1>3. CASE LifecycleStep(p)
  <2>1. CASE \/ PublishRead(p) \/ PublishWrite(p) \/ PublishRefused(p) \/ StartRead(p)
             \/ StartWrite(p) \/ CompleteRead(p) \/ CompleteWrite(p) \/ CancelRideRead(p)
             \/ SweepOverdue(p) \/ SweepNotOverdue(p) \/ CompleteCount(p) \/ CloseRefused(p)
    <3>1. Outside
      BY <2>1 DEF PublishRead, PublishWrite, PublishRefused, StartRead, StartWrite, CompleteRead,
                  CompleteWrite, CancelRideRead, SweepOverdue, SweepNotOverdue, CompleteCount,
                  CloseRefused, SetRideStatus
    <3> QED
      BY <3>1, OutsideTransactions
  <2>2. CASE \/ StartFind(p)
             \/ \E overdue \in SUBSET PastDeadline : SweepFind(p, overdue)
             \/ \E r \in Requests : DropSkip(p, r)
    <3>1. Outside
      BY <2>2 DEF StartFind, SweepFind, DropSkip, DropAll
    <3> QED
      BY <3>1, OutsideTransactions
  <2>3. CASE CloseLock(p) \/ \E r \in Requests : DropLock(p, r)
    <3>1. /\ pc[p] \in {"closeLock", "dropLock"} /\ pc'[p] \in RideLockSteps
          /\ rideLock = NoProc /\ rideLock' = p
          /\ UNCHANGED paymentLock
      BY <2>3 DEF CloseLock, DropLock
    <3> QED
      BY <3>1 DEF HoldsItsRows, OwnRide, OwnPayments
  <2>4. CASE CloseWrite(p) \/ DropWrite(p)
    <3>1. pc[p] \in RideLockSteps /\ rideLock' = NoProc /\ UNCHANGED paymentLock
      BY <2>4 DEF CloseWrite, DropWrite
    <3>2. pc'[p] \in {"refundRead", "sweepFind", "dropLock", "idle"}
      BY <2>4 DEF CloseWrite, DropWrite, NextDrop
    <3> QED
      BY <3>1, <3>2, NamesAssumption DEF HoldsItsRows, OwnRide, OwnPayments
  <2> QED
    BY <1>3, <2>1, <2>2, <2>3, <2>4 DEF LifecycleStep
<1>4. CASE BoardingStep(p)
  <2>1. Outside
    BY <1>4 DEF BoardingStep, OtpRead, VerifyOtpRead, OtpSave, OtpCompare, MarkBoarded,
                MarkDropped
  <2> QED
    BY <2>1, OutsideTransactions
<1>5. CASE Fail(p)
  <2>1. /\ pc'[p] = "idle"
        /\ rideLock' = IF rideLock = p THEN NoProc ELSE rideLock
        /\ paymentLock' =
             [r \in Requests |-> IF paymentLock[r] = p THEN NoProc ELSE paymentLock[r]]
    BY <1>5 DEF Fail
  <2> QED
    BY <2>1, NamesAssumption DEF OwnRide, OwnPayments
<1> QED
  BY <1>1, <1>2, <1>3, <1>4, <1>5 DEF Step, HandlerStep

(* lockForSeatUpdate and the payment updates exclude each other row by row:  *)
(* no two handlers are ever inside a transaction on the same row, and none   *)
(* leaves a row locked when it answers or dies.                              *)
THEOREM OneTransactionPerRow == Spec => []HoldsItsRows
<1>1. Init => HoldsItsRows
  BY NamesAssumption DEF Init, HoldsItsRows, RideLockSteps, PaymentLockSteps
<1>2. TypeInv /\ HoldsItsRows /\ [Next]_vars => HoldsItsRows'
  <2> SUFFICES ASSUME TypeInv, HoldsItsRows, [Next]_vars
               PROVE  HoldsItsRows'
    OBVIOUS
  <2>1. ASSUME NEW p \in Procs, Step(p)
        PROVE  HoldsItsRows'
    <3>1. OwnRide(p) /\ OwnPayments(p)
      BY <2>1, LocksMove
    <3>2. ASSUME NEW q \in Procs, q # p
          PROVE  /\ rideLock' = q <=> pc'[q] \in RideLockSteps
                 /\ \A r \in Requests :
                      paymentLock'[r] = q <=> pc'[q] \in PaymentLockSteps /\ on'[q] = r
      <4>1. pc'[q] = pc[q] /\ on'[q] = on[q]
        BY <2>1, <3>2, StepOfOne
      <4>2. rideLock' = q <=> rideLock = q
        BY <3>1, <3>2, NamesAssumption DEF OwnRide
      <4>3. \A r \in Requests : paymentLock'[r] = q <=> paymentLock[r] = q
        BY <3>1, <3>2, NamesAssumption DEF OwnPayments
      <4> QED
        BY <4>1, <4>2, <4>3 DEF HoldsItsRows
    <3> QED
      BY <3>1, <3>2 DEF HoldsItsRows, OwnRide, OwnPayments
  <2>2. CASE UNCHANGED vars
    BY <2>2 DEF vars, HoldsItsRows
  <2> QED
    BY <2>1, <2>2 DEF Next
<1> QED
  BY <1>1, <1>2, TypeCorrect, PTL DEF Spec

---------------------------------------------------------------------------
(* Seats are taken and given back under the ride's row lock by every         *)
(* operation but these four.                                                 *)
LockedOnly ==
  Ops \cap {"cancelBooking", "cancelRequest", "verifyPayment", "webhook"} = {}

(* Their steps.                                                             *)
UnlockedSteps ==
  {"withdrawFind", "withdrawWrite", "cancelRead", "cancelTx",
   "settleTx", "settleConfirm", "settleLate"}

(* What a release found under the lock is still so when it writes.           *)
LockedInv ==
  \A p \in Procs :
    /\ pc[p] \notin UnlockedSteps
    /\ pc[p] = "dropWrite" => bookingStatus[on[p]] = "PAYMENT_PENDING"

(* What the ledger sees of the rows.                                         *)
SeatVars == <<availableSeats, bookingStatus>>

(* The steps that touch seats or bookings.                                   *)
LEMMA SeatWriters ==
  ASSUME TypeInv, LockedInv, NEW p \in Procs, Step(p)
  PROVE  \/ UNCHANGED SeatVars
         \/ \E paid \in BOOLEAN : Reserve(p, paid)
         \/ CloseWrite(p)
         \/ DropWrite(p)
<1> USE DEF SeatVars, rows, rideVars, bookingVars
<1>1. CASE BookingStep(p)
  <2>1. ~CancelTx(p)
    BY DEF LockedInv, UnlockedSteps, CancelTx, At
  <2> QED
    BY <1>1, <2>1
    DEF BookingStep, RequestRead, AcceptRead, RejectRead, WithdrawRead, CancelRead,
        FindDuplicate, RequestInsert, RequestTooFar, AcceptRefused, RejectWrite,
        WithdrawFind, WithdrawWrite, WithdrawCancelRead
<1>2. CASE PaymentStep(p)
  <2>1. ~SettleConfirm(p)
    BY DEF LockedInv, UnlockedSteps, SettleConfirm, At
  <2> QED
    BY <1>2, <2>1
    DEF PaymentStep, OrderRead, VerifyRead, VerifyBadSignature, WebhookRead, RefundRead,
        RefundNothing, OrderInsert, FailWrite, SettleTx, SettleLate, RefundTx, RefundWrite
<1>3. CASE LifecycleStep(p)
  BY <1>3
  DEF LifecycleStep, PublishRead, PublishWrite, PublishRefused, StartRead, StartWrite,
      StartFind, CompleteRead, CompleteCount, CompleteWrite, CancelRideRead, CloseLock,
      CloseRefused, DropLock, DropSkip, SweepOverdue, SweepNotOverdue, SweepFind, SetRideStatus
<1>4. CASE BoardingStep(p)
  BY <1>4 DEF BoardingStep, OtpRead, VerifyOtpRead, OtpSave, OtpCompare, MarkBoarded, MarkDropped
<1>5. CASE Fail(p)
  BY <1>5 DEF Fail
<1> QED
  BY <1>1, <1>2, <1>3, <1>4, <1>5 DEF Step, HandlerStep

(* Every step of the trip is a step of the ledger, or none that it sees.     *)
LEMMA LedgerStep ==
  ASSUME TypeInv, LockedInv, [Next]_vars
  PROVE  [Ledger!LedgerNext]_(Ledger!ledgerVars)
<1> USE DEF TypeInv, TypeOK, RowsTypeOK, HandlersTypeOK, KnowsRequest, RequestSteps
<1>1. ASSUME UNCHANGED SeatVars
      PROVE  UNCHANGED Ledger!ledgerVars
  BY <1>1 DEF SeatVars, Active, Ledger!ledgerVars
<1>2. ASSUME NEW p \in Procs, NEW paid \in BOOLEAN, Reserve(p, paid)
      PROVE  Ledger!Take(on[p]) /\ on[p] \in Requests
  <2>1. on[p] \in Requests /\ bookingStatus[on[p]] = "NONE" /\ SeatsRequested[on[p]] <= availableSeats
    BY <1>2 DEF Reserve, CanReserve, At
  <2>2. /\ availableSeats' = availableSeats - SeatsRequested[on[p]]
        /\ \/ bookingStatus' = [bookingStatus EXCEPT ![on[p]] = "PAYMENT_PENDING"]
           \/ bookingStatus' = [bookingStatus EXCEPT ![on[p]] = "CONFIRMED"]
    BY <1>2 DEF Reserve, NewBookingStatus
  <2>3. Active' = Active \cup {on[p]} /\ on[p] \notin Active
    BY <2>1, <2>2 DEF Active
  <2> QED
    BY <2>1, <2>2, <2>3 DEF Ledger!Take
<1>3. ASSUME NEW p \in Procs, DropWrite(p)
      PROVE  Ledger!GiveBack(on[p]) /\ on[p] \in Requests
  <2>1. on[p] \in Requests /\ bookingStatus[on[p]] = "PAYMENT_PENDING"
    BY <1>3 DEF DropWrite, At, LockedInv
  <2>2. /\ availableSeats' = availableSeats + SeatsRequested[on[p]]
        /\ bookingStatus' = [bookingStatus EXCEPT ![on[p]] = "CANCELLED"]
    BY <1>3 DEF DropWrite, ReleaseSeats
  <2>3. Active' = Active \ {on[p]} /\ on[p] \in Active
    BY <2>1, <2>2 DEF Active
  <2> QED
    BY <2>1, <2>2, <2>3 DEF Ledger!GiveBack
<1>4. ASSUME NEW p \in Procs, CloseWrite(p)
      PROVE  Ledger!CallOff
  <2>1. Active' = {} /\ UNCHANGED availableSeats
    BY <1>4 DEF CloseWrite, Active
  <2> QED
    BY <2>1 DEF Ledger!CallOff
<1>5. CASE UNCHANGED vars
  BY <1>1, <1>5 DEF vars, SeatVars
<1>6. CASE Next
  BY <1>1, <1>2, <1>3, <1>4, <1>6, SeatWriters DEF Next, Ledger!LedgerNext
<1> QED
  BY <1>5, <1>6

(* Only DropLock leads to dropWrite.                                         *)
LEMMA EntersDropWrite ==
  ASSUME TypeInv, LockedInv, NEW p \in Procs, Step(p), pc'[p] = "dropWrite"
  PROVE  \E r \in Requests : DropLock(p, r)
<1> USE DEF Begin, At, Goto, Return, TypeInv, TypeOK, HandlersTypeOK
<1>1. ~BookingStep(p)
  BY DEF BookingStep, RequestRead, AcceptRead, RejectRead, WithdrawRead, CancelRead,
     FindDuplicate, RequestInsert, RequestTooFar, Reserve, AcceptRefused, RejectWrite,
     WithdrawFind, WithdrawWrite, WithdrawCancelRead, CancelTx
<1>2. ~PaymentStep(p)
  <2>1. ASSUME RefundWrite(p) \/ \E r \in Requests : RefundNothing(p, r)
        PROVE  FALSE
    BY <2>1 DEF RefundWrite, RefundNothing, RefundDone, AfterRefund
  <2> QED
    BY <2>1 DEF PaymentStep, OrderRead, VerifyRead, VerifyBadSignature, WebhookRead, RefundRead,
       OrderInsert, FailWrite, SettleTx, SettleConfirm, SettleLate, RefundTx
<1>3. ~BoardingStep(p) /\ ~Fail(p)
  BY DEF BoardingStep, OtpRead, VerifyOtpRead, OtpSave, OtpCompare, MarkBoarded, MarkDropped, Fail
<1>4. ASSUME LifecycleStep(p)
      PROVE  \E r \in Requests : DropLock(p, r)
  <2>1. ~CloseLock(p) /\ ~CloseRefused(p) /\ ~CloseWrite(p)
    BY DEF CloseLock, CloseRefused, CloseWrite
  <2>2. ~DropWrite(p) /\ ~(\E r \in Requests : DropSkip(p, r))
    BY DEF DropWrite, DropSkip, DropAll, NextDrop
  <2>3. ~StartFind(p) /\ ~(\E overdue \in SUBSET PastDeadline : SweepFind(p, overdue))
    BY DEF StartFind, SweepFind, DropAll
  <2> QED
    BY <1>4, <2>1, <2>2, <2>3
    DEF LifecycleStep, PublishRead, PublishWrite, PublishRefused, StartRead, StartWrite,
        CompleteRead, CompleteCount, CompleteWrite, CancelRideRead, SweepOverdue, SweepNotOverdue
<1> QED
  BY <1>1, <1>2, <1>3, <1>4 DEF Step, HandlerStep

(* Nobody but the holder of the ride row changes a booking a release found   *)
(* unpaid under it.                                                          *)
LEMMA LockedStep ==
  ASSUME LockedOnly, TypeInv, HoldsItsRows, LockedInv, [Next]_vars
  PROVE  LockedInv'
<1> SUFFICES ASSUME NEW p \in Procs, Step(p)
             PROVE  LockedInv'
  BY DEF Next, vars, LockedInv
<1> USE DEF TypeInv, TypeOK, HandlersTypeOK, RowsTypeOK
<1>1. pc'[p] \notin UnlockedSteps
  <2> USE DEF Begin, At, Goto, Return, UnlockedSteps, LockedOnly, LockedInv
  <2>1. CASE BookingStep(p)
    BY <2>1 DEF BookingStep, RequestRead, AcceptRead, RejectRead, WithdrawRead, CancelRead,
        FindDuplicate, RequestInsert, RequestTooFar, Reserve, AcceptRefused, RejectWrite,
        WithdrawFind, WithdrawWrite, WithdrawCancelRead, CancelTx
  <2>2. CASE PaymentStep(p)
    <3>1. CASE RefundWrite(p) \/ \E r \in Requests : RefundNothing(p, r)
      BY <3>1 DEF RefundWrite, RefundNothing, RefundDone, AfterRefund
    <3> QED
      BY <2>2, <3>1
      DEF PaymentStep, OrderRead, VerifyRead, VerifyBadSignature, WebhookRead, RefundRead,
          OrderInsert, FailWrite, SettleTx, SettleConfirm, SettleLate, RefundTx
  <2>3. CASE LifecycleStep(p)
    <3>1. CASE CloseLock(p) \/ CloseRefused(p) \/ CloseWrite(p)
      BY <3>1 DEF CloseLock, CloseRefused, CloseWrite
    <3>2. CASE DropWrite(p) \/ \E r \in Requests : DropLock(p, r) \/ DropSkip(p, r)
      BY <3>2 DEF DropWrite, DropLock, DropSkip, DropAll, NextDrop
    <3>3. CASE StartFind(p) \/ \E overdue \in SUBSET PastDeadline : SweepFind(p, overdue)
      BY <3>3 DEF StartFind, SweepFind, DropAll
    <3> QED
      BY <2>3, <3>1, <3>2, <3>3
      DEF LifecycleStep, PublishRead, PublishWrite, PublishRefused, StartRead, StartWrite,
          CompleteRead, CompleteCount, CompleteWrite, CancelRideRead, SweepOverdue,
          SweepNotOverdue
  <2>4. CASE BoardingStep(p)
    BY <2>4 DEF BoardingStep, OtpRead, VerifyOtpRead, OtpSave, OtpCompare, MarkBoarded,
                MarkDropped
  <2>5. CASE Fail(p)
    BY <2>5 DEF Fail
  <2> QED
    BY <2>1, <2>2, <2>3, <2>4, <2>5 DEF Step, HandlerStep
<1>2. \A q \in Procs : q # p => pc'[q] = pc[q] /\ on'[q] = on[q]
  BY StepOfOne
<1>3. pc'[p] = "dropWrite" => bookingStatus'[on'[p]] = "PAYMENT_PENDING"
  <2>1. SUFFICES ASSUME pc'[p] = "dropWrite"
                 PROVE  bookingStatus'[on'[p]] = "PAYMENT_PENDING"
    OBVIOUS
  <2>2. PICK r \in Requests : DropLock(p, r)
    BY <2>1, EntersDropWrite
  <2> QED
    BY <2>2 DEF DropLock, StillUnpaid, rows
<1>4. ASSUME NEW q \in Procs, q # p, pc[q] = "dropWrite"
      PROVE  bookingStatus'[on[q]] = "PAYMENT_PENDING"
  <2>1. bookingStatus[on[q]] = "PAYMENT_PENDING" /\ rideLock = q /\ on[q] \in Requests
    BY <1>4 DEF LockedInv, HoldsItsRows, RideLockSteps, KnowsRequest, RequestSteps
  <2>2. ~CloseWrite(p) /\ ~DropWrite(p)
    BY <1>4, <2>1 DEF CloseWrite, DropWrite, At, HoldsItsRows, RideLockSteps
  <2>3. ASSUME NEW paid \in BOOLEAN
        PROVE  ~Reserve(p, paid)
    BY <2>1, NamesAssumption DEF Reserve, RideUnlocked
  <2> QED
    BY <2>1, <2>2, <2>3, SeatWriters DEF SeatVars
<1>5. ASSUME NEW q \in Procs, pc'[q] = "dropWrite"
      PROVE  bookingStatus'[on'[q]] = "PAYMENT_PENDING"
  BY <1>2, <1>3, <1>4, <1>5
<1>6. ASSUME NEW q \in Procs
      PROVE  pc'[q] \notin UnlockedSteps
  BY <1>1, <1>2 DEF LockedInv
<1> QED
  BY <1>5, <1>6 DEF LockedInv

(* The promise of acceptRequest's header, for any number of handlers,        *)
(* requests and seats: as long as seats are given back only under the ride's *)
(* row lock, the ride's seat counter and its bookings implement the ledger.  *)
THEOREM RideImplementsLedger ==
  ASSUME LockedOnly
  PROVE  Spec => LedgerSpec
<1>1. Init => Ledger!LedgerInit
  BY DEF Init, Ledger!LedgerInit, Active
<1>2. Init => LockedInv
  BY DEF Init, LockedInv, UnlockedSteps
<1>3. TypeInv /\ HoldsItsRows /\ LockedInv /\ [Next]_vars => LockedInv'
  BY LockedStep
<1>4. TypeInv /\ LockedInv /\ [Next]_vars => [Ledger!LedgerNext]_(Ledger!ledgerVars)
  BY LedgerStep
<1>5. Spec => []TypeInv
  BY TypeCorrect DEF TypeInv
<1> QED
  BY <1>1, <1>2, <1>3, <1>4, <1>5, OneTransactionPerRow, PTL
  DEF Spec, LedgerSpec, Ledger!LedgerSpec

(* ... and so no seat is ever promised twice, however many accepts, closings *)
(* and releases run at once.                                                 *)
THEOREM NoSeatPromisedTwice ==
  ASSUME LockedOnly
  PROVE  Spec => []NeverOversold
<1>1. LedgerP!SeatNumbers
  BY DEF LedgerP!SeatNumbers
<1>2. LedgerP!LedgerSpec => []LedgerP!LedgerBalanced
  BY <1>1, LedgerP!LedgerIsBalanced
<1>3. Spec => LedgerSpec
  BY RideImplementsLedger
<1>4. Ledger!LedgerInit => LedgerP!LedgerInit
  BY DEF Ledger!LedgerInit, LedgerP!LedgerInit
<1>5. [Ledger!LedgerNext]_(Ledger!ledgerVars) => [LedgerP!LedgerNext]_(LedgerP!ledgerVars)
  BY DEF Ledger!LedgerNext, LedgerP!LedgerNext, Ledger!ledgerVars, LedgerP!ledgerVars,
     Ledger!Take, LedgerP!Take, Ledger!GiveBack, LedgerP!GiveBack, Ledger!CallOff, LedgerP!CallOff
<1>6. LedgerSpec => LedgerP!LedgerSpec
  BY <1>4, <1>5, PTL DEF LedgerSpec, Ledger!LedgerSpec, LedgerP!LedgerSpec
<1>7. LedgerP!LedgerBalanced => NeverOversold
  <2>1. LedgerP!Cardinality(LedgerP!Places(Active)) = Cardinality(HeldSeats)
    BY Zenon DEF LedgerP!Cardinality, Cardinality, HeldSeats, Ledger!Places, LedgerP!Places
  <2> QED
    BY <2>1 DEF LedgerP!LedgerBalanced, NeverOversold
<1> QED
  BY <1>2, <1>3, <1>6, <1>7, PTL

---------------------------------------------------------------------------
USE RequestsAssumption, NamesAssumption DEF
  RowsTypeOK, LocksTypeOK, HandlersTypeOK, TypeOK, KnowsRequest, RequestSteps, Steps,
  rideVars, otpVars, bookingVars, rows, locks, procVars

(* The steps whose handler has found a payment.                              *)
MoneySteps ==
  {"settleTx", "settleConfirm", "settleLate", "failWrite", "refundTx", "refundHeld", "refundPlain"}

(* The steps whose handler has found a booking that may board.               *)
BoardingSteps == {"otpSave", "otpCompare", "otpMark"}

(* All the steps that rely on an earlier read of money.                      *)
WatchedSteps == MoneySteps \cup BoardingSteps \cup {"insertOrder"}

(* The columns that money and boarding are about.                            *)
moneyVars == <<bookingStatus, paymentStatus, payoutStatus, boardingStatus, payment>>

(* A booking that was not made yet owes and owns nothing.                    *)
FreshBooking ==
  \A r \in Requests : bookingStatus[r] = "NONE" =>
    /\ paymentStatus[r] = "NOT_REQUIRED"
    /\ payoutStatus[r] = "NONE"
    /\ payment[r] = "NONE"
    /\ boardingStatus[r] = "NOT_BOARDED"

(* What handler p found out before its next step still holds.                *)
Remembers(p) ==
  /\ pc[p] \in MoneySteps => HasPayment(on[p])
  /\ pc[p] = "insertOrder" => CanOwe(on[p])
  /\ pc[p] \in BoardingSteps => MayBoard(on[p])

(* What the rows promise ...                                                 *)
PaidRows == FreshBooking /\ ConfirmedWasPaid /\ BoardedHasPaid /\ LedgersAgree /\ ReleasedWasBoarded

(* ... and what makes it inductive.                                          *)
PaidInv == PaidRows /\ \A p \in Procs : Remembers(p)

(* If a step revokes nothing, what the other handlers remember stays true.   *)
LEMMA RemembersKept ==
  ASSUME TypeInv, PaidInv, NEW p \in Procs, Step(p), Irrevocable, Remembers(p)'
  PROVE  \A q \in Procs : Remembers(q)'
<1> TAKE q \in Procs
<1>1. CASE q = p
  BY <1>1
<1>2. CASE q # p
  <2>1. pc'[q] = pc[q] /\ on'[q] = on[q]
    BY <1>2, StepOfOne
  <2>2. Remembers(q)
    BY DEF PaidInv
  <2>3. pc[q] \in WatchedSteps => on[q] \in Requests
    BY DEF TypeInv, WatchedSteps, MoneySteps, BoardingSteps
  <2> QED
    BY <2>1, <2>2, <2>3 DEF Remembers, Irrevocable, HasPayment, CanOwe, MayBoard, WatchedSteps
<1> QED
  BY <1>1, <1>2

(* A step that writes no money only has to remember what it just read ...    *)
LEMMA WatchedStep ==
  ASSUME TypeInv, PaidInv, NEW p \in Procs, Step(p), UNCHANGED moneyVars, Remembers(p)'
  PROVE  PaidInv' /\ Irrevocable
<1>1. PaidRows'
  BY DEF PaidInv, PaidRows, FreshBooking, ConfirmedWasPaid, BoardedHasPaid, LedgersAgree,
         ReleasedWasBoarded, moneyVars
<1>2. Irrevocable
  BY DEF Irrevocable, HasPayment, CanOwe, MayBoard, moneyVars
<1> QED
  BY <1>1, <1>2, RemembersKept DEF PaidInv

(* ... or nothing at all.                                                    *)
LEMMA QuietStep ==
  ASSUME TypeInv, PaidInv, NEW p \in Procs, Step(p), UNCHANGED moneyVars,
         pc'[p] \notin WatchedSteps
  PROVE  PaidInv' /\ Irrevocable
<1>1. Remembers(p)'
  BY DEF Remembers, WatchedSteps, MoneySteps, BoardingSteps
<1> QED
  BY <1>1, WatchedStep

(* The booking service: only Reserve and CancelTx write a booking.           *)
LEMMA BookingPaid ==
  ASSUME TypeInv, PaidInv, NEW p \in Procs, BookingStep(p), UNCHANGED crashed
  PROVE  PaidInv' /\ Irrevocable
<1> USE DEF Begin, At, Goto, Return
<1>0. Step(p)
  BY DEF Step, HandlerStep
<1>1. ASSUME NEW r \in Requests,
             \/ RequestRead(p, r) \/ AcceptRead(p, r) \/ RejectRead(p, r)
             \/ WithdrawRead(p, r) \/ CancelRead(p, r)
      PROVE  PaidInv' /\ Irrevocable
  <2>1. UNCHANGED moneyVars /\ pc'[p] \notin WatchedSteps
    BY <1>1 DEF RequestRead, AcceptRead, RejectRead, WithdrawRead, CancelRead,
                TypeInv, moneyVars, WatchedSteps, MoneySteps, BoardingSteps
  <2> QED
    BY <1>0, <2>1, QuietStep
<1>2. CASE \/ FindDuplicate(p) \/ RequestInsert(p) \/ RequestTooFar(p) \/ AcceptRefused(p)
           \/ RejectWrite(p) \/ WithdrawFind(p) \/ WithdrawWrite(p) \/ WithdrawCancelRead(p)
  <2>1. UNCHANGED moneyVars /\ pc'[p] \notin WatchedSteps
    BY <1>2 DEF FindDuplicate, RequestInsert, RequestTooFar, AcceptRefused, RejectWrite,
                WithdrawFind, WithdrawWrite, WithdrawCancelRead,
                TypeInv, moneyVars, WatchedSteps, MoneySteps, BoardingSteps
  <2> QED
    BY <1>0, <2>1, QuietStep
<1>3. ASSUME NEW paid \in BOOLEAN, Reserve(p, paid)
      PROVE  PaidInv' /\ Irrevocable
  <2>1. on[p] \in Requests /\ bookingStatus[on[p]] = "NONE"
    BY <1>3 DEF Reserve, CanReserve, TypeInv
  <2>2. PaidRows'
    BY <1>3, <2>1 DEF Reserve, NewBookingStatus, TypeInv, PaidInv, PaidRows, FreshBooking,
       ConfirmedWasPaid, BoardedHasPaid, LedgersAgree, ReleasedWasBoarded
  <2>3. Irrevocable
    BY <1>3, <2>1 DEF Reserve, TypeInv, Irrevocable, HasPayment, CanOwe, MayBoard
  <2>4. Remembers(p)'
    BY <1>3 DEF Reserve, TypeInv, Remembers, MoneySteps, BoardingSteps
  <2> QED
    BY <1>0, <2>2, <2>3, <2>4, RemembersKept DEF PaidInv
<1>4. CASE CancelTx(p)
  <2>1. on[p] \in Requests
    BY <1>4 DEF CancelTx, TypeInv
  <2>2. /\ bookingStatus' = [bookingStatus EXCEPT ![on[p]] = "CANCELLED"]
        /\ UNCHANGED <<paymentStatus, payoutStatus, boardingStatus, payment>>
        /\ pc'[p] \in {"idle", "refundRead"}
    BY <1>4 DEF CancelTx, ReleaseSeats, TypeInv
  <2>3. PaidRows'
    BY <2>1, <2>2 DEF TypeInv, PaidInv, PaidRows, FreshBooking,
       ConfirmedWasPaid, BoardedHasPaid, LedgersAgree, ReleasedWasBoarded
  <2>4. Irrevocable
    BY <2>1, <2>2 DEF TypeInv, Irrevocable, HasPayment, CanOwe, MayBoard
  <2>5. Remembers(p)'
    BY <2>2 DEF Remembers, MoneySteps, BoardingSteps
  <2> QED
    BY <1>0, <2>3, <2>4, <2>5, RemembersKept DEF PaidInv
<1> QED
  BY <1>1, <1>2, <1>3, <1>4 DEF BookingStep

(* The payment service: orders, settlements and refunds.                     *)
LEMMA PaymentPaid ==
  ASSUME TypeInv, PaidInv, NEW p \in Procs, PaymentStep(p), UNCHANGED crashed
  PROVE  PaidInv' /\ Irrevocable
<1> USE DEF Begin, At, Goto, Return
<1>0. Step(p)
  BY DEF Step, HandlerStep
<1>1. ASSUME NEW r \in Requests,
             \/ OrderRead(p, r) \/ VerifyRead(p, r) \/ VerifyBadSignature(p, r)
             \/ WebhookRead(p, r) \/ RefundRead(p, r)
      PROVE  PaidInv' /\ Irrevocable
  <2>1. UNCHANGED moneyVars
    BY <1>1 DEF OrderRead, VerifyRead, VerifyBadSignature, WebhookRead, RefundRead, moneyVars
  <2>2. Remembers(p)'
    BY <1>1 DEF OrderRead, VerifyRead, VerifyBadSignature, WebhookRead, RefundRead, ToSettle,
                TypeInv, Remembers, HasPayment, CanOwe, MoneySteps, BoardingSteps
  <2> QED
    BY <1>0, <2>1, <2>2, WatchedStep
<1>2. ASSUME NEW r \in Requests, RefundNothing(p, r)
      PROVE  PaidInv' /\ Irrevocable
  <2>1. UNCHANGED moneyVars /\ pc'[p] \in {"refundRead", "sweepFind", "idle"}
    BY <1>2 DEF RefundNothing, RefundDone, AfterRefund, TypeInv, moneyVars
  <2> QED
    BY <1>0, <2>1, QuietStep DEF WatchedSteps, MoneySteps, BoardingSteps
<1>3. CASE SettleTx(p) \/ RefundTx(p)
  <2>1. UNCHANGED moneyVars
    BY <1>3 DEF SettleTx, RefundTx, moneyVars
  <2>2. Remembers(p)'
    BY <1>3 DEF SettleTx, RefundTx, TypeInv, PaidInv, Remembers, HasPayment,
                MoneySteps, BoardingSteps
  <2> QED
    BY <1>0, <2>1, <2>2, WatchedStep
<1>4. CASE OrderInsert(p)
  <2>1. on[p] \in Requests /\ CanOwe(on[p])
    BY <1>4 DEF OrderInsert, TypeInv, PaidInv, Remembers
  <2>2. /\ payment' = [payment EXCEPT ![on[p]] = IF @ = "NONE" THEN "PENDING" ELSE @]
        /\ UNCHANGED <<bookingStatus, paymentStatus, payoutStatus, boardingStatus>>
        /\ pc'[p] = "idle"
    BY <1>4 DEF OrderInsert, TypeInv
  <2>3. PaidRows'
    BY <2>1, <2>2 DEF CanOwe, TypeInv, PaidInv, PaidRows, FreshBooking,
       ConfirmedWasPaid, BoardedHasPaid, LedgersAgree, ReleasedWasBoarded
  <2>4. Irrevocable
    BY <2>1, <2>2 DEF TypeInv, Irrevocable, HasPayment, CanOwe, MayBoard
  <2>5. Remembers(p)'
    BY <2>2 DEF Remembers, MoneySteps, BoardingSteps
  <2> QED
    BY <1>0, <2>3, <2>4, <2>5, RemembersKept DEF PaidInv
<1>5. CASE FailWrite(p)
  <2>1. on[p] \in Requests /\ HasPayment(on[p])
    BY <1>5 DEF FailWrite, TypeInv, PaidInv, Remembers, MoneySteps
  <2>2. /\ payment' = [payment EXCEPT ![on[p]] = "FAILED"]
        /\ UNCHANGED <<bookingStatus, paymentStatus, payoutStatus, boardingStatus>>
        /\ pc'[p] = "idle"
    BY <1>5 DEF FailWrite, TypeInv
  <2>3. PaidRows'
    BY <2>1, <2>2 DEF HasPayment, TypeInv, PaidInv, PaidRows, FreshBooking,
       ConfirmedWasPaid, BoardedHasPaid, LedgersAgree, ReleasedWasBoarded
  <2>4. Irrevocable
    BY <2>1, <2>2 DEF TypeInv, Irrevocable, HasPayment, CanOwe, MayBoard
  <2>5. Remembers(p)'
    BY <2>2 DEF Remembers, MoneySteps, BoardingSteps
  <2> QED
    BY <1>0, <2>3, <2>4, <2>5, RemembersKept DEF PaidInv
<1>6. CASE SettleConfirm(p)
  <2>1. on[p] \in Requests /\ HasPayment(on[p])
    BY <1>6 DEF SettleConfirm, TypeInv, PaidInv, Remembers, MoneySteps
  <2>2. /\ payment' = [payment EXCEPT ![on[p]] = "SUCCESS"]
        /\ paymentStatus' = [paymentStatus EXCEPT ![on[p]] = "SUCCESS"]
        /\ bookingStatus' = [bookingStatus EXCEPT ![on[p]] = "CONFIRMED"]
        /\ payoutStatus' = [payoutStatus EXCEPT ![on[p]] = "HELD"]
        /\ UNCHANGED boardingStatus
        /\ pc'[p] = "idle"
    BY <1>6 DEF SettleConfirm, Paid, otpVars, TypeInv
  <2>3. PaidRows'
    BY <2>1, <2>2 DEF HasPayment, TypeInv, PaidInv, PaidRows, FreshBooking,
       ConfirmedWasPaid, BoardedHasPaid, LedgersAgree, ReleasedWasBoarded
  <2>4. Irrevocable
    BY <2>1, <2>2 DEF TypeInv, Irrevocable, HasPayment, CanOwe, MayBoard
  <2>5. Remembers(p)'
    BY <2>2 DEF Remembers, MoneySteps, BoardingSteps
  <2> QED
    BY <1>0, <2>3, <2>4, <2>5, RemembersKept DEF PaidInv
<1>7. CASE SettleLate(p)
  <2>1. on[p] \in Requests /\ HasPayment(on[p])
    BY <1>7 DEF SettleLate, TypeInv, PaidInv, Remembers, MoneySteps
  <2>2. /\ payment' = [payment EXCEPT ![on[p]] = "SUCCESS"]
        /\ paymentStatus' = [paymentStatus EXCEPT ![on[p]] = "SUCCESS"]
        /\ UNCHANGED <<bookingStatus, payoutStatus, boardingStatus>>
        /\ pc'[p] = "refundRead"
    BY <1>7 DEF SettleLate, Paid, TypeInv
  <2>3. PaidRows'
    BY <2>1, <2>2 DEF HasPayment, TypeInv, PaidInv, PaidRows, FreshBooking,
       ConfirmedWasPaid, BoardedHasPaid, LedgersAgree, ReleasedWasBoarded
  <2>4. Irrevocable
    BY <2>1, <2>2 DEF TypeInv, Irrevocable, HasPayment, CanOwe, MayBoard
  <2>5. Remembers(p)'
    BY <2>2 DEF Remembers, MoneySteps, BoardingSteps
  <2> QED
    BY <1>0, <2>3, <2>4, <2>5, RemembersKept DEF PaidInv
<1>8. CASE RefundWrite(p)
  <2>1. on[p] \in Requests /\ HasPayment(on[p])
    BY <1>8 DEF RefundWrite, TypeInv, PaidInv, Remembers, MoneySteps
  <2>2. /\ payment' = [payment EXCEPT ![on[p]] = "REFUNDED"]
        /\ paymentStatus' = [paymentStatus EXCEPT ![on[p]] = "REFUNDED"]
        /\ payoutStatus' \in {payoutStatus, [payoutStatus EXCEPT ![on[p]] = "REFUNDED"]}
        /\ UNCHANGED <<bookingStatus, boardingStatus>>
        /\ pc'[p] \in {"refundRead", "sweepFind", "idle"}
    BY <1>8 DEF RefundWrite, RefundDone, AfterRefund, TypeInv
  <2>3. PaidRows'
    BY <2>1, <2>2 DEF HasPayment, TypeInv, PaidInv, PaidRows, FreshBooking,
       ConfirmedWasPaid, BoardedHasPaid, LedgersAgree, ReleasedWasBoarded
  <2>4. Irrevocable
    BY <2>1, <2>2 DEF TypeInv, Irrevocable, HasPayment, CanOwe, MayBoard
  <2>5. Remembers(p)'
    BY <2>2 DEF Remembers, MoneySteps, BoardingSteps
  <2> QED
    BY <1>0, <2>3, <2>4, <2>5, RemembersKept DEF PaidInv
<1> QED
  BY <1>1, <1>2, <1>3, <1>4, <1>5, <1>6, <1>7, <1>8 DEF PaymentStep

(* The lifecycle and the sweep: closing and dropping cancel, and only that.  *)
LEMMA LifecyclePaid ==
  ASSUME TypeInv, PaidInv, NEW p \in Procs, LifecycleStep(p), UNCHANGED crashed
  PROVE  PaidInv' /\ Irrevocable
<1> USE DEF Begin, At, Goto, Return
<1>0. Step(p)
  BY DEF Step, HandlerStep
<1>1. CASE \/ PublishRead(p) \/ PublishWrite(p) \/ PublishRefused(p) \/ StartRead(p)
           \/ StartWrite(p) \/ CompleteRead(p) \/ CompleteWrite(p) \/ CancelRideRead(p)
           \/ SweepOverdue(p) \/ SweepNotOverdue(p) \/ CompleteCount(p) \/ CloseRefused(p)
           \/ CloseLock(p)
  <2>1. UNCHANGED moneyVars
    BY <1>1 DEF PublishRead, PublishWrite, PublishRefused, StartRead, StartWrite, CompleteRead,
                CompleteWrite, CancelRideRead, SweepOverdue, SweepNotOverdue, CompleteCount,
                CloseRefused, CloseLock, SetRideStatus, moneyVars
  <2>2. pc'[p] \notin WatchedSteps
    BY <1>1 DEF PublishRead, PublishWrite, PublishRefused, StartRead, StartWrite, CompleteRead,
                CompleteWrite, CancelRideRead, SweepOverdue, SweepNotOverdue, CompleteCount,
                CloseRefused, CloseLock, TypeInv, WatchedSteps, MoneySteps, BoardingSteps
  <2> QED
    BY <1>0, <2>1, <2>2, QuietStep
<1>2. CASE \/ StartFind(p)
           \/ \E overdue \in SUBSET PastDeadline : SweepFind(p, overdue)
           \/ \E r \in Requests : DropLock(p, r) \/ DropSkip(p, r)
  <2>1. UNCHANGED moneyVars
    BY <1>2 DEF StartFind, SweepFind, DropLock, DropSkip, moneyVars
  <2>2. pc'[p] \in {"idle", "dropLock", "dropWrite"}
    BY <1>2 DEF StartFind, SweepFind, DropLock, DropSkip, DropAll, TypeInv
  <2> QED
    BY <1>0, <2>1, <2>2, QuietStep DEF WatchedSteps, MoneySteps, BoardingSteps
<1>3. CASE CloseWrite(p)
  <2>1. /\ bookingStatus' =
             [r \in Requests |-> IF r \in Active THEN "CANCELLED" ELSE bookingStatus[r]]
        /\ UNCHANGED <<paymentStatus, payoutStatus, boardingStatus, payment>>
    BY <1>3 DEF CloseWrite
  <2>2. pc'[p] \in {"refundRead", "sweepFind", "idle"}
    BY <1>3 DEF CloseWrite, TypeInv
  <2>3. PaidRows'
    BY <2>1 DEF Active, TypeInv, PaidInv, PaidRows, FreshBooking,
       ConfirmedWasPaid, BoardedHasPaid, LedgersAgree, ReleasedWasBoarded
  <2>4. Irrevocable
    BY <2>1 DEF Active, TypeInv, Irrevocable, HasPayment, CanOwe, MayBoard
  <2>5. Remembers(p)'
    BY <2>2 DEF Remembers, MoneySteps, BoardingSteps
  <2> QED
    BY <1>0, <2>3, <2>4, <2>5, RemembersKept DEF PaidInv
<1>4. CASE DropWrite(p)
  <2>1. on[p] \in Requests
    BY <1>4 DEF DropWrite, TypeInv, PaidInv
  <2>2. /\ bookingStatus' = [bookingStatus EXCEPT ![on[p]] = "CANCELLED"]
        /\ UNCHANGED <<paymentStatus, payoutStatus, boardingStatus, payment>>
        /\ pc'[p] \in {"dropLock", "idle"}
    BY <1>4 DEF DropWrite, ReleaseSeats, NextDrop, TypeInv
  <2>3. PaidRows'
    BY <2>1, <2>2 DEF TypeInv, PaidInv, PaidRows, FreshBooking,
       ConfirmedWasPaid, BoardedHasPaid, LedgersAgree, ReleasedWasBoarded
  <2>4. Irrevocable
    BY <2>1, <2>2 DEF TypeInv, Irrevocable, HasPayment, CanOwe, MayBoard
  <2>5. Remembers(p)'
    BY <2>2 DEF Remembers, MoneySteps, BoardingSteps
  <2> QED
    BY <1>0, <2>3, <2>4, <2>5, RemembersKept DEF PaidInv
<1> QED
  BY <1>1, <1>2, <1>3, <1>4 DEF LifecycleStep

(* The boarding service: every write acts on an earlier check.               *)
LEMMA BoardingPaid ==
  ASSUME TypeInv, PaidInv, NEW p \in Procs, BoardingStep(p), UNCHANGED crashed
  PROVE  PaidInv' /\ Irrevocable
<1> USE DEF Begin, At, Goto, Return
<1>0. Step(p)
  BY DEF Step, HandlerStep
<1>1. ASSUME NEW r \in Requests, NEW stage \in {"PICKUP", "DROP"},
             OtpRead(p, r, stage) \/ VerifyOtpRead(p, r, stage)
      PROVE  PaidInv' /\ Irrevocable
  <2>1. UNCHANGED moneyVars
    BY <1>1 DEF OtpRead, VerifyOtpRead, moneyVars
  <2>2. on'[p] = r /\ pc'[p] \in {"otpSave", "otpCompare"} /\ bookingStatus[r] = "CONFIRMED"
    BY <1>1 DEF OtpRead, VerifyOtpRead, TypeInv
  <2>3. MayBoard(r)
    BY <2>2 DEF MayBoard, PaidInv, PaidRows, ConfirmedWasPaid
  <2>4. Remembers(p)'
    BY <2>1, <2>2, <2>3 DEF Remembers, MayBoard, MoneySteps, BoardingSteps, moneyVars
  <2> QED
    BY <1>0, <2>1, <2>4, WatchedStep
<1>2. CASE OtpCompare(p)
  <2>1. UNCHANGED moneyVars
    BY <1>2 DEF OtpCompare, moneyVars
  <2>2. Remembers(p)'
    BY <1>2 DEF OtpCompare, TypeInv, PaidInv, Remembers, MayBoard, MoneySteps, BoardingSteps
  <2> QED
    BY <1>0, <2>1, <2>2, WatchedStep
<1>3. CASE OtpSave(p)
  <2>1. on[p] \in Requests /\ MayBoard(on[p])
    BY <1>3 DEF OtpSave, TypeInv, PaidInv, Remembers, BoardingSteps
  <2>2. /\ boardingStatus' \in {[boardingStatus EXCEPT ![on[p]] = "OTP_SENT"],
                            [boardingStatus EXCEPT ![on[p]] = "DROP_OTP_SENT"]}
        /\ UNCHANGED <<bookingStatus, paymentStatus, payoutStatus, payment>>
        /\ pc'[p] = "idle"
    BY <1>3 DEF OtpSave, Sent, TypeInv
  <2>3. PaidRows'
    BY <2>1, <2>2 DEF MayBoard, TypeInv, PaidInv, PaidRows, FreshBooking,
       ConfirmedWasPaid, BoardedHasPaid, LedgersAgree, ReleasedWasBoarded
  <2>4. Irrevocable
    BY <2>1, <2>2 DEF TypeInv, Irrevocable, HasPayment, CanOwe, MayBoard
  <2>5. Remembers(p)'
    BY <2>2 DEF Remembers, MoneySteps, BoardingSteps
  <2> QED
    BY <1>0, <2>3, <2>4, <2>5, RemembersKept DEF PaidInv
<1>4. CASE MarkBoarded(p)
  <2>1. on[p] \in Requests /\ MayBoard(on[p])
    BY <1>4 DEF MarkBoarded, TypeInv, PaidInv, Remembers, BoardingSteps
  <2>2. /\ boardingStatus' = [boardingStatus EXCEPT ![on[p]] = "BOARDED"]
        /\ UNCHANGED <<bookingStatus, paymentStatus, payoutStatus, payment>>
        /\ pc'[p] = "idle"
    BY <1>4 DEF MarkBoarded, TypeInv
  <2>3. PaidRows'
    BY <2>1, <2>2 DEF MayBoard, TypeInv, PaidInv, PaidRows, FreshBooking,
       ConfirmedWasPaid, BoardedHasPaid, LedgersAgree, ReleasedWasBoarded
  <2>4. Irrevocable
    BY <2>1, <2>2 DEF TypeInv, Irrevocable, HasPayment, CanOwe, MayBoard
  <2>5. Remembers(p)'
    BY <2>2 DEF Remembers, MoneySteps, BoardingSteps
  <2> QED
    BY <1>0, <2>3, <2>4, <2>5, RemembersKept DEF PaidInv
<1>5. CASE MarkDropped(p)
  <2>1. on[p] \in Requests /\ MayBoard(on[p])
    BY <1>5 DEF MarkDropped, TypeInv, PaidInv, Remembers, BoardingSteps
  <2>2. /\ boardingStatus' = [boardingStatus EXCEPT ![on[p]] = "DROPPED"]
        /\ payoutStatus' = [payoutStatus EXCEPT ![on[p]] = IF @ = "HELD" THEN "RELEASED" ELSE @]
        /\ UNCHANGED <<bookingStatus, paymentStatus, payment>>
        /\ pc'[p] = "idle"
    BY <1>5 DEF MarkDropped, TypeInv
  <2>3. PaidRows'
    BY <2>1, <2>2 DEF MayBoard, TypeInv, PaidInv, PaidRows, FreshBooking,
       ConfirmedWasPaid, BoardedHasPaid, LedgersAgree, ReleasedWasBoarded
  <2>4. Irrevocable
    BY <2>1, <2>2 DEF TypeInv, Irrevocable, HasPayment, CanOwe, MayBoard
  <2>5. Remembers(p)'
    BY <2>2 DEF Remembers, MoneySteps, BoardingSteps
  <2> QED
    BY <1>0, <2>3, <2>4, <2>5, RemembersKept DEF PaidInv
<1> QED
  BY <1>1, <1>2, <1>3, <1>4, <1>5 DEF BoardingStep

(* A handler that dies forgets, and writes nothing.                          *)
LEMMA FailPaid ==
  ASSUME TypeInv, PaidInv, NEW p \in Procs, Fail(p)
  PROVE  PaidInv' /\ Irrevocable
<1>1. Step(p)
  BY DEF Step
<1>2. UNCHANGED moneyVars /\ pc'[p] \notin WatchedSteps
  BY DEF Fail, Return, TypeInv, moneyVars, WatchedSteps, MoneySteps, BoardingSteps
<1> QED
  BY <1>1, <1>2, QuietStep

(* Any number of handlers, interleaved at their statements and dying between *)
(* them, keeps bookings, payments, payouts and boarding in agreement, and    *)
(* what a handler has read about money holds when it writes.                 *)
LEMMA NextPaid ==
  ASSUME TypeInv, PaidInv, [Next]_vars
  PROVE  PaidInv' /\ Irrevocable
<1>1. ASSUME NEW p \in Procs, HandlerStep(p)
      PROVE  PaidInv' /\ Irrevocable
  BY <1>1, BookingPaid, PaymentPaid, LifecyclePaid, BoardingPaid DEF HandlerStep
<1>2. ASSUME NEW p \in Procs, Fail(p)
      PROVE  PaidInv' /\ Irrevocable
  BY <1>2, FailPaid
<1>3. CASE UNCHANGED vars
  <2>1. PaidInv'
    BY <1>3 DEF vars, PaidInv, PaidRows, FreshBooking, ConfirmedWasPaid, BoardedHasPaid,
       LedgersAgree, ReleasedWasBoarded, Remembers, HasPayment, CanOwe, MayBoard
  <2>2. Irrevocable
    BY <1>3 DEF vars, Irrevocable, HasPayment, CanOwe, MayBoard
  <2> QED
    BY <2>1, <2>2
<1> QED
  BY <1>1, <1>2, <1>3 DEF Next, Step

(* The inductive invariant holds in every reachable state.                   *)
THEOREM PaidInvariant == Spec => []PaidInv
<1>1. Init => PaidInv
  BY DEF Init, PaidInv, PaidRows, FreshBooking, ConfirmedWasPaid, BoardedHasPaid, LedgersAgree,
         ReleasedWasBoarded, Remembers, MoneySteps, BoardingSteps
<1>2. TypeInv /\ PaidInv /\ [Next]_vars => PaidInv'
  BY NextPaid
<1> QED
  BY <1>1, <1>2, TypeCorrect, PTL DEF Spec

(* No interleaving of accepts, payments, releases, refunds and crashes        *)
(* confirms a seat that costs a tip without a payment.                       *)
THEOREM NobodyConfirmedForFree == Spec => []ConfirmedWasPaid
<1>1. PaidInv => ConfirmedWasPaid
  BY DEF PaidInv, PaidRows
<1> QED
  BY <1>1, PaidInvariant, PTL

(* Nobody is sent a code, boards or is dropped on a booking that was never    *)
(* confirmed or that still owes its tip, though sendOtp and verifyOtp check  *)
(* the booking statements before they write it.                              *)
THEOREM NobodyBoardsForFree == Spec => []BoardedHasPaid
<1>1. PaidInv => BoardedHasPaid
  BY DEF PaidInv, PaidRows
<1> QED
  BY <1>1, PaidInvariant, PTL

(* The payment row and its booking agree in every state, though a booking is *)
(* never locked while it is settled or refunded.                             *)
THEOREM PaymentsAndBookingsAgree == Spec => []LedgersAgree
<1>1. PaidInv => LedgersAgree
  BY DEF PaidInv, PaidRows
<1> QED
  BY <1>1, PaidInvariant, PTL

(* The rider's share is released only for a passenger who paid and was sent  *)
(* a code on the way.                                                        *)
THEOREM OnlyBoardedPaysTheRider == Spec => []ReleasedWasBoarded
<1>1. PaidInv => ReleasedWasBoarded
  BY DEF PaidInv, PaidRows
<1> QED
  BY <1>1, PaidInvariant, PTL

(* That a payment is on record, that a booking costs a tip, that it was      *)
(* confirmed and owes nothing: once read by a handler, no other undoes it.   *)
THEOREM MoneyStays == Spec => MoneyIsIrrevocable
<1>1. TypeInv /\ PaidInv /\ [Next]_vars => [Irrevocable]_vars
  BY NextPaid
<1> QED
  BY <1>1, TypeCorrect, PaidInvariant, PTL DEF Spec, MoneyIsIrrevocable
===============================================================================
