--------------------------- MODULE RideInTurnProofs ---------------------------
(***************************************************************************)
(* What the system promises about a trip whose operations run one after    *)
(* the other: nobody takes a turn while another handler is in flight,      *)
(* though any of them may die half way.  The runs that break these         *)
(* promises show that the premise is needed: the handlers write on checks  *)
(* that another handler may overtake.                                      *)
(*                                                                         *)
(* A handler that is alone finds the rows as it left them, so the          *)
(* invariant says of each program counter what the handler read and still  *)
(* has to write (Recalls), which refunds and which releases are still      *)
(* ahead of it (Settled, Dropped), and what the rows promise between two   *)
(* operations and during each (RowsInTurn, SeatsInTurn).  One lemma per    *)
(* service shows that the handler at work keeps them (Works); the other    *)
(* handlers are idle and recall nothing (Alone).                           *)
(***************************************************************************)
EXTENDS RideInterleavingProofs

USE RequestsAssumption, NamesAssumption DEF
  RowsTypeOK, LocksTypeOK, HandlersTypeOK, TypeOK, KnowsRequest, RequestSteps, Steps,
  rideVars, otpVars, bookingVars, rows, locks, procVars

(* The premise: handlers take turns.                                         *)
OneAtATime == \A p, q \in Procs : ~Idle(p) /\ ~Idle(q) => p = q

(* Money is with whoever is due it: a failed payment is not a paid booking,  *)
(* what the booking calls paid was paid, and only a cancelled booking is     *)
(* refunded.                                                                 *)
MoneyAgrees ==
  \A r \in Requests :
    /\ payment[r] = "FAILED" => paymentStatus[r] \in {"PENDING", "REFUNDED"}
    /\ paymentStatus[r] = "SUCCESS" => payment[r] = "SUCCESS"
    /\ payoutStatus[r] = "HELD" => payment[r] = "SUCCESS"
    /\ bookingStatus[r] = "PAYMENT_PENDING" => paymentStatus[r] = "PENDING"
    /\ paymentStatus[r] = "REFUNDED" => bookingStatus[r] = "CANCELLED"
    /\ payoutStatus[r] = "REFUNDED" => bookingStatus[r] = "CANCELLED"

RowsInTurn ==
  /\ RequestMatchesBooking
  /\ ClosedRideIsEmpty
  /\ OneActiveRequest
  /\ NobodyLeftOnBoard
  /\ PayoutFollowsDrop
  /\ MoneyAgrees

(* The places held are finitely many because they were taken one booking at  *)
(* a time: the set of all requests need not be finite.                       *)
SeatsInTurn == SeatsConserved /\ IsFiniteSet(HeldSeats)

(* What handler p has read about its request, and still holds ...            *)
RecallsRequest(p) ==
  /\ pc[p] \in {"findDuplicate", "insertRequest"} =>
       requestStatus[on[p]] = "NONE" /\ rideStatus = "PUBLISHED"
  /\ pc[p] = "insertRequest" => ~HasActiveRequest(PassengerOf[on[p]])
  /\ pc[p] \in {"acceptTx", "rejectWrite", "withdrawWrite"} => requestStatus[on[p]] = "REQUESTED"
  /\ pc[p] = "withdrawFind" => requestStatus[on[p]] = "ACCEPTED"
  /\ pc[p] \in {"cancelRead", "cancelTx"} => on[p] \in Active
  /\ pc[p] = "cancelTx" =>
       rideStatus \notin {"STARTED", "COMPLETED"} /\ todo[p] = ToRefund(on[p])

RefundSteps == {"refundTx", "refundHeld", "refundPlain"}

(* ... about a payment: whatever it refunds belongs to a cancelled booking   *)
(* ...                                                                       *)
RecallsPayment(p) ==
  /\ pc[p] \in {"settleTx", "settleConfirm", "settleLate", "failWrite"} => ToSettle(on[p])
  /\ pc[p] = "settleConfirm" => on[p] \in Active
  /\ pc[p] = "settleLate" => bookingStatus[on[p]] = "CANCELLED"
  /\ pc[p] \in {"refundRead"} \cup RefundSteps =>
       \A r \in todo[p] : bookingStatus[r] = "CANCELLED"
  /\ pc[p] \in RefundSteps => bookingStatus[on[p]] = "CANCELLED"
  /\ pc[p] = "refundHeld" => payoutStatus[on[p]] = "HELD"
  /\ pc[p] = "refundPlain" => payoutStatus[on[p]] # "HELD"

(* ... about the ride ...                                                    *)
RecallsRide(p) ==
  /\ pc[p] = "publishWrite" => rideStatus = "DRAFT"
  /\ pc[p] \in {"startWrite", "startFind"} => op[p] = "start"
  /\ pc[p] = "startWrite" => rideStatus = "PUBLISHED"
  /\ pc[p] \in {"completeCount", "completeWrite"} => rideStatus = "STARTED"
  /\ pc[p] = "completeWrite" => OnBoard = {}
  /\ pc[p] = "closeWrite" =>
       /\ rideStatus \in {"DRAFT", "PUBLISHED"}
       /\ todo[p] = {r \in Active : paymentStatus[r] = "SUCCESS"}
  /\ pc[p] = "dropWrite" => bookingStatus[on[p]] = "PAYMENT_PENDING"

(* ... and about who boards.                                                 *)
RecallsBoarding(p) ==
  /\ pc[p] \in {"otpSave", "otpCompare", "otpMark"} =>
       rideStatus = "STARTED" /\ bookingStatus[on[p]] = "CONFIRMED"
  /\ pc[p] = "otpSave" => boardingStatus[on[p]] \in From(Stage(p))
  /\ pc[p] \in {"otpCompare", "otpMark"} => boardingStatus[on[p]] = Sent(Stage(p))

Recalls(p) ==
  RecallsRequest(p) /\ RecallsPayment(p) /\ RecallsRide(p) /\ RecallsBoarding(p)

(* Handler p is still to look at r's payment and refund it ...               *)
WillRefund(p, r) ==
  \/ pc[p] = "refundRead" /\ r \in todo[p]
  \/ pc[p] \in RefundSteps /\ r \in todo[p] \cup {on[p]}

(* ... to release r's seat, because the ride has started.                    *)
WillDrop(p, r) ==
  /\ op[p] = "start"
  /\ \/ pc[p] = "startFind"
     \/ pc[p] = "dropLock" /\ r \in todo[p]
     \/ pc[p] = "dropWrite" /\ r \in todo[p] \cup {on[p]}

Owed(r) == bookingStatus[r] = "CANCELLED" /\ payment[r] = "SUCCESS"

OnTheWay == rideStatus \in {"STARTED", "COMPLETED"}

(* Unless a handler died, what a cancelled booking is owed is about to be    *)
(* refunded, and who owes on a ride on its way is about to be left behind.   *)
Settled == crashed \/ \A r \in Requests : Owed(r) => \E p \in Procs : WillRefund(p, r)

Dropped == OnTheWay /\ ~crashed => \A r \in Unpaid : \E p \in Procs : WillDrop(p, r)

(* The inductive invariant.                                                  *)
InTurnInv ==
  /\ SeatsInTurn
  /\ RowsInTurn
  /\ Settled
  /\ Dropped
  /\ \A p \in Procs : Recalls(p)

(* The same, of the one handler that is at work.                             *)
SettledBy(p) == crashed \/ \A r \in Requests : Owed(r) => WillRefund(p, r)

DroppedBy(p) == OnTheWay /\ ~crashed => \A r \in Unpaid : WillDrop(p, r)

Works(p) == SeatsInTurn /\ RowsInTurn /\ SettledBy(p) /\ DroppedBy(p) /\ Recalls(p)

(* What a step may do to the status machines and to boarding.                *)
Forward ==
  \A r \in Requests : BoardingRank[boardingStatus'[r]] >= BoardingRank[boardingStatus[r]]

Moves == RideMoves /\ BookingMoves /\ Forward

---------------------------------------------------------------------------
(* Every step begins, continues or ends the turn of its handler.             *)
LEMMA TakesATurn ==
  ASSUME TypeInv, NEW p \in Procs, Step(p)
  PROVE  ~Idle(p) \/ ~Idle(p)'
<1> USE DEF Begin, At, Idle, TypeInv
<1>1. CASE BookingStep(p)
  BY <1>1 DEF BookingStep, RequestRead, AcceptRead, RejectRead, WithdrawRead, CancelRead,
              FindDuplicate, RequestInsert, RequestTooFar, Reserve, AcceptRefused, RejectWrite,
              WithdrawFind, WithdrawWrite, WithdrawCancelRead, CancelTx
<1>2. CASE PaymentStep(p)
  <2>1. ASSUME NEW r \in Requests,
               \/ OrderRead(p, r) \/ VerifyRead(p, r) \/ VerifyBadSignature(p, r)
               \/ WebhookRead(p, r)
        PROVE  ~Idle(p)'
    BY <2>1 DEF OrderRead, VerifyRead, VerifyBadSignature, WebhookRead
  <2> QED
    BY <1>2, <2>1 DEF PaymentStep, RefundRead, RefundNothing, OrderInsert, FailWrite, SettleTx,
                      SettleConfirm, SettleLate, RefundTx, RefundWrite
<1>3. CASE LifecycleStep(p)
  <2>1. CASE PublishRead(p) \/ StartRead(p) \/ CompleteRead(p) \/ CancelRideRead(p)
    BY <2>1 DEF PublishRead, StartRead, CompleteRead, CancelRideRead
  <2>2. CASE SweepOverdue(p) \/ SweepNotOverdue(p)
    BY <2>2 DEF SweepOverdue, SweepNotOverdue
  <2> QED
    BY <1>3, <2>1, <2>2
    DEF LifecycleStep, PublishWrite, PublishRefused, StartWrite, StartFind, CompleteCount,
        CompleteWrite, CloseLock, CloseRefused, CloseWrite, DropLock, DropSkip, DropWrite,
        SweepFind
<1>4. CASE BoardingStep(p)
  <2>1. ASSUME NEW r \in Requests, NEW stage \in {"PICKUP", "DROP"},
               OtpRead(p, r, stage) \/ VerifyOtpRead(p, r, stage)
        PROVE  ~Idle(p)'
    BY <2>1 DEF OtpRead, VerifyOtpRead
  <2> QED
    BY <1>4, <2>1 DEF BoardingStep, OtpSave, OtpCompare, MarkBoarded, MarkDropped
<1>5. CASE Fail(p)
  BY <1>5 DEF Fail
<1> QED
  BY <1>1, <1>2, <1>3, <1>4, <1>5 DEF Step, HandlerStep

(* So the others are idle before it and after it.                            *)
LEMMA Alone ==
  ASSUME TypeInv, OneAtATime, OneAtATime', NEW p \in Procs, Step(p)
  PROVE  \A q \in Procs \ {p} : Idle(q) /\ Idle(q)'
<1>1. ~Idle(p) \/ ~Idle(p)'
  BY TakesATurn
<1>2. \A q \in Procs \ {p} : pc'[q] = pc[q]
  BY StepOfOne
<1> QED
  BY <1>1, <1>2 DEF OneAtATime, Idle

(* What the handler at work has read is all there is to remember: before its *)
(* step ...                                                                  *)
LEMMA WorksAlone ==
  ASSUME NEW p \in Procs, \A q \in Procs \ {p} : Idle(q), InTurnInv
  PROVE  Works(p)
<1>1. \A q \in Procs \ {p} : \A r : ~WillRefund(q, r) /\ ~WillDrop(q, r)
  BY DEF Idle, WillRefund, WillDrop, RefundSteps
<1>2. SettledBy(p)
  BY <1>1 DEF InTurnInv, Settled, SettledBy
<1>3. DroppedBy(p)
  BY <1>1 DEF InTurnInv, Dropped, DroppedBy
<1> QED
  BY <1>2, <1>3 DEF InTurnInv, Works

(* ... and after it.                                                         *)
LEMMA WorkedAlone ==
  ASSUME NEW p \in Procs, \A q \in Procs \ {p} : Idle(q)', Works(p)'
  PROVE  InTurnInv'
<1>1. ASSUME NEW q \in Procs \ {p}
      PROVE  Recalls(q)'
  <2>1. pc'[q] = "idle"
    BY DEF Idle
  <2> QED
    BY <2>1 DEF Recalls, RecallsRequest, RecallsPayment, RecallsRide, RecallsBoarding, RefundSteps
<1>2. Settled' /\ Dropped'
  BY DEF Works, Settled, SettledBy, Dropped, DroppedBy
<1> QED
  BY <1>1, <1>2 DEF InTurnInv, Works

---------------------------------------------------------------------------
(* Seats.                                                                    *)

(* A booking more holds as many places more as it asked for.                 *)
LEMMA OneMoreBooking ==
  ASSUME NEW S \in SUBSET Requests, NEW r \in Requests, r \notin S,
         IsFiniteSet(Ledger!Places(S))
  PROVE  /\ IsFiniteSet(Ledger!Places(S \cup {r}))
         /\ Cardinality(Ledger!Places(S \cup {r})) =
              Cardinality(Ledger!Places(S)) + SeatsRequested[r]
         /\ Cardinality(Ledger!Places(S)) \in Nat
<1> DEFINE SameFinite == \A T : LedgerP!IsFiniteSet(T) <=> IsFiniteSet(T)
           SameCount == \A T : LedgerP!Cardinality(T) = Cardinality(T)
           SamePlaces == \A T : LedgerP!Places(T) = Ledger!Places(T)
<1>1. SameFinite /\ SameCount /\ SamePlaces
  BY Zenon DEF LedgerP!IsFiniteSet, IsFiniteSet, LedgerP!Cardinality, Cardinality,
               LedgerP!Places, Ledger!Places
<1>2. LedgerP!SeatNumbers
  BY DEF LedgerP!SeatNumbers
<1>3. LedgerP!IsFiniteSet(LedgerP!Places(S))
  BY <1>1, Zenon
<1>4. /\ LedgerP!IsFiniteSet(LedgerP!Places(S \cup {r}))
      /\ LedgerP!Cardinality(LedgerP!Places(S \cup {r})) =
           LedgerP!Cardinality(LedgerP!Places(S)) + SeatsRequested[r]
  BY <1>2, <1>3, LedgerP!PlacesOfOneMore
<1>5. LedgerP!Cardinality(LedgerP!Places(S)) \in Nat
  BY <1>3, LedgerP!FS_CardinalityType
<1> QED
  BY <1>1, <1>4, <1>5, Zenon

(* A step that leaves the seats alone.                                       *)
LEMMA SeatsKept ==
  ASSUME SeatsInTurn, Active' = Active, availableSeats' = availableSeats,
         rideStatus \in {"DRAFT", "PUBLISHED", "STARTED", "COMPLETED"} \/ rideStatus' = rideStatus
  PROVE  SeatsInTurn'
<1>1. HeldSeats' = HeldSeats
  BY DEF HeldSeats, Ledger!Places
<1> QED
  BY <1>1 DEF SeatsInTurn, SeatsConserved

(* A step that takes the seats of one request ...                            *)
LEMMA SeatsTaken ==
  ASSUME TypeInv, SeatsInTurn, NEW r \in Requests, r \notin Active, Active' = Active \cup {r},
         availableSeats' = availableSeats - SeatsRequested[r], UNCHANGED rideStatus
  PROVE  SeatsInTurn'
<1>1. Active \in SUBSET Requests /\ IsFiniteSet(Ledger!Places(Active))
  BY DEF Active, SeatsInTurn, HeldSeats
<1>2. /\ IsFiniteSet(Ledger!Places(Active \cup {r}))
      /\ Cardinality(Ledger!Places(Active \cup {r})) = Cardinality(HeldSeats) + SeatsRequested[r]
      /\ Cardinality(HeldSeats) \in Nat
  BY <1>1, OneMoreBooking DEF HeldSeats
<1>3. HeldSeats' = Ledger!Places(Active \cup {r})
  BY DEF HeldSeats, Ledger!Places
<1>4. SeatsRequested[r] \in Nat /\ availableSeats \in Nat
  BY DEF TypeInv
<1> QED
  BY <1>2, <1>3, <1>4 DEF SeatsInTurn, SeatsConserved

(* ... or gives them back ...                                                *)
LEMMA SeatsReturned ==
  ASSUME TypeInv, SeatsInTurn, NEW r \in Active, Active' = Active \ {r},
         availableSeats' = availableSeats + SeatsRequested[r], UNCHANGED rideStatus
  PROVE  SeatsInTurn'
<1> DEFINE S == Active \ {r}
<1>1. r \in Requests /\ S \in SUBSET Requests /\ r \notin S /\ Active = S \cup {r}
  BY DEF Active
<1>2. Ledger!Places(S) \subseteq Ledger!Places(Active)
  BY DEF Ledger!Places
<1>3. IsFiniteSet(Ledger!Places(S))
  <2>1. \A T : LedgerP!IsFiniteSet(T) <=> IsFiniteSet(T)
    BY Zenon DEF LedgerP!IsFiniteSet, IsFiniteSet
  <2>2. LedgerP!IsFiniteSet(Ledger!Places(Active))
    BY <2>1 DEF SeatsInTurn, HeldSeats
  <2>3. LedgerP!IsFiniteSet(Ledger!Places(S))
    BY <1>2, <2>2, LedgerP!FS_Subset
  <2> QED
    BY <2>1, <2>3
<1>4. /\ Cardinality(Ledger!Places(S \cup {r})) = Cardinality(Ledger!Places(S)) + SeatsRequested[r]
      /\ Cardinality(Ledger!Places(S)) \in Nat
  BY <1>1, <1>3, OneMoreBooking
<1>5. HeldSeats' = Ledger!Places(S)
  BY DEF HeldSeats, Ledger!Places
<1>6. SeatsRequested[r] \in Nat /\ availableSeats \in Nat
  BY <1>1 DEF TypeInv
<1>7. HeldSeats = Ledger!Places(S \cup {r})
  BY <1>1 DEF HeldSeats
<1> HIDE DEF S
<1> QED
  BY <1>3, <1>4, <1>5, <1>6, <1>7 DEF SeatsInTurn, SeatsConserved

(* ... and one that calls the trip off.                                      *)
LEMMA SeatsVoid ==
  ASSUME Active' = {}, rideStatus' \in {"CANCELLED", "EXPIRED"}
  PROVE  SeatsInTurn'
<1>1. HeldSeats' = {}
  BY DEF HeldSeats, Ledger!Places
<1>2. IsFiniteSet({})
  BY LedgerP!FS_EmptySet, Zenon DEF LedgerP!IsFiniteSet, IsFiniteSet
<1> QED
  BY <1>1, <1>2 DEF SeatsInTurn, SeatsConserved

---------------------------------------------------------------------------
(* The pairs of statuses the ride's machine allows ...                       *)
LEMMA RideMachine ==
  /\ Allows(RideTransitions, "DRAFT", "PUBLISHED")
  /\ Allows(RideTransitions, "PUBLISHED", "STARTED")
  /\ Allows(RideTransitions, "STARTED", "COMPLETED")
  /\ \A s \in {"DRAFT", "PUBLISHED"}, t \in {"CANCELLED", "EXPIRED"} :
       Allows(RideTransitions, s, t)
  /\ \A s : /\ Allows(RideTransitions, s, "PUBLISHED") => s = "DRAFT"
            /\ Allows(RideTransitions, s, "STARTED") => s = "PUBLISHED"
            /\ Allows(RideTransitions, s, "COMPLETED") => s = "STARTED"
BY DEF Allows, RideTransitions, RideStatus

(* ... and a booking's: a seat is given back from either active status.      *)
LEMMA BookingMachine ==
  /\ Allows(BookingTransitions, "PAYMENT_PENDING", "CONFIRMED")
  /\ \A s : Allows(BookingTransitions, s, "CANCELLED") <=> s \in {"PAYMENT_PENDING", "CONFIRMED"}
BY DEF Allows, BookingTransitions, BookingStatus

(* ... and a request's.                                                      *)
LEMMA RequestMachine ==
  \A s : /\ Allows(RequestTransitions, s, "ACCEPTED") => s = "REQUESTED"
         /\ Allows(RequestTransitions, s, "REJECTED") => s = "REQUESTED"
         /\ Allows(RequestTransitions, s, "CANCELLED") => s \in {"REQUESTED", "ACCEPTED"}
BY DEF Allows, RequestTransitions, RequestStatus

(* A step that writes no row has only to recall what it read, and to keep    *)
(* the refunds and releases ahead of it.                                     *)
LEMMA ReadsOnly ==
  ASSUME TypeInv, NEW p \in Procs, Works(p), UNCHANGED rows, Recalls(p)', crashed => crashed',
         ~crashed' => \A r \in Requests :
           /\ (Owed(r) /\ WillRefund(p, r)) => WillRefund(p, r)'
           /\ (r \in Unpaid /\ WillDrop(p, r)) => WillDrop(p, r)'
  PROVE  Works(p)' /\ Moves
<1>1. SeatsInTurn'
  <2>1. Active' = Active
    BY DEF Active
  <2> QED
    BY <2>1, SeatsKept DEF Works
<1>2. RowsInTurn'
  BY DEF Works, RowsInTurn, RequestMatchesBooking, ClosedRideIsEmpty, OneActiveRequest,
         NobodyLeftOnBoard, PayoutFollowsDrop, MoneyAgrees, Active
<1>3. SettledBy(p)' /\ DroppedBy(p)'
  BY DEF Works, SettledBy, DroppedBy, Owed, Unpaid, OnTheWay
<1>4. Moves
  <2>1. RideMoves /\ BookingMoves
    BY DEF RideMoves, BookingMoves
  <2>2. Forward
    BY DEF Forward, BoardingRank, TypeInv
  <2> QED
    BY <2>1, <2>2 DEF Moves
<1> QED
  BY <1>1, <1>2, <1>3, <1>4 DEF Works

(* A handler that answers recalls nothing.                                   *)
LEMMA NothingToRecall ==
  ASSUME TypeInv, NEW p \in Procs, Return(p)
  PROVE  Recalls(p)'
<1>1. pc'[p] = "idle"
  BY DEF Return, TypeInv
<1> QED
  BY <1>1 DEF Recalls, RecallsRequest, RecallsPayment, RecallsRide, RecallsBoarding, RefundSteps

---------------------------------------------------------------------------
(* The booking service.                                                      *)
LEMMA BookingReads ==
  ASSUME TypeInv, NEW p \in Procs, Works(p), UNCHANGED crashed, NEW r \in Requests,
         \/ RequestRead(p, r) \/ AcceptRead(p, r) \/ RejectRead(p, r)
         \/ WithdrawRead(p, r) \/ CancelRead(p, r)
  PROVE  Works(p)' /\ Moves
<1> USE DEF Begin, Idle
<1>1. UNCHANGED rows /\ pc[p] = "idle"
  BY DEF RequestRead, AcceptRead, RejectRead, WithdrawRead, CancelRead
<1>2. Recalls(p)'
  <2> USE DEF Recalls, RecallsRequest, RecallsPayment, RecallsRide, RecallsBoarding, RefundSteps
  <2>1. CASE RequestRead(p, r)
    BY <2>1 DEF RequestRead, TypeInv
  <2>2. CASE AcceptRead(p, r) \/ RejectRead(p, r)
    BY <2>2, RequestMachine DEF AcceptRead, RejectRead, TypeInv
  <2>3. CASE WithdrawRead(p, r)
    BY <2>3, RequestMachine DEF WithdrawRead, TypeInv
  <2>4. CASE CancelRead(p, r)
    BY <2>4, BookingMachine DEF CancelRead, MayCancel, ToRefund, Active, TypeInv
  <2> QED
    BY <2>1, <2>2, <2>3, <2>4
<1> QED
  BY <1>1, <1>2, ReadsOnly DEF WillRefund, WillDrop, RefundSteps

LEMMA BookingLooks ==
  ASSUME TypeInv, NEW p \in Procs, Works(p), UNCHANGED crashed,
         \/ FindDuplicate(p) \/ RequestTooFar(p) \/ AcceptRefused(p)
         \/ WithdrawFind(p) \/ WithdrawCancelRead(p)
  PROVE  Works(p)' /\ Moves
<1> USE DEF At, Goto, Return
<1>1. UNCHANGED rows /\ pc[p] \notin {"refundRead", "startFind", "dropLock", "dropWrite"} \cup RefundSteps
  BY DEF FindDuplicate, RequestTooFar, AcceptRefused, WithdrawFind, WithdrawCancelRead, RefundSteps
<1>2. Recalls(p)'
  <2> USE DEF Recalls, RecallsRequest, RecallsPayment, RecallsRide, RecallsBoarding, RefundSteps,
              Works
  <2>1. CASE FindDuplicate(p)
    BY <2>1 DEF FindDuplicate, HasActiveRequest, ActiveRequests, TypeInv
  <2>2. CASE RequestTooFar(p) \/ AcceptRefused(p)
    BY <2>2 DEF RequestTooFar, AcceptRefused, TypeInv
  <2>3. CASE WithdrawFind(p)
    BY <2>3 DEF WithdrawFind, RowsInTurn, RequestMatchesBooking, Active, TypeInv
  <2>4. CASE WithdrawCancelRead(p)
    <3>1. on[p] \in Active
      BY <2>4 DEF WithdrawCancelRead
    <3>2. CASE MayCancel(on[p])
      <4>1. pc'[p] = "cancelTx" /\ on'[p] = on[p] /\ todo'[p] = ToRefund(on[p])
        BY <2>4, <3>2 DEF WithdrawCancelRead, TypeInv
      <4>2. rideStatus' \notin {"STARTED", "COMPLETED"} /\ Active' = Active
        BY <3>2, <1>1 DEF MayCancel, Active
      <4>3. ToRefund(on[p])' = ToRefund(on[p])
        BY <1>1, <4>1 DEF ToRefund
      <4> QED
        BY <3>1, <4>1, <4>2, <4>3
    <3>3. CASE ~MayCancel(on[p])
      BY <2>4, <3>3 DEF WithdrawCancelRead, TypeInv
    <3> QED
      BY <3>2, <3>3
  <2> QED
    BY <2>1, <2>2, <2>3, <2>4
<1> QED
  BY <1>1, <1>2, ReadsOnly DEF WillRefund, WillDrop

(* The writes of a request alone: it is open, and it is answered.            *)
LEMMA RequestWrites ==
  ASSUME TypeInv, NEW p \in Procs, Works(p), UNCHANGED crashed,
         RequestInsert(p) \/ RejectWrite(p) \/ WithdrawWrite(p)
  PROVE  Works(p)' /\ Moves
<1> USE DEF At, Works
<1>1. /\ on[p] \in Requests
      /\ UNCHANGED <<rideStatus, availableSeats, bookingStatus, paymentStatus, payoutStatus,
                     boardingStatus, payment>>
      /\ pc[p] \in {"insertRequest", "rejectWrite", "withdrawWrite"}
      /\ Return(p)
  BY DEF RequestInsert, RejectWrite, WithdrawWrite, TypeInv
<1>2. SeatsInTurn'
  <2>1. Active' = Active
    BY <1>1 DEF Active
  <2> QED
    BY <1>1, <2>1, SeatsKept
<1>3. RowsInTurn'
  <2>1. NobodyLeftOnBoard' /\ PayoutFollowsDrop' /\ MoneyAgrees'
    BY <1>1 DEF RowsInTurn, NobodyLeftOnBoard, PayoutFollowsDrop, MoneyAgrees
  <2>2. CASE RequestInsert(p)
    <3>1. /\ requestStatus' = [requestStatus EXCEPT ![on[p]] = "REQUESTED"]
          /\ requestStatus[on[p]] = "NONE" /\ rideStatus = "PUBLISHED"
          /\ ~HasActiveRequest(PassengerOf[on[p]])
      BY <2>2 DEF RequestInsert, Recalls, RecallsRequest
    <3>2. RequestMatchesBooking' /\ ClosedRideIsEmpty'
      BY <1>1, <3>1 DEF RowsInTurn, RequestMatchesBooking, ClosedRideIsEmpty, Active, TypeInv
    <3>3. OneActiveRequest'
      BY <1>1, <3>1 DEF RowsInTurn, OneActiveRequest, HasActiveRequest, ActiveRequests, TypeInv
    <3> QED
      BY <2>1, <3>2, <3>3 DEF RowsInTurn
  <2>3. CASE RejectWrite(p) \/ WithdrawWrite(p)
    <3>1. /\ \/ requestStatus' = [requestStatus EXCEPT ![on[p]] = "REJECTED"]
             \/ requestStatus' = [requestStatus EXCEPT ![on[p]] = "CANCELLED"]
          /\ requestStatus[on[p]] = "REQUESTED"
      BY <2>3 DEF RejectWrite, WithdrawWrite, Recalls, RecallsRequest
    <3>2. RequestMatchesBooking' /\ ClosedRideIsEmpty'
      BY <1>1, <3>1 DEF RowsInTurn, RequestMatchesBooking, ClosedRideIsEmpty, Active, TypeInv
    <3>3. OneActiveRequest'
      BY <1>1, <3>1 DEF RowsInTurn, OneActiveRequest, TypeInv
    <3> QED
      BY <2>1, <3>2, <3>3 DEF RowsInTurn
  <2> QED
    BY <2>2, <2>3
<1>4. SettledBy(p)' /\ DroppedBy(p)'
  BY <1>1 DEF SettledBy, DroppedBy, Owed, Unpaid, OnTheWay, WillRefund, WillDrop, RefundSteps
<1>5. Recalls(p)'
  BY <1>1, NothingToRecall
<1>6. Moves
  BY <1>1 DEF Moves, RideMoves, BookingMoves, Forward, BoardingRank, TypeInv
<1> QED
  BY <1>2, <1>3, <1>4, <1>5, <1>6

(* Accepting a request books it.                                             *)
LEMMA ReserveInTurn ==
  ASSUME TypeInv, PaidInv, NEW p \in Procs, Works(p), UNCHANGED crashed,
         NEW paid \in BOOLEAN, Reserve(p, paid)
  PROVE  Works(p)' /\ Moves
<1> USE DEF At, Works
<1> DEFINE r == on[p]
           booked == IF paid THEN "PAYMENT_PENDING" ELSE "CONFIRMED"
           owes == IF paid THEN "PENDING" ELSE "NOT_REQUIRED"
<1>1. /\ r \in Requests /\ requestStatus[r] = "REQUESTED" /\ bookingStatus[r] = "NONE"
      /\ rideStatus = "PUBLISHED" /\ pc[p] = "acceptTx"
      /\ payment[r] = "NONE" /\ payoutStatus[r] = "NONE" /\ boardingStatus[r] = "NOT_BOARDED"
  BY DEF Reserve, CanReserve, TypeInv, Recalls, RecallsRequest, PaidInv, PaidRows, FreshBooking
<1>2. /\ availableSeats' = availableSeats - SeatsRequested[r]
      /\ bookingStatus' = [bookingStatus EXCEPT ![r] = booked]
      /\ paymentStatus' = [paymentStatus EXCEPT ![r] = owes]
      /\ requestStatus' = [requestStatus EXCEPT ![r] = "ACCEPTED"]
      /\ UNCHANGED <<rideStatus, payoutStatus, boardingStatus, payment>>
      /\ Return(p)
  BY DEF Reserve, NewBookingStatus
<1> HIDE DEF r
<1>3. SeatsInTurn'
  <2>1. Active' = Active \cup {r} /\ r \notin Active
    BY <1>1, <1>2 DEF Active, TypeInv
  <2> QED
    BY <1>1, <1>2, <2>1, SeatsTaken
<1>4. RowsInTurn'
  <2>1. RequestMatchesBooking' /\ ClosedRideIsEmpty'
    BY <1>1, <1>2 DEF RowsInTurn, RequestMatchesBooking, ClosedRideIsEmpty, Active, TypeInv
  <2>2. OneActiveRequest'
    BY <1>1, <1>2 DEF RowsInTurn, OneActiveRequest, TypeInv
  <2>3. NobodyLeftOnBoard' /\ PayoutFollowsDrop' /\ MoneyAgrees'
    BY <1>1, <1>2 DEF RowsInTurn, NobodyLeftOnBoard, PayoutFollowsDrop, MoneyAgrees, TypeInv
  <2> QED
    BY <2>1, <2>2, <2>3 DEF RowsInTurn
<1>5. SettledBy(p)' /\ DroppedBy(p)'
  BY <1>1, <1>2 DEF SettledBy, DroppedBy, Owed, OnTheWay, WillRefund, RefundSteps, TypeInv
<1>6. Recalls(p)'
  BY <1>2, NothingToRecall
<1>7. Moves
  BY <1>1, <1>2 DEF Moves, RideMoves, BookingMoves, Forward, BoardingRank, TypeInv
<1> QED
  BY <1>3, <1>4, <1>5, <1>6, <1>7

(* The write set of every release: the booking was active.                   *)
LEMMA ReleaseInTurn ==
  ASSUME TypeInv, SeatsInTurn, RowsInTurn, NEW r \in Active, ReleaseSeats(r),
         UNCHANGED <<rideStatus, paymentStatus, payoutStatus, boardingStatus, payment>>
  PROVE  SeatsInTurn' /\ RowsInTurn' /\ Moves
<1>1. /\ r \in Requests /\ bookingStatus[r] \in {"PAYMENT_PENDING", "CONFIRMED"}
      /\ requestStatus[r] = "ACCEPTED"
  BY DEF Active, RowsInTurn, RequestMatchesBooking
<1>2. /\ availableSeats' = availableSeats + SeatsRequested[r]
      /\ bookingStatus' = [bookingStatus EXCEPT ![r] = "CANCELLED"]
      /\ requestStatus' = [requestStatus EXCEPT ![r] = "CANCELLED"]
  BY DEF ReleaseSeats
<1>3. SeatsInTurn'
  <2>1. Active' = Active \ {r}
    BY <1>1, <1>2 DEF Active, TypeInv
  <2> QED
    BY <1>2, <2>1, SeatsReturned
<1>4. RowsInTurn'
  <2>1. RequestMatchesBooking' /\ ClosedRideIsEmpty' /\ OneActiveRequest'
    BY <1>1, <1>2 DEF RowsInTurn, RequestMatchesBooking, ClosedRideIsEmpty, OneActiveRequest,
                      Active, TypeInv
  <2>2. NobodyLeftOnBoard' /\ PayoutFollowsDrop' /\ MoneyAgrees'
    BY <1>1, <1>2 DEF RowsInTurn, NobodyLeftOnBoard, PayoutFollowsDrop, MoneyAgrees, TypeInv
  <2> QED
    BY <2>1, <2>2 DEF RowsInTurn
<1>5. Moves
  BY <1>1, <1>2, BookingMachine
  DEF Moves, RideMoves, BookingMoves, Forward, BoardingRank, TypeInv
<1> QED
  BY <1>3, <1>4, <1>5

(* Cancelling a booking: what was paid for it is the first thing to refund.  *)
LEMMA CancelInTurn ==
  ASSUME TypeInv, PaidInv, NEW p \in Procs, Works(p), UNCHANGED crashed, CancelTx(p)
  PROVE  Works(p)' /\ Moves
<1> USE DEF At, Works
<1> DEFINE r == on[p]
<1>1. /\ r \in Active /\ r \in Requests /\ pc[p] = "cancelTx"
      /\ rideStatus \notin {"STARTED", "COMPLETED"} /\ todo[p] = ToRefund(r)
  BY DEF CancelTx, Active, Recalls, RecallsRequest
<1>2. /\ ReleaseSeats(r)
      /\ UNCHANGED <<rideStatus, paymentStatus, payoutStatus, boardingStatus, payment>>
      /\ IF todo[p] = {} THEN Return(p) ELSE Goto(p, "refundRead")
      /\ bookingStatus' = [bookingStatus EXCEPT ![r] = "CANCELLED"]
  BY DEF CancelTx, ReleaseSeats
<1> HIDE DEF r
<1>3. SeatsInTurn' /\ RowsInTurn' /\ Moves
  BY <1>1, <1>2, ReleaseInTurn
<1>4. DroppedBy(p)'
  BY <1>1, <1>2 DEF DroppedBy, OnTheWay
<1>5. CASE paymentStatus[r] = "SUCCESS"
  <2>1. todo[p] = {r} /\ Goto(p, "refundRead") /\ pc'[p] = "refundRead" /\ todo' = todo
    BY <1>1, <1>2, <1>5 DEF ToRefund, Goto, TypeInv
  <2>2. SettledBy(p)'
    BY <1>1, <1>2, <2>1 DEF SettledBy, Owed, WillRefund, RefundSteps, TypeInv
  <2>3. Recalls(p)'
    BY <1>1, <1>2, <2>1 DEF TypeInv,
       Recalls, RecallsRequest, RecallsPayment, RecallsRide, RecallsBoarding, RefundSteps
  <2> QED
    BY <1>3, <1>4, <2>2, <2>3
<1>6. CASE paymentStatus[r] # "SUCCESS"
  <2>1. Return(p) /\ payment[r] # "SUCCESS"
    BY <1>1, <1>2, <1>6 DEF ToRefund, PaidInv, PaidRows, LedgersAgree
  <2>2. SettledBy(p)'
    BY <1>1, <1>2, <2>1 DEF SettledBy, Owed, WillRefund, RefundSteps, TypeInv
  <2>3. Recalls(p)'
    BY <2>1, NothingToRecall
  <2> QED
    BY <1>3, <1>4, <2>2, <2>3
<1> QED
  BY <1>5, <1>6

LEMMA BookingInTurn ==
  ASSUME TypeInv, PaidInv, NEW p \in Procs, Works(p), BookingStep(p), UNCHANGED crashed
  PROVE  Works(p)' /\ Moves
BY BookingReads, BookingLooks, RequestWrites, ReserveInTurn, CancelInTurn DEF BookingStep
---------------------------------------------------------------------------
(* The payment service: what a handler reads before it settles or refunds.   *)
LEMMA PaymentReads ==
  ASSUME TypeInv, NEW p \in Procs, Works(p), UNCHANGED crashed, NEW r \in Requests,
         \/ OrderRead(p, r) \/ VerifyRead(p, r) \/ VerifyBadSignature(p, r) \/ WebhookRead(p, r)
  PROVE  Works(p)' /\ Moves
<1> USE DEF Begin, Idle
<1>1. UNCHANGED rows /\ pc[p] = "idle"
  BY DEF OrderRead, VerifyRead, VerifyBadSignature, WebhookRead
<1>2. Recalls(p)'
  BY DEF OrderRead, VerifyRead, VerifyBadSignature, WebhookRead, ToSettle, TypeInv,
         Recalls, RecallsRequest, RecallsPayment, RecallsRide, RecallsBoarding, RefundSteps
<1> QED
  BY <1>1, <1>2, ReadsOnly DEF WillRefund, WillDrop, RefundSteps

LEMMA SettleLooks ==
  ASSUME TypeInv, PaidInv, NEW p \in Procs, Works(p), UNCHANGED crashed, SettleTx(p)
  PROVE  Works(p)' /\ Moves
<1> USE DEF At, Goto
<1>1. /\ UNCHANGED rows /\ pc[p] = "settleTx" /\ on' = on
      /\ on[p] \in Requests /\ ToSettle(on[p])
      /\ pc'[p] = IF bookingStatus[on[p]] = "CANCELLED" THEN "settleLate" ELSE "settleConfirm"
  BY DEF SettleTx, TypeInv, Works, Recalls, RecallsPayment
<1>2. bookingStatus[on[p]] = "CANCELLED" \/ on[p] \in Active
  BY <1>1 DEF ToSettle, PaidInv, PaidRows, FreshBooking, Active, TypeInv, BookingStatus
<1>3. ToSettle(on[p])' /\ Active' = Active
  BY <1>1 DEF ToSettle, Active
<1>4. Recalls(p)'
  BY <1>1, <1>2, <1>3
  DEF Recalls, RecallsRequest, RecallsPayment, RecallsRide, RecallsBoarding, RefundSteps
<1> QED
  BY <1>1, <1>4, ReadsOnly DEF WillRefund, WillDrop, RefundSteps

(* The loop over the refunds that are due: one that finds no payment to      *)
(* refund is not owed.                                                       *)
LEMMA RefundLooks ==
  ASSUME TypeInv, NEW p \in Procs, Works(p), UNCHANGED crashed,
         RefundTx(p) \/ \E r \in Requests : RefundRead(p, r) \/ RefundNothing(p, r)
  PROVE  Works(p)' /\ Moves
<1> USE DEF At, Goto, Works
<1>1. ASSUME NEW r \in Requests, RefundRead(p, r)
      PROVE  Works(p)' /\ Moves
  <2>1. /\ UNCHANGED rows /\ pc[p] = "refundRead" /\ r \in todo[p]
        /\ pc'[p] = "refundTx" /\ on'[p] = r /\ todo'[p] = todo[p] \ {r}
    BY <1>1 DEF RefundRead, TypeInv
  <2>2. Recalls(p)'
    BY <2>1 DEF Recalls, RecallsRequest, RecallsPayment, RecallsRide, RecallsBoarding, RefundSteps
  <2> QED
    BY <2>1, <2>2, ReadsOnly DEF WillRefund, WillDrop, RefundSteps
<1>2. ASSUME NEW r \in Requests, RefundNothing(p, r)
      PROVE  Works(p)' /\ Moves
  <2>1. /\ UNCHANGED rows /\ pc[p] = "refundRead" /\ r \in todo[p] /\ payment[r] # "SUCCESS"
        /\ \/ pc'[p] = "refundRead" /\ todo'[p] = todo[p] \ {r}
           \/ pc'[p] \in {"sweepFind", "idle"} /\ todo[p] \ {r} = {}
    BY <1>2 DEF RefundNothing, RefundDone, AfterRefund, Return, TypeInv
  <2>2. Recalls(p)'
    BY <2>1 DEF Recalls, RecallsRequest, RecallsPayment, RecallsRide, RecallsBoarding, RefundSteps
  <2>3. \A s \in Requests : (Owed(s) /\ WillRefund(p, s)) => WillRefund(p, s)'
    BY <2>1 DEF Owed, WillRefund, RefundSteps
  <2> QED
    BY <2>1, <2>2, <2>3, ReadsOnly DEF WillDrop
<1>3. CASE RefundTx(p)
  <2>1. /\ UNCHANGED <<rows, on, todo>> /\ pc[p] = "refundTx" /\ on[p] \in Requests
        /\ pc'[p] = IF payoutStatus[on[p]] = "HELD" THEN "refundHeld" ELSE "refundPlain"
    BY <1>3 DEF RefundTx, TypeInv
  <2>2. Recalls(p)'
    BY <2>1 DEF Recalls, RecallsRequest, RecallsPayment, RecallsRide, RecallsBoarding, RefundSteps
  <2> QED
    BY <2>1, <2>2, ReadsOnly DEF WillRefund, WillDrop, RefundSteps
<1> QED
  BY <1>1, <1>2, <1>3

(* The payment row is opened, or fails: neither is a paid booking's.         *)
LEMMA OrdersInTurn ==
  ASSUME TypeInv, PaidInv, NEW p \in Procs, Works(p), UNCHANGED crashed,
         OrderInsert(p) \/ FailWrite(p)
  PROVE  Works(p)' /\ Moves
<1> USE DEF At, Works
<1> DEFINE r == on[p]
<1>1. /\ r \in Requests /\ pc[p] \in {"insertOrder", "failWrite"} /\ Return(p)
      /\ UNCHANGED <<rideStatus, availableSeats, requestStatus, bookingStatus, paymentStatus,
                     payoutStatus, boardingStatus>>
      /\ \/ payment' = payment
         \/ payment[r] = "NONE" /\ payment' = [payment EXCEPT ![r] = "PENDING"]
         \/ payment[r] \notin {"NONE", "SUCCESS"} /\ payment' = [payment EXCEPT ![r] = "FAILED"]
  BY DEF OrderInsert, FailWrite, ToSettle, Recalls, RecallsPayment, TypeInv
<1>2. /\ payment[r] \in {"NONE", "PENDING", "FAILED", "REFUNDED"} =>
           paymentStatus[r] # "SUCCESS" /\ payoutStatus[r] # "HELD"
      /\ payment[r] \in {"PENDING", "FAILED", "REFUNDED"} => paymentStatus[r] \in {"PENDING", "REFUNDED"}
  BY <1>1 DEF RowsInTurn, MoneyAgrees, PaidInv, PaidRows, LedgersAgree
<1> HIDE DEF r
<1>3. SeatsInTurn'
  <2>1. Active' = Active
    BY <1>1 DEF Active
  <2> QED
    BY <1>1, <2>1, SeatsKept
<1>4. RowsInTurn'
  <2>1. RequestMatchesBooking' /\ ClosedRideIsEmpty' /\ OneActiveRequest'
    BY <1>1 DEF RowsInTurn, RequestMatchesBooking, ClosedRideIsEmpty, OneActiveRequest, Active
  <2>2. NobodyLeftOnBoard' /\ PayoutFollowsDrop'
    BY <1>1 DEF RowsInTurn, NobodyLeftOnBoard, PayoutFollowsDrop
  <2>3. MoneyAgrees'
    BY <1>1, <1>2 DEF RowsInTurn, MoneyAgrees, TypeInv
  <2> QED
    BY <2>1, <2>2, <2>3 DEF RowsInTurn
<1>5. SettledBy(p)' /\ DroppedBy(p)'
  BY <1>1 DEF SettledBy, DroppedBy, Owed, Unpaid, OnTheWay, WillRefund, WillDrop, RefundSteps, TypeInv
<1>6. Recalls(p)'
  BY <1>1, NothingToRecall
<1>7. Moves
  BY <1>1 DEF Moves, RideMoves, BookingMoves, Forward, BoardingRank, TypeInv
<1> QED
  BY <1>3, <1>4, <1>5, <1>6, <1>7

(* A payment that succeeds confirms a booking that owes it.                  *)
LEMMA ConfirmInTurn ==
  ASSUME TypeInv, PaidInv, NEW p \in Procs, Works(p), UNCHANGED crashed, SettleConfirm(p)
  PROVE  Works(p)' /\ Moves
<1> USE DEF At, Works
<1> DEFINE r == on[p]
<1>1. r \in Requests /\ pc[p] = "settleConfirm" /\ r \in Active /\ ToSettle(r)
  BY DEF SettleConfirm, TypeInv, Recalls, RecallsPayment
<1>2. /\ Return(p)
      /\ payment' = [payment EXCEPT ![r] = "SUCCESS"]
      /\ paymentStatus' = [paymentStatus EXCEPT ![r] = "SUCCESS"]
      /\ bookingStatus' = [bookingStatus EXCEPT ![r] = "CONFIRMED"]
      /\ payoutStatus' = [payoutStatus EXCEPT ![r] = "HELD"]
      /\ UNCHANGED <<rideStatus, availableSeats, requestStatus, boardingStatus>>
  BY DEF SettleConfirm, Paid
<1>3. paymentStatus[r] = "PENDING" /\ boardingStatus[r] = "NOT_BOARDED"
  BY <1>1 DEF ToSettle, Active, TypeInv, RowsInTurn, MoneyAgrees, PaidInv, PaidRows, LedgersAgree,
              BoardedHasPaid
<1> HIDE DEF r
<1>4. Active' = Active
  BY <1>1, <1>2 DEF Active, TypeInv
<1>5. SeatsInTurn'
  BY <1>2, <1>4, SeatsKept
<1>6. RowsInTurn'
  <2>1. RequestMatchesBooking' /\ OneActiveRequest'
    BY <1>2, <1>4 DEF RowsInTurn, RequestMatchesBooking, OneActiveRequest
  <2>2. ClosedRideIsEmpty'
    BY <1>1, <1>2 DEF RowsInTurn, ClosedRideIsEmpty, Active
  <2>3. NobodyLeftOnBoard' /\ PayoutFollowsDrop' /\ MoneyAgrees'
    BY <1>1, <1>2, <1>3 DEF RowsInTurn, NobodyLeftOnBoard, PayoutFollowsDrop, MoneyAgrees, TypeInv
  <2> QED
    BY <2>1, <2>2, <2>3 DEF RowsInTurn
<1>7. SettledBy(p)' /\ DroppedBy(p)'
  BY <1>1, <1>2
  DEF SettledBy, DroppedBy, Owed, Unpaid, OnTheWay, WillRefund, WillDrop, RefundSteps, TypeInv
<1>8. Recalls(p)'
  BY <1>2, NothingToRecall
<1>9. Moves
  BY <1>1, <1>2, BookingMachine
  DEF Active, Moves, RideMoves, BookingMoves, Forward, BoardingRank, TypeInv
<1> QED
  BY <1>5, <1>6, <1>7, <1>8, <1>9

(* A payment too late for its seat is the one to refund.                     *)
LEMMA LateInTurn ==
  ASSUME TypeInv, PaidInv, NEW p \in Procs, Works(p), UNCHANGED crashed, SettleLate(p)
  PROVE  Works(p)' /\ Moves
<1> USE DEF At, Works
<1> DEFINE r == on[p]
<1>1. r \in Requests /\ pc[p] = "settleLate" /\ bookingStatus[r] = "CANCELLED"
  BY DEF SettleLate, TypeInv, Recalls, RecallsPayment
<1>2. /\ payment' = [payment EXCEPT ![r] = "SUCCESS"]
      /\ paymentStatus' = [paymentStatus EXCEPT ![r] = "SUCCESS"]
      /\ pc'[p] = "refundRead" /\ todo'[p] = {r}
      /\ UNCHANGED <<rideStatus, availableSeats, requestStatus, bookingStatus, payoutStatus,
                     boardingStatus>>
  BY DEF SettleLate, Paid, TypeInv
<1> HIDE DEF r
<1>3. SeatsInTurn'
  <2>1. Active' = Active
    BY <1>2 DEF Active
  <2> QED
    BY <1>2, <2>1, SeatsKept
<1>4. RowsInTurn'
  <2>1. RequestMatchesBooking' /\ ClosedRideIsEmpty' /\ OneActiveRequest'
    BY <1>2 DEF RowsInTurn, RequestMatchesBooking, ClosedRideIsEmpty, OneActiveRequest, Active
  <2>2. NobodyLeftOnBoard' /\ PayoutFollowsDrop'
    BY <1>2 DEF RowsInTurn, NobodyLeftOnBoard, PayoutFollowsDrop
  <2>3. MoneyAgrees'
    BY <1>1, <1>2 DEF RowsInTurn, MoneyAgrees, TypeInv
  <2> QED
    BY <2>1, <2>2, <2>3 DEF RowsInTurn
<1>5. SettledBy(p)' /\ DroppedBy(p)'
  BY <1>1, <1>2
  DEF SettledBy, DroppedBy, Owed, Unpaid, OnTheWay, WillRefund, WillDrop, RefundSteps, TypeInv
<1>6. Recalls(p)'
  BY <1>1, <1>2
  DEF Recalls, RecallsRequest, RecallsPayment, RecallsRide, RecallsBoarding, RefundSteps
<1>7. Moves
  BY <1>2 DEF Moves, RideMoves, BookingMoves, Forward, BoardingRank, TypeInv
<1> QED
  BY <1>3, <1>4, <1>5, <1>6, <1>7

(* A refund: nothing of it stays in escrow, and a dropped passenger's share  *)
(* is not in it.                                                             *)
LEMMA RefundInTurn ==
  ASSUME TypeInv, PaidInv, NEW p \in Procs, Works(p), UNCHANGED crashed, RefundWrite(p)
  PROVE  Works(p)' /\ Moves
<1> USE DEF At, Works
<1> DEFINE r == on[p]
<1>1. /\ r \in Requests /\ pc[p] \in {"refundHeld", "refundPlain"}
      /\ bookingStatus[r] = "CANCELLED"
      /\ \A s \in todo[p] : bookingStatus[s] = "CANCELLED"
  BY DEF RefundWrite, TypeInv, Recalls, RecallsPayment, RefundSteps
<1>2. /\ payment' = [payment EXCEPT ![r] = "REFUNDED"]
      /\ paymentStatus' = [paymentStatus EXCEPT ![r] = "REFUNDED"]
      /\ \/ payoutStatus[r] = "HELD" /\ payoutStatus' = [payoutStatus EXCEPT ![r] = "REFUNDED"]
         \/ payoutStatus[r] # "HELD" /\ UNCHANGED payoutStatus
      /\ UNCHANGED <<rideStatus, availableSeats, requestStatus, bookingStatus, boardingStatus>>
  BY DEF RefundWrite, Recalls, RecallsPayment
<1>3. \/ pc'[p] = "refundRead" /\ todo'[p] = todo[p]
      \/ pc'[p] \in {"sweepFind", "idle"} /\ todo[p] = {}
  BY DEF RefundWrite, RefundDone, AfterRefund, Return, TypeInv
<1> HIDE DEF r
<1>4. SeatsInTurn'
  <2>1. Active' = Active
    BY <1>2 DEF Active
  <2> QED
    BY <1>2, <2>1, SeatsKept
<1>5. RowsInTurn'
  <2>1. RequestMatchesBooking' /\ ClosedRideIsEmpty' /\ OneActiveRequest'
    BY <1>2 DEF RowsInTurn, RequestMatchesBooking, ClosedRideIsEmpty, OneActiveRequest, Active
  <2>2. NobodyLeftOnBoard' /\ PayoutFollowsDrop'
    BY <1>1, <1>2 DEF RowsInTurn, NobodyLeftOnBoard, PayoutFollowsDrop, TypeInv
  <2>3. MoneyAgrees'
    BY <1>1, <1>2 DEF RowsInTurn, MoneyAgrees, TypeInv
  <2> QED
    BY <2>1, <2>2, <2>3 DEF RowsInTurn
<1>6. SettledBy(p)' /\ DroppedBy(p)'
  <2>1. SettledBy(p)'
    BY <1>1, <1>2, <1>3 DEF SettledBy, Owed, WillRefund, RefundSteps, TypeInv, r
  <2>2. DroppedBy(p)'
    BY <1>1, <1>2 DEF DroppedBy, Unpaid, OnTheWay, WillDrop
  <2> QED
    BY <2>1, <2>2
<1>7. Recalls(p)'
  BY <1>1, <1>2, <1>3
  DEF Recalls, RecallsRequest, RecallsPayment, RecallsRide, RecallsBoarding, RefundSteps
<1>8. Moves
  BY <1>2 DEF Moves, RideMoves, BookingMoves, Forward, BoardingRank, TypeInv
<1> QED
  BY <1>4, <1>5, <1>6, <1>7, <1>8

LEMMA PaymentInTurn ==
  ASSUME TypeInv, PaidInv, NEW p \in Procs, Works(p), PaymentStep(p), UNCHANGED crashed
  PROVE  Works(p)' /\ Moves
BY PaymentReads, SettleLooks, RefundLooks, OrdersInTurn, ConfirmInTurn, LateInTurn, RefundInTurn
DEF PaymentStep
---------------------------------------------------------------------------
(* The lifecycle and the sweep: what a handler reads of the ride.            *)
LEMMA LifecycleReads ==
  ASSUME TypeInv, NEW p \in Procs, Works(p), UNCHANGED crashed,
         \/ PublishRead(p) \/ StartRead(p) \/ CompleteRead(p) \/ CancelRideRead(p)
         \/ SweepOverdue(p) \/ SweepNotOverdue(p)
  PROVE  Works(p)' /\ Moves
<1> USE DEF Begin, Idle
<1>1. UNCHANGED rows /\ pc[p] = "idle"
  BY DEF PublishRead, StartRead, CompleteRead, CancelRideRead, SweepOverdue, SweepNotOverdue
<1>2. Recalls(p)'
  BY RideMachine
  DEF PublishRead, StartRead, CompleteRead, CancelRideRead, SweepOverdue, SweepNotOverdue, TypeInv,
      Recalls, RecallsRequest, RecallsPayment, RecallsRide, RecallsBoarding, RefundSteps
<1> QED
  BY <1>1, <1>2, ReadsOnly DEF WillRefund, WillDrop, RefundSteps

(* ... before it writes ...                                                  *)
LEMMA LifecycleLooks ==
  ASSUME TypeInv, NEW p \in Procs, Works(p), UNCHANGED crashed,
         \/ PublishRefused(p) \/ CompleteCount(p) \/ CloseLock(p) \/ CloseRefused(p)
         \/ \E overdue \in SUBSET PastDeadline : SweepFind(p, overdue)
  PROVE  Works(p)' /\ Moves
<1> USE DEF At, Goto, Return, Works
<1>1. /\ UNCHANGED rows
      /\ pc[p] \in {"publishWrite", "completeCount", "closeLock", "sweepFind"}
  BY DEF PublishRefused, CompleteCount, CloseLock, CloseRefused, SweepFind
<1>2. Recalls(p)'
  <2> USE DEF Recalls, RecallsRequest, RecallsPayment, RecallsRide, RecallsBoarding, RefundSteps
  <2>1. CASE PublishRefused(p) \/ CloseRefused(p)
    BY <2>1 DEF PublishRefused, CloseRefused, TypeInv
  <2>2. CASE CompleteCount(p)
    BY <2>2 DEF CompleteCount, OnBoard, TypeInv
  <2>3. CASE CloseLock(p)
    BY <2>3 DEF CloseLock, Active, TypeInv
  <2>4. ASSUME NEW overdue \in SUBSET PastDeadline, SweepFind(p, overdue)
        PROVE  Recalls(p)'
    <3>1. pc'[p] \in {"idle", "dropLock"}
      BY <2>4 DEF SweepFind, DropAll, TypeInv
    <3> QED
      BY <3>1
  <2> QED
    BY <2>1, <2>2, <2>3, <2>4
<1> QED
  BY <1>1, <1>2, ReadsOnly DEF WillRefund, WillDrop, RefundSteps

(* ... and as it goes through the bookings to release: it skips only those   *)
(* that no longer owe.                                                       *)
LEMMA DropLooks ==
  ASSUME TypeInv, NEW p \in Procs, Works(p), UNCHANGED crashed,
         StartFind(p) \/ \E r \in Requests : DropLock(p, r) \/ DropSkip(p, r)
  PROVE  Works(p)' /\ Moves
<1> USE DEF At, Works
<1>1. CASE StartFind(p)
  <2>1. /\ UNCHANGED rows /\ pc[p] = "startFind" /\ op[p] = "start"
        /\ \/ Unpaid = {} /\ pc'[p] = "idle"
           \/ pc'[p] = "dropLock" /\ todo'[p] = Unpaid /\ op'[p] = op[p]
    BY <1>1 DEF StartFind, DropAll, Return, TypeInv, Recalls, RecallsRide
  <2>2. Recalls(p)'
    BY <2>1 DEF Recalls, RecallsRequest, RecallsPayment, RecallsRide, RecallsBoarding, RefundSteps
  <2>3. \A r \in Unpaid : WillDrop(p, r)'
    BY <2>1 DEF WillDrop
  <2> QED
    BY <2>1, <2>2, <2>3, ReadsOnly DEF WillRefund, RefundSteps
<1>2. ASSUME NEW r \in Requests, DropLock(p, r)
      PROVE  Works(p)' /\ Moves
  <2>1. /\ UNCHANGED rows /\ pc[p] = "dropLock" /\ r \in todo[p]
        /\ bookingStatus[r] = "PAYMENT_PENDING"
        /\ pc'[p] = "dropWrite" /\ on'[p] = r /\ todo'[p] = todo[p] \ {r} /\ op'[p] = op[p]
    BY <1>2 DEF DropLock, StillUnpaid, TypeInv
  <2>2. Recalls(p)'
    BY <2>1 DEF Recalls, RecallsRequest, RecallsPayment, RecallsRide, RecallsBoarding, RefundSteps
  <2> QED
    BY <2>1, <2>2, ReadsOnly DEF WillRefund, WillDrop, RefundSteps
<1>3. ASSUME NEW r \in Requests, DropSkip(p, r)
      PROVE  Works(p)' /\ Moves
  <2>1. /\ UNCHANGED rows /\ pc[p] = "dropLock" /\ r \notin Unpaid
        /\ \/ todo[p] \ {r} = {} /\ pc'[p] = "idle"
           \/ pc'[p] = "dropLock" /\ todo'[p] = todo[p] \ {r} /\ op'[p] = op[p]
    BY <1>3 DEF DropSkip, DropAll, StillUnpaid, Unpaid, Return, TypeInv
  <2>2. Recalls(p)'
    BY <2>1 DEF Recalls, RecallsRequest, RecallsPayment, RecallsRide, RecallsBoarding, RefundSteps
  <2>3. \A s \in Unpaid : WillDrop(p, s) => WillDrop(p, s)'
    BY <2>1 DEF WillDrop
  <2> QED
    BY <2>1, <2>2, <2>3, ReadsOnly DEF WillRefund, RefundSteps
<1> QED
  BY <1>1, <1>2, <1>3

(* publish, start and complete write the status they checked for.            *)
LEMMA RideWrites ==
  ASSUME TypeInv, NEW p \in Procs, Works(p), UNCHANGED crashed,
         PublishWrite(p) \/ StartWrite(p) \/ CompleteWrite(p)
  PROVE  Works(p)' /\ Moves
<1> USE DEF At, Works
<1>1. /\ UNCHANGED <<availableSeats, requestStatus, bookingStatus, paymentStatus, payoutStatus,
                     boardingStatus, payment>>
      /\ \/ rideStatus = "DRAFT" /\ rideStatus' = "PUBLISHED"
         \/ rideStatus = "PUBLISHED" /\ rideStatus' = "STARTED"
         \/ rideStatus = "STARTED" /\ rideStatus' = "COMPLETED" /\ OnBoard = {}
      /\ pc[p] \in {"publishWrite", "startWrite", "completeWrite"}
  BY DEF PublishWrite, StartWrite, CompleteWrite, SetRideStatus, Recalls, RecallsRide
<1>2. SeatsInTurn'
  <2>1. Active' = Active
    BY <1>1 DEF Active
  <2> QED
    BY <1>1, <2>1, SeatsKept
<1>3. RowsInTurn'
  BY <1>1 DEF RowsInTurn, RequestMatchesBooking, ClosedRideIsEmpty, OneActiveRequest,
              NobodyLeftOnBoard, PayoutFollowsDrop, MoneyAgrees, Active, OnBoard
<1>4. SettledBy(p)'
  BY <1>1 DEF SettledBy, Owed, WillRefund, RefundSteps
<1>5. DroppedBy(p)'
  <2>1. CASE StartWrite(p)
    <3>1. op'[p] = "start" /\ pc'[p] = "startFind"
      BY <2>1 DEF StartWrite, Goto, TypeInv, Recalls, RecallsRide
    <3> QED
      BY <3>1 DEF DroppedBy, WillDrop
  <2>2. CASE PublishWrite(p) \/ CompleteWrite(p)
    BY <1>1, <2>2 DEF PublishWrite, CompleteWrite, SetRideStatus, DroppedBy, OnTheWay, Unpaid,
                      WillDrop, Recalls, RecallsRide
  <2> QED
    BY <2>1, <2>2
<1>6. Recalls(p)'
  <2>1. CASE StartWrite(p)
    BY <2>1 DEF StartWrite, Goto, TypeInv,
       Recalls, RecallsRequest, RecallsPayment, RecallsRide, RecallsBoarding, RefundSteps
  <2>2. CASE PublishWrite(p) \/ CompleteWrite(p)
    BY <2>2, NothingToRecall DEF PublishWrite, CompleteWrite
  <2> QED
    BY <2>1, <2>2
<1>7. Moves
  BY <1>1, RideMachine DEF Moves, RideMoves, BookingMoves, Forward, BoardingRank, TypeInv
<1> QED
  BY <1>2, <1>3, <1>4, <1>5, <1>6, <1>7

(* Closing the ride cancels every booking and closes every open request;     *)
(* what it found paid is what it refunds.                                    *)
LEMMA CloseInTurn ==
  ASSUME TypeInv, PaidInv, NEW p \in Procs, Works(p), UNCHANGED crashed, CloseWrite(p)
  PROVE  Works(p)' /\ Moves
<1> USE DEF At, Works
<1> DEFINE closed == ClosedStatus(p)
<1>1. /\ pc[p] = "closeWrite" /\ rideStatus \in {"DRAFT", "PUBLISHED"}
      /\ todo[p] = {r \in Active : paymentStatus[r] = "SUCCESS"}
  BY DEF CloseWrite, Recalls, RecallsRide
<1>2. /\ closed \in {"CANCELLED", "EXPIRED"} /\ rideStatus' = closed
      /\ bookingStatus' = [r \in Requests |-> IF r \in Active THEN "CANCELLED" ELSE bookingStatus[r]]
      /\ requestStatus' = [r \in Requests |->
                             IF r \in ActiveRequests THEN closed ELSE requestStatus[r]]
      /\ UNCHANGED <<availableSeats, paymentStatus, payoutStatus, boardingStatus, payment>>
  BY DEF CloseWrite, ClosedStatus
<1>3. \/ pc'[p] = "refundRead" /\ todo'[p] = todo[p]
      \/ pc'[p] \in {"sweepFind", "idle"} /\ todo[p] = {}
  BY DEF CloseWrite, Goto, Return, TypeInv
<1> HIDE DEF closed
<1>4. Active' = {} /\ \A r \in Requests : bookingStatus'[r] \in {"NONE", "CANCELLED"}
  BY <1>2 DEF Active, TypeInv, BookingStatus
<1>5. SeatsInTurn'
  BY <1>2, <1>4, SeatsVoid
<1>6. RowsInTurn'
  <2>1. \A r \in Requests : requestStatus'[r] \notin {"REQUESTED", "ACCEPTED"}
    BY <1>2 DEF ActiveRequests
  <2>2. RequestMatchesBooking' /\ ClosedRideIsEmpty' /\ OneActiveRequest'
    BY <1>4, <2>1 DEF RequestMatchesBooking, ClosedRideIsEmpty, OneActiveRequest
  <2>3. NobodyLeftOnBoard' /\ PayoutFollowsDrop'
    BY <1>2 DEF RowsInTurn, NobodyLeftOnBoard, PayoutFollowsDrop
  <2>4. MoneyAgrees'
    BY <1>2, <1>4 DEF RowsInTurn, MoneyAgrees
  <2> QED
    BY <2>2, <2>3, <2>4 DEF RowsInTurn
<1>7. SettledBy(p)'
  <2>1. SUFFICES ASSUME ~crashed, NEW r \in Requests, Owed(r)'
                 PROVE  WillRefund(p, r)'
    BY DEF SettledBy
  <2>2. payment[r] = "SUCCESS" /\ paymentStatus[r] = "SUCCESS"
    BY <1>2, <2>1 DEF Owed, PaidInv, PaidRows, LedgersAgree
  <2>3. r \in Active
    BY <1>1, <1>2, <2>1, <2>2 DEF SettledBy, Owed, WillRefund, RefundSteps
  <2> QED
    BY <1>1, <1>3, <2>2, <2>3 DEF WillRefund
<1>8. DroppedBy(p)'
  BY <1>2 DEF DroppedBy, OnTheWay
<1>9. Recalls(p)'
  <2>1. \A r \in todo[p] : bookingStatus'[r] = "CANCELLED"
    BY <1>1, <1>2 DEF Active
  <2> QED
    BY <1>3, <2>1
    DEF Recalls, RecallsRequest, RecallsPayment, RecallsRide, RecallsBoarding, RefundSteps
<1>10. Moves
  <2>1. RideMoves
    BY <1>1, <1>2, RideMachine DEF RideMoves
  <2>2. BookingMoves
    BY <1>2, BookingMachine DEF BookingMoves, Active
  <2>3. Forward
    BY <1>2 DEF Forward, BoardingRank, TypeInv
  <2> QED
    BY <2>1, <2>2, <2>3 DEF Moves
<1> QED
  BY <1>5, <1>6, <1>7, <1>8, <1>9, <1>10

(* Releasing a seat nobody paid for.                                         *)
LEMMA DropInTurn ==
  ASSUME TypeInv, PaidInv, NEW p \in Procs, Works(p), UNCHANGED crashed, DropWrite(p)
  PROVE  Works(p)' /\ Moves
<1> USE DEF At, Works
<1> DEFINE r == on[p]
<1>1. /\ r \in Requests /\ pc[p] = "dropWrite" /\ bookingStatus[r] = "PAYMENT_PENDING"
      /\ r \in Active
  BY DEF DropWrite, TypeInv, Recalls, RecallsRide, Active
<1>2. /\ ReleaseSeats(r)
      /\ UNCHANGED <<rideStatus, paymentStatus, payoutStatus, boardingStatus, payment>>
      /\ bookingStatus' = [bookingStatus EXCEPT ![r] = "CANCELLED"]
  BY DEF DropWrite, ReleaseSeats
<1>3. \/ todo[p] = {} /\ pc'[p] = "idle"
      \/ pc'[p] = "dropLock" /\ todo'[p] = todo[p] /\ op'[p] = op[p]
  BY DEF DropWrite, NextDrop, Return, TypeInv
<1>4. payment[r] # "SUCCESS"
  BY <1>1 DEF RowsInTurn, MoneyAgrees, PaidInv, PaidRows, LedgersAgree
<1>5. \A s \in Requests : (s # r /\ WillDrop(p, s)) => WillDrop(p, s)'
  BY <1>1, <1>3 DEF WillDrop
<1> HIDE DEF r
<1>6. SeatsInTurn' /\ RowsInTurn' /\ Moves
  BY <1>1, <1>2, ReleaseInTurn
<1>7. SettledBy(p)'
  BY <1>1, <1>2, <1>4 DEF SettledBy, Owed, WillRefund, RefundSteps, TypeInv
<1>8. DroppedBy(p)'
  BY <1>1, <1>2, <1>5 DEF DroppedBy, OnTheWay, Unpaid, TypeInv
<1>9. Recalls(p)'
  BY <1>3 DEF Recalls, RecallsRequest, RecallsPayment, RecallsRide, RecallsBoarding, RefundSteps
<1> QED
  BY <1>6, <1>7, <1>8, <1>9

LEMMA LifecycleInTurn ==
  ASSUME TypeInv, PaidInv, NEW p \in Procs, Works(p), LifecycleStep(p), UNCHANGED crashed
  PROVE  Works(p)' /\ Moves
BY LifecycleReads, LifecycleLooks, DropLooks, RideWrites, CloseInTurn, DropInTurn
DEF LifecycleStep
---------------------------------------------------------------------------
(* The boarding service.                                                     *)
LEMMA BoardingLooks ==
  ASSUME TypeInv, NEW p \in Procs, Works(p), UNCHANGED crashed,
         \/ OtpCompare(p)
         \/ \E r \in Requests : \E stage \in {"PICKUP", "DROP"} :
              OtpRead(p, r, stage) \/ VerifyOtpRead(p, r, stage)
  PROVE  Works(p)' /\ Moves
<1> USE DEF At, Works
<1>1. ASSUME NEW r \in Requests, NEW stage \in {"PICKUP", "DROP"},
             OtpRead(p, r, stage) \/ VerifyOtpRead(p, r, stage)
      PROVE  Works(p)' /\ Moves
  <2>1. /\ UNCHANGED rows /\ pc[p] = "idle" /\ on'[p] = r
        /\ rideStatus = "STARTED" /\ bookingStatus[r] = "CONFIRMED"
        /\ \/ /\ pc'[p] = "otpSave" /\ op'[p] = SendOp(stage)
              /\ boardingStatus[r] \in From(stage)
           \/ /\ pc'[p] = "otpCompare" /\ op'[p] = VerifyOp(stage)
              /\ boardingStatus[r] = Sent(stage)
    BY <1>1 DEF OtpRead, VerifyOtpRead, Begin, Idle, TypeInv
  <2>2. Stage(p)' = stage
    BY <2>1 DEF Stage, SendOp, VerifyOp
  <2>3. Recalls(p)'
    BY <2>1, <2>2
    DEF Recalls, RecallsRequest, RecallsPayment, RecallsRide, RecallsBoarding, RefundSteps
  <2> QED
    BY <2>1, <2>3, ReadsOnly DEF WillRefund, WillDrop, RefundSteps
<1>2. CASE OtpCompare(p)
  <2>1. UNCHANGED rows /\ pc[p] = "otpCompare"
    BY <1>2 DEF OtpCompare
  <2>2. CASE Return(p)
    BY <2>1, <2>2, NothingToRecall, ReadsOnly DEF WillRefund, WillDrop, RefundSteps
  <2>3. CASE ~Return(p)
    <3>1. pc'[p] = "otpMark" /\ on' = on /\ op' = op
      BY <1>2, <2>3 DEF OtpCompare, Goto, TypeInv
    <3>2. Stage(p)' = Stage(p)
      BY <3>1 DEF Stage
    <3>3. Recalls(p)'
      BY <2>1, <3>1, <3>2
      DEF Recalls, RecallsRequest, RecallsPayment, RecallsRide, RecallsBoarding, RefundSteps
    <3> QED
      BY <2>1, <3>3, ReadsOnly DEF WillRefund, WillDrop, RefundSteps
  <2> QED
    BY <2>2, <2>3
<1> QED
  BY <1>1, <1>2

(* Each write finds the passenger where the check did, one stage back.       *)
LEMMA BoardingWrites ==
  ASSUME TypeInv, PaidInv, NEW p \in Procs, Works(p), UNCHANGED crashed,
         OtpSave(p) \/ MarkBoarded(p) \/ MarkDropped(p)
  PROVE  Works(p)' /\ Moves
<1> USE DEF At, Works
<1> DEFINE r == on[p]
<1>1. /\ r \in Requests /\ pc[p] \in {"otpSave", "otpMark"} /\ Return(p)
      /\ rideStatus = "STARTED" /\ bookingStatus[r] = "CONFIRMED"
      /\ UNCHANGED <<rideStatus, availableSeats, requestStatus, bookingStatus, paymentStatus, payment>>
  BY DEF OtpSave, MarkBoarded, MarkDropped, TypeInv, Recalls, RecallsBoarding
<1>2. \/ /\ boardingStatus[r] \in {"NOT_BOARDED", "OTP_SENT"}
         /\ boardingStatus' = [boardingStatus EXCEPT ![r] = "OTP_SENT"]
         /\ UNCHANGED payoutStatus
      \/ /\ boardingStatus[r] = "OTP_SENT"
         /\ boardingStatus' = [boardingStatus EXCEPT ![r] = "BOARDED"]
         /\ UNCHANGED payoutStatus
      \/ /\ boardingStatus[r] \in {"BOARDED", "DROP_OTP_SENT"}
         /\ boardingStatus' = [boardingStatus EXCEPT ![r] = "DROP_OTP_SENT"]
         /\ UNCHANGED payoutStatus
      \/ /\ boardingStatus[r] = "DROP_OTP_SENT"
         /\ boardingStatus' = [boardingStatus EXCEPT ![r] = "DROPPED"]
         /\ payoutStatus' = [payoutStatus EXCEPT ![r] = IF @ = "HELD" THEN "RELEASED" ELSE @]
  BY DEF OtpSave, MarkBoarded, MarkDropped, Recalls, RecallsBoarding, From, Sent, Stage
<1>3. payoutStatus[r] \in {"NONE", "HELD", "RELEASED"}
  BY <1>1 DEF RowsInTurn, MoneyAgrees, TypeInv
<1> HIDE DEF r
<1>4. SeatsInTurn'
  <2>1. Active' = Active
    BY <1>1 DEF Active
  <2> QED
    BY <1>1, <2>1, SeatsKept
<1>5. RowsInTurn'
  <2>1. RequestMatchesBooking' /\ ClosedRideIsEmpty' /\ OneActiveRequest'
    BY <1>1 DEF RowsInTurn, RequestMatchesBooking, ClosedRideIsEmpty, OneActiveRequest, Active
  <2>2. NobodyLeftOnBoard'
    BY <1>1 DEF NobodyLeftOnBoard
  <2>3. PayoutFollowsDrop'
    BY <1>1, <1>2, <1>3 DEF RowsInTurn, PayoutFollowsDrop, TypeInv
  <2>4. MoneyAgrees'
    BY <1>1, <1>2, <1>3 DEF RowsInTurn, MoneyAgrees, TypeInv
  <2> QED
    BY <2>1, <2>2, <2>3, <2>4 DEF RowsInTurn
<1>6. SettledBy(p)' /\ DroppedBy(p)'
  BY <1>1 DEF SettledBy, DroppedBy, Owed, Unpaid, OnTheWay, WillRefund, WillDrop, RefundSteps
<1>7. Recalls(p)'
  BY <1>1, NothingToRecall
<1>8. Moves
  <2>1. Forward
    BY <1>1, <1>2 DEF Forward, BoardingRank, TypeInv
  <2> QED
    BY <1>1, <2>1 DEF Moves, RideMoves, BookingMoves
<1> QED
  BY <1>4, <1>5, <1>6, <1>7, <1>8

LEMMA BoardingInTurn ==
  ASSUME TypeInv, PaidInv, NEW p \in Procs, Works(p), BoardingStep(p), UNCHANGED crashed
  PROVE  Works(p)' /\ Moves
BY BoardingLooks, BoardingWrites DEF BoardingStep

(* A handler that dies leaves the rows as they are, and what it still had to *)
(* refund or release undone: from then on those two promises are off.        *)
LEMMA FailInTurn ==
  ASSUME TypeInv, NEW p \in Procs, Works(p), Fail(p)
  PROVE  Works(p)' /\ Moves
BY NothingToRecall, ReadsOnly DEF Fail

---------------------------------------------------------------------------
(* A turn, or a part of one, keeps everything.                               *)
LEMMA NextInTurn ==
  ASSUME TypeInv, PaidInv, OneAtATime, OneAtATime', InTurnInv, [Next]_vars
  PROVE  InTurnInv' /\ Moves
<1>1. ASSUME NEW p \in Procs, Step(p)
      PROVE  InTurnInv' /\ Moves
  <2>1. \A q \in Procs \ {p} : Idle(q) /\ Idle(q)'
    BY <1>1, Alone
  <2>2. Works(p)
    BY <2>1, WorksAlone
  <2>3. Works(p)' /\ Moves
    BY <1>1, <2>2, BookingInTurn, PaymentInTurn, LifecycleInTurn, BoardingInTurn, FailInTurn
    DEF Step, HandlerStep
  <2> QED
    BY <2>1, <2>3, WorkedAlone
<1>2. CASE UNCHANGED vars
  <2>1. SeatsInTurn'
    <3>1. Active' = Active
      BY <1>2 DEF vars, Active
    <3> QED
      BY <1>2, <3>1, SeatsKept DEF vars, InTurnInv
  <2>2. RowsInTurn'
    BY <1>2 DEF vars, InTurnInv, RowsInTurn, RequestMatchesBooking, ClosedRideIsEmpty,
       OneActiveRequest, NobodyLeftOnBoard, PayoutFollowsDrop, MoneyAgrees, Active
  <2>3. Settled' /\ Dropped'
    BY <1>2 DEF vars, InTurnInv, Settled, Dropped, Owed, WillRefund, WillDrop, Unpaid, OnTheWay
  <2>4. \A p \in Procs : Recalls(p)'
    BY <1>2 DEF vars, InTurnInv, Recalls, RecallsRequest, RecallsPayment, RecallsRide,
       RecallsBoarding, HasActiveRequest, ActiveRequests, Active, OnBoard, ToRefund, ToSettle,
       Stage
  <2>5. Moves
    BY <1>2 DEF vars, Moves, RideMoves, BookingMoves, Forward, BoardingRank, TypeInv
  <2> QED
    BY <2>1, <2>2, <2>3, <2>4, <2>5 DEF InTurnInv
<1> QED
  BY <1>1, <1>2 DEF Next

(* The inductive invariant holds as long as the handlers take turns.         *)
THEOREM InTurnInvariant == Spec /\ []OneAtATime => []InTurnInv
<1>1. Init => InTurnInv
  <2> SUFFICES ASSUME Init
               PROVE  InTurnInv
    OBVIOUS
  <2>1. SeatsInTurn
    <3>1. HeldSeats = {}
      BY DEF Init, HeldSeats, Active, Ledger!Places
    <3>2. IsFiniteSet({}) /\ Cardinality({}) = 0
      BY LedgerP!FS_EmptySet, Zenon
      DEF LedgerP!IsFiniteSet, IsFiniteSet, LedgerP!Cardinality, Cardinality
    <3> QED
      BY <3>1, <3>2 DEF Init, SeatsInTurn, SeatsConserved
  <2>2. RowsInTurn
    BY DEF Init, RowsInTurn, RequestMatchesBooking, ClosedRideIsEmpty, OneActiveRequest,
           NobodyLeftOnBoard, PayoutFollowsDrop, MoneyAgrees, Active
  <2>3. Settled /\ Dropped
    BY DEF Init, Settled, Owed, Dropped, Unpaid
  <2>4. \A p \in Procs : Recalls(p)
    BY DEF Init, Recalls, RecallsRequest, RecallsPayment, RecallsRide, RecallsBoarding, RefundSteps
  <2> QED
    BY <2>1, <2>2, <2>3, <2>4 DEF InTurnInv
<1>2. TypeInv /\ PaidInv /\ OneAtATime /\ OneAtATime' /\ InTurnInv /\ [Next]_vars => InTurnInv'
  BY NextInTurn
<1> QED
  BY <1>1, <1>2, TypeCorrect, PaidInvariant, PTL DEF Spec

(* Every seat is either on offer or held by one active booking, until the    *)
(* ride is called off: no turn loses a seat and none returns it twice, for   *)
(* every number of requests, of seats asked for and of seats the ride has.   *)
THEOREM SeatsAreConserved == Spec /\ []OneAtATime => []SeatsConserved
<1>1. InTurnInv => SeatsConserved
  BY DEF InTurnInv, SeatsInTurn
<1> QED
  BY <1>1, InTurnInvariant, PTL

(* A request says ACCEPTED exactly while its booking is active.              *)
THEOREM RequestsFollowBookings == Spec /\ []OneAtATime => []RequestMatchesBooking
<1>1. InTurnInv => RequestMatchesBooking
  BY DEF InTurnInv, RowsInTurn
<1> QED
  BY <1>1, InTurnInvariant, PTL

(* A ride that was cancelled or expired keeps no booking and no open         *)
(* request: none arrives late from a check the closing has overtaken.        *)
THEOREM ClosedRidesAreEmpty == Spec /\ []OneAtATime => []ClosedRideIsEmpty
<1>1. InTurnInv => ClosedRideIsEmpty
  BY DEF InTurnInv, RowsInTurn
<1> QED
  BY <1>1, InTurnInvariant, PTL

(* A passenger has at most one open request on the ride, though only a read  *)
(* before the insert makes sure of it.                                       *)
THEOREM NobodyAsksTwice == Spec /\ []OneAtATime => []OneActiveRequest
<1>1. InTurnInv => OneActiveRequest
  BY DEF InTurnInv, RowsInTurn
<1> QED
  BY <1>1, InTurnInvariant, PTL

(* No ride is completed with a passenger on board.                           *)
THEOREM NobodyIsLeftOnBoard == Spec /\ []OneAtATime => []NobodyLeftOnBoard
<1>1. InTurnInv => NobodyLeftOnBoard
  BY DEF InTurnInv, RowsInTurn
<1> QED
  BY <1>1, InTurnInvariant, PTL

(* The rider's share leaves escrow when the passenger confirms the drop, and *)
(* at no other time; no later payment or refund touches it.                  *)
THEOREM PayoutComesWithDrop == Spec /\ []OneAtATime => []PayoutFollowsDrop
<1>1. InTurnInv => PayoutFollowsDrop
  BY DEF InTurnInv, RowsInTurn
<1> QED
  BY <1>1, InTurnInvariant, PTL

(* Once start has answered, nobody on the ride owes money: every booking it  *)
(* found unpaid is released before, in whatever order.                       *)
THEOREM UnpaidStayBehind == Spec /\ []OneAtATime => []NoUnpaidPassenger
<1>1. InTurnInv => NoUnpaidPassenger
  BY DEF InTurnInv, Dropped, OnTheWay, Unpaid, WillDrop, NoUnpaidPassenger
<1> QED
  BY <1>1, InTurnInvariant, PTL

(* Handlers that take turns refund nobody who keeps the seat: a late payment *)
(* leaves the booking cancelled, and no other refund starts before the       *)
(* cancellation is written.                                                  *)
THEOREM NobodyRidesRefunded == Spec /\ []OneAtATime => []RefundedIsCancelled
<1>1. InTurnInv => RefundedIsCancelled
  BY DEF InTurnInv, RowsInTurn, MoneyAgrees, RefundedIsCancelled
<1> QED
  BY <1>1, InTurnInvariant, PTL

(* Once every handler has answered and none has died, a cancelled booking    *)
(* keeps nobody's money, neither on its payment nor in escrow: the refunds   *)
(* ahead of a handler (WillRefund) are all that is owed at any time.         *)
THEOREM RefundsAreSettled == Spec /\ []OneAtATime => []RefundsSettled
<1>1. InTurnInv => RefundedIsCancelled
  BY DEF InTurnInv, RowsInTurn, MoneyAgrees, RefundedIsCancelled
<1>2. InTurnInv => RefundsSettled
  BY <1>1 DEF InTurnInv, RowsInTurn, MoneyAgrees, Settled, Owed, WillRefund, RefundSteps, Idle,
              RefundsSettled
<1> QED
  BY <1>2, InTurnInvariant, PTL

(* What is written follows the status machines, though they are asserted on  *)
(* the row as it was read.                                                   *)
THEOREM MachinesAreFollowed == Spec /\ []OneAtATime => FollowsStateMachines
<1>1. TypeInv /\ PaidInv /\ OneAtATime /\ OneAtATime' /\ InTurnInv /\ [Next]_vars
        => [RideMoves /\ BookingMoves]_vars
  BY NextInTurn DEF Moves
<1> QED
  BY <1>1, TypeCorrect, PaidInvariant, InTurnInvariant, PTL DEF Spec, FollowsStateMachines

(* A passenger is never sent back a stage of boarding.                       *)
THEOREM BoardingGoesForward == Spec /\ []OneAtATime => BoardingForward
<1>1. TypeInv /\ PaidInv /\ OneAtATime /\ OneAtATime' /\ InTurnInv /\ [Next]_vars => [Forward]_vars
  BY NextInTurn DEF Moves
<1> QED
  BY <1>1, TypeCorrect, PaidInvariant, InTurnInvariant, PTL DEF Spec, BoardingForward, Forward

(* A trip with a single handler, as the run has it, takes turns.             *)
COROLLARY OneHandlerTakesTurns ==
  ASSUME NEW CONSTANT h, Procs = {h}
  PROVE  Spec => []OneAtATime
<1>1. OneAtATime
  BY DEF OneAtATime
<1> QED
  BY <1>1, PTL
===============================================================================
