---------------------------- MODULE BoardingCode ----------------------------
(***************************************************************************)
(* The one code a booking holds at a time (boarding.service.js), followed  *)
(* through what BoardingService leaves out: which code it is, its expiry   *)
(* and the wrong guesses.  The booking is confirmed and its ride under     *)
(* way; what else can happen to them is in RideTrip.                       *)
(***************************************************************************)
EXTENDS Callers

CONSTANT BoardingCodes   \* bound: the codes the rider can send

ASSUME BoardingCodesAssumption == NoCode \notin BoardingCodes

Stages == {"PICKUP", "DROP"}

VARIABLES
  boarding,      \* bookings.boarding_status
  otp,           \* the code pickup_otp_hash is for, NoCode if NULL
  otpFresh,      \* pickup_otp_expires_at is still to come
  otpAttempts,   \* pickup_otp_attempts
  stageOf,       \* the stage each code was sent for, "NONE" until it is
  job,           \* what each handler does: its step, its stage and its code
  otpAnswered,   \* history: wrong guesses answered, by code
  boardedBy,     \* history: the stages of the codes that let the passenger board
  overlapped     \* history: two handlers have been in flight at once

boardingVars == <<boarding, otp, otpFresh, otpAttempts, stageOf, job, otpAnswered, boardedBy, overlapped>>
bookingRow   == <<boarding, otp, otpFresh, otpAttempts>>

NoJob == [step |-> "idle", stage |-> "NONE", code |-> NoCode]

Start(p, j) ==
  /\ job[p] = NoJob
  /\ job' = [job EXCEPT ![p] = j]
  /\ overlapped' = (overlapped \/ \E q \in Procs : job[q] # NoJob)

Continue(p, j) == job' = [job EXCEPT ![p] = j] /\ UNCHANGED overlapped

StatusesFrom(stage) ==
  IF stage = "PICKUP" THEN {"NOT_BOARDED", "OTP_SENT"} ELSE {"BOARDED", "DROP_OTP_SENT"}

SentStatus(stage) == IF stage = "PICKUP" THEN "OTP_SENT" ELSE "DROP_OTP_SENT"

(* sendOtp reads the booking, and its code for the resend wait ...           *)
SendCodeRead(p, stage) ==
  /\ boarding \in StatusesFrom(stage)
  /\ Start(p, [step |-> "send", stage |-> stage, code |-> NoCode])
  /\ UNCHANGED <<bookingRow, stageOf, otpAnswered, boardedBy>>

(* ... and, when the wait is over, writes a new code whatever is there now.  *)
SendCodeSave(p) ==
  LET stage == job[p].stage IN
  /\ job[p].step = "send"
  /\ \E c \in BoardingCodes :
       /\ stageOf[c] = "NONE"
       /\ stageOf' = [stageOf EXCEPT ![c] = stage]
       /\ otp' = c
  /\ boarding' = SentStatus(stage)
  /\ otpFresh' = TRUE
  /\ otpAttempts' = 0
  /\ Continue(p, NoJob)
  /\ UNCHANGED <<otpAnswered, boardedBy>>

SendCodeWait(p) ==
  /\ job[p].step = "send"
  /\ boarding = SentStatus(job[p].stage)
  /\ Continue(p, NoJob)
  /\ UNCHANGED <<bookingRow, stageOf, otpAnswered, boardedBy>>

(* Fault: the stage of the call is not compared with the booking's.          *)
VerifyCodeReadFault(p, stage) ==
  /\ boarding \in {SentStatus(s) : s \in Stages}
  /\ Start(p, [step |-> "compare", stage |-> stage, code |-> NoCode])
  /\ UNCHANGED <<bookingRow, stageOf, otpAnswered, boardedBy>>

(* verifyOtp reads the booking, then its code: two statements.               *)
VerifyCodeRead(p, stage) ==
  /\ boarding = SentStatus(stage)
  /\ Start(p, [step |-> "compare", stage |-> stage, code |-> NoCode])
  /\ UNCHANGED <<bookingRow, stageOf, otpAnswered, boardedBy>>

(* Fault: one guess more than the limit.                                     *)
GuessAllowedFault == otp # NoCode /\ otpFresh /\ otpAttempts <= MaxAttempts

GuessAllowed == otp # NoCode /\ otpFresh /\ otpAttempts < MaxAttempts

(* The passenger enters a code the rider has sent, or a wrong one.           *)
VerifyCodeCompare(p) ==
  /\ job[p].step = "compare"
  /\ IF GuessAllowed
     THEN \E step \in {"mark", "count"} : Continue(p, [job[p] EXCEPT !.step = step, !.code = otp])
     ELSE Continue(p, NoJob)
  /\ UNCHANGED <<bookingRow, stageOf, otpAnswered, boardedBy>>

(* bumpPickupOtpAttempts counts on the row, whichever code it holds by now.  *)
VerifyCodeCount(p) ==
  /\ job[p].step = "count"
  /\ otpAttempts' = otpAttempts + 1
  /\ otpAnswered' = [otpAnswered EXCEPT ![job[p].code] = @ + 1]
  /\ Continue(p, NoJob)
  /\ UNCHANGED <<boarding, otp, otpFresh, stageOf, boardedBy>>

(* markBoarded and markDropped write the row unconditionally.                *)
VerifyCodeMark(p) ==
  /\ job[p].step = "mark"
  /\ boarding' = IF job[p].stage = "PICKUP" THEN "BOARDED" ELSE "DROPPED"
  /\ otp' = NoCode
  /\ otpFresh' = FALSE
  /\ otpAttempts' = 0
  /\ boardedBy' = IF job[p].stage = "PICKUP" THEN boardedBy \cup {stageOf[job[p].code]} ELSE boardedBy
  /\ Continue(p, NoJob)
  /\ UNCHANGED <<stageOf, otpAnswered>>

BoardingCodeExpires ==
  /\ otpFresh
  /\ otpFresh' = FALSE
  /\ UNCHANGED <<boarding, otp, otpAttempts, stageOf, job, otpAnswered, boardedBy, overlapped>>

BoardingInit ==
  /\ boarding = "NOT_BOARDED"
  /\ otp = NoCode
  /\ otpFresh = FALSE
  /\ otpAttempts = 0
  /\ stageOf = [c \in BoardingCodes |-> "NONE"]
  /\ job = [p \in Procs |-> NoJob]
  /\ otpAnswered = [c \in BoardingCodes |-> 0]
  /\ boardedBy = {}
  /\ overlapped = FALSE

BoardingNext ==
  \/ \E p \in Procs :
       \/ \E stage \in Stages : SendCodeRead(p, stage) \/ VerifyCodeRead(p, stage)
       \/ SendCodeSave(p) \/ SendCodeWait(p)
       \/ VerifyCodeCompare(p) \/ VerifyCodeCount(p) \/ VerifyCodeMark(p)
  \/ BoardingCodeExpires

BoardingSpec == BoardingInit /\ [][BoardingNext]_boardingVars

---------------------------------------------------------------------------
BookingCode == INSTANCE OneTimeCode WITH
  Codes <- BoardingCodes, current <- otp, answered <- otpAnswered,
  attempts <- IF otp = NoCode THEN 0 ELSE otpAttempts,
  comparing <- [p \in Procs |-> IF job[p].step = "count" THEN job[p].code ELSE NoCode]

(* The code of a booking is a one-time code place too: a wrong guess is      *)
(* counted after it is compared, and guesses at a code stay limited.         *)
BoardingCodeLimited == BookingCode!Spec

(* A passenger boards with a pickup code and with nothing else, as long as   *)
(* the rider's and the passenger's handlers do not overlap: the stage is     *)
(* checked on one read of the booking and the code on a later one.           *)
BoardsWithPickupCode == overlapped \/ boardedBy \subseteq {"PICKUP"}
===========================================================================
