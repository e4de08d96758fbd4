------------------------------ MODULE PhoneOtp ------------------------------
(***************************************************************************)
(* Proving a phone number (phoneOtp.service.js): a row per number holds    *)
(* the current code and, once the code or Firebase has confirmed the       *)
(* number, the verification token that sign-up and a change of number      *)
(* need.  The rows of users that those two write are here as well.         *)
(*                                                                         *)
(* A step of a handler is one SQL statement or the answer of the SMS       *)
(* provider; nothing here is a transaction and no row is locked across     *)
(* steps.  Codes and tokens are random, so each is a fresh value.          *)
(***************************************************************************)
EXTENDS Callers

CONSTANTS
  Phones,
  Codes,           \* bound: the codes that can be sent
  Tokens,          \* bound: the verification tokens that can be handed out
  RegisteredPhone, \* the number of each account that exists at the start
  NoPhone, NoToken

ASSUME PhoneAssumption ==
  /\ RegisteredPhone \in [Users -> Phones \cup {NoPhone}]
  /\ \A u, v \in Users :
       u # v /\ RegisteredPhone[u] = RegisteredPhone[v] => RegisteredPhone[u] = NoPhone
  /\ NoPhone \notin Phones
  /\ NoCode \notin Codes /\ NoToken \notin Tokens

VARIABLES
  code,        \* phone_otps.otp_hash, NoCode when the number has no row
  attempts,    \* phone_otps.attempts
  codeFresh,   \* phone_otps.expires_at is still to come
  token,       \* phone_otps.verification_token_hash, NoToken if NULL
  tokenFresh,  \* verification_expires_at is still to come
  phoneOf,     \* users.phone, NoPhone when there is no such account
  task,        \* what each handler in flight is doing and remembers
  codePhone,   \* the number each code was made for, NoPhone until it is
  texted,      \* the codes that have reached their number
  proof,       \* history: the number whose holder earned each token
  answered,    \* history: wrong guesses answered, by code
  created,     \* history: accounts each token has created
  uses,        \* history: accounts and changes of number each token has served
  claim,       \* history: the token by which an account got its number
  width        \* history: most handlers that were in flight at once

rowVars  == <<code, attempts, codeFresh, token, tokenFresh>>
history  == <<proof, answered, created, uses, claim>>
phoneVars == <<code, attempts, codeFresh, token, tokenFresh, phoneOf, task, codePhone, texted,
               proof, answered, created, uses, claim, width>>

NoTask == [step |-> "idle", phone |-> NoPhone, user |-> NoUser, code |-> NoCode,
           token |-> NoToken, oldPhone |-> NoPhone, oldToken |-> NoToken]

Idle(p) == task[p].step = "idle"
Busy == {p \in Procs : ~Idle(p)}
At(p, step) == task[p].step = step

(* A request comes in: handler p will continue with t.                       *)
Begin(p, t) ==
  /\ Idle(p)
  /\ task' = [task EXCEPT ![p] = t]
  /\ width' = IF Cardinality(Busy) + 1 > width THEN Cardinality(Busy) + 1 ELSE width

Goto(p, step) ==
  /\ task' = [task EXCEPT ![p].step = step]
  /\ UNCHANGED width

Return(p) ==
  /\ task' = [task EXCEPT ![p] = NoTask]
  /\ UNCHANGED width

Registered(n) == \E u \in Users : phoneOf[u] = n

FreshCodes  == {c \in Codes : codePhone[c] = NoPhone}
FreshTokens == {t \in Tokens : proof[t] = NoPhone}

---------------------------------------------------------------------------
(* phone_otps statements.                                                  *)

(* Fault: the number and the hash are inserted in each other's place.        *)
SaveCodeFault(n, c) ==
  /\ code' = [code EXCEPT ![n] = n]
  /\ attempts' = [attempts EXCEPT ![n] = 0]
  /\ codeFresh' = [codeFresh EXCEPT ![n] = TRUE]
  /\ token' = [token EXCEPT ![n] = NoToken]
  /\ tokenFresh' = [tokenFresh EXCEPT ![n] = FALSE]
  /\ codePhone' = [codePhone EXCEPT ![c] = n]

(* saveCode: a new code replaces any earlier one and any verification.       *)
SaveCode(n, c) ==
  /\ code' = [code EXCEPT ![n] = c]
  /\ attempts' = [attempts EXCEPT ![n] = 0]
  /\ codeFresh' = [codeFresh EXCEPT ![n] = TRUE]
  /\ token' = [token EXCEPT ![n] = NoToken]
  /\ tokenFresh' = [tokenFresh EXCEPT ![n] = FALSE]
  /\ codePhone' = [codePhone EXCEPT ![c] = n]

Delete(n) ==
  /\ code' = [code EXCEPT ![n] = NoCode]
  /\ attempts' = [attempts EXCEPT ![n] = 0]
  /\ codeFresh' = [codeFresh EXCEPT ![n] = FALSE]
  /\ token' = [token EXCEPT ![n] = NoToken]
  /\ tokenFresh' = [tokenFresh EXCEPT ![n] = FALSE]

(* isVerified, and the WHERE of consumeVerification.                         *)
Verified(n, t) == token[n] = t /\ tokenFresh[n] /\ t # NoToken

(* Fault: the row is left ...                                                *)
ConsumeKeeps(n, t) == UNCHANGED rowVars

(* ... or goes whatever token is presented.                                  *)
ConsumeAny(n, t) == IF code[n] # NoCode THEN Delete(n) ELSE UNCHANGED rowVars

(* consumeVerification: one DELETE that says whether it found the row.       *)
Consume(n, t) == IF Verified(n, t) THEN Delete(n) ELSE UNCHANGED rowVars

---------------------------------------------------------------------------
(* send                                                                     *)

(* For a number nobody has registered ...                                    *)
SendBegin(p, n) ==
  /\ ~Registered(n)
  /\ Begin(p, [NoTask EXCEPT !.step = "cooldown", !.phone = n])
  /\ UNCHANGED <<rowVars, phoneOf, codePhone, texted, history>>

(* ... or for the signed-in user's own (sendOwnPhoneOtp).                    *)
SendOwnBegin(p, u) ==
  /\ phoneOf[u] # NoPhone
  /\ Begin(p, [NoTask EXCEPT !.step = "cooldown", !.phone = phoneOf[u]])
  /\ UNCHANGED <<rowVars, phoneOf, codePhone, texted, history>>

(* A row that is less than 30 s old refuses the caller; how long ago it was  *)
(* written is left open.                                                     *)
SendCheck(p) ==
  /\ At(p, "cooldown")
  /\ \/ Goto(p, "saveCode")
     \/ code[task[p].phone] # NoCode /\ Return(p)
  /\ UNCHANGED <<rowVars, phoneOf, codePhone, texted, history>>

SendSave(p) ==
  /\ At(p, "saveCode")
  /\ \E c \in FreshCodes :
       /\ SaveCode(task[p].phone, c)
       /\ task' = [task EXCEPT ![p].step = "sms", ![p].code = c]
  /\ UNCHANGED <<phoneOf, texted, history, width>>

(* The provider answers; a code may arrive although it says it failed.       *)
SmsSent(p) ==
  /\ At(p, "sms")
  /\ texted' = texted \cup {task[p].code}
  /\ Return(p)
  /\ UNCHANGED <<rowVars, phoneOf, codePhone, history>>

SmsFailed(p) ==
  /\ At(p, "sms")
  /\ texted' \in {texted, texted \cup {task[p].code}}
  /\ Goto(p, "remove")
  /\ UNCHANGED <<rowVars, phoneOf, codePhone, history>>

(* Nothing was delivered: the row goes, whichever code it holds by now.      *)
SendRemove(p) ==
  /\ At(p, "remove")
  /\ Delete(task[p].phone)
  /\ Return(p)
  /\ UNCHANGED <<phoneOf, codePhone, texted, history>>

---------------------------------------------------------------------------
(* verify                                                                   *)

(* Fault: one guess more than the limit.                                     *)
MayGuessFault(n) == code[n] # NoCode /\ codeFresh[n] /\ attempts[n] <= MaxAttempts

MayGuess(n) == code[n] # NoCode /\ codeFresh[n] /\ attempts[n] < MaxAttempts

(* Reading the row and comparing are one step: there is no await between.    *)
(* guess is what the user enters: a code they have received.                 *)
VerifyRight(p, n) ==
  /\ MayGuess(n)
  /\ \E guess \in texted :
       /\ codePhone[guess] = n
       /\ guess = code[n]
       /\ Begin(p, [NoTask EXCEPT !.step = "mark", !.phone = n, !.code = guess])
  /\ UNCHANGED <<rowVars, phoneOf, codePhone, texted, history>>

VerifyWrong(p, n) ==
  /\ MayGuess(n)
  /\ Begin(p, [NoTask EXCEPT !.step = "bump", !.phone = n, !.code = code[n]])
  /\ UNCHANGED <<rowVars, phoneOf, codePhone, texted, history>>

(* bumpAttempts counts on the row of the number, not of the code compared.   *)
VerifyBump(p) ==
  LET n == task[p].phone IN
  /\ At(p, "bump")
  /\ attempts' = [attempts EXCEPT ![n] = IF code[n] = NoCode THEN 0 ELSE @ + 1]
  /\ answered' = [answered EXCEPT ![task[p].code] = @ + 1]
  /\ Return(p)
  /\ UNCHANGED <<code, codeFresh, token, tokenFresh, phoneOf, codePhone, texted, proof, created,
                 uses, claim>>

(* markVerified writes the row of the number, if there still is one; the     *)
(* token is handed out either way.                                           *)
VerifyMark(p) ==
  LET n == task[p].phone IN
  /\ At(p, "mark")
  /\ \E t \in FreshTokens :
       /\ proof' = [proof EXCEPT ![t] = codePhone[task[p].code]]
       /\ token' = [token EXCEPT ![n] = IF code[n] = NoCode THEN NoToken ELSE t]
       /\ tokenFresh' = [tokenFresh EXCEPT ![n] = code[n] # NoCode]
  /\ Return(p)
  /\ UNCHANGED <<code, attempts, codeFresh, phoneOf, codePhone, texted, answered, created, uses, claim>>

(* Fault: the number Firebase vouches for is not compared.                   *)
SameNumberFault(m, n) == TRUE

(* verifyWithFirebase: Firebase has confirmed that the caller holds number   *)
(* m.  A row is made for the verification, with a code nobody is sent.       *)
SameNumber(m, n) == m = n

FirebaseBegin(p, m, n) ==
  /\ SameNumber(m, n)
  /\ Begin(p, [NoTask EXCEPT !.step = "firebaseSave", !.phone = n, !.oldPhone = m])
  /\ UNCHANGED <<rowVars, phoneOf, codePhone, texted, history>>

FirebaseSave(p) ==
  /\ At(p, "firebaseSave")
  /\ \E c \in FreshCodes : SaveCode(task[p].phone, c)
  /\ Goto(p, "firebaseMark")
  /\ UNCHANGED <<phoneOf, texted, history>>

FirebaseMark(p) ==
  LET n == task[p].phone IN
  /\ At(p, "firebaseMark")
  /\ \E t \in FreshTokens :
       /\ proof' = [proof EXCEPT ![t] = task[p].oldPhone]
       /\ token' = [token EXCEPT ![n] = IF code[n] = NoCode THEN NoToken ELSE t]
       /\ tokenFresh' = [tokenFresh EXCEPT ![n] = code[n] # NoCode]
  /\ Return(p)
  /\ UNCHANGED <<code, attempts, codeFresh, phoneOf, codePhone, texted, answered, created, uses, claim>>

---------------------------------------------------------------------------
(* Time.                                                                    *)

CodeExpires(n) ==
  /\ codeFresh[n]
  /\ codeFresh' = [codeFresh EXCEPT ![n] = FALSE]
  /\ UNCHANGED <<code, attempts, token, tokenFresh, phoneOf, task, codePhone, texted, history, width>>

TokenExpires(n) ==
  /\ tokenFresh[n]
  /\ tokenFresh' = [tokenFresh EXCEPT ![n] = FALSE]
  /\ UNCHANGED <<code, attempts, codeFresh, token, phoneOf, task, codePhone, texted, history, width>>
===========================================================================
