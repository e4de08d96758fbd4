------------------------------ MODULE Accounts ------------------------------
(***************************************************************************)
(* Sign-up (auth.service.js register) and the change of number             *)
(* (user.service.js updateProfile): the two users of a verified phone.     *)
(* An account is named by its email, which is UNIQUE like the number.      *)
(***************************************************************************)
EXTENDS PhoneOtp

---------------------------------------------------------------------------
(* register: both look-ups are sent together and nothing is written between. *)
RegisterBegin(p, u, n, t) ==
  /\ phoneOf[u] = NoPhone
  /\ ~Registered(n)
  /\ Begin(p, [NoTask EXCEPT !.step = "consume", !.phone = n, !.user = u, !.token = t])
  /\ UNCHANGED <<rowVars, phoneOf, codePhone, texted, history>>

RegisterConsume(p) ==
  /\ At(p, "consume")
  /\ Consume(task[p].phone, task[p].token)
  /\ IF Verified(task[p].phone, task[p].token) THEN Goto(p, "create") ELSE Return(p)
  /\ UNCHANGED <<phoneOf, codePhone, texted, history>>

(* The unique indexes of users decide between two sign-ups.                  *)
Unique(u, n) == phoneOf[u] = NoPhone /\ ~Registered(n)

(* The password is hashed meanwhile; the verification is spent either way.   *)
RegisterCreate(p) ==
  LET u == task[p].user  n == task[p].phone  t == task[p].token IN
  /\ At(p, "create")
  /\ IF Unique(u, n)
     THEN /\ phoneOf' = [phoneOf EXCEPT ![u] = n]
          /\ claim' = [claim EXCEPT ![u] = t]
          /\ created' = [created EXCEPT ![t] = @ + 1]
          /\ uses' = [uses EXCEPT ![t] = @ + 1]
     ELSE UNCHANGED <<phoneOf, claim, created, uses>>
  /\ Return(p)
  /\ UNCHANGED <<rowVars, codePhone, texted, proof, answered>>

---------------------------------------------------------------------------
(* updateProfile with a number that is not the account's: t proves the new   *)
(* one, old the current one.                                                 *)
ChangeBegin(p, u, n, t, old) ==
  /\ phoneOf[u] \notin {NoPhone, n}
  /\ Begin(p, [NoTask EXCEPT !.step = "findPhone", !.phone = n, !.user = u, !.token = t,
                             !.oldPhone = phoneOf[u], !.oldToken = old])
  /\ UNCHANGED <<rowVars, phoneOf, codePhone, texted, history>>

TakenByOther(n, u) == \E v \in Users \ {u} : phoneOf[v] = n

ChangeFindPhone(p) ==
  /\ At(p, "findPhone")
  /\ IF TakenByOther(task[p].phone, task[p].user) THEN Return(p) ELSE Goto(p, "checkOld")
  /\ UNCHANGED <<rowVars, phoneOf, codePhone, texted, history>>

ChangeCheckOld(p) ==
  /\ At(p, "checkOld")
  /\ IF Verified(task[p].oldPhone, task[p].oldToken) THEN Goto(p, "checkNew") ELSE Return(p)
  /\ UNCHANGED <<rowVars, phoneOf, codePhone, texted, history>>

ChangeCheckNew(p) ==
  /\ At(p, "checkNew")
  /\ IF Verified(task[p].phone, task[p].token) THEN Goto(p, "consumeOld") ELSE Return(p)
  /\ UNCHANGED <<rowVars, phoneOf, codePhone, texted, history>>

(* Neither consume's answer is looked at.                                    *)
ChangeConsumeOld(p) ==
  /\ At(p, "consumeOld")
  /\ Consume(task[p].oldPhone, task[p].oldToken)
  /\ Goto(p, "consumeNew")
  /\ UNCHANGED <<phoneOf, codePhone, texted, history>>

ChangeConsumeNew(p) ==
  /\ At(p, "consumeNew")
  /\ Consume(task[p].phone, task[p].token)
  /\ Goto(p, "update")
  /\ UNCHANGED <<phoneOf, codePhone, texted, history>>

ChangeUpdate(p) ==
  LET u == task[p].user  n == task[p].phone  t == task[p].token IN
  /\ At(p, "update")
  /\ IF ~TakenByOther(n, u)
     THEN /\ phoneOf' = [phoneOf EXCEPT ![u] = n]
          /\ claim' = [claim EXCEPT ![u] = t]
          /\ uses' = [x \in Tokens |-> IF x \in {t, task[p].oldToken} THEN uses[x] + 1 ELSE uses[x]]
     ELSE UNCHANGED <<phoneOf, claim, uses>>
  /\ Return(p)
  /\ UNCHANGED <<rowVars, codePhone, texted, proof, answered, created>>

(* The server or its connection dies between two statements of p.            *)
Fail(p) ==
  /\ ~Idle(p)
  /\ Return(p)
  /\ UNCHANGED <<rowVars, phoneOf, codePhone, texted, history>>

---------------------------------------------------------------------------
Init ==
  /\ code = [n \in Phones |-> NoCode]
  /\ attempts = [n \in Phones |-> 0]
  /\ codeFresh = [n \in Phones |-> FALSE]
  /\ token = [n \in Phones |-> NoToken]
  /\ tokenFresh = [n \in Phones |-> FALSE]
  /\ phoneOf = RegisteredPhone
  /\ task = [p \in Procs |-> NoTask]
  /\ codePhone = [c \in Codes |-> NoPhone]
  /\ texted = {}
  /\ proof = [t \in Tokens |-> NoPhone]
  /\ answered = [c \in Codes |-> 0]
  /\ created = [t \in Tokens |-> 0]
  /\ uses = [t \in Tokens |-> 0]
  /\ claim = [u \in Users |-> NoToken]
  /\ width = 0

(* The tokens that have been handed out are the ones a caller can present.   *)
HandedOut == {t \in Tokens : proof[t] # NoPhone}

Code(p) ==
  \/ \E n \in Phones : SendBegin(p, n) \/ VerifyRight(p, n) \/ VerifyWrong(p, n)
  \/ \E u \in Users : SendOwnBegin(p, u)
  \/ SendCheck(p) \/ SendSave(p) \/ SmsSent(p) \/ SmsFailed(p) \/ SendRemove(p)
  \/ VerifyBump(p) \/ VerifyMark(p)
  \/ \E m, n \in Phones : FirebaseBegin(p, m, n)
  \/ FirebaseSave(p) \/ FirebaseMark(p)

Register(p) ==
  \/ \E u \in Users, n \in Phones, t \in HandedOut : RegisterBegin(p, u, n, t)
  \/ RegisterConsume(p) \/ RegisterCreate(p)

Change(p) ==
  \/ \E u \in Users, n \in Phones, t, old \in HandedOut : ChangeBegin(p, u, n, t, old)
  \/ ChangeFindPhone(p) \/ ChangeCheckOld(p) \/ ChangeCheckNew(p)
  \/ ChangeConsumeOld(p) \/ ChangeConsumeNew(p) \/ ChangeUpdate(p)

Next ==
  \/ \E p \in Procs : Code(p) \/ Register(p) \/ Change(p) \/ Fail(p)
  \/ \E n \in Phones : CodeExpires(n) \/ TokenExpires(n)

Spec == Init /\ [][Next]_phoneVars

---------------------------------------------------------------------------
Steps == {"idle", "cooldown", "saveCode", "sms", "remove", "mark", "bump", "firebaseSave",
          "firebaseMark", "consume", "create", "findPhone", "checkOld", "checkNew",
          "consumeOld", "consumeNew", "update"}

Tasks == [step : Steps, phone : Phones \cup {NoPhone}, user : Users \cup {NoUser},
          code : Codes \cup {NoCode}, token : Tokens \cup {NoToken},
          oldPhone : Phones \cup {NoPhone}, oldToken : Tokens \cup {NoToken}]

TypeOK ==
  /\ code \in [Phones -> Codes \cup {NoCode}]
  /\ attempts \in [Phones -> Nat]
  /\ codeFresh \in [Phones -> BOOLEAN]
  /\ token \in [Phones -> Tokens \cup {NoToken}]
  /\ tokenFresh \in [Phones -> BOOLEAN]
  /\ phoneOf \in [Users -> Phones \cup {NoPhone}]
  /\ task \in [Procs -> Tasks]
  /\ codePhone \in [Codes -> Phones \cup {NoPhone}]
  /\ texted \in SUBSET Codes
  /\ proof \in [Tokens -> Phones \cup {NoPhone}]
  /\ answered \in [Codes -> Nat]
  /\ created \in [Tokens -> Nat]
  /\ uses \in [Tokens -> Nat]
  /\ claim \in [Users -> Tokens \cup {NoToken}]
  /\ width \in Nat

(* The number of an account was confirmed by whoever holds it: the token     *)
(* that put it there was earned with a code texted to that very number, or   *)
(* with Firebase's word for it, whatever other handlers did meanwhile.       *)
PhoneIsProved ==
  \A u \in Users :
    IF claim[u] = NoToken THEN phoneOf[u] = RegisteredPhone[u]
                          ELSE phoneOf[u] # NoPhone /\ proof[claim[u]] = phoneOf[u]

(* phoneOtp.repository.js:47, "one verified code creates at most one         *)
(* account": the delete that uses a verification up lets one sign-up win,    *)
(* and nothing is left of it for another.                                    *)
OneAccountPerVerification ==
  \A t \in Tokens :
    /\ created[t] <= 1
    /\ created[t] = 1 => \A n \in Phones : token[n] # t

(* user.service.js:36 uses both verifications up "so neither can be          *)
(* replayed".  The checks and the deletes are apart and the deletes' answers *)
(* are ignored, so this is as true as handlers overlap: a token serves once  *)
(* if they never do, and never more often than handlers were in flight.      *)
NoReplay == \A t \in Tokens : uses[t] <= width

(* Handler p now takes the step that uses up the verification of n.          *)
UsesUp(p, n) ==
  /\ task'[p] # task[p]
  /\ \/ /\ task[p].step \in {"consume", "consumeNew"}
        /\ n = task[p].phone /\ token[n] = task[p].token
     \/ /\ task[p].step = "consumeOld"
        /\ n = task[p].oldPhone /\ token[n] = task[p].oldToken

(* A verification that is still good is not taken away from the user except  *)
(* by being used or by a newer code for the number, as long as handlers do   *)
(* not overlap: in particular a failing SMS takes away its own code only.    *)
VerificationKept ==
  [][\A n \in Phones :
       tokenFresh[n] /\ ~tokenFresh'[n] =>
         \/ width' > 1
         \/ code'[n] \notin {code[n], NoCode}
         \/ \E p \in Procs : UsesUp(p, n)
         \/ token'[n] = token[n] ]_phoneVars

(* What handler p compares a guess at the code of n with.                    *)
Compared(n) ==
  [p \in Procs |-> IF At(p, "bump") /\ task[p].phone = n THEN task[p].code ELSE NoCode]

CodeOf(n) == INSTANCE OneTimeCode WITH
  current <- code[n], attempts <- attempts[n], comparing <- Compared(n),
  answered <- [c \in Codes |-> IF codePhone[c] = n THEN answered[c] ELSE 0]

(* The row of every number is a one-time code place: guesses at a code stay  *)
(* limited although handlers count them on whatever row they find.           *)
EveryCodeLimited ==
  /\ \A n \in Phones : CodeOf(n)!Init
  /\ [][\A n \in Phones :
         UNCHANGED CodeOf(n)!codeVars \/ CodeOf(n)!Next]_phoneVars
===========================================================================
