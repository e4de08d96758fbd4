--------------------------- MODULE AccountsProofs ---------------------------
(***************************************************************************)
(* Proved for any number of accounts, phone numbers, codes, tokens and     *)
(* handlers: what an account's number rests on, and what a verification    *)
(* is good for.                                                            *)
(***************************************************************************)
EXTENDS Accounts, FiniteSetTheorems, TLAPS

USE CallersAssumption, PhoneAssumption

---------------------------------------------------------------------------
(* Types.                                                                   *)

(* A handler that will text a code, or has matched one, has it in hand.      *)
KnowsCode(t) == t.step \in {"sms", "mark"} => t.code \in Codes

TasksOK ==
  /\ width \in Nat
  /\ task \in [Procs -> Tasks]
  /\ \A p \in Procs : KnowsCode(task[p])

OtpRowsOK ==
  /\ code \in [Phones -> Codes \cup {NoCode}]
  /\ attempts \in [Phones -> Nat]
  /\ codeFresh \in [Phones -> BOOLEAN]
  /\ token \in [Phones -> Tokens \cup {NoToken}]
  /\ tokenFresh \in [Phones -> BOOLEAN]

OtherRowsOK ==
  /\ phoneOf \in [Users -> Phones \cup {NoPhone}]
  /\ codePhone \in [Codes -> Phones \cup {NoPhone}]
  /\ texted \in SUBSET Codes
  /\ proof \in [Tokens -> Phones \cup {NoPhone}]
  /\ answered \in [Codes -> Nat]
  /\ created \in [Tokens -> Nat]
  /\ uses \in [Tokens -> Nat]
  /\ claim \in [Users -> Tokens \cup {NoToken}]

RowsOK == OtpRowsOK /\ OtherRowsOK

TypeInv == TasksOK /\ RowsOK

LEMMA TypeInvTypes == TypeInv => TypeOK
BY DEF TypeInv, TypeOK, TasksOK, RowsOK, OtpRowsOK, OtherRowsOK

LEMMA TypeStarts == Init => TypeInv
BY DEF Init, TypeInv, TasksOK, RowsOK, OtpRowsOK, OtherRowsOK, Tasks, NoTask, Steps, KnowsCode

LEMMA BeginType ==
  ASSUME TasksOK, NEW p \in Procs, NEW t, t \in Tasks /\ KnowsCode(t), Begin(p, t)
  PROVE  TasksOK'
<1>1. Cardinality(Busy) \in Nat
  BY FS_Subset, FS_CardinalityType DEF Busy
<1> QED
  BY <1>1 DEF Begin, TasksOK

LEMMA GotoType ==
  ASSUME TasksOK, NEW p \in Procs, NEW step \in Steps \ {"sms", "mark"}, Goto(p, step)
  PROVE  TasksOK'
<1>1. [task[p] EXCEPT !.step = step] \in Tasks /\ KnowsCode([task[p] EXCEPT !.step = step])
  BY DEF TasksOK, Tasks, KnowsCode
<1>2. task' = [task EXCEPT ![p] = [task[p] EXCEPT !.step = step]]
  BY DEF Goto
<1> QED
  BY <1>1, <1>2 DEF Goto, TasksOK

LEMMA ReturnType ==
  ASSUME TasksOK, NEW p \in Procs, Return(p)
  PROVE  TasksOK'
<1>1. NoTask \in Tasks /\ KnowsCode(NoTask)
  BY DEF NoTask, Tasks, Steps, KnowsCode
<1> QED
  BY <1>1 DEF Return, TasksOK

LEMMA CodeTasks ==
  ASSUME TasksOK, RowsOK, NEW p \in Procs, Code(p)
  PROVE  TasksOK'
<1> USE DEF RowsOK, OtpRowsOK, OtherRowsOK
<1>1. ASSUME NEW n \in Phones, SendBegin(p, n)
      PROVE  TasksOK'
  <2>1. /\ [NoTask EXCEPT !.step = "cooldown", !.phone = n] \in Tasks
        /\ KnowsCode([NoTask EXCEPT !.step = "cooldown", !.phone = n])
    BY DEF NoTask, Tasks, Steps, KnowsCode
  <2> QED
    BY <1>1, <2>1, BeginType DEF SendBegin
<1>2. ASSUME NEW n \in Phones, VerifyRight(p, n)
      PROVE  TasksOK'
  <2>1. PICK guess \in Codes : Begin(p, [NoTask EXCEPT !.step = "mark", !.phone = n, !.code = guess])
    BY <1>2 DEF VerifyRight
  <2>2. /\ [NoTask EXCEPT !.step = "mark", !.phone = n, !.code = guess] \in Tasks
        /\ KnowsCode([NoTask EXCEPT !.step = "mark", !.phone = n, !.code = guess])
    BY DEF NoTask, Tasks, Steps, KnowsCode
  <2> QED
    BY <2>1, <2>2, BeginType
<1>3. ASSUME NEW n \in Phones, VerifyWrong(p, n)
      PROVE  TasksOK'
  <2>1. /\ [NoTask EXCEPT !.step = "bump", !.phone = n, !.code = code[n]] \in Tasks
        /\ KnowsCode([NoTask EXCEPT !.step = "bump", !.phone = n, !.code = code[n]])
    BY DEF NoTask, Tasks, Steps, KnowsCode
  <2> QED
    BY <1>3, <2>1, BeginType DEF VerifyWrong
<1>4. ASSUME NEW u \in Users, SendOwnBegin(p, u)
      PROVE  TasksOK'
  <2>1. /\ [NoTask EXCEPT !.step = "cooldown", !.phone = phoneOf[u]] \in Tasks
        /\ KnowsCode([NoTask EXCEPT !.step = "cooldown", !.phone = phoneOf[u]])
    BY DEF NoTask, Tasks, Steps, KnowsCode
  <2> QED
    BY <1>4, <2>1, BeginType DEF SendOwnBegin
<1>5. CASE SendCheck(p)
  <2>1. "saveCode" \in Steps \ {"sms", "mark"}
    BY DEF Steps
  <2> QED
    BY <1>5, <2>1, GotoType, ReturnType DEF SendCheck
<1>6. CASE SendSave(p)
  <2>1. PICK c \in Codes : task' = [task EXCEPT ![p].step = "sms", ![p].code = c] /\ width' = width
    BY <1>6 DEF SendSave, FreshCodes
  <2>2. [task[p] EXCEPT !.step = "sms", !.code = c] \in Tasks
    <3>1. task[p] \in Tasks
      BY DEF TasksOK
    <3> QED
      BY <3>1 DEF Tasks, Steps
  <2>3. task' = [task EXCEPT ![p] = [task[p] EXCEPT !.step = "sms", !.code = c]]
    BY <2>1 DEF TasksOK, Tasks
  <2> QED
    BY <2>1, <2>2, <2>3 DEF TasksOK, KnowsCode
<1>7. CASE SmsFailed(p)
  <2>1. "remove" \in Steps \ {"sms", "mark"}
    BY DEF Steps
  <2> QED
    BY <1>7, <2>1, GotoType DEF SmsFailed
<1>8. CASE SmsSent(p) \/ SendRemove(p) \/ VerifyBump(p) \/ VerifyMark(p) \/ FirebaseMark(p)
  BY <1>8, ReturnType DEF SmsSent, SendRemove, VerifyBump, VerifyMark, FirebaseMark
<1>9. ASSUME NEW m \in Phones, NEW n \in Phones, FirebaseBegin(p, m, n)
      PROVE  TasksOK'
  <2>1. /\ [NoTask EXCEPT !.step = "firebaseSave", !.phone = n, !.oldPhone = m] \in Tasks
        /\ KnowsCode([NoTask EXCEPT !.step = "firebaseSave", !.phone = n, !.oldPhone = m])
    BY DEF NoTask, Tasks, Steps, KnowsCode
  <2> QED
    BY <1>9, <2>1, BeginType DEF FirebaseBegin
<1>10. CASE FirebaseSave(p)
  <2>1. "firebaseMark" \in Steps \ {"sms", "mark"}
    BY DEF Steps
  <2> QED
    BY <1>10, <2>1, GotoType DEF FirebaseSave
<1> QED
  BY <1>1, <1>2, <1>3, <1>4, <1>5, <1>6, <1>7, <1>8, <1>9, <1>10 DEF Code

LEMMA AccountTasks ==
  ASSUME TasksOK, RowsOK, NEW p \in Procs, Register(p) \/ Change(p) \/ Fail(p)
  PROVE  TasksOK'
<1> USE DEF RowsOK, OtpRowsOK, OtherRowsOK
<1>1. ASSUME NEW u \in Users, NEW n \in Phones, NEW t \in HandedOut, RegisterBegin(p, u, n, t)
      PROVE  TasksOK'
  <2>1. /\ [NoTask EXCEPT !.step = "consume", !.phone = n, !.user = u, !.token = t] \in Tasks
        /\ KnowsCode([NoTask EXCEPT !.step = "consume", !.phone = n, !.user = u, !.token = t])
    BY DEF NoTask, Tasks, Steps, KnowsCode, HandedOut
  <2> QED
    BY <1>1, <2>1, BeginType DEF RegisterBegin
<1>2. ASSUME NEW u \in Users, NEW n \in Phones, NEW t \in HandedOut, NEW old \in HandedOut,
             ChangeBegin(p, u, n, t, old)
      PROVE  TasksOK'
  <2>1. /\ [NoTask EXCEPT !.step = "findPhone", !.phone = n, !.user = u, !.token = t, !.oldPhone = phoneOf[u], !.oldToken = old] \in Tasks
        /\ KnowsCode([NoTask EXCEPT !.step = "findPhone", !.phone = n, !.user = u, !.token = t, !.oldPhone = phoneOf[u], !.oldToken = old])
    BY DEF NoTask, Tasks, Steps, KnowsCode, HandedOut
  <2> QED
    BY <1>2, <2>1, BeginType DEF ChangeBegin
<1>3. {"create", "checkOld", "checkNew", "consumeOld", "consumeNew", "update"}
        \subseteq Steps \ {"sms", "mark"}
  BY DEF Steps
<1>4. CASE RegisterConsume(p) \/ RegisterCreate(p) \/ Fail(p)
  BY <1>3, <1>4, GotoType, ReturnType DEF RegisterConsume, RegisterCreate, Fail
<1>5. CASE ChangeFindPhone(p) \/ ChangeCheckOld(p) \/ ChangeCheckNew(p)
  BY <1>3, <1>5, GotoType, ReturnType DEF ChangeFindPhone, ChangeCheckOld, ChangeCheckNew
<1>6. CASE ChangeConsumeOld(p) \/ ChangeConsumeNew(p) \/ ChangeUpdate(p)
  BY <1>3, <1>6, GotoType, ReturnType DEF ChangeConsumeOld, ChangeConsumeNew, ChangeUpdate
<1> QED
  BY <1>1, <1>2, <1>4, <1>5, <1>6 DEF Register, Change

(* The statements on phone_otps.                                             *)
LEMMA StatementTypes ==
  ASSUME OtpRowsOK, NEW n
  PROVE  /\ UNCHANGED rowVars => OtpRowsOK'
         /\ Delete(n) => OtpRowsOK'
         /\ \A t : Consume(n, t) => OtpRowsOK'
         /\ \A c \in Codes : SaveCode(n, c) => OtpRowsOK'
<1>1. ASSUME UNCHANGED rowVars
      PROVE  OtpRowsOK'
  BY <1>1 DEF OtpRowsOK, rowVars
<1>2. ASSUME Delete(n)
      PROVE  OtpRowsOK'
  BY <1>2 DEF OtpRowsOK, Delete
<1>3. ASSUME NEW t, Consume(n, t)
      PROVE  OtpRowsOK'
  BY <1>1, <1>2, <1>3 DEF Consume
<1>4. ASSUME NEW c \in Codes, SaveCode(n, c)
      PROVE  OtpRowsOK'
  BY <1>4 DEF OtpRowsOK, SaveCode
<1> QED
  BY <1>1, <1>2, <1>3, <1>4

(* markVerified on the row of n, for a token that is new.                    *)
LEMMA MarkTypes ==
  ASSUME RowsOK, NEW n, NEW m \in Phones \cup {NoPhone}, NEW t \in FreshTokens,
         proof' = [proof EXCEPT ![t] = m],
         token' = [token EXCEPT ![n] = IF code[n] = NoCode THEN NoToken ELSE t],
         tokenFresh' = [tokenFresh EXCEPT ![n] = code[n] # NoCode],
         UNCHANGED <<code, attempts, codeFresh, phoneOf, codePhone, texted, answered, created, uses, claim>>
  PROVE  RowsOK'
<1>1. OtpRowsOK'
  BY DEF RowsOK, OtpRowsOK, FreshTokens
<1>2. OtherRowsOK'
  BY DEF RowsOK, OtherRowsOK, FreshTokens
<1> QED
  BY <1>1, <1>2 DEF RowsOK

LEMMA CodeRows ==
  ASSUME TasksOK, RowsOK, NEW p \in Procs, Code(p)
  PROVE  RowsOK'
<1> USE DEF RowsOK
<1>1. task[p] \in Tasks /\ KnowsCode(task[p])
  BY DEF TasksOK
<1>2. ASSUME UNCHANGED <<rowVars, phoneOf, codePhone, texted, history>>
      PROVE  RowsOK'
  BY <1>2, StatementTypes DEF OtherRowsOK, history
<1>3. ASSUME NEW n \in Phones, SendBegin(p, n) \/ VerifyRight(p, n) \/ VerifyWrong(p, n)
      PROVE  RowsOK'
  BY <1>2, <1>3 DEF SendBegin, VerifyRight, VerifyWrong
<1>4. CASE SendCheck(p) \/ \E u \in Users : SendOwnBegin(p, u)
  BY <1>2, <1>4 DEF SendOwnBegin, SendCheck
<1>5. CASE SendSave(p) \/ FirebaseSave(p)
  <2>1. PICK c \in Codes : SaveCode(task[p].phone, c) /\ UNCHANGED <<phoneOf, texted, history>>
    BY <1>5 DEF SendSave, FirebaseSave, FreshCodes
  <2>2. OtpRowsOK'
    BY <2>1, StatementTypes
  <2>3. task[p].phone \in Phones \cup {NoPhone}
    BY <1>1 DEF Tasks
  <2>4. OtherRowsOK'
    BY <2>1, <2>3 DEF OtherRowsOK, SaveCode, history
  <2> QED
    BY <2>2, <2>4
<1>6. CASE SmsSent(p) \/ SmsFailed(p)
  <2>1. UNCHANGED <<rowVars, phoneOf, codePhone, history>> /\ texted' \in {texted, texted \cup {task[p].code}}
    BY <1>6 DEF SmsSent, SmsFailed
  <2>2. At(p, "sms")
    BY <1>6 DEF SmsSent, SmsFailed
  <2> QED
    BY <1>1, <2>1, <2>2, StatementTypes DEF OtherRowsOK, history, KnowsCode, At
<1>7. CASE SendRemove(p)
  <2>1. OtpRowsOK'
    BY <1>7, StatementTypes DEF SendRemove
  <2>2. OtherRowsOK'
    BY <1>7 DEF SendRemove, OtherRowsOK, history
  <2> QED
    BY <2>1, <2>2
<1>8. CASE VerifyBump(p)
  <2>1. UNCHANGED <<code, codeFresh, token, tokenFresh, phoneOf, codePhone, texted, proof, created,
                    uses, claim>>
    BY <1>8 DEF VerifyBump
  <2>2. attempts' \in [Phones -> Nat]
    <3>1. CASE task[p].phone \in Phones
      BY <1>8, <3>1 DEF VerifyBump, OtpRowsOK
    <3>2. CASE task[p].phone \notin Phones
      <4>1. attempts' = attempts
        BY <1>8, <3>2 DEF VerifyBump, OtpRowsOK
      <4> QED
        BY <4>1 DEF OtpRowsOK
    <3> QED
      BY <3>1, <3>2
  <2>3. answered' \in [Codes -> Nat]
    <3>1. CASE task[p].code \in Codes
      BY <1>8, <3>1 DEF VerifyBump, OtherRowsOK
    <3>2. CASE task[p].code \notin Codes
      <4>1. answered' = answered
        BY <1>8, <3>2 DEF VerifyBump, OtherRowsOK
      <4> QED
        BY <4>1 DEF OtherRowsOK
    <3> QED
      BY <3>1, <3>2
  <2> QED
    BY <2>1, <2>2, <2>3 DEF OtpRowsOK, OtherRowsOK
<1>9. CASE VerifyMark(p) \/ FirebaseMark(p)
  <2> PICK t \in FreshTokens, m \in Phones \cup {NoPhone} :
        /\ proof' = [proof EXCEPT ![t] = m]
        /\ token' = [token EXCEPT ![task[p].phone] = IF code[task[p].phone] = NoCode THEN NoToken ELSE t]
        /\ tokenFresh' = [tokenFresh EXCEPT ![task[p].phone] = code[task[p].phone] # NoCode]
        /\ UNCHANGED <<code, attempts, codeFresh, phoneOf, codePhone, texted, answered, created, uses, claim>>
    BY <1>1, <1>9 DEF VerifyMark, FirebaseMark, KnowsCode, At, OtherRowsOK, Tasks
  <2> QED
    BY MarkTypes
<1>10. CASE \E m, n \in Phones : FirebaseBegin(p, m, n)
  BY <1>2, <1>10 DEF FirebaseBegin
<1> QED
  BY <1>3, <1>4, <1>5, <1>6, <1>7, <1>8, <1>9, <1>10 DEF Code

LEMMA AccountRows ==
  ASSUME TasksOK, RowsOK, NEW p \in Procs, Register(p) \/ Change(p) \/ Fail(p)
  PROVE  RowsOK'
<1> USE DEF RowsOK
<1>1. task[p] \in Tasks /\ KnowsCode(task[p])
  BY DEF TasksOK
<1>2. CASE RegisterConsume(p) \/ ChangeConsumeOld(p) \/ ChangeConsumeNew(p)
  <2>1. PICK n, t : Consume(n, t)
    BY <1>2 DEF RegisterConsume, ChangeConsumeOld, ChangeConsumeNew
  <2>2. UNCHANGED <<phoneOf, codePhone, texted, history>>
    BY <1>2 DEF RegisterConsume, ChangeConsumeOld, ChangeConsumeNew
  <2> QED
    BY <2>1, <2>2, StatementTypes DEF OtherRowsOK, history
<1>3. CASE RegisterCreate(p) \/ ChangeUpdate(p)
  <2>1. UNCHANGED <<rowVars, codePhone, texted, proof, answered>>
    BY <1>3 DEF RegisterCreate, ChangeUpdate
  <2>2. task[p].phone \in Phones \cup {NoPhone} /\ task[p].token \in Tokens \cup {NoToken}
    BY <1>1 DEF Tasks
  <2>3. phoneOf' \in [Users -> Phones \cup {NoPhone}] /\ claim' \in [Users -> Tokens \cup {NoToken}]
    BY <1>3, <2>2 DEF RegisterCreate, ChangeUpdate, OtherRowsOK
  <2>4. created' \in [Tokens -> Nat] /\ uses' \in [Tokens -> Nat]
    BY <1>3 DEF RegisterCreate, ChangeUpdate, OtherRowsOK
  <2> QED
    BY <2>1, <2>3, <2>4, StatementTypes DEF OtherRowsOK
<1>4. CASE UNCHANGED <<rowVars, phoneOf, codePhone, texted, history>>
  BY <1>4, StatementTypes DEF OtherRowsOK, history
<1> QED
  BY <1>2, <1>3, <1>4 DEF Register, Change, Fail, RegisterBegin, ChangeBegin, ChangeFindPhone,
                          ChangeCheckOld, ChangeCheckNew

LEMMA TypeStep ==
  ASSUME TypeInv, Next
  PROVE  TypeInv'
<1> USE DEF TypeInv
<1>1. ASSUME NEW n \in Phones, CodeExpires(n) \/ TokenExpires(n)
      PROVE  TypeInv'
  <2>1. TasksOK'
    BY <1>1 DEF CodeExpires, TokenExpires, TasksOK
  <2>2. OtpRowsOK'
    BY <1>1 DEF CodeExpires, TokenExpires, RowsOK, OtpRowsOK
  <2>3. OtherRowsOK'
    BY <1>1 DEF CodeExpires, TokenExpires, RowsOK, OtherRowsOK, history
  <2> QED
    BY <2>1, <2>2, <2>3 DEF RowsOK
<1>2. ASSUME NEW p \in Procs, Code(p) \/ Register(p) \/ Change(p) \/ Fail(p)
      PROVE  TypeInv'
  BY <1>2, CodeTasks, AccountTasks, CodeRows, AccountRows
<1> QED
  BY <1>1, <1>2 DEF Next

LEMMA TypeInvHolds == Spec => []TypeInv
<1>1. TypeInv /\ UNCHANGED phoneVars => TypeInv'
  BY DEF TypeInv, TasksOK, RowsOK, OtpRowsOK, OtherRowsOK, phoneVars
<1> QED
  BY <1>1, TypeStarts, TypeStep, PTL DEF Spec

(* The variables of the account components have their types, with any number *)
(* of handlers in flight.                                                    *)
THEOREM AccountsTypes == Spec => []TypeOK
BY TypeInvHolds, TypeInvTypes, PTL

---------------------------------------------------------------------------
(* What a token proves.                                                     *)

(* A row's token was earned by the holder of the row's number.               *)
TokensAtHome == \A n \in Phones : token[n] # NoToken => proof[token[n]] = n

(* A code that is compared, or that Firebase stands in for, belongs to the   *)
(* number the handler works on.                                              *)
CodeAtHome(t) ==
  /\ t.step = "mark" => t.phone \in Phones /\ t.code \in Codes /\ codePhone[t.code] = t.phone
  /\ t.step \in {"firebaseSave", "firebaseMark"} => t.phone \in Phones /\ t.oldPhone = t.phone

(* Once its token has been found good, a handler has a proof for its number. *)
ProofInHand(t) ==
  t.step \in {"create", "consumeOld", "consumeNew", "update"} =>
    t.token \in Tokens /\ t.phone \in Phones /\ t.user \in Users /\ proof[t.token] = t.phone

(* The handlers that check or use up a verification know number and account. *)
KnowsAccount(t) ==
  t.step \in {"consume", "create", "findPhone", "checkOld", "checkNew", "consumeOld", "consumeNew", "update"} =>
    t.phone \in Phones /\ t.user \in Users

ProofInv ==
  /\ TokensAtHome
  /\ \A p \in Procs : CodeAtHome(task[p]) /\ ProofInHand(task[p]) /\ KnowsAccount(task[p])
  /\ PhoneIsProved

LEMMA ProofStarts == Init => ProofInv
BY DEF Init, ProofInv, TokensAtHome, CodeAtHome, ProofInHand, KnowsAccount, PhoneIsProved, NoTask

(* Handler p, and no other, goes on to its next task.                        *)
Moves(p) == task' \in [Procs -> Tasks] /\ \A q \in Procs \ {p} : task'[q] = task[q]

(* A step that writes none of the rows a proof rests on.                     *)
LEMMA ProofKept ==
  ASSUME TypeInv, ProofInv, NEW p \in Procs, Moves(p),
         UNCHANGED <<proof, phoneOf, claim>>, TokensAtHome',
         \A c \in Codes : codePhone[c] # NoPhone => codePhone'[c] = codePhone[c],
         CodeAtHome(task[p])', ProofInHand(task[p])', KnowsAccount(task[p])'
  PROVE  ProofInv'
<1>1. ASSUME NEW q \in Procs \ {p}
      PROVE  CodeAtHome(task[q])' /\ ProofInHand(task[q])' /\ KnowsAccount(task[q])'
  BY <1>1 DEF ProofInv, CodeAtHome, ProofInHand, KnowsAccount, Moves
<1>2. PhoneIsProved'
  BY DEF ProofInv, PhoneIsProved
<1> QED
  BY <1>1, <1>2 DEF ProofInv

(* What the statements on phone_otps leave of the tokens.                    *)
LEMMA TokensStay ==
  ASSUME TypeInv, ProofInv, UNCHANGED proof,
         \/ UNCHANGED rowVars
         \/ \E n : Delete(n)
         \/ \E n, t : Consume(n, t)
         \/ \E n, c : SaveCode(n, c)
  PROVE  TokensAtHome'
<1>1. \A n \in Phones : token'[n] \in {token[n], NoToken}
  BY DEF TypeInv, RowsOK, OtpRowsOK, Delete, Consume, SaveCode, rowVars
<1> QED
  BY <1>1 DEF ProofInv, TokensAtHome

(* The steps at which a handler relies on no proof.                          *)
FreeSteps == {"idle", "cooldown", "saveCode", "sms", "remove", "bump"}

LEMMA ProofKeptByFreeStep ==
  ASSUME TypeInv, ProofInv, NEW p \in Procs, Moves(p), task'[p].step \in FreeSteps,
         UNCHANGED <<proof, phoneOf, claim>>, TokensAtHome',
         \A c \in Codes : codePhone[c] # NoPhone => codePhone'[c] = codePhone[c]
  PROVE  ProofInv'
<1>1. CodeAtHome(task[p])' /\ ProofInHand(task[p])' /\ KnowsAccount(task[p])'
  BY DEF FreeSteps, CodeAtHome, ProofInHand, KnowsAccount
<1> QED
  BY <1>1, ProofKept

(* How the three ways of going on move a handler.                            *)
LEMMA BeginMoves ==
  ASSUME TypeInv, TypeInv', NEW p \in Procs, NEW t, Begin(p, t)
  PROVE  Moves(p) /\ task'[p] = t
BY DEF TypeInv, TasksOK, Begin, Moves

LEMMA GotoMoves ==
  ASSUME TypeInv, TypeInv', NEW p \in Procs, NEW step, Goto(p, step)
  PROVE  /\ Moves(p)
         /\ task'[p] = [task[p] EXCEPT !.step = step]
         /\ task'[p].step = step /\ task'[p].phone = task[p].phone /\ task'[p].user = task[p].user
         /\ task'[p].token = task[p].token /\ task'[p].oldPhone = task[p].oldPhone
         /\ task'[p].code = task[p].code /\ task'[p].oldToken = task[p].oldToken
<1>1. task[p] \in Tasks
  BY DEF TypeInv, TasksOK
<1>2. task' = [task EXCEPT ![p] = [task[p] EXCEPT !.step = step]]
  BY DEF Goto
<1>3. Moves(p) /\ task'[p] = [task[p] EXCEPT !.step = step]
  BY <1>2 DEF TypeInv, TasksOK, Moves
<1> QED
  BY <1>1, <1>3 DEF Tasks

LEMMA ReturnMoves ==
  ASSUME TypeInv, TypeInv', NEW p \in Procs, Return(p)
  PROVE  Moves(p) /\ task'[p] = NoTask
BY DEF TypeInv, TasksOK, Return, Moves

LEMMA SendProof ==
  ASSUME TypeInv, TypeInv', ProofInv, NEW p \in Procs,
         \/ \E n \in Phones : SendBegin(p, n) \/ VerifyWrong(p, n)
         \/ \E u \in Users : SendOwnBegin(p, u)
         \/ SendCheck(p) \/ SendSave(p) \/ SmsSent(p) \/ SmsFailed(p) \/ SendRemove(p) \/ VerifyBump(p)
         \/ Fail(p)
  PROVE  ProofInv'
<1>1. UNCHANGED <<proof, phoneOf, claim>>
  BY DEF SendBegin, VerifyWrong, SendOwnBegin, SendCheck, SendSave, SmsSent, SmsFailed, SendRemove,
         VerifyBump, Fail, history
<1>2. TokensAtHome'
  <2>1. CASE VerifyBump(p)
    BY <2>1 DEF VerifyBump, ProofInv, TokensAtHome
  <2>2. CASE ~VerifyBump(p)
    BY <1>1, <2>2, TokensStay
       DEF SendBegin, VerifyWrong, SendOwnBegin, SendCheck, SendSave, SmsSent, SmsFailed, SendRemove,
           Fail
  <2> QED
    BY <2>1, <2>2
<1>3. \A c \in Codes : codePhone[c] # NoPhone => codePhone'[c] = codePhone[c]
  BY DEF SendBegin, VerifyWrong, SendOwnBegin, SendCheck, SendSave, SmsSent, SmsFailed, SendRemove,
         VerifyBump, Fail, SaveCode, FreshCodes, TypeInv, RowsOK, OtherRowsOK
<1>4. Moves(p) /\ task'[p].step \in FreeSteps
  <2> USE DEF FreeSteps
  <2>1. CASE SmsSent(p) \/ SendRemove(p) \/ VerifyBump(p) \/ Fail(p)
    BY <2>1, ReturnMoves DEF SmsSent, SendRemove, VerifyBump, Fail, NoTask
  <2>2. ASSUME NEW n \in Phones, SendBegin(p, n)
        PROVE  Moves(p) /\ task'[p].step \in FreeSteps
    <3>1. Begin(p, [NoTask EXCEPT !.step = "cooldown", !.phone = n])
      BY <2>2 DEF SendBegin
    <3>2. Moves(p) /\ task'[p] = [NoTask EXCEPT !.step = "cooldown", !.phone = n]
      BY <3>1, BeginMoves
    <3> QED
      BY <3>2 DEF NoTask
  <2>3. ASSUME NEW n \in Phones, VerifyWrong(p, n)
        PROVE  Moves(p) /\ task'[p].step \in FreeSteps
    <3>1. Begin(p, [NoTask EXCEPT !.step = "bump", !.phone = n, !.code = code[n]])
      BY <2>3 DEF VerifyWrong
    <3>2. Moves(p) /\ task'[p] = [NoTask EXCEPT !.step = "bump", !.phone = n, !.code = code[n]]
      BY <3>1, BeginMoves
    <3> QED
      BY <3>2 DEF NoTask
  <2>4. ASSUME NEW u \in Users, SendOwnBegin(p, u)
        PROVE  Moves(p) /\ task'[p].step \in FreeSteps
    <3>1. Begin(p, [NoTask EXCEPT !.step = "cooldown", !.phone = phoneOf[u]])
      BY <2>4 DEF SendOwnBegin
    <3>2. Moves(p) /\ task'[p] = [NoTask EXCEPT !.step = "cooldown", !.phone = phoneOf[u]]
      BY <3>1, BeginMoves
    <3> QED
      BY <3>2 DEF NoTask
  <2>5. CASE SendCheck(p) \/ SmsFailed(p)
    <3>1. Return(p) \/ Goto(p, "saveCode") \/ Goto(p, "remove")
      BY <2>5 DEF SendCheck, SmsFailed
    <3>2. Return(p) => Moves(p) /\ task'[p].step \in FreeSteps
      BY ReturnMoves DEF NoTask
    <3>3. ASSUME NEW step \in {"saveCode", "remove"}, Goto(p, step)
          PROVE  Moves(p) /\ task'[p].step \in FreeSteps
      <4>1. Moves(p) /\ task'[p].step = step
        BY <3>3, GotoMoves
      <4> QED
        BY <4>1
    <3> QED
      BY <3>1, <3>2, <3>3
  <2>6. CASE SendSave(p)
    <3>1. PICK c \in Codes : task' = [task EXCEPT ![p].step = "sms", ![p].code = c]
      BY <2>6 DEF SendSave, FreshCodes
    <3>2. task[p] \in Tasks
      BY DEF TypeInv, TasksOK
    <3>3. task' = [task EXCEPT ![p] = [task[p] EXCEPT !.step = "sms", !.code = c]]
      BY <3>1, <3>2 DEF Tasks, TypeInv, TasksOK
    <3>4. Moves(p) /\ task'[p] = [task[p] EXCEPT !.step = "sms", !.code = c]
      BY <3>3 DEF TypeInv, TasksOK, Moves
    <3>5. task'[p].step = "sms"
      BY <3>2, <3>4 DEF Tasks
    <3> QED
      BY <3>4, <3>5
  <2> QED
    BY <2>1, <2>2, <2>3, <2>4, <2>5, <2>6
<1> QED
  BY <1>1, <1>2, <1>3, <1>4, ProofKeptByFreeStep

LEMMA VerifyProof ==
  ASSUME TypeInv, TypeInv', ProofInv, NEW p \in Procs,
         \/ \E n \in Phones : VerifyRight(p, n)
         \/ \E m, n \in Phones : FirebaseBegin(p, m, n)
         \/ FirebaseSave(p)
  PROVE  ProofInv'
<1>1. ASSUME NEW n \in Phones, VerifyRight(p, n)
      PROVE  ProofInv'
  <2>1. PICK guess \in Codes : /\ codePhone[guess] = n
                               /\ Begin(p, [NoTask EXCEPT !.step = "mark", !.phone = n, !.code = guess])
    BY <1>1 DEF VerifyRight, TypeInv, RowsOK, OtherRowsOK
  <2>2. Moves(p) /\ task'[p] = [NoTask EXCEPT !.step = "mark", !.phone = n, !.code = guess]
    BY <2>1, BeginMoves
  <2>3. UNCHANGED <<rowVars, proof, phoneOf, claim, codePhone>>
    BY <1>1 DEF VerifyRight, history
  <2>4. CodeAtHome(task[p])' /\ ProofInHand(task[p])' /\ KnowsAccount(task[p])'
    BY <2>1, <2>2, <2>3 DEF CodeAtHome, ProofInHand, KnowsAccount, NoTask
  <2> QED
    BY <2>2, <2>3, <2>4, TokensStay, ProofKept
<1>2. ASSUME NEW m \in Phones, NEW n \in Phones, FirebaseBegin(p, m, n)
      PROVE  ProofInv'
  <2>1. Begin(p, [NoTask EXCEPT !.step = "firebaseSave", !.phone = n, !.oldPhone = m]) /\ m = n
    BY <1>2 DEF FirebaseBegin, SameNumber
  <2>2. Moves(p) /\ task'[p] = [NoTask EXCEPT !.step = "firebaseSave", !.phone = n, !.oldPhone = m]
    BY <2>1, BeginMoves
  <2>3. UNCHANGED <<rowVars, proof, phoneOf, claim, codePhone>>
    BY <1>2 DEF FirebaseBegin, history
  <2>4. CodeAtHome(task[p])' /\ ProofInHand(task[p])' /\ KnowsAccount(task[p])'
    BY <2>1, <2>2 DEF CodeAtHome, ProofInHand, KnowsAccount, NoTask
  <2> QED
    BY <2>2, <2>3, <2>4, TokensStay, ProofKept
<1>3. CASE FirebaseSave(p)
  <2>1. Goto(p, "firebaseMark") /\ UNCHANGED <<proof, phoneOf, claim>>
    BY <1>3 DEF FirebaseSave, history
  <2>2. /\ Moves(p) /\ task'[p].step = "firebaseMark"
        /\ task'[p].phone = task[p].phone /\ task'[p].oldPhone = task[p].oldPhone
    BY <2>1, GotoMoves
  <2>3. \A c \in Codes : codePhone[c] # NoPhone => codePhone'[c] = codePhone[c]
    BY <1>3 DEF FirebaseSave, SaveCode, FreshCodes, TypeInv, RowsOK, OtherRowsOK
  <2>4. TokensAtHome'
    BY <1>3, <2>1, TokensStay DEF FirebaseSave
  <2>5. task[p].phone \in Phones /\ task[p].oldPhone = task[p].phone
    BY <1>3 DEF FirebaseSave, At, ProofInv, CodeAtHome
  <2>6. CodeAtHome(task[p])' /\ ProofInHand(task[p])' /\ KnowsAccount(task[p])'
    BY <2>2, <2>5 DEF CodeAtHome, ProofInHand, KnowsAccount
  <2> QED
    BY <2>1, <2>2, <2>3, <2>4, <2>6, ProofKept
<1> QED
  BY <1>1, <1>2, <1>3

(* markVerified hands out a new token, for the number that earned it.        *)
LEMMA MarkProof ==
  ASSUME TypeInv, TypeInv', ProofInv, NEW p \in Procs, VerifyMark(p) \/ FirebaseMark(p)
  PROVE  ProofInv'
<1>1. /\ task[p].phone \in Phones
      /\ VerifyMark(p) => codePhone[task[p].code] = task[p].phone
      /\ FirebaseMark(p) => task[p].oldPhone = task[p].phone
  BY DEF VerifyMark, FirebaseMark, At, ProofInv, CodeAtHome
<1>2. PICK t \in FreshTokens :
        /\ proof' = [proof EXCEPT ![t] = task[p].phone]
        /\ token' = [token EXCEPT ![task[p].phone] = IF code[task[p].phone] = NoCode THEN NoToken ELSE t]
        /\ Return(p)
        /\ UNCHANGED <<phoneOf, codePhone, claim>>
  BY <1>1 DEF VerifyMark, FirebaseMark
<1>3. t \in Tokens /\ proof[t] = NoPhone
  BY DEF FreshTokens
<1>4. Moves(p) /\ task'[p] = NoTask
  BY <1>2, ReturnMoves
<1>5. \A s \in Tokens : proof[s] # NoPhone => proof'[s] = proof[s]
  BY <1>2, <1>3 DEF TypeInv, RowsOK, OtherRowsOK
<1>6. TokensAtHome'
  <2> SUFFICES ASSUME NEW n \in Phones, token'[n] # NoToken
               PROVE  proof'[token'[n]] = n
    BY DEF TokensAtHome
  <2>1. CASE n = task[p].phone
    BY <1>2, <1>3, <2>1 DEF TypeInv, RowsOK, OtpRowsOK, OtherRowsOK
  <2>2. CASE n # task[p].phone
    <3>1. token'[n] = token[n] /\ token[n] \in Tokens /\ proof[token[n]] = n
      BY <1>2, <2>2 DEF TypeInv, RowsOK, OtpRowsOK, ProofInv, TokensAtHome
    <3> QED
      BY <3>1, <1>5
  <2> QED
    BY <2>1, <2>2
<1>7. ASSUME NEW q \in Procs
      PROVE  CodeAtHome(task[q])' /\ ProofInHand(task[q])' /\ KnowsAccount(task[q])'
  <2>1. CASE q = p
    BY <1>4, <2>1 DEF CodeAtHome, ProofInHand, KnowsAccount, NoTask
  <2>2. CASE q # p
    BY <1>2, <1>4, <1>5, <2>2 DEF ProofInv, CodeAtHome, ProofInHand, KnowsAccount, Moves
  <2> QED
    BY <2>1, <2>2
<1>8. PhoneIsProved'
  BY <1>2, <1>5 DEF ProofInv, PhoneIsProved, TypeInv, RowsOK, OtherRowsOK
<1> QED
  BY <1>6, <1>7, <1>8 DEF ProofInv

(* The steps that check a verification, use it up or fail.                   *)
LEMMA CheckProof ==
  ASSUME TypeInv, TypeInv', ProofInv, NEW p \in Procs,
         \/ ChangeFindPhone(p) \/ ChangeCheckOld(p) \/ ChangeCheckNew(p)
         \/ ChangeConsumeOld(p) \/ ChangeConsumeNew(p) \/ RegisterConsume(p)
  PROVE  ProofInv'
<1>1. UNCHANGED <<proof, phoneOf, claim, codePhone>>
  BY DEF ChangeFindPhone, ChangeCheckOld, ChangeCheckNew, ChangeConsumeOld, ChangeConsumeNew,
         RegisterConsume, history
<1>2. TokensAtHome'
  BY <1>1, TokensStay
     DEF ChangeFindPhone, ChangeCheckOld, ChangeCheckNew, ChangeConsumeOld, ChangeConsumeNew,
         RegisterConsume
<1>3. task[p].phone \in Phones /\ task[p].user \in Users /\ task[p] \in Tasks
  BY DEF ChangeFindPhone, ChangeCheckOld, ChangeCheckNew, ChangeConsumeOld, ChangeConsumeNew,
         RegisterConsume, At, ProofInv, KnowsAccount, TypeInv, TasksOK
<1>4. CASE Return(p)
  BY <1>1, <1>2, <1>4, ReturnMoves, ProofKeptByFreeStep DEF NoTask, FreeSteps
<1>5. ASSUME NEW step \in {"checkOld", "checkNew"}, Goto(p, step)
      PROVE  ProofInv'
  <2>1. /\ Moves(p) /\ task'[p].step = step
        /\ task'[p].phone = task[p].phone /\ task'[p].user = task[p].user
    BY <1>5, GotoMoves
  <2>2. CodeAtHome(task[p])' /\ ProofInHand(task[p])' /\ KnowsAccount(task[p])'
    BY <1>3, <2>1 DEF CodeAtHome, ProofInHand, KnowsAccount
  <2> QED
    BY <1>1, <1>2, <2>1, <2>2, ProofKept
<1>6. ASSUME NEW step \in {"create", "consumeOld", "consumeNew", "update"}, Goto(p, step),
             task[p].token \in Tokens, proof[task[p].token] = task[p].phone
      PROVE  ProofInv'
  <2>1. /\ Moves(p) /\ task'[p].step = step
        /\ task'[p].phone = task[p].phone /\ task'[p].user = task[p].user
        /\ task'[p].token = task[p].token
    BY <1>6, GotoMoves
  <2>2. CodeAtHome(task[p])' /\ ProofInHand(task[p])' /\ KnowsAccount(task[p])'
    BY <1>1, <1>3, <1>6, <2>1 DEF CodeAtHome, ProofInHand, KnowsAccount
  <2> QED
    BY <1>1, <1>2, <2>1, <2>2, ProofKept
<1>7. Verified(task[p].phone, task[p].token) =>
        task[p].token \in Tokens /\ proof[task[p].token] = task[p].phone
  BY <1>3 DEF Verified, ProofInv, TokensAtHome, TypeInv, RowsOK, OtpRowsOK
<1>8. ChangeConsumeOld(p) \/ ChangeConsumeNew(p) =>
        task[p].token \in Tokens /\ proof[task[p].token] = task[p].phone
  BY DEF ChangeConsumeOld, ChangeConsumeNew, At, ProofInv, ProofInHand
<1> QED
  BY <1>4, <1>5, <1>6, <1>7, <1>8
     DEF ChangeFindPhone, ChangeCheckOld, ChangeCheckNew, ChangeConsumeOld, ChangeConsumeNew,
         RegisterConsume

LEMMA AskProof ==
  ASSUME TypeInv, TypeInv', ProofInv, NEW p \in Procs,
         \/ \E u \in Users, n \in Phones, t \in HandedOut : RegisterBegin(p, u, n, t)
         \/ \E u \in Users, n \in Phones, t, old \in HandedOut : ChangeBegin(p, u, n, t, old)
  PROVE  ProofInv'
<1>1. UNCHANGED <<rowVars, proof, phoneOf, claim, codePhone>>
  BY DEF RegisterBegin, ChangeBegin, history
<1>2. TokensAtHome'
  BY <1>1, TokensStay
<1>3. ASSUME NEW u \in Users, NEW n \in Phones, NEW t \in HandedOut, RegisterBegin(p, u, n, t)
      PROVE  ProofInv'
  <2>1. Begin(p, [NoTask EXCEPT !.step = "consume", !.phone = n, !.user = u, !.token = t])
    BY <1>3 DEF RegisterBegin
  <2>2. Moves(p) /\ task'[p] = [NoTask EXCEPT !.step = "consume", !.phone = n, !.user = u, !.token = t]
    BY <2>1, BeginMoves
  <2>3. CodeAtHome(task[p])' /\ ProofInHand(task[p])' /\ KnowsAccount(task[p])'
    BY <2>2 DEF CodeAtHome, ProofInHand, KnowsAccount, NoTask
  <2> QED
    BY <1>1, <1>2, <2>2, <2>3, ProofKept
<1>4. ASSUME NEW u \in Users, NEW n \in Phones, NEW t \in HandedOut, NEW old \in HandedOut,
             ChangeBegin(p, u, n, t, old)
      PROVE  ProofInv'
  <2>1. Begin(p, [NoTask EXCEPT !.step = "findPhone", !.phone = n, !.user = u, !.token = t,
                                !.oldPhone = phoneOf[u], !.oldToken = old])
    BY <1>4 DEF ChangeBegin
  <2>2. /\ Moves(p)
        /\ task'[p] = [NoTask EXCEPT !.step = "findPhone", !.phone = n, !.user = u, !.token = t,
                                     !.oldPhone = phoneOf[u], !.oldToken = old]
    BY <2>1, BeginMoves
  <2>3. CodeAtHome(task[p])' /\ ProofInHand(task[p])' /\ KnowsAccount(task[p])'
    BY <2>2 DEF CodeAtHome, ProofInHand, KnowsAccount, NoTask
  <2> QED
    BY <1>1, <1>2, <2>2, <2>3, ProofKept
<1> QED
  BY <1>3, <1>4

(* The steps that give an account its number.                                *)
LEMMA ClaimProof ==
  ASSUME TypeInv, TypeInv', ProofInv, NEW p \in Procs, RegisterCreate(p) \/ ChangeUpdate(p)
  PROVE  ProofInv'
<1>1. /\ UNCHANGED <<rowVars, proof, codePhone>>
      /\ Return(p)
  BY DEF RegisterCreate, ChangeUpdate
<1>2. /\ task[p].user \in Users /\ task[p].token \in Tokens /\ task[p].phone \in Phones
      /\ proof[task[p].token] = task[p].phone
  BY DEF RegisterCreate, ChangeUpdate, At, ProofInv, ProofInHand
<1>3. Moves(p) /\ task'[p] = NoTask
  BY <1>1, ReturnMoves
<1>4. \/ UNCHANGED <<phoneOf, claim>>
      \/ /\ phoneOf' = [phoneOf EXCEPT ![task[p].user] = task[p].phone]
         /\ claim' = [claim EXCEPT ![task[p].user] = task[p].token]
  BY DEF RegisterCreate, ChangeUpdate
<1>5. PhoneIsProved'
  BY <1>1, <1>2, <1>4 DEF ProofInv, PhoneIsProved, TypeInv, RowsOK, OtherRowsOK
<1>6. ASSUME NEW q \in Procs
      PROVE  CodeAtHome(task[q])' /\ ProofInHand(task[q])' /\ KnowsAccount(task[q])'
  <2>1. CASE q = p
    BY <1>3, <2>1 DEF CodeAtHome, ProofInHand, KnowsAccount, NoTask
  <2>2. CASE q # p
    BY <1>1, <1>3, <2>2 DEF ProofInv, CodeAtHome, ProofInHand, KnowsAccount, Moves
  <2> QED
    BY <2>1, <2>2
<1>7. TokensAtHome'
  BY <1>1 DEF ProofInv, TokensAtHome, rowVars
<1> QED
  BY <1>5, <1>6, <1>7 DEF ProofInv

LEMMA ProofStep ==
  ASSUME TypeInv, TypeInv', ProofInv, Next
  PROVE  ProofInv'
<1>1. ASSUME NEW n \in Phones, CodeExpires(n) \/ TokenExpires(n)
      PROVE  ProofInv'
  BY <1>1 DEF CodeExpires, TokenExpires, history, ProofInv, TokensAtHome, CodeAtHome, ProofInHand,
              KnowsAccount, PhoneIsProved
<1>2. ASSUME NEW p \in Procs, Code(p)
      PROVE  ProofInv'
  BY <1>2, SendProof, VerifyProof, MarkProof DEF Code
<1>3. ASSUME NEW p \in Procs, Register(p) \/ Change(p)
      PROVE  ProofInv'
  BY <1>3, CheckProof, AskProof, ClaimProof DEF Register, Change
<1>4. ASSUME NEW p \in Procs, Fail(p)
      PROVE  ProofInv'
  BY <1>4, SendProof
<1> QED
  BY <1>1, <1>2, <1>3, <1>4 DEF Next

LEMMA ProofInvHolds == Spec => []ProofInv
<1>1. ProofInv /\ UNCHANGED phoneVars => ProofInv'
  BY DEF ProofInv, TokensAtHome, CodeAtHome, ProofInHand, KnowsAccount, PhoneIsProved, phoneVars
<1> QED
  BY <1>1, ProofStarts, ProofStep, TypeInvHolds, PTL DEF Spec

(* The number of every account was confirmed by its holder, whatever sends,  *)
(* guesses, sign-ups, changes of number and failures overlap.                *)
THEOREM PhonesAreProved == Spec => []PhoneIsProved
<1>1. ProofInv => PhoneIsProved
  BY DEF ProofInv
<1> QED
  BY <1>1, ProofInvHolds, PTL

---------------------------------------------------------------------------
(* What a verification is good for.                                         *)

Creating(p, t) == task[p].step = "create" /\ task[p].token = t

(* A token that has created an account, or that one sign-up has used up to   *)
(* create one, is on no row, and no other sign-up has it.                    *)
OnceInv ==
  /\ \A t \in Tokens : created[t] \in {0, 1}
  /\ \A t \in Tokens : proof[t] = NoPhone => created[t] = 0
  /\ \A t \in Tokens : created[t] = 1 => \A n \in Phones : token[n] # t
  /\ \A t \in Tokens, p \in Procs :
       Creating(p, t) => created[t] = 0 /\ \A n \in Phones : token[n] # t
  /\ \A t \in Tokens : \A p, q \in Procs : Creating(p, t) /\ Creating(q, t) => p = q

LEMMA OnceStarts == Init => OnceInv
BY DEF Init, OnceInv, Creating, NoTask

(* The handlers other than a sign-up's never come to create an account.      *)
CreatesNone(p) == Moves(p) /\ task'[p].step # "create"

LEMMA RequestsCreateNone ==
  ASSUME TypeInv, TypeInv', NEW p \in Procs,
         \/ \E n \in Phones : SendBegin(p, n) \/ VerifyRight(p, n) \/ VerifyWrong(p, n)
         \/ \E u \in Users : SendOwnBegin(p, u)
         \/ \E m, n \in Phones : FirebaseBegin(p, m, n)
         \/ \E u \in Users, n \in Phones, t \in HandedOut : RegisterBegin(p, u, n, t)
         \/ \E u \in Users, n \in Phones, t, old \in HandedOut : ChangeBegin(p, u, n, t, old)
  PROVE  CreatesNone(p)
<1>2. ASSUME NEW n \in Phones, SendBegin(p, n) \/ VerifyWrong(p, n)
      PROVE  CreatesNone(p)
  BY <1>2 DEF SendBegin, VerifyWrong, Begin, NoTask, CreatesNone, Moves, TypeInv, TasksOK
<1>3. ASSUME NEW n \in Phones, VerifyRight(p, n)
      PROVE  CreatesNone(p)
  BY <1>3 DEF VerifyRight, Begin, NoTask, CreatesNone, Moves, TypeInv, TasksOK
<1>4. ASSUME NEW u \in Users, SendOwnBegin(p, u)
      PROVE  CreatesNone(p)
  BY <1>4 DEF SendOwnBegin, Begin, NoTask, CreatesNone, Moves, TypeInv, TasksOK
<1>5. ASSUME NEW m \in Phones, NEW n \in Phones, FirebaseBegin(p, m, n)
      PROVE  CreatesNone(p)
  BY <1>5 DEF FirebaseBegin, Begin, NoTask, CreatesNone, Moves, TypeInv, TasksOK
<1>6. ASSUME NEW u \in Users, NEW n \in Phones, NEW t \in HandedOut, RegisterBegin(p, u, n, t)
      PROVE  CreatesNone(p)
  BY <1>6 DEF RegisterBegin, Begin, NoTask, CreatesNone, Moves, TypeInv, TasksOK
<1>7. ASSUME NEW u \in Users, NEW n \in Phones, NEW t \in HandedOut, NEW old \in HandedOut,
             ChangeBegin(p, u, n, t, old)
      PROVE  CreatesNone(p)
  BY <1>7 DEF ChangeBegin, Begin, NoTask, CreatesNone, Moves, TypeInv, TasksOK
<1> QED
  BY <1>2, <1>3, <1>4, <1>5, <1>6, <1>7

LEMMA StepsCreateNone ==
  ASSUME TypeInv, TypeInv', NEW p \in Procs,
         \/ SendCheck(p) \/ SendSave(p) \/ SmsSent(p) \/ SmsFailed(p) \/ SendRemove(p)
         \/ VerifyBump(p) \/ VerifyMark(p) \/ FirebaseSave(p) \/ FirebaseMark(p) \/ Fail(p)
         \/ ChangeFindPhone(p) \/ ChangeCheckOld(p) \/ ChangeCheckNew(p)
         \/ ChangeConsumeOld(p) \/ ChangeConsumeNew(p) \/ ChangeUpdate(p)
  PROVE  CreatesNone(p)
<1>1. ASSUME NEW step \in Steps \ {"create"}, Goto(p, step)
      PROVE  CreatesNone(p)
  BY <1>1, GotoMoves DEF CreatesNone
<1>2. ASSUME Return(p)
      PROVE  CreatesNone(p)
  BY <1>2, ReturnMoves DEF CreatesNone, NoTask
<1>3. {"saveCode", "remove", "firebaseMark", "checkOld", "checkNew", "consumeOld", "consumeNew", "update"}
        \subseteq Steps \ {"create"}
  BY DEF Steps
<1>4. CASE SendSave(p)
  <2>1. PICK c \in Codes : task' = [task EXCEPT ![p].step = "sms", ![p].code = c]
    BY <1>4 DEF SendSave, FreshCodes
  <2>2. task[p] \in Tasks
    BY DEF TypeInv, TasksOK
  <2>3. task' = [task EXCEPT ![p] = [task[p] EXCEPT !.step = "sms", !.code = c]]
    BY <2>1, <2>2 DEF Tasks, TypeInv, TasksOK
  <2>4. Moves(p) /\ task'[p] = [task[p] EXCEPT !.step = "sms", !.code = c]
    BY <2>3 DEF TypeInv, TasksOK, Moves
  <2>5. task'[p].step = "sms"
    BY <2>2, <2>4 DEF Tasks
  <2> QED
    BY <2>4, <2>5 DEF CreatesNone
<1>5. CASE ~SendSave(p)
  BY <1>1, <1>2, <1>3, <1>5
     DEF SendCheck, SmsSent, SmsFailed, SendRemove, VerifyBump, VerifyMark, FirebaseSave,
         FirebaseMark, Fail, ChangeFindPhone, ChangeCheckOld, ChangeCheckNew, ChangeConsumeOld,
         ChangeConsumeNew, ChangeUpdate
<1> QED
  BY <1>4, <1>5

(* A step that hands out no token and creates no account.                    *)
LEMMA OnceKept ==
  ASSUME TypeInv, ProofInv, OnceInv, NEW p \in Procs, CreatesNone(p), UNCHANGED <<created, proof>>,
         \A n \in Phones : token'[n] \in {token[n], NoToken}
  PROVE  OnceInv'
<1>1. ASSUME NEW q \in Procs, NEW t \in Tokens, Creating(q, t)'
      PROVE  Creating(q, t)
  BY <1>1 DEF CreatesNone, Moves, Creating
<1>2. NoToken \notin Tokens
  BY PhoneAssumption
<1> QED
  BY <1>1, <1>2 DEF OnceInv

(* A new token has created nothing.                                          *)
LEMMA OnceMarked ==
  ASSUME TypeInv, TypeInv', ProofInv, OnceInv, NEW p \in Procs, VerifyMark(p) \/ FirebaseMark(p)
  PROVE  OnceInv'
<1>1. PICK t \in FreshTokens :
        /\ UNCHANGED created
        /\ \A s \in Tokens \ {t} : proof'[s] = proof[s]
        /\ \A n \in Phones : token'[n] \in {token[n], NoToken, t}
  BY DEF VerifyMark, FirebaseMark, TypeInv, RowsOK, OtpRowsOK, OtherRowsOK
<1>2. t \in Tokens /\ proof[t] = NoPhone /\ created[t] = 0
  BY DEF FreshTokens, OnceInv
<1>3. CreatesNone(p)
  BY StepsCreateNone
<1>4. ASSUME NEW q \in Procs, NEW s \in Tokens, Creating(q, s)'
      PROVE  Creating(q, s) /\ s # t
  <2>1. Creating(q, s)
    BY <1>3, <1>4 DEF CreatesNone, Moves, Creating
  <2>2. proof[s] = task[q].phone /\ task[q].phone \in Phones
    BY <2>1 DEF Creating, ProofInv, ProofInHand
  <2> QED
    BY <1>2, <2>1, <2>2
<1>5. \A s \in Tokens : created[s] = 1 => s # t
  BY <1>2
<1>6. NoToken \notin Tokens
  BY PhoneAssumption
<1> QED
  BY <1>1, <1>2, <1>4, <1>5, <1>6 DEF OnceInv

(* The DELETE that uses a verification up leaves it to one sign-up.          *)
LEMMA OnceConsumed ==
  ASSUME TypeInv, TypeInv', ProofInv, OnceInv, NEW p \in Procs, RegisterConsume(p)
  PROVE  OnceInv'
<1> DEFINE k == task[p].token
           n == task[p].phone
<1>1. UNCHANGED <<created, proof>> /\ task[p] \in Tasks /\ n \in Phones
  BY DEF RegisterConsume, At, history, TypeInv, TasksOK, ProofInv, KnowsAccount
<1>2. \A m \in Phones : token'[m] \in {token[m], NoToken}
  BY DEF RegisterConsume, Consume, Delete, rowVars, TypeInv, RowsOK, OtpRowsOK
<1>3. CASE ~Verified(n, k)
  <2>1. CreatesNone(p)
    BY <1>3, ReturnMoves DEF RegisterConsume, CreatesNone, NoTask
  <2> QED
    BY <1>1, <1>2, <2>1, OnceKept
<1>4. CASE Verified(n, k)
  <2>1. /\ Moves(p) /\ task'[p].step = "create" /\ task'[p].token = k
    BY <1>4, GotoMoves DEF RegisterConsume
  <2>2. k \in Tokens /\ token[n] = k /\ k # NoToken
    BY <1>1, <1>4 DEF Verified, Tasks
  <2>3. \A m \in Phones : token[m] = k => m = n
    BY <1>1, <2>2 DEF ProofInv, TokensAtHome
  <2>4. \A m \in Phones : token'[m] # k
    <3>1. token'[n] = NoToken
      BY <1>1, <1>4 DEF RegisterConsume, Consume, Delete, TypeInv, RowsOK, OtpRowsOK
    <3> QED
      BY <1>2, <2>2, <2>3, <3>1
  <2>5. created[k] = 0 /\ \A q \in Procs : ~Creating(q, k)
    BY <1>1, <2>2 DEF OnceInv
  <2>6. ASSUME NEW q \in Procs, NEW s \in Tokens, Creating(q, s)'
        PROVE  IF q = p THEN s = k ELSE Creating(q, s) /\ s # k
    BY <2>1, <2>5, <2>6 DEF Moves, Creating
  <2>7. NoToken \notin Tokens
    BY PhoneAssumption
  <2> QED
    BY <1>1, <1>2, <2>2, <2>4, <2>5, <2>6, <2>7 DEF OnceInv
<1> QED
  BY <1>3, <1>4

(* The account is created, or an index refuses it; either way this sign-up   *)
(* is over.                                                                  *)
LEMMA OnceCreated ==
  ASSUME TypeInv, TypeInv', ProofInv, OnceInv, NEW p \in Procs, RegisterCreate(p)
  PROVE  OnceInv'
<1> DEFINE k == task[p].token
<1>1. UNCHANGED <<token, proof>> /\ Return(p)
  BY DEF RegisterCreate, rowVars
<1>2. Creating(p, k) /\ k \in Tokens /\ proof[k] # NoPhone
  BY PhoneAssumption DEF RegisterCreate, At, Creating, ProofInv, ProofInHand
<1>3. CreatesNone(p)
  BY <1>1, ReturnMoves DEF CreatesNone, NoTask
<1>4. created' = created \/ created' = [created EXCEPT ![k] = created[k] + 1]
  BY DEF RegisterCreate
<1>5. created[k] = 0
  BY <1>2 DEF OnceInv
<1>6. \A s \in Tokens : created'[s] \in {created[s], IF s = k THEN 1 ELSE created[s]}
  BY <1>2, <1>4, <1>5 DEF TypeInv, RowsOK, OtherRowsOK
<1>7. ASSUME NEW q \in Procs, NEW s \in Tokens, Creating(q, s)'
      PROVE  Creating(q, s) /\ s # k
  <2>1. Creating(q, s) /\ q # p
    BY <1>3, <1>7 DEF CreatesNone, Moves, Creating
  <2> QED
    BY <1>2, <2>1 DEF OnceInv
<1> QED
  BY <1>1, <1>2, <1>5, <1>6, <1>7 DEF OnceInv

LEMMA OnceStep ==
  ASSUME TypeInv, TypeInv', ProofInv, OnceInv, Next
  PROVE  OnceInv'
<1>1. ASSUME NEW n \in Phones, CodeExpires(n) \/ TokenExpires(n)
      PROVE  OnceInv'
  BY <1>1 DEF CodeExpires, TokenExpires, history, OnceInv, Creating
<1>2. ASSUME NEW p \in Procs, CreatesNone(p), UNCHANGED <<created, proof>>,
             \/ UNCHANGED token \/ UNCHANGED rowVars
             \/ \E n : Delete(n)
             \/ \E n, t : Consume(n, t)
             \/ \E n, c : SaveCode(n, c)
      PROVE  OnceInv'
  <2>1. \A n \in Phones : token'[n] \in {token[n], NoToken}
    BY <1>2 DEF TypeInv, RowsOK, OtpRowsOK, Delete, Consume, SaveCode, rowVars
  <2> QED
    BY <1>2, <2>1, OnceKept
<1>3. ASSUME NEW p \in Procs, Code(p)
      PROVE  OnceInv'
  <2>1. CASE VerifyMark(p) \/ FirebaseMark(p)
    BY <2>1, OnceMarked
  <2>2. CASE ~(VerifyMark(p) \/ FirebaseMark(p))
    <3>1. CreatesNone(p)
      BY <1>3, RequestsCreateNone, StepsCreateNone DEF Code
    <3>2. UNCHANGED <<created, proof>>
      BY <1>3, <2>2
         DEF Code, SendBegin, SendOwnBegin, SendCheck, SendSave, SmsSent, SmsFailed, SendRemove,
             VerifyRight, VerifyWrong, VerifyBump, FirebaseBegin, FirebaseSave, history
    <3>3. \/ UNCHANGED token \/ UNCHANGED rowVars
          \/ \E n : Delete(n)
          \/ \E n, c : SaveCode(n, c)
      BY <1>3, <2>2
         DEF Code, SendBegin, SendOwnBegin, SendCheck, SendSave, SmsSent, SmsFailed, SendRemove,
             VerifyRight, VerifyWrong, VerifyBump, FirebaseBegin, FirebaseSave
    <3> QED
      BY <1>2, <3>1, <3>2, <3>3
  <2> QED
    BY <2>1, <2>2
<1>4. ASSUME NEW p \in Procs, Register(p)
      PROVE  OnceInv'
  <2>1. ASSUME NEW u \in Users, NEW n \in Phones, NEW t \in HandedOut, RegisterBegin(p, u, n, t)
        PROVE  OnceInv'
    <3>1. CreatesNone(p)
      BY <2>1, RequestsCreateNone
    <3> QED
      BY <1>2, <2>1, <3>1 DEF RegisterBegin, history
  <2> QED
    BY <1>4, <2>1, OnceConsumed, OnceCreated DEF Register
<1>5. ASSUME NEW p \in Procs, Change(p) \/ Fail(p)
      PROVE  OnceInv'
  <2>1. CreatesNone(p)
    BY <1>5, RequestsCreateNone, StepsCreateNone DEF Change
  <2>2. UNCHANGED <<created, proof>>
    BY <1>5 DEF Change, Fail, ChangeBegin, ChangeFindPhone, ChangeCheckOld, ChangeCheckNew,
                ChangeConsumeOld, ChangeConsumeNew, ChangeUpdate, history
  <2>3. UNCHANGED rowVars \/ \E n, t : Consume(n, t)
    BY <1>5 DEF Change, Fail, ChangeBegin, ChangeFindPhone, ChangeCheckOld, ChangeCheckNew,
                ChangeConsumeOld, ChangeConsumeNew, ChangeUpdate
  <2> QED
    BY <1>2, <2>1, <2>2, <2>3
<1> QED
  BY <1>1, <1>3, <1>4, <1>5 DEF Next

(* One verified code or Firebase sign-in creates at most one account, and    *)
(* what has created one is gone from the rows.                               *)
THEOREM OneAccountEach == Spec => []OneAccountPerVerification
<1>1. OnceInv /\ UNCHANGED phoneVars => OnceInv'
  BY DEF OnceInv, Creating, phoneVars
<1>2. OnceInv => OneAccountPerVerification
  BY DEF OnceInv, OneAccountPerVerification
<1> QED
  BY <1>1, <1>2, OnceStarts, OnceStep, TypeInvHolds, ProofInvHolds, PTL DEF Spec

---------------------------------------------------------------------------
(* The row of a number as a one-time code place.                            *)

SendSteps == {"cooldown", "saveCode", "sms", "remove"}

(* A code that is current, or whose guess is still to be counted, was made   *)
(* for the number it is guessed at, and a code not yet made was not guessed. *)
CodesAtHome ==
  /\ \A n \in Phones : code[n] # NoCode => codePhone[code[n]] = n
  /\ \A n \in Phones : code[n] = NoCode => attempts[n] = 0
  /\ \A p \in Procs :
       task[p].step = "bump" => /\ task[p].phone \in Phones /\ task[p].code \in Codes
                                /\ codePhone[task[p].code] = task[p].phone
  /\ \A p \in Procs : task[p].step \in SendSteps => task[p].phone \in Phones
  /\ \A c \in Codes : codePhone[c] = NoPhone => answered[c] = 0

LEMMA CodesStart == Init => CodesAtHome /\ \A n \in Phones : CodeOf(n)!Init
BY DEF Init, CodesAtHome, NoTask, CodeOf!Init, Compared, At, SendSteps

(* A handler moves on that is not guessing, before or after.                 *)
Quiet(p) ==
  /\ Moves(p)
  /\ task[p].step # "bump" /\ task'[p].step # "bump"
  /\ task'[p].step \in SendSteps => task'[p].phone \in Phones

LEMMA QuietRequests ==
  ASSUME TypeInv, TypeInv', NEW p \in Procs,
         \/ \E n \in Phones : SendBegin(p, n) \/ VerifyRight(p, n)
         \/ \E u \in Users : SendOwnBegin(p, u)
         \/ \E m, n \in Phones : FirebaseBegin(p, m, n)
         \/ \E u \in Users, n \in Phones, t \in HandedOut : RegisterBegin(p, u, n, t)
         \/ \E u \in Users, n \in Phones, t, old \in HandedOut : ChangeBegin(p, u, n, t, old)
  PROVE  Quiet(p)
<1> USE DEF SendSteps, Begin, Idle, NoTask, Quiet, Moves, TypeInv, TasksOK
<1>1. ASSUME NEW n \in Phones, SendBegin(p, n)
      PROVE  Quiet(p)
  BY <1>1 DEF SendBegin
<1>2. ASSUME NEW n \in Phones, VerifyRight(p, n)
      PROVE  Quiet(p)
  BY <1>2 DEF VerifyRight
<1>3. ASSUME NEW u \in Users, SendOwnBegin(p, u)
      PROVE  Quiet(p)
  BY <1>3 DEF SendOwnBegin, RowsOK, OtherRowsOK
<1>4. ASSUME NEW m \in Phones, NEW n \in Phones, FirebaseBegin(p, m, n)
      PROVE  Quiet(p)
  BY <1>4 DEF FirebaseBegin
<1>5. ASSUME NEW u \in Users, NEW n \in Phones, NEW t \in HandedOut, RegisterBegin(p, u, n, t)
      PROVE  Quiet(p)
  BY <1>5 DEF RegisterBegin
<1>6. ASSUME NEW u \in Users, NEW n \in Phones, NEW t \in HandedOut, NEW old \in HandedOut,
             ChangeBegin(p, u, n, t, old)
      PROVE  Quiet(p)
  BY <1>6 DEF ChangeBegin
<1> QED
  BY <1>1, <1>2, <1>3, <1>4, <1>5, <1>6

LEMMA QuietSteps ==
  ASSUME TypeInv, TypeInv', CodesAtHome, NEW p \in Procs,
         \/ SendCheck(p) \/ SendSave(p) \/ SmsSent(p) \/ SmsFailed(p) \/ SendRemove(p)
         \/ VerifyMark(p) \/ FirebaseSave(p) \/ FirebaseMark(p)
         \/ RegisterConsume(p) \/ RegisterCreate(p)
         \/ ChangeFindPhone(p) \/ ChangeCheckOld(p) \/ ChangeCheckNew(p)
         \/ ChangeConsumeOld(p) \/ ChangeConsumeNew(p) \/ ChangeUpdate(p)
  PROVE  Quiet(p)
<1>1. task[p].step # "bump"
  BY DEF SendCheck, SendSave, SmsSent, SmsFailed, SendRemove, VerifyMark, FirebaseSave, FirebaseMark,
         RegisterConsume, RegisterCreate, ChangeFindPhone, ChangeCheckOld, ChangeCheckNew,
         ChangeConsumeOld, ChangeConsumeNew, ChangeUpdate, At
<1>2. ASSUME Return(p)
      PROVE  Quiet(p)
  BY <1>1, <1>2, ReturnMoves DEF Quiet, NoTask, SendSteps
<1>3. ASSUME NEW step \in Steps \ (SendSteps \cup {"bump"}), Goto(p, step)
      PROVE  Quiet(p)
  BY <1>1, <1>3, GotoMoves DEF Quiet
<1>4. ASSUME NEW step \in SendSteps, Goto(p, step), task[p].phone \in Phones
      PROVE  Quiet(p)
  BY <1>1, <1>4, GotoMoves DEF Quiet, SendSteps
<1>5. {"firebaseMark", "create", "checkOld", "checkNew", "consumeOld", "consumeNew", "update"}
        \subseteq Steps \ (SendSteps \cup {"bump"})
  BY DEF Steps, SendSteps
<1>6. CASE SendCheck(p) \/ SmsFailed(p)
  <2>1. task[p].phone \in Phones
    BY <1>6 DEF SendCheck, SmsFailed, At, CodesAtHome, SendSteps
  <2> QED
    BY <1>2, <1>4, <1>6, <2>1 DEF SendCheck, SmsFailed, SendSteps
<1>7. CASE SendSave(p)
  <2>1. PICK c \in Codes : task' = [task EXCEPT ![p].step = "sms", ![p].code = c]
    BY <1>7 DEF SendSave, FreshCodes
  <2>2. task[p] \in Tasks /\ task[p].phone \in Phones
    BY <1>7 DEF TypeInv, TasksOK, SendSave, At, CodesAtHome, SendSteps
  <2>3. task' = [task EXCEPT ![p] = [task[p] EXCEPT !.step = "sms", !.code = c]]
    BY <2>1, <2>2 DEF Tasks, TypeInv, TasksOK
  <2>4. Moves(p) /\ task'[p] = [task[p] EXCEPT !.step = "sms", !.code = c]
    BY <2>3 DEF TypeInv, TasksOK, Moves
  <2>5. task'[p].step = "sms" /\ task'[p].phone = task[p].phone
    BY <2>2, <2>4 DEF Tasks
  <2> QED
    BY <1>1, <2>2, <2>4, <2>5 DEF Quiet
<1>8. CASE ~(SendCheck(p) \/ SmsFailed(p) \/ SendSave(p))
  BY <1>2, <1>3, <1>5, <1>8
     DEF SmsSent, SendRemove, VerifyMark, FirebaseSave, FirebaseMark, RegisterConsume, RegisterCreate,
         ChangeFindPhone, ChangeCheckOld, ChangeCheckNew, ChangeConsumeOld, ChangeConsumeNew,
         ChangeUpdate
<1> QED
  BY <1>6, <1>7, <1>8

LEMMA QuietCompared ==
  ASSUME NEW p \in Procs, Quiet(p), NEW n \in Phones
  PROVE  Compared(n)' = Compared(n)
BY DEF Quiet, Moves, Compared, At

AnsweredAt(n) == [c \in Codes |-> IF codePhone[c] = n THEN answered[c] ELSE 0]

(* What a step means for the place of every number.                          *)
PlacesStep == \A n \in Phones : UNCHANGED CodeOf(n)!codeVars \/ CodeOf(n)!Next

(* Codes and guesses stay as they are.                                       *)
LEMMA PlaceUnchanged ==
  ASSUME TypeInv, CodesAtHome, NEW p \in Procs, Quiet(p),
         UNCHANGED <<code, attempts, codePhone, answered>>
  PROVE  CodesAtHome' /\ PlacesStep
<1>1. CodesAtHome'
  BY DEF CodesAtHome, Quiet, Moves, SendSteps
<1>2. PlacesStep
  BY QuietCompared DEF PlacesStep, CodeOf!codeVars
<1> QED
  BY <1>1, <1>2

(* The row of number m goes.                                                 *)
LEMMA PlaceForgets ==
  ASSUME TypeInv, CodesAtHome, NEW p \in Procs, Quiet(p), NEW m, Delete(m),
         UNCHANGED <<codePhone, answered>>
  PROVE  CodesAtHome' /\ PlacesStep
<1>1. \A n \in Phones : /\ code'[n] = IF n = m THEN NoCode ELSE code[n]
                        /\ attempts'[n] = IF n = m THEN 0 ELSE attempts[n]
  BY DEF Delete, TypeInv, RowsOK, OtpRowsOK
<1>2. CodesAtHome'
  BY <1>1 DEF CodesAtHome, Quiet, Moves, SendSteps
<1>3. ASSUME NEW n \in Phones
      PROVE  UNCHANGED CodeOf(n)!codeVars \/ CodeOf(n)!Next
  <2>1. Compared(n)' = Compared(n) /\ AnsweredAt(n)' = AnsweredAt(n)
    BY QuietCompared DEF AnsweredAt
  <2>2. CASE n = m
    BY <1>1, <2>1, <2>2 DEF CodeOf!Next, CodeOf!Forget, AnsweredAt
  <2>3. CASE n # m
    BY <1>1, <2>1, <2>3 DEF CodeOf!codeVars, AnsweredAt
  <2> QED
    BY <2>2, <2>3
<1> QED
  BY <1>2, <1>3 DEF PlacesStep

(* A new code is written on the row of m.                                    *)
LEMMA PlaceIssues ==
  ASSUME TypeInv, CodesAtHome, NEW p \in Procs, Quiet(p), NEW m \in Phones, NEW c \in FreshCodes,
         SaveCode(m, c), UNCHANGED answered
  PROVE  CodesAtHome' /\ PlacesStep
<1>1. c \in Codes /\ codePhone[c] = NoPhone /\ answered[c] = 0 /\ c # NoCode
  BY PhoneAssumption DEF FreshCodes, CodesAtHome
<1>2. /\ \A n \in Phones : /\ code'[n] = IF n = m THEN c ELSE code[n]
                           /\ attempts'[n] = IF n = m THEN 0 ELSE attempts[n]
      /\ \A d \in Codes : codePhone'[d] = IF d = c THEN m ELSE codePhone[d]
  BY <1>1 DEF SaveCode, TypeInv, RowsOK, OtpRowsOK, OtherRowsOK
<1>3. \A n \in Phones : code[n] # c
  BY <1>1, PhoneAssumption DEF CodesAtHome
<1>4. \A q \in Procs : task[q].step = "bump" => task[q].code # c
  BY <1>1, PhoneAssumption DEF CodesAtHome
<1>5. CodesAtHome'
  <2>1. \A n \in Phones : code'[n] # NoCode => codePhone'[code'[n]] = n
    BY <1>1, <1>2, <1>3 DEF CodesAtHome, TypeInv, RowsOK, OtpRowsOK
  <2>2. \A n \in Phones : code'[n] = NoCode => attempts'[n] = 0
    BY <1>1, <1>2 DEF CodesAtHome
  <2>3. \A q \in Procs :
          task'[q].step = "bump" => /\ task'[q].phone \in Phones /\ task'[q].code \in Codes
                                    /\ codePhone'[task'[q].code] = task'[q].phone
    BY <1>2, <1>4 DEF CodesAtHome, Quiet, Moves
  <2>4. \A q \in Procs : task'[q].step \in SendSteps => task'[q].phone \in Phones
    BY DEF CodesAtHome, Quiet, Moves
  <2>5. \A d \in Codes : codePhone'[d] = NoPhone => answered'[d] = 0
    BY <1>1, <1>2 DEF CodesAtHome
  <2> QED
    BY <2>1, <2>2, <2>3, <2>4, <2>5 DEF CodesAtHome
<1>6. ASSUME NEW n \in Phones
      PROVE  UNCHANGED CodeOf(n)!codeVars \/ CodeOf(n)!Next
  <2>1. Compared(n)' = Compared(n)
    BY QuietCompared
  <2>2. AnsweredAt(n)' = AnsweredAt(n)
    BY <1>1, <1>2 DEF AnsweredAt
  <2>3. CASE n = m
    <3>1. AnsweredAt(n)[c] = 0 /\ \A q \in Procs : Compared(n)[q] # c
      BY <1>1, <1>4 DEF AnsweredAt, Compared, At
    <3>2. CodeOf(n)!New(c)
      BY <1>1, <3>1 DEF CodeOf!New, CodeOf!Comparing, AnsweredAt
    <3>3. CodeOf(n)!Issue
      BY <1>1, <1>2, <1>3, <2>1, <2>2, <2>3, <3>2 DEF CodeOf!Issue, AnsweredAt
    <3> QED
      BY <3>3 DEF CodeOf!Next
  <2>4. CASE n # m
    BY <1>2, <2>1, <2>2, <2>4 DEF CodeOf!codeVars, AnsweredAt
  <2> QED
    BY <2>3, <2>4
<1> QED
  BY <1>5, <1>6 DEF PlacesStep

(* A wrong guess: the row is read ...                                        *)
LEMMA PlaceReads ==
  ASSUME TypeInv, TypeInv', CodesAtHome, NEW p \in Procs, NEW m \in Phones, VerifyWrong(p, m)
  PROVE  CodesAtHome' /\ PlacesStep
<1>1. UNCHANGED <<code, attempts, codePhone, answered>>
  BY DEF VerifyWrong, rowVars, history
<1>2. task[p].step = "idle" /\ code[m] # NoCode /\ attempts[m] < MaxAttempts
  BY DEF VerifyWrong, Begin, Idle, MayGuess
<1>3. Begin(p, [NoTask EXCEPT !.step = "bump", !.phone = m, !.code = code[m]])
  BY DEF VerifyWrong
<1>4. Moves(p) /\ task'[p] = [NoTask EXCEPT !.step = "bump", !.phone = m, !.code = code[m]]
  BY <1>3, BeginMoves
<1>5. task'[p].step = "bump" /\ task'[p].phone = m /\ task'[p].code = code[m]
  BY <1>4 DEF NoTask
<1>6. CodesAtHome'
  <2>1. code[m] \in Codes /\ codePhone[code[m]] = m
    BY <1>2 DEF CodesAtHome, TypeInv, RowsOK, OtpRowsOK
  <2>2. ASSUME NEW q \in Procs
        PROVE  /\ task'[q].step = "bump" => /\ task'[q].phone \in Phones /\ task'[q].code \in Codes
                                            /\ codePhone'[task'[q].code] = task'[q].phone
               /\ task'[q].step \in SendSteps => task'[q].phone \in Phones
    <3>1. CASE q = p
      BY <1>1, <1>5, <2>1, <3>1 DEF SendSteps
    <3>2. CASE q # p
      BY <1>1, <1>4, <3>2 DEF CodesAtHome, Moves
    <3> QED
      BY <3>1, <3>2
  <2> QED
    BY <1>1, <2>2 DEF CodesAtHome
<1>7. ASSUME NEW n \in Phones
      PROVE  UNCHANGED CodeOf(n)!codeVars \/ CodeOf(n)!Next
  <2>1. CASE n = m
    <3>1. Compared(n)[p] = NoCode
      BY <1>2 DEF Compared, At
    <3>2. Compared(n)' = [Compared(n) EXCEPT ![p] = code[n]]
      BY <1>4, <1>5, <2>1 DEF Compared, At, Moves
    <3>3. CodeOf(n)!Read(p)
      BY <1>1, <1>2, <2>1, <3>1, <3>2 DEF CodeOf!Read
    <3> QED
      BY <3>3 DEF CodeOf!Next
  <2>2. CASE n # m
    <3>1. Compared(n)' = Compared(n)
      BY <1>2, <1>4, <1>5, <2>2 DEF Compared, At, Moves
    <3> QED
      BY <1>1, <3>1 DEF CodeOf!codeVars
  <2> QED
    BY <2>1, <2>2
<1> QED
  BY <1>6, <1>7 DEF PlacesStep

(* ... and the guess is counted, on whatever code the row holds by then, or  *)
(* never.                                                                    *)
LEMMA PlaceCounts ==
  ASSUME TypeInv, TypeInv', CodesAtHome, NEW p \in Procs, VerifyBump(p)
  PROVE  CodesAtHome' /\ PlacesStep
<1> DEFINE m == task[p].phone
           d == task[p].code
<1>1. task[p].step = "bump" /\ m \in Phones /\ d \in Codes /\ codePhone[d] = m /\ d # NoCode
  BY PhoneAssumption DEF VerifyBump, At, CodesAtHome
<1>2. UNCHANGED <<code, codePhone>> /\ Moves(p) /\ task'[p] = NoTask
  BY ReturnMoves DEF VerifyBump
<1>3. /\ attempts' = [attempts EXCEPT ![m] = IF code[m] = NoCode THEN 0 ELSE attempts[m] + 1]
      /\ answered' = [answered EXCEPT ![d] = answered[d] + 1]
  BY <1>1 DEF VerifyBump
<1>4. CodesAtHome'
  <2>1. \A n \in Phones : code[n] = NoCode => attempts'[n] = 0
    BY <1>1, <1>3 DEF CodesAtHome, TypeInv, RowsOK, OtpRowsOK
  <2>2. \A c \in Codes : codePhone[c] = NoPhone => answered'[c] = 0
    BY <1>1, <1>3, PhoneAssumption DEF CodesAtHome, TypeInv, RowsOK, OtherRowsOK
  <2> QED
    BY <1>2, <2>1, <2>2 DEF CodesAtHome, Moves, NoTask, SendSteps
<1>5. ASSUME NEW n \in Phones
      PROVE  UNCHANGED CodeOf(n)!codeVars \/ CodeOf(n)!Next
  <2>1. CASE n = m
    <3>1. Compared(n)[p] = d
      BY <1>1, <2>1 DEF Compared, At
    <3>2. Compared(n)' = [Compared(n) EXCEPT ![p] = NoCode]
      <4>1. task'[p].step = "idle"
        BY <1>2 DEF NoTask
      <4>2. \A q \in Procs : Compared(n)'[q] = IF q = p THEN NoCode ELSE Compared(n)[q]
        BY <1>2, <4>1 DEF Compared, At, Moves
      <4> QED
        BY <4>2 DEF Compared
    <3>3. AnsweredAt(n)' = [AnsweredAt(n) EXCEPT ![d] = AnsweredAt(n)[d] + 1]
      BY <1>1, <1>2, <1>3, <2>1 DEF AnsweredAt, TypeInv, RowsOK, OtherRowsOK
    <3>4. attempts'[n] = IF code[n] = NoCode THEN 0 ELSE attempts[n] + 1
      BY <1>1, <1>3, <2>1 DEF TypeInv, RowsOK, OtpRowsOK
    <3>5. CodeOf(n)!AnswerWrong(p)
      BY <1>1, <1>2, <3>1, <3>2, <3>3, <3>4 DEF CodeOf!AnswerWrong, AnsweredAt
    <3> QED
      BY <3>5 DEF CodeOf!Next
  <2>2. CASE n # m
    <3>1. Compared(n)' = Compared(n)
      BY <1>1, <1>2, <2>2 DEF Compared, At, Moves, NoTask
    <3>2. AnsweredAt(n)' = AnsweredAt(n)
      BY <1>1, <1>2, <1>3, <2>2 DEF AnsweredAt, TypeInv, RowsOK, OtherRowsOK
    <3>3. attempts'[n] = attempts[n]
      BY <1>1, <1>3, <2>2 DEF TypeInv, RowsOK, OtpRowsOK
    <3> QED
      BY <1>2, <3>1, <3>2, <3>3 DEF CodeOf!codeVars, AnsweredAt
  <2> QED
    BY <2>1, <2>2
<1> QED
  BY <1>4, <1>5 DEF PlacesStep

LEMMA PlaceFails ==
  ASSUME TypeInv, TypeInv', CodesAtHome, NEW p \in Procs, Fail(p)
  PROVE  CodesAtHome' /\ PlacesStep
<1>1. UNCHANGED <<code, attempts, codePhone, answered>> /\ Moves(p) /\ task'[p] = NoTask
  BY ReturnMoves DEF Fail, rowVars, history
<1>2. CodesAtHome'
  BY <1>1 DEF CodesAtHome, Moves, NoTask, SendSteps
<1>3. ASSUME NEW n \in Phones
      PROVE  UNCHANGED CodeOf(n)!codeVars \/ CodeOf(n)!Next
  <2>1. Compared(n)' = [Compared(n) EXCEPT ![p] = NoCode]
    <3>1. task'[p].step = "idle"
      BY <1>1 DEF NoTask
    <3>2. \A q \in Procs : Compared(n)'[q] = IF q = p THEN NoCode ELSE Compared(n)[q]
      BY <1>1, <3>1 DEF Compared, At, Moves
    <3> QED
      BY <3>2 DEF Compared
  <2>2. CASE Compared(n)[p] = NoCode
    <3>1. Compared(n)' = Compared(n)
      BY <2>1, <2>2 DEF Compared
    <3> QED
      BY <1>1, <3>1 DEF CodeOf!codeVars
  <2>3. CASE Compared(n)[p] # NoCode
    BY <1>1, <2>1, <2>3 DEF CodeOf!Next, CodeOf!Leave
  <2> QED
    BY <2>2, <2>3
<1> QED
  BY <1>2, <1>3 DEF PlacesStep

LEMMA PlaceStep ==
  ASSUME TypeInv, TypeInv', ProofInv, CodesAtHome, Next
  PROVE  CodesAtHome' /\ PlacesStep
<1>1. ASSUME NEW n \in Phones, CodeExpires(n) \/ TokenExpires(n)
      PROVE  CodesAtHome' /\ PlacesStep
  <2>1. UNCHANGED <<code, attempts, codePhone, answered, task>>
    BY <1>1 DEF CodeExpires, TokenExpires, history
  <2> QED
    BY <2>1 DEF CodesAtHome, PlacesStep, CodeOf!codeVars, Compared, At
<1>2. ASSUME NEW p \in Procs, SendSave(p) \/ FirebaseSave(p)
      PROVE  CodesAtHome' /\ PlacesStep
  <2>1. PICK c \in FreshCodes : SaveCode(task[p].phone, c) /\ UNCHANGED answered
    BY <1>2 DEF SendSave, FirebaseSave, history
  <2>2. task[p].phone \in Phones /\ Quiet(p)
    BY <1>2, QuietSteps DEF SendSave, FirebaseSave, At, CodesAtHome, SendSteps, ProofInv, CodeAtHome
  <2> QED
    BY <2>1, <2>2, PlaceIssues
<1>3. ASSUME NEW p \in Procs,
             \/ SendRemove(p) \/ RegisterConsume(p) \/ ChangeConsumeOld(p) \/ ChangeConsumeNew(p)
      PROVE  CodesAtHome' /\ PlacesStep
  <2>1. Quiet(p)
    BY <1>3, QuietSteps
  <2>2. UNCHANGED <<codePhone, answered>> /\ (UNCHANGED <<code, attempts>> \/ \E m : Delete(m))
    BY <1>3 DEF SendRemove, RegisterConsume, ChangeConsumeOld, ChangeConsumeNew, Consume, rowVars, history
  <2> QED
    BY <2>1, <2>2, PlaceUnchanged, PlaceForgets
<1>4. ASSUME NEW p \in Procs,
             \/ SendCheck(p) \/ SmsSent(p) \/ SmsFailed(p) \/ VerifyMark(p) \/ FirebaseMark(p)
             \/ RegisterCreate(p) \/ ChangeFindPhone(p) \/ ChangeCheckOld(p) \/ ChangeCheckNew(p)
             \/ ChangeUpdate(p)
      PROVE  CodesAtHome' /\ PlacesStep
  <2>1. Quiet(p)
    BY <1>4, QuietSteps
  <2>2. UNCHANGED <<code, attempts, codePhone, answered>>
    BY <1>4 DEF SendCheck, SmsSent, SmsFailed, VerifyMark, FirebaseMark, RegisterCreate, ChangeFindPhone,
                ChangeCheckOld, ChangeCheckNew, ChangeUpdate, rowVars, history
  <2> QED
    BY <2>1, <2>2, PlaceUnchanged
<1>5. ASSUME NEW p \in Procs,
             \/ \E n \in Phones : SendBegin(p, n) \/ VerifyRight(p, n)
             \/ \E u \in Users : SendOwnBegin(p, u)
             \/ \E m, n \in Phones : FirebaseBegin(p, m, n)
             \/ \E u \in Users, n \in Phones, t \in HandedOut : RegisterBegin(p, u, n, t)
             \/ \E u \in Users, n \in Phones, t, old \in HandedOut : ChangeBegin(p, u, n, t, old)
      PROVE  CodesAtHome' /\ PlacesStep
  <2>1. Quiet(p)
    BY <1>5, QuietRequests
  <2>2. UNCHANGED <<code, attempts, codePhone, answered>>
    BY <1>5 DEF SendBegin, VerifyRight, SendOwnBegin, FirebaseBegin, RegisterBegin, ChangeBegin,
                rowVars, history
  <2> QED
    BY <2>1, <2>2, PlaceUnchanged
<1>6. ASSUME NEW p \in Procs, Code(p)
      PROVE  CodesAtHome' /\ PlacesStep
  BY <1>2, <1>3, <1>4, <1>5, <1>6, PlaceReads, PlaceCounts DEF Code
<1>7. ASSUME NEW p \in Procs, Register(p) \/ Change(p) \/ Fail(p)
      PROVE  CodesAtHome' /\ PlacesStep
  BY <1>3, <1>4, <1>5, <1>7, PlaceFails DEF Register, Change
<1> QED
  BY <1>1, <1>6, <1>7 DEF Next

LEMMA CodesAtHomeHolds == Spec => []CodesAtHome
<1>1. CodesAtHome /\ UNCHANGED phoneVars => CodesAtHome'
  BY DEF CodesAtHome, phoneVars
<1> QED
  BY <1>1, CodesStart, PlaceStep, TypeInvHolds, ProofInvHolds, PTL DEF Spec

(* The row of every number is a one-time code place, so what is promised of  *)
(* one, that a code takes a limited number of guesses, holds of each.        *)
THEOREM RowsAreCodePlaces == Spec => EveryCodeLimited
<1>2. TypeInv /\ TypeInv' /\ ProofInv /\ CodesAtHome /\ [Next]_phoneVars
        => [PlacesStep]_phoneVars
  BY PlaceStep
<1>4. Spec => [][PlacesStep]_phoneVars
  BY <1>2, CodesAtHomeHolds, TypeInvHolds, ProofInvHolds, PTL DEF Spec
<1>5. Init => \A n \in Phones : CodeOf(n)!Init
  BY CodesStart
<1> QED
  BY <1>4, <1>5, PTL DEF EveryCodeLimited, PlacesStep, Spec

---------------------------------------------------------------------------
(* How often a verification serves.                                         *)

(* Handler p has found t good ...                                            *)
Holds(p, t) ==
  \/ task[p].step \in {"create", "consumeOld", "consumeNew", "update"} /\ task[p].token = t
  \/ task[p].step \in {"checkNew", "consumeOld", "consumeNew", "update"} /\ task[p].oldToken = t

(* ... and has come past the DELETE that uses it up.                         *)
Spent(p, t) ==
  \/ task[p].step \in {"create", "update"} /\ task[p].token = t
  \/ task[p].step \in {"consumeNew", "update"} /\ task[p].oldToken = t

Holders(t) == {p \in Procs : Holds(p, t)}

Good(t) == \E n \in Phones : Verified(n, t)

(* A change of number knows the account's current number, and once the token *)
(* for it has been found good, that it was earned by the holder.             *)
OldProofInHand(t) ==
  /\ t.step \in {"findPhone", "checkOld"} => t.oldPhone \in Phones
  /\ t.step \in {"checkNew", "consumeOld", "consumeNew", "update"} =>
       t.oldToken \in Tokens /\ t.oldPhone \in Phones /\ proof[t.oldToken] = t.oldPhone

(* A token that has served, or is past its DELETE, is not good any more, so  *)
(* nobody comes to hold it: the handlers that do are all it can still serve. *)
ReplayInv ==
  /\ Cardinality(Busy) <= width
  /\ \A p \in Procs : OldProofInHand(task[p])
  /\ \A t \in Tokens : Good(t) => uses[t] = 0 /\ \A p \in Procs : ~Spent(p, t)
  /\ \A t \in Tokens : uses[t] > 0 => proof[t] # NoPhone
  /\ \A t \in Tokens : uses[t] + Cardinality(Holders(t)) <= width

LEMMA HandlersCount ==
  ASSUME NEW S \in SUBSET Procs
  PROVE  /\ IsFiniteSet(S) /\ Cardinality(S) \in Nat
         /\ \A T \in SUBSET S : Cardinality(T) <= Cardinality(S)
         /\ \A p \in S : Cardinality(S \ {p}) = Cardinality(S) - 1
         /\ \A p \in Procs \ S : Cardinality(S \cup {p}) = Cardinality(S) + 1
<1>1. IsFiniteSet(S)
  BY FS_Subset
<1> QED
  BY <1>1, FS_Subset, FS_CardinalityType, FS_RemoveElement, FS_AddElement

LEMMA ReplayStarts == Init => ReplayInv
<1> SUFFICES ASSUME Init PROVE ReplayInv
  OBVIOUS
<1>1. Busy = {} /\ \A t : Holders(t) = {}
  BY DEF Init, Busy, Idle, Holders, Holds, NoTask
<1>2. \A t \in Tokens : ~Good(t) /\ uses[t] = 0
  BY DEF Init, Good, Verified
<1>3. Cardinality(Busy) = 0 /\ width = 0 /\ \A t : Cardinality(Holders(t)) = 0
  BY <1>1, FS_EmptySet DEF Init
<1>4. \A p \in Procs : OldProofInHand(task[p])
  BY DEF Init, OldProofInHand, NoTask
<1> QED
  BY <1>2, <1>3, <1>4 DEF ReplayInv

(* Handler p goes on, and the handlers in flight are counted.                *)
Counted(p) ==
  /\ Moves(p)
  /\ Cardinality(Busy)' <= width'
  /\ width' \in Nat /\ width <= width'
  /\ p \in Busy \/ p \in Busy'

LEMMA ArrivalsCount ==
  ASSUME TypeInv, TypeInv', ReplayInv, NEW p \in Procs, NEW t, Begin(p, t), t.step # "idle"
  PROVE  Counted(p) /\ task'[p] = t
<1>1. Moves(p) /\ task'[p] = t
  BY BeginMoves
<1>2. p \notin Busy /\ Busy' = Busy \cup {p}
  BY <1>1 DEF Begin, Busy, Idle, Moves
<1>3. Cardinality(Busy) \in Nat /\ Cardinality(Busy') = Cardinality(Busy) + 1
  BY <1>2, HandlersCount DEF Busy
<1>4. width \in Nat
  BY DEF TypeInv, TasksOK
<1> QED
  BY <1>1, <1>2, <1>3, <1>4 DEF Counted, Begin

LEMMA GoingOnCounts ==
  ASSUME TypeInv, ReplayInv, NEW p \in Procs, Moves(p), p \in Busy, UNCHANGED width
  PROVE  Counted(p)
<1>1. Busy' \subseteq Busy
  BY DEF Busy, Idle, Moves
<1>2. Cardinality(Busy)' <= Cardinality(Busy)
  BY <1>1, HandlersCount DEF Busy
<1>3. Cardinality(Busy) \in Nat /\ Cardinality(Busy') \in Nat
  BY <1>1, HandlersCount DEF Busy
<1> QED
  BY <1>2, <1>3 DEF Counted, TypeInv, TasksOK, ReplayInv

(* A step that hands out no token and uses none.                             *)
LEMMA ReplayKept ==
  ASSUME TypeInv, ReplayInv, NEW p \in Procs, Counted(p), UNCHANGED <<uses, proof>>,
         OldProofInHand(task[p])',
         \A t \in Tokens : /\ Good(t)' => Good(t) /\ ~(Spent(p, t)' /\ ~Spent(p, t))
                           /\ Holds(p, t)' => Holds(p, t) \/ Good(t)
  PROVE  ReplayInv'
<1>1. ASSUME NEW q \in Procs \ {p}
      PROVE  /\ OldProofInHand(task[q])'
             /\ \A t : (Spent(q, t)' <=> Spent(q, t)) /\ (Holds(q, t)' <=> Holds(q, t))
  BY <1>1 DEF Counted, Moves, ReplayInv, OldProofInHand, Spent, Holds
<1>2. ASSUME NEW t \in Tokens, Good(t)'
      PROVE  uses'[t] = 0 /\ \A q \in Procs : ~Spent(q, t)'
  <2>1. Good(t) /\ uses[t] = 0 /\ \A q \in Procs : ~Spent(q, t)
    BY <1>2 DEF ReplayInv
  <2>2. ~Spent(p, t)'
    BY <1>2, <2>1
  <2>3. ASSUME NEW q \in Procs \ {p}
        PROVE  ~Spent(q, t)'
    BY <1>1, <2>1, <2>3
  <2>4. ASSUME NEW q \in Procs
        PROVE  ~Spent(q, t)'
    BY <2>2, <2>3
  <2> QED
    BY <2>1, <2>4
<1>3. ASSUME NEW t \in Tokens
      PROVE  uses'[t] + Cardinality(Holders(t))' <= width'
  <2>1. uses[t] \in Nat /\ width \in Nat /\ uses'[t] = uses[t]
    BY DEF TypeInv, TasksOK, RowsOK, OtherRowsOK
  <2>2. CASE Good(t)
    <3>1. Holders(t)' \subseteq Busy' /\ Busy' \subseteq Procs
      BY DEF Holders, Holds, Busy, Idle
    <3>2. Cardinality(Holders(t)') <= Cardinality(Busy')
      BY <3>1, HandlersCount
    <3>3. Cardinality(Holders(t)') \in Nat /\ Cardinality(Busy') \in Nat
      BY <3>1, HandlersCount
    <3> QED
      BY <2>1, <2>2, <3>2, <3>3 DEF ReplayInv, Counted
  <2>3. CASE ~Good(t)
    <3>1. Holders(t)' \subseteq Holders(t) /\ Holders(t) \subseteq Procs
      <4>1. ASSUME NEW q \in Procs, Holds(q, t)'
            PROVE  Holds(q, t)
        <5>1. CASE q = p
          BY <2>3, <4>1, <5>1
        <5>2. CASE q # p
          BY <1>1, <4>1, <5>2
        <5> QED
          BY <5>1, <5>2
      <4> QED
        BY <4>1 DEF Holders
    <3>2. Cardinality(Holders(t)') <= Cardinality(Holders(t))
      BY <3>1, HandlersCount
    <3>3. Cardinality(Holders(t)') \in Nat /\ Cardinality(Holders(t)) \in Nat
      BY <3>1, HandlersCount
    <3> QED
      BY <2>1, <3>2, <3>3 DEF ReplayInv, Counted
  <2> QED
    BY <2>2, <2>3
<1>4. \A t \in Tokens : uses'[t] > 0 => proof'[t] # NoPhone
  BY DEF ReplayInv
<1>5. \A q \in Procs : OldProofInHand(task[q])'
  BY <1>1
<1> QED
  BY <1>2, <1>3, <1>4, <1>5 DEF ReplayInv, Counted

(* The steps after which a handler holds no token.                           *)
HoldingSteps == {"create", "findPhone", "checkOld", "checkNew", "consumeOld", "consumeNew", "update"}

LEMMA LooseKept ==
  ASSUME TypeInv, ReplayInv, NEW p \in Procs, Counted(p), UNCHANGED <<uses, proof>>,
         task'[p].step \notin HoldingSteps,
         \A t \in Tokens : Good(t)' => Good(t)
  PROVE  ReplayInv'
<1>1. OldProofInHand(task[p])' /\ \A t \in Tokens : ~Holds(p, t)' /\ ~Spent(p, t)'
  BY DEF HoldingSteps, OldProofInHand, Holds, Spent
<1> QED
  BY <1>1, ReplayKept

(* No statement but markVerified's makes a token good.                       *)
LEMMA GoodStays ==
  ASSUME TypeInv,
         \/ UNCHANGED <<token, tokenFresh>> \/ UNCHANGED rowVars
         \/ \E n : Delete(n)
         \/ \E n, t : Consume(n, t)
         \/ \E n, c : SaveCode(n, c)
  PROVE  \A t \in Tokens : Good(t)' => Good(t)
<1>1. ASSUME NEW n \in Phones, tokenFresh'[n]
      PROVE  tokenFresh[n] /\ token'[n] = token[n]
  BY <1>1 DEF TypeInv, RowsOK, OtpRowsOK, Delete, Consume, SaveCode, rowVars
<1> QED
  BY <1>1 DEF Good, Verified

LEMMA ReturnCounts ==
  ASSUME TypeInv, TypeInv', ReplayInv, NEW p \in Procs, p \in Busy, Return(p)
  PROVE  Counted(p) /\ task'[p] = NoTask
BY ReturnMoves, GoingOnCounts DEF Return

LEMMA GotoCounts ==
  ASSUME TypeInv, TypeInv', ReplayInv, NEW p \in Procs, p \in Busy, NEW step, Goto(p, step)
  PROVE  /\ Counted(p)
         /\ task'[p].step = step /\ task'[p].phone = task[p].phone
         /\ task'[p].token = task[p].token /\ task'[p].oldPhone = task[p].oldPhone
         /\ task'[p].oldToken = task[p].oldToken
BY GotoMoves, GoingOnCounts DEF Goto

(* Requests but those for a change of number ...                             *)
LEMMA RequestsReplayNone ==
  ASSUME TypeInv, TypeInv', ReplayInv, NEW p \in Procs,
         \/ \E n \in Phones : SendBegin(p, n) \/ VerifyRight(p, n) \/ VerifyWrong(p, n)
         \/ \E u \in Users : SendOwnBegin(p, u)
         \/ \E m, n \in Phones : FirebaseBegin(p, m, n)
         \/ \E u \in Users, n \in Phones, t \in HandedOut : RegisterBegin(p, u, n, t)
  PROVE  Counted(p) /\ ReplayInv'
<1>1. UNCHANGED <<rowVars, uses, proof>>
  BY DEF SendBegin, VerifyRight, VerifyWrong, SendOwnBegin, FirebaseBegin, RegisterBegin, history
<1>2. ASSUME NEW t, Begin(p, t), t.step \in {"cooldown", "mark", "bump", "firebaseSave", "consume"}
      PROVE  Counted(p) /\ ReplayInv'
  <2>1. Counted(p) /\ task'[p] = t
    BY <1>2, ArrivalsCount
  <2> QED
    BY <1>1, <1>2, <2>1, GoodStays, LooseKept DEF HoldingSteps
<1>3. ASSUME NEW n \in Phones, SendBegin(p, n) \/ VerifyWrong(p, n)
      PROVE  Counted(p) /\ ReplayInv'
  BY <1>2, <1>3 DEF SendBegin, VerifyWrong, NoTask
<1>4. ASSUME NEW n \in Phones, VerifyRight(p, n)
      PROVE  Counted(p) /\ ReplayInv'
  BY <1>2, <1>4 DEF VerifyRight, NoTask
<1>5. ASSUME NEW u \in Users, SendOwnBegin(p, u)
      PROVE  Counted(p) /\ ReplayInv'
  BY <1>2, <1>5 DEF SendOwnBegin, NoTask
<1>6. ASSUME NEW m \in Phones, NEW n \in Phones, FirebaseBegin(p, m, n)
      PROVE  Counted(p) /\ ReplayInv'
  BY <1>2, <1>6 DEF FirebaseBegin, NoTask
<1>7. ASSUME NEW u \in Users, NEW n \in Phones, NEW t \in HandedOut, RegisterBegin(p, u, n, t)
      PROVE  Counted(p) /\ ReplayInv'
  BY <1>2, <1>7 DEF RegisterBegin, NoTask
<1> QED
  BY <1>3, <1>4, <1>5, <1>6, <1>7

(* ... and the steps of sends and guesses have nothing to do with tokens.    *)
LEMMA SendsReplayNone ==
  ASSUME TypeInv, TypeInv', ReplayInv, NEW p \in Procs,
         \/ SendCheck(p) \/ SendSave(p) \/ SmsSent(p) \/ SmsFailed(p) \/ SendRemove(p)
         \/ VerifyBump(p) \/ FirebaseSave(p) \/ Fail(p)
  PROVE  Counted(p) /\ ReplayInv'
<1>1. UNCHANGED <<uses, proof>> /\ p \in Busy
  BY DEF SendCheck, SendSave, SmsSent, SmsFailed, SendRemove, VerifyBump, FirebaseSave, Fail, history,
         Busy, Idle, At
<1>2. \A t \in Tokens : Good(t)' => Good(t)
  <2>1. \/ UNCHANGED <<token, tokenFresh>> \/ UNCHANGED rowVars
        \/ \E n : Delete(n)
        \/ \E n, c : SaveCode(n, c)
    BY DEF SendCheck, SendSave, SmsSent, SmsFailed, SendRemove, VerifyBump, FirebaseSave, Fail
  <2> QED
    BY <2>1, GoodStays
<1>3. CASE Return(p)
  BY <1>1, <1>2, <1>3, ReturnCounts, LooseKept DEF NoTask, HoldingSteps
<1>4. ASSUME NEW step \in {"saveCode", "remove", "firebaseMark"}, Goto(p, step)
      PROVE  Counted(p) /\ ReplayInv'
  <2>1. Counted(p) /\ task'[p].step = step
    BY <1>1, <1>4, GotoCounts
  <2> QED
    BY <1>1, <1>2, <1>4, <2>1, LooseKept DEF HoldingSteps
<1>5. CASE SendSave(p)
  <2>1. PICK c \in Codes : task' = [task EXCEPT ![p].step = "sms", ![p].code = c] /\ UNCHANGED width
    BY <1>5 DEF SendSave, FreshCodes
  <2>2. task[p] \in Tasks
    BY DEF TypeInv, TasksOK
  <2>3. task' = [task EXCEPT ![p] = [task[p] EXCEPT !.step = "sms", !.code = c]]
    BY <2>1, <2>2 DEF Tasks, TypeInv, TasksOK
  <2>4. Moves(p) /\ task'[p] = [task[p] EXCEPT !.step = "sms", !.code = c]
    BY <2>3 DEF TypeInv, TasksOK, Moves
  <2>5. task'[p].step = "sms" /\ Counted(p)
    BY <1>1, <2>1, <2>2, <2>4, GoingOnCounts DEF Tasks
  <2> QED
    BY <1>1, <1>2, <2>5, LooseKept DEF HoldingSteps
<1> QED
  BY <1>3, <1>4, <1>5
     DEF SendCheck, SmsSent, SmsFailed, SendRemove, VerifyBump, FirebaseSave, Fail

(* A change of number is asked for, and its look-up and checks.              *)
LEMMA CheckReplay ==
  ASSUME TypeInv, TypeInv', ProofInv, ReplayInv, NEW p \in Procs,
         \/ \E u \in Users, n \in Phones, t, old \in HandedOut : ChangeBegin(p, u, n, t, old)
         \/ ChangeFindPhone(p) \/ ChangeCheckOld(p) \/ ChangeCheckNew(p)
  PROVE  Counted(p) /\ ReplayInv'
<1>1. UNCHANGED <<rowVars, uses, proof>>
  BY DEF ChangeBegin, ChangeFindPhone, ChangeCheckOld, ChangeCheckNew, history
<1>2. \A t \in Tokens : Good(t)' => Good(t)
  BY <1>1, GoodStays
<1>3. CASE \E u \in Users, n \in Phones, t, old \in HandedOut : ChangeBegin(p, u, n, t, old)
  <2>1. PICK u \in Users, n \in Phones, t \in HandedOut, old \in HandedOut : ChangeBegin(p, u, n, t, old)
    BY <1>3
  <2>2. PICK k : /\ Begin(p, k) /\ k.step = "findPhone" /\ k.oldPhone = phoneOf[u]
    <3> DEFINE k == [NoTask EXCEPT !.step = "findPhone", !.phone = n, !.user = u, !.token = t,
                                   !.oldPhone = phoneOf[u], !.oldToken = old]
    <3>1. Begin(p, k) /\ k.step = "findPhone" /\ k.oldPhone = phoneOf[u]
      BY <2>1 DEF ChangeBegin, NoTask
    <3> QED
      BY <3>1
  <2>3. phoneOf[u] \in Phones
    BY <2>1 DEF ChangeBegin, TypeInv, RowsOK, OtherRowsOK
  <2>4. Counted(p) /\ task'[p] = k
    BY <2>2, ArrivalsCount
  <2>5. /\ OldProofInHand(task[p])'
        /\ \A s \in Tokens : ~Holds(p, s)' /\ ~Spent(p, s)'
    BY <2>2, <2>3, <2>4 DEF OldProofInHand, Holds, Spent
  <2> QED
    BY <1>1, <1>2, <2>4, <2>5, ReplayKept
<1>4. CASE Return(p) /\ p \in Busy
  BY <1>1, <1>2, <1>4, ReturnCounts, LooseKept DEF NoTask, HoldingSteps
<1>5. CASE ChangeFindPhone(p) /\ Goto(p, "checkOld")
  <2>1. p \in Busy /\ task[p].oldPhone \in Phones
    BY <1>5 DEF ChangeFindPhone, At, Busy, Idle, ReplayInv, OldProofInHand
  <2>2. Counted(p) /\ task'[p].step = "checkOld" /\ task'[p].oldPhone = task[p].oldPhone
    BY <1>5, <2>1, GotoCounts
  <2>3. /\ OldProofInHand(task[p])'
        /\ \A t \in Tokens : ~Holds(p, t)' /\ ~Spent(p, t)'
    BY <2>1, <2>2 DEF OldProofInHand, Holds, Spent
  <2> QED
    BY <1>1, <1>2, <2>2, <2>3, ReplayKept
<1>6. CASE ChangeCheckOld(p) /\ Goto(p, "checkNew") /\ Verified(task[p].oldPhone, task[p].oldToken)
  <2>1. /\ p \in Busy /\ task[p].oldPhone \in Phones /\ task[p].oldToken \in Tokens
        /\ proof[task[p].oldToken] = task[p].oldPhone
    BY <1>6 DEF ChangeCheckOld, At, Busy, Idle, ReplayInv, OldProofInHand, Verified, ProofInv,
                TokensAtHome, TypeInv, RowsOK, OtpRowsOK
  <2>2. /\ Counted(p) /\ task'[p].step = "checkNew"
        /\ task'[p].oldPhone = task[p].oldPhone /\ task'[p].oldToken = task[p].oldToken
    BY <1>6, <2>1, GotoCounts
  <2>3. Good(task[p].oldToken)
    BY <1>6, <2>1 DEF Good
  <2>4. /\ OldProofInHand(task[p])'
        /\ \A t \in Tokens : (Holds(p, t)' => t = task[p].oldToken) /\ ~Spent(p, t)'
    BY <1>1, <2>1, <2>2 DEF OldProofInHand, Holds, Spent
  <2> QED
    BY <1>1, <1>2, <2>2, <2>3, <2>4, ReplayKept
<1>7. CASE ChangeCheckNew(p) /\ Goto(p, "consumeOld") /\ Verified(task[p].phone, task[p].token)
  <2>1. /\ p \in Busy /\ task[p].phone \in Phones
        /\ task[p].oldPhone \in Phones /\ task[p].oldToken \in Tokens
        /\ proof[task[p].oldToken] = task[p].oldPhone
        /\ Holds(p, task[p].oldToken)
    BY <1>7 DEF ChangeCheckNew, At, Busy, Idle, ReplayInv, OldProofInHand, ProofInv, KnowsAccount, Holds
  <2>2. /\ Counted(p) /\ task'[p].step = "consumeOld" /\ task'[p].token = task[p].token
        /\ task'[p].oldPhone = task[p].oldPhone /\ task'[p].oldToken = task[p].oldToken
    BY <1>7, <2>1, GotoCounts
  <2>3. Good(task[p].token)
    BY <1>7, <2>1 DEF Good
  <2>4. /\ OldProofInHand(task[p])'
        /\ \A t \in Tokens : (Holds(p, t)' => t \in {task[p].token, task[p].oldToken}) /\ ~Spent(p, t)'
    BY <1>1, <2>1, <2>2 DEF OldProofInHand, Holds, Spent
  <2> QED
    BY <1>1, <1>2, <2>1, <2>2, <2>3, <2>4, ReplayKept
<1> QED
  BY <1>3, <1>4, <1>5, <1>6, <1>7 DEF ChangeFindPhone, ChangeCheckOld, ChangeCheckNew, At, Busy, Idle

(* After its DELETE a token is on no row that is still good.                 *)
LEMMA ConsumedIsGone ==
  ASSUME TypeInv, ProofInv, NEW n \in Phones, NEW t \in Tokens, proof[t] = n, Consume(n, t)
  PROVE  ~Good(t)'
<1> SUFFICES ASSUME NEW m \in Phones, Verified(m, t)' PROVE FALSE
  BY DEF Good
<1>1. tokenFresh'[m] /\ token'[m] = t /\ t # NoToken
  BY DEF Verified
<1>2. token[m] = t /\ tokenFresh[m]
  BY <1>1 DEF Consume, Delete, rowVars, TypeInv, RowsOK, OtpRowsOK
<1>3. m = n
  BY <1>1, <1>2 DEF ProofInv, TokensAtHome
<1> QED
  BY <1>1, <1>2, <1>3 DEF Consume, Verified, Delete, TypeInv, RowsOK, OtpRowsOK

LEMMA ConsumeReplay ==
  ASSUME TypeInv, TypeInv', ProofInv, ReplayInv, NEW p \in Procs,
         RegisterConsume(p) \/ ChangeConsumeOld(p) \/ ChangeConsumeNew(p)
  PROVE  Counted(p) /\ ReplayInv'
<1>1. /\ UNCHANGED <<uses, proof>> /\ p \in Busy
      /\ task[p].phone \in Phones
  BY DEF RegisterConsume, ChangeConsumeOld, ChangeConsumeNew, history, At, Busy, Idle, ProofInv,
         KnowsAccount
<1>2. \A t \in Tokens : Good(t)' => Good(t)
  BY GoodStays DEF RegisterConsume, ChangeConsumeOld, ChangeConsumeNew
<1>3. CASE Return(p)
  BY <1>1, <1>2, <1>3, ReturnCounts, LooseKept DEF NoTask, HoldingSteps
<1>4. CASE RegisterConsume(p) /\ Goto(p, "create") /\ Verified(task[p].phone, task[p].token)
  <2>1. /\ Counted(p) /\ task'[p].step = "create" /\ task'[p].token = task[p].token
    BY <1>1, <1>4, GotoCounts
  <2>2. Good(task[p].token)
    BY <1>1, <1>4 DEF Good
  <2>3. \A t \in Tokens : t = task[p].token => ~Good(t)'
    BY <1>1, <1>4, ConsumedIsGone DEF RegisterConsume, Verified, ProofInv, TokensAtHome
  <2>4. /\ OldProofInHand(task[p])'
        /\ \A t \in Tokens : (Holds(p, t)' => t = task[p].token) /\ (Spent(p, t)' => t = task[p].token)
    BY <2>1 DEF OldProofInHand, Holds, Spent
  <2> QED
    BY <1>1, <1>2, <2>1, <2>2, <2>3, <2>4, ReplayKept
<1>5. CASE ChangeConsumeOld(p)
  <2>1. /\ Counted(p) /\ task'[p].step = "consumeNew" /\ task'[p].token = task[p].token
        /\ task'[p].oldPhone = task[p].oldPhone /\ task'[p].oldToken = task[p].oldToken
    BY <1>1, <1>5, GotoCounts DEF ChangeConsumeOld
  <2>2. /\ task[p].oldToken \in Tokens /\ task[p].oldPhone \in Phones
        /\ proof[task[p].oldToken] = task[p].oldPhone
        /\ Holds(p, task[p].token) /\ Holds(p, task[p].oldToken)
    BY <1>5 DEF ChangeConsumeOld, At, ReplayInv, OldProofInHand, Holds
  <2>3. \A t \in Tokens : t = task[p].oldToken => ~Good(t)'
    BY <1>5, <2>2, ConsumedIsGone DEF ChangeConsumeOld
  <2>4. /\ OldProofInHand(task[p])'
        /\ \A t \in Tokens : /\ Holds(p, t)' => t \in {task[p].token, task[p].oldToken}
                             /\ Spent(p, t)' => t = task[p].oldToken
    BY <1>1, <2>1, <2>2 DEF OldProofInHand, Holds, Spent
  <2> QED
    BY <1>1, <1>2, <2>1, <2>2, <2>3, <2>4, ReplayKept
<1>6. CASE ChangeConsumeNew(p)
  <2>1. /\ Counted(p) /\ task'[p].step = "update" /\ task'[p].token = task[p].token
        /\ task'[p].oldPhone = task[p].oldPhone /\ task'[p].oldToken = task[p].oldToken
    BY <1>1, <1>6, GotoCounts DEF ChangeConsumeNew
  <2>2. /\ task[p].oldToken \in Tokens /\ task[p].oldPhone \in Phones
        /\ proof[task[p].oldToken] = task[p].oldPhone
        /\ task[p].token \in Tokens /\ proof[task[p].token] = task[p].phone
        /\ Holds(p, task[p].token) /\ Holds(p, task[p].oldToken) /\ Spent(p, task[p].oldToken)
    BY <1>6 DEF ChangeConsumeNew, At, ReplayInv, OldProofInHand, Holds, Spent, ProofInv, ProofInHand
  <2>3. \A t \in Tokens : t = task[p].token => ~Good(t)'
    BY <1>1, <1>6, <2>2, ConsumedIsGone DEF ChangeConsumeNew
  <2>4. /\ OldProofInHand(task[p])'
        /\ \A t \in Tokens : /\ Holds(p, t)' => t \in {task[p].token, task[p].oldToken}
                             /\ Spent(p, t)' => t \in {task[p].token, task[p].oldToken}
    BY <1>1, <2>1, <2>2 DEF OldProofInHand, Holds, Spent
  <2> QED
    BY <1>1, <1>2, <2>1, <2>2, <2>3, <2>4, ReplayKept
<1> QED
  BY <1>3, <1>4, <1>5, <1>6 DEF RegisterConsume

(* A new token has served nobody, and nobody holds it.                       *)
LEMMA MarkReplay ==
  ASSUME TypeInv, TypeInv', ProofInv, ReplayInv, NEW p \in Procs, VerifyMark(p) \/ FirebaseMark(p)
  PROVE  Counted(p) /\ ReplayInv'
<1>1. PICK k \in FreshTokens :
        /\ UNCHANGED uses
        /\ \A s \in Tokens \ {k} : proof'[s] = proof[s]
        /\ \A n \in Phones : token'[n] # token[n] => token'[n] \in {NoToken, k}
        /\ \A n \in Phones : tokenFresh'[n] => token'[n] = k \/ (token'[n] = token[n] /\ tokenFresh[n])
  BY DEF VerifyMark, FirebaseMark, TypeInv, RowsOK, OtpRowsOK, OtherRowsOK
<1>2. k \in Tokens /\ proof[k] = NoPhone /\ uses[k] = 0
  BY DEF FreshTokens, ReplayInv, TypeInv, RowsOK, OtherRowsOK
<1>3. Counted(p) /\ task'[p] = NoTask
  BY ReturnCounts DEF VerifyMark, FirebaseMark, At, Busy, Idle
<1>4. ASSUME NEW q \in Procs
      PROVE  /\ OldProofInHand(task[q])'
             /\ ~Holds(q, k)' /\ ~Spent(q, k)'
             /\ \A t : (Holds(q, t)' => Holds(q, t)) /\ (Spent(q, t)' => Spent(q, t))
  <2>1. CASE q = p
    BY <1>3, <2>1 DEF OldProofInHand, Holds, Spent, NoTask
  <2>2. CASE q # p
    <3>1. task'[q] = task[q]
      BY <1>3, <2>2 DEF Counted, Moves
    <3>2. OldProofInHand(task[q]) /\ ProofInHand(task[q])
      BY DEF ReplayInv, ProofInv
    <3>3. ~Holds(q, k) /\ ~Spent(q, k)
      BY <1>2, <3>2 DEF OldProofInHand, ProofInHand, Holds, Spent
    <3> QED
      BY <1>1, <1>2, <3>1, <3>2, <3>3 DEF OldProofInHand, Holds, Spent
  <2> QED
    BY <2>1, <2>2
<1>5. ASSUME NEW t \in Tokens, Good(t)', t # k
      PROVE  Good(t)
  BY <1>1, <1>5 DEF Good, Verified
<1>6. \A t \in Tokens : Good(t)' => uses'[t] = 0 /\ \A q \in Procs : ~Spent(q, t)'
  <2>1. ASSUME NEW t \in Tokens, Good(t)'
        PROVE  uses'[t] = 0 /\ \A q \in Procs : ~Spent(q, t)'
    <3>1. CASE t = k
      BY <1>1, <1>2, <1>4, <3>1
    <3>2. CASE t # k
      <4>1. uses[t] = 0 /\ \A q \in Procs : ~Spent(q, t)
        BY <1>5, <2>1, <3>2 DEF ReplayInv
      <4> QED
        BY <1>1, <1>4, <4>1
    <3> QED
      BY <3>1, <3>2
  <2> QED
    BY <2>1
<1>7. \A t \in Tokens : uses'[t] > 0 => proof'[t] # NoPhone
  BY <1>1, <1>2 DEF ReplayInv
<1>8. ASSUME NEW t \in Tokens
      PROVE  uses'[t] + Cardinality(Holders(t))' <= width'
  <2>1. Holders(t)' \subseteq Holders(t) /\ Holders(t) \subseteq Procs
    BY <1>4 DEF Holders
  <2>2. /\ Cardinality(Holders(t)') <= Cardinality(Holders(t))
        /\ Cardinality(Holders(t)') \in Nat /\ Cardinality(Holders(t)) \in Nat
    BY <2>1, HandlersCount
  <2>3. uses[t] \in Nat /\ width \in Nat /\ uses[t] + Cardinality(Holders(t)) <= width
    BY DEF TypeInv, TasksOK, RowsOK, OtherRowsOK, ReplayInv
  <2> QED
    BY <1>1, <1>3, <2>2, <2>3 DEF Counted
<1> QED
  BY <1>3, <1>4, <1>6, <1>7, <1>8 DEF ReplayInv, Counted

(* A token serves, and the handler it served holds it no longer.             *)
LEMMA ServedReplay ==
  ASSUME TypeInv, TypeInv', ProofInv, ReplayInv, NEW p \in Procs, RegisterCreate(p) \/ ChangeUpdate(p)
  PROVE  Counted(p) /\ ReplayInv'
<1>1. /\ UNCHANGED <<rowVars, proof>> /\ Return(p) /\ p \in Busy
  BY DEF RegisterCreate, ChangeUpdate, At, Busy, Idle
<1>2. Counted(p) /\ task'[p] = NoTask
  BY <1>1, ReturnCounts
<1>3. \A t \in Tokens : uses'[t] = uses[t] \/ (uses'[t] = uses[t] + 1 /\ Spent(p, t))
  BY DEF RegisterCreate, ChangeUpdate, At, Spent, TypeInv, RowsOK, OtherRowsOK
<1>4. ASSUME NEW q \in Procs
      PROVE  /\ OldProofInHand(task[q])'
             /\ \A t : /\ Holds(q, t)' => Holds(q, t) /\ q # p
                       /\ Spent(q, t)' => Spent(q, t)
  <2>1. CASE q = p
    BY <1>2, <2>1 DEF OldProofInHand, Holds, Spent, NoTask
  <2>2. CASE q # p
    BY <1>1, <1>2, <2>2 DEF Counted, Moves, ReplayInv, OldProofInHand, Holds, Spent
  <2> QED
    BY <2>1, <2>2
<1>5. ASSUME NEW t \in Tokens, Good(t)'
      PROVE  uses'[t] = 0 /\ \A q \in Procs : ~Spent(q, t)'
  <2>1. Good(t)
    BY <1>1, <1>5, GoodStays
  <2>2. uses[t] = 0 /\ \A q \in Procs : ~Spent(q, t)
    BY <2>1 DEF ReplayInv
  <2> QED
    BY <1>3, <1>4, <2>2
<1>6. ASSUME NEW t \in Tokens, uses'[t] > 0
      PROVE  proof'[t] # NoPhone
  <2>1. CASE Spent(p, t)
    BY <1>1, <2>1 DEF Spent, ProofInv, ProofInHand, ReplayInv, OldProofInHand
  <2>2. CASE ~Spent(p, t)
    BY <1>1, <1>3, <1>6, <2>2 DEF ReplayInv
  <2> QED
    BY <2>1, <2>2
<1>7. ASSUME NEW t \in Tokens
      PROVE  uses'[t] + Cardinality(Holders(t))' <= width'
  <2>1. Holders(t)' \subseteq Holders(t) \ {p} /\ Holders(t) \subseteq Procs
    BY <1>4 DEF Holders
  <2>2. /\ Cardinality(Holders(t)') <= Cardinality(Holders(t) \ {p})
        /\ Cardinality(Holders(t)') \in Nat /\ Cardinality(Holders(t)) \in Nat
        /\ Cardinality(Holders(t) \ {p}) <= Cardinality(Holders(t))
    BY <2>1, HandlersCount
  <2>3. Spent(p, t) => Cardinality(Holders(t) \ {p}) = Cardinality(Holders(t)) - 1
    <3>1. Spent(p, t) => p \in Holders(t)
      BY DEF Spent, Holders, Holds
    <3> QED
      BY <2>1, <3>1, HandlersCount
  <2>4. Cardinality(Holders(t) \ {p}) \in Nat
    BY <2>1, HandlersCount
  <2>5. uses[t] \in Nat /\ width \in Nat /\ uses[t] + Cardinality(Holders(t)) <= width
    BY DEF TypeInv, TasksOK, RowsOK, OtherRowsOK, ReplayInv
  <2> QED
    BY <1>2, <1>3, <2>2, <2>3, <2>4, <2>5 DEF Counted
<1> QED
  BY <1>2, <1>4, <1>5, <1>6, <1>7 DEF ReplayInv, Counted

LEMMA HandlerReplay ==
  ASSUME TypeInv, TypeInv', ProofInv, ReplayInv, NEW p \in Procs,
         Code(p) \/ Register(p) \/ Change(p) \/ Fail(p)
  PROVE  Counted(p) /\ ReplayInv'
<1>1. CASE Code(p)
  BY <1>1, RequestsReplayNone, SendsReplayNone, MarkReplay DEF Code
<1>2. CASE Register(p)
  BY <1>2, RequestsReplayNone, ConsumeReplay, ServedReplay DEF Register
<1>3. CASE Change(p)
  BY <1>3, CheckReplay, ConsumeReplay, ServedReplay DEF Change
<1>4. CASE Fail(p)
  BY <1>4, SendsReplayNone
<1> QED
  BY <1>1, <1>2, <1>3, <1>4

LEMMA ReplayStep ==
  ASSUME TypeInv, TypeInv', ProofInv, ReplayInv, Next
  PROVE  ReplayInv'
<1>1. ASSUME NEW n \in Phones, CodeExpires(n) \/ TokenExpires(n)
      PROVE  ReplayInv'
  <2>1. UNCHANGED <<task, width, token, proof, uses>> /\ \A m \in Phones : tokenFresh'[m] => tokenFresh[m]
    BY <1>1 DEF CodeExpires, TokenExpires, history, TypeInv, RowsOK, OtpRowsOK
  <2> QED
    BY <2>1 DEF ReplayInv, Busy, Idle, OldProofInHand, Good, Verified, Spent, Holders, Holds
<1> QED
  BY <1>1, HandlerReplay DEF Next

LEMMA ReplayInvHolds == Spec => []ReplayInv
<1>1. ReplayInv /\ UNCHANGED phoneVars => ReplayInv'
  BY DEF ReplayInv, phoneVars, Busy, Idle, OldProofInHand, Good, Verified, Spent, Holders, Holds
<1> QED
  BY <1>1, ReplayStarts, ReplayStep, TypeInvHolds, ProofInvHolds, PTL DEF Spec

(* A token serves no more sign-ups and changes of number than handlers were  *)
(* ever in flight at once; if they never overlap, it serves one.             *)
THEOREM VerificationsServeOnce == Spec => []NoReplay
<1>1. TypeInv /\ ReplayInv => NoReplay
  <2> SUFFICES ASSUME TypeInv, ReplayInv, NEW t \in Tokens PROVE uses[t] <= width
    BY DEF NoReplay
  <2>1. Cardinality(Holders(t)) \in Nat
    BY HandlersCount DEF Holders
  <2> QED
    BY <2>1 DEF ReplayInv, TypeInv, TasksOK, RowsOK, OtherRowsOK
<1> QED
  BY <1>1, TypeInvHolds, ReplayInvHolds, PTL

---------------------------------------------------------------------------
(* What takes a verification away.                                          *)

FreshHasCode == \A n \in Phones : tokenFresh[n] => code[n] # NoCode

(* While handlers do not overlap, the row that a failed send removes is the  *)
(* one it wrote, on which there is no verification yet.                      *)
OwnRowIsBare ==
  width <= 1 => \A p \in Procs : task[p].step \in {"sms", "remove"} => ~tokenFresh[task[p].phone]

KeptInv == FreshHasCode /\ OwnRowIsBare

LEMMA KeptStarts == Init => KeptInv
BY DEF Init, KeptInv, FreshHasCode, OwnRowIsBare, NoTask

LEMMA Alone ==
  ASSUME TypeInv, ReplayInv, NEW p \in Procs, Counted(p), width' <= 1, NEW q \in Procs, q # p
  PROVE  task'[q].step = "idle"
<1> SUFFICES ASSUME task'[q].step # "idle" PROVE FALSE
  OBVIOUS
<1>1. task'[q] = task[q]
  BY DEF Counted, Moves
<1>2. q \in Busy /\ q \in Busy' /\ Busy \in SUBSET Procs /\ Busy' \in SUBSET Procs
  BY <1>1 DEF Busy, Idle
<1>3. ASSUME NEW S \in SUBSET Procs, p \in S, q \in S
      PROVE  Cardinality(S) >= 2
  <2>1. /\ Cardinality(S \ {p}) = Cardinality(S) - 1
        /\ Cardinality(S) \in Nat
    BY <1>3, HandlersCount
  <2>2. /\ Cardinality((S \ {p}) \ {q}) = Cardinality(S \ {p}) - 1
        /\ Cardinality((S \ {p}) \ {q}) \in Nat
    BY <1>3, HandlersCount
  <2> QED
    BY <2>1, <2>2
<1>4. width \in Nat /\ width' \in Nat /\ width <= width'
  BY DEF TypeInv, TasksOK, Counted
<1>5. CASE p \in Busy
  <2>1. Cardinality(Busy) >= 2 /\ Cardinality(Busy) \in Nat
    BY <1>2, <1>3, <1>5, HandlersCount
  <2> QED
    BY <1>4, <2>1 DEF ReplayInv
<1>6. CASE p \in Busy'
  <2>1. Cardinality(Busy') >= 2 /\ Cardinality(Busy') \in Nat
    BY <1>2, <1>3, <1>6, HandlersCount
  <2> QED
    BY <1>4, <2>1 DEF Counted
<1> QED
  BY <1>5, <1>6 DEF Counted

LEMMA FreshStep ==
  ASSUME TypeInv, FreshHasCode, Next
  PROVE  FreshHasCode'
<1>1. ASSUME \/ UNCHANGED <<code, tokenFresh>> \/ UNCHANGED rowVars
             \/ \E n : Delete(n)
             \/ \E n, t : Consume(n, t)
      PROVE  FreshHasCode'
  BY <1>1 DEF FreshHasCode, Delete, Consume, SaveCode, rowVars, TypeInv, RowsOK, OtpRowsOK
<1>2. ASSUME NEW n \in Phones, CodeExpires(n) \/ TokenExpires(n)
      PROVE  FreshHasCode'
  BY <1>2 DEF CodeExpires, TokenExpires, FreshHasCode, TypeInv, RowsOK, OtpRowsOK
<1>3. ASSUME NEW p \in Procs, VerifyMark(p) \/ FirebaseMark(p)
      PROVE  FreshHasCode'
  BY <1>3 DEF VerifyMark, FirebaseMark, FreshHasCode, TypeInv, RowsOK, OtpRowsOK
<1>4. ASSUME NEW p \in Procs, SendSave(p) \/ FirebaseSave(p)
      PROVE  FreshHasCode'
  <2>1. PICK c \in Codes : SaveCode(task[p].phone, c)
    BY <1>4 DEF SendSave, FirebaseSave, FreshCodes
  <2> QED
    BY <2>1 DEF FreshHasCode, SaveCode, TypeInv, RowsOK, OtpRowsOK
<1>5. ASSUME NEW p \in Procs, Code(p)
      PROVE  FreshHasCode'
  BY <1>1, <1>3, <1>4, <1>5
     DEF Code, SendBegin, SendOwnBegin, SendCheck, SmsSent, SmsFailed, SendRemove, VerifyRight,
         VerifyWrong, VerifyBump, FirebaseBegin
<1>6. ASSUME NEW p \in Procs, Register(p) \/ Change(p) \/ Fail(p)
      PROVE  FreshHasCode'
  BY <1>1, <1>6
     DEF Register, Change, Fail, RegisterBegin, RegisterConsume, RegisterCreate, ChangeBegin,
         ChangeFindPhone, ChangeCheckOld, ChangeCheckNew, ChangeConsumeOld, ChangeConsumeNew,
         ChangeUpdate
<1> QED
  BY <1>2, <1>5, <1>6 DEF Next

(* The steps that come to text a code or to take it back.                    *)
LEMMA SmsSteps ==
  ASSUME TypeInv, TypeInv', CodesAtHome, OwnRowIsBare, NEW p \in Procs,
         Code(p) \/ Register(p) \/ Change(p) \/ Fail(p),
         task'[p].step \in {"sms", "remove"}, width <= 1
  PROVE  ~tokenFresh'[task'[p].phone]
<1>1. ASSUME Return(p)
      PROVE  FALSE
  BY <1>1, ReturnMoves DEF NoTask
<1>2. ASSUME NEW t, Begin(p, t), t.step \notin {"sms", "remove"}
      PROVE  FALSE
  BY <1>2, BeginMoves
<1>3. ASSUME NEW step \in Steps \ {"sms", "remove"}, Goto(p, step)
      PROVE  FALSE
  BY <1>3, GotoMoves
<1>4. {"saveCode", "firebaseMark", "create", "checkOld", "checkNew", "consumeOld", "consumeNew", "update"}
        \subseteq Steps \ {"sms", "remove"}
  BY DEF Steps
<1>5. CASE SendSave(p)
  <2>1. PICK c \in Codes : /\ task' = [task EXCEPT ![p].step = "sms", ![p].code = c]
                           /\ SaveCode(task[p].phone, c)
    BY <1>5 DEF SendSave, FreshCodes
  <2>2. task[p] \in Tasks /\ task[p].phone \in Phones
    BY <1>5 DEF TypeInv, TasksOK, SendSave, At, CodesAtHome, SendSteps
  <2>3. task'[p].phone = task[p].phone
    BY <2>1, <2>2 DEF Tasks, TypeInv, TasksOK
  <2> QED
    BY <2>1, <2>2, <2>3 DEF SaveCode, TypeInv, RowsOK, OtpRowsOK
<1>6. CASE SmsFailed(p)
  <2>1. task'[p].phone = task[p].phone /\ ~tokenFresh[task[p].phone]
    BY <1>6, GotoMoves DEF SmsFailed, At, OwnRowIsBare
  <2> QED
    BY <1>6, <2>1 DEF SmsFailed, rowVars
<1>7. ASSUME \/ \E n \in Phones : SendBegin(p, n) \/ VerifyRight(p, n) \/ VerifyWrong(p, n)
             \/ \E u \in Users : SendOwnBegin(p, u)
             \/ \E m, n \in Phones : FirebaseBegin(p, m, n)
             \/ \E u \in Users, n \in Phones, t \in HandedOut : RegisterBegin(p, u, n, t)
             \/ \E u \in Users, n \in Phones, t, old \in HandedOut : ChangeBegin(p, u, n, t, old)
      PROVE  FALSE
  <2>1. ASSUME NEW n \in Phones, SendBegin(p, n) \/ VerifyRight(p, n) \/ VerifyWrong(p, n)
        PROVE  FALSE
    BY <1>2, <2>1 DEF SendBegin, VerifyRight, VerifyWrong, NoTask
  <2>2. ASSUME NEW u \in Users, SendOwnBegin(p, u)
        PROVE  FALSE
    BY <1>2, <2>2 DEF SendOwnBegin, NoTask
  <2>3. ASSUME NEW m \in Phones, NEW n \in Phones, FirebaseBegin(p, m, n)
        PROVE  FALSE
    BY <1>2, <2>3 DEF FirebaseBegin, NoTask
  <2>4. ASSUME NEW u \in Users, NEW n \in Phones, NEW t \in HandedOut, RegisterBegin(p, u, n, t)
        PROVE  FALSE
    BY <1>2, <2>4 DEF RegisterBegin, NoTask
  <2>5. ASSUME NEW u \in Users, NEW n \in Phones, NEW t \in HandedOut, NEW old \in HandedOut,
               ChangeBegin(p, u, n, t, old)
        PROVE  FALSE
    BY <1>2, <2>5 DEF ChangeBegin, NoTask
  <2> QED
    BY <1>7, <2>1, <2>2, <2>3, <2>4, <2>5
<1>8. CASE Code(p)
  BY <1>1, <1>3, <1>4, <1>5, <1>6, <1>7, <1>8
     DEF Code, SendCheck, SmsSent, SendRemove, VerifyBump, VerifyMark, FirebaseSave, FirebaseMark
<1>9. CASE Register(p) \/ Change(p) \/ Fail(p)
  BY <1>1, <1>3, <1>4, <1>7, <1>9
     DEF Register, Change, Fail, RegisterConsume, RegisterCreate, ChangeFindPhone, ChangeCheckOld,
         ChangeCheckNew, ChangeConsumeOld, ChangeConsumeNew, ChangeUpdate
<1> QED
  BY <1>8, <1>9

LEMMA BareStep ==
  ASSUME TypeInv, TypeInv', ProofInv, ReplayInv, CodesAtHome, OwnRowIsBare, Next
  PROVE  OwnRowIsBare'
<1>1. ASSUME NEW n \in Phones, CodeExpires(n) \/ TokenExpires(n)
      PROVE  OwnRowIsBare'
  <2>1. UNCHANGED <<task, width>>
    BY <1>1 DEF CodeExpires, TokenExpires
  <2>2. \A p \in Procs : task[p].step \in {"sms", "remove"} => task[p].phone \in Phones
    BY DEF CodesAtHome, SendSteps
  <2>3. \A m \in Phones : tokenFresh'[m] => tokenFresh[m]
    BY <1>1 DEF CodeExpires, TokenExpires, TypeInv, RowsOK, OtpRowsOK
  <2> QED
    BY <2>1, <2>2, <2>3 DEF OwnRowIsBare
<1>2. ASSUME NEW p \in Procs, Code(p) \/ Register(p) \/ Change(p) \/ Fail(p), width' <= 1,
             NEW q \in Procs, task'[q].step \in {"sms", "remove"}
      PROVE  ~tokenFresh'[task'[q].phone]
  <2>1. Counted(p)
    BY <1>2, HandlerReplay
  <2>2. q = p
    BY <1>2, <2>1, Alone
  <2>3. width <= 1
    BY <1>2, <2>1 DEF Counted, TypeInv, TasksOK
  <2> QED
    BY <1>2, <2>2, <2>3, SmsSteps
<1>3. ASSUME NEW p \in Procs, Code(p) \/ Register(p) \/ Change(p) \/ Fail(p)
      PROVE  OwnRowIsBare'
  BY <1>2, <1>3 DEF OwnRowIsBare
<1> QED
  BY <1>1, <1>3 DEF Next

(* Who may take the verification of n away in this step.                     *)
TakenRightly(n) ==
  \/ width' > 1
  \/ code'[n] \notin {code[n], NoCode}
  \/ \E p \in Procs : UsesUp(p, n)
  \/ token'[n] = token[n]

LEMMA TakenByCode ==
  ASSUME TypeInv, TypeInv', CodesAtHome, KeptInv, NEW p \in Procs, Code(p), width <= width',
         NEW n \in Phones, tokenFresh[n], ~tokenFresh'[n]
  PROVE  TakenRightly(n)
<1> USE DEF TypeInv, RowsOK, OtpRowsOK, OtherRowsOK
<1>1. CASE SendSave(p) \/ FirebaseSave(p)
  <2>1. PICK c \in FreshCodes : SaveCode(task[p].phone, c)
    BY <1>1 DEF SendSave, FirebaseSave
  <2>2. n = task[p].phone /\ code'[n] = c
    BY <2>1 DEF SaveCode
  <2>3. c # NoCode /\ c # code[n]
    BY <2>1 DEF FreshCodes, CodesAtHome
  <2> QED
    BY <2>2, <2>3 DEF TakenRightly
<1>2. CASE SendRemove(p)
  <2>1. n = task[p].phone /\ task[p].step = "remove"
    BY <1>2 DEF SendRemove, Delete, At
  <2>2. ~(width <= 1)
    BY <2>1 DEF KeptInv, OwnRowIsBare
  <2> QED
    BY <2>2 DEF TakenRightly, TasksOK
<1>3. CASE VerifyMark(p) \/ FirebaseMark(p)
  <2>1. code[n] # NoCode
    BY DEF KeptInv, FreshHasCode
  <2> QED
    BY <1>3, <2>1 DEF VerifyMark, FirebaseMark
<1>4. CASE UNCHANGED tokenFresh \/ UNCHANGED rowVars
  BY <1>4 DEF rowVars
<1> QED
  BY <1>1, <1>2, <1>3, <1>4
     DEF Code, SendBegin, SendOwnBegin, SendCheck, SmsSent, SmsFailed, VerifyRight, VerifyWrong,
         VerifyBump, FirebaseBegin

LEMMA TakenByUse ==
  ASSUME TypeInv, TypeInv', NEW p \in Procs, Register(p) \/ Change(p) \/ Fail(p),
         NEW n \in Phones, tokenFresh[n], ~tokenFresh'[n]
  PROVE  TakenRightly(n)
<1> USE DEF TypeInv, RowsOK, OtpRowsOK
<1>1. ASSUME NEW step \in {"consumeNew", "update", "create"}, Goto(p, step) \/ Return(p),
             At(p, "consume") \/ At(p, "consumeOld") \/ At(p, "consumeNew"), ~At(p, step)
      PROVE  task'[p] # task[p]
  <2>1. CASE Goto(p, step)
    <3>1. task'[p].step = step /\ task[p].step # step
      BY <1>1, <2>1, GotoMoves DEF At
    <3> QED
      BY <3>1
  <2>2. CASE Return(p)
    <3>1. task'[p].step = "idle" /\ task[p].step # "idle"
      BY <1>1, <2>2, ReturnMoves DEF At, NoTask
    <3> QED
      BY <3>1
  <2> QED
    BY <1>1, <2>1, <2>2
<1>2. CASE RegisterConsume(p)
  <2>1. n = task[p].phone /\ token[n] = task[p].token
    BY <1>2 DEF RegisterConsume, Consume, Delete, Verified, rowVars
  <2> QED
    BY <1>1, <1>2, <2>1 DEF RegisterConsume, At, TakenRightly, UsesUp
<1>3. CASE ChangeConsumeOld(p)
  <2>1. n = task[p].oldPhone /\ token[n] = task[p].oldToken
    BY <1>3 DEF ChangeConsumeOld, Consume, Delete, Verified, rowVars
  <2> QED
    BY <1>1, <1>3, <2>1 DEF ChangeConsumeOld, At, TakenRightly, UsesUp
<1>4. CASE ChangeConsumeNew(p)
  <2>1. n = task[p].phone /\ token[n] = task[p].token
    BY <1>4 DEF ChangeConsumeNew, Consume, Delete, Verified, rowVars
  <2> QED
    BY <1>1, <1>4, <2>1 DEF ChangeConsumeNew, At, TakenRightly, UsesUp
<1>5. CASE UNCHANGED rowVars
  BY <1>5 DEF rowVars
<1> QED
  BY <1>2, <1>3, <1>4, <1>5
     DEF Register, Change, Fail, RegisterBegin, RegisterCreate, ChangeBegin, ChangeFindPhone,
         ChangeCheckOld, ChangeCheckNew, ChangeUpdate

LEMMA TakenStep ==
  ASSUME TypeInv, TypeInv', ProofInv, ReplayInv, CodesAtHome, KeptInv, [Next]_phoneVars
  PROVE  \A n \in Phones : tokenFresh[n] /\ ~tokenFresh'[n] => TakenRightly(n)
<1> SUFFICES ASSUME NEW n \in Phones, tokenFresh[n], ~tokenFresh'[n] PROVE TakenRightly(n)
  OBVIOUS
<1>1. ASSUME NEW p \in Procs, Code(p) \/ Register(p) \/ Change(p) \/ Fail(p)
      PROVE  TakenRightly(n)
  BY <1>1, HandlerReplay, TakenByCode, TakenByUse DEF Counted
<1>2. ASSUME NEW m \in Phones, CodeExpires(m) \/ TokenExpires(m)
      PROVE  TakenRightly(n)
  BY <1>2 DEF CodeExpires, TokenExpires, TakenRightly
<1>3. CASE UNCHANGED phoneVars
  BY <1>3 DEF phoneVars
<1> QED
  BY <1>1, <1>2, <1>3 DEF Next

(* While handlers do not overlap, a verification that is still good goes     *)
(* only by being used, by its time, or by a newer code for the number.       *)
THEOREM VerificationsAreKept == Spec => VerificationKept
<1>1. KeptInv /\ UNCHANGED phoneVars => KeptInv'
  BY DEF KeptInv, FreshHasCode, OwnRowIsBare, phoneVars
<1>2. TypeInv /\ TypeInv' /\ ProofInv /\ ReplayInv /\ CodesAtHome /\ KeptInv /\ Next => KeptInv'
  BY FreshStep, BareStep DEF KeptInv
<1>3. Spec => []KeptInv
  BY <1>1, <1>2, KeptStarts, TypeInvHolds, ProofInvHolds, ReplayInvHolds, CodesAtHomeHolds, PTL DEF Spec
<1>4. TypeInv /\ TypeInv' /\ ProofInv /\ ReplayInv /\ CodesAtHome /\ KeptInv /\ [Next]_phoneVars
        => [\A n \in Phones : tokenFresh[n] /\ ~tokenFresh'[n] => TakenRightly(n)]_phoneVars
  BY TakenStep
<1>5. Spec => [][\A n \in Phones : tokenFresh[n] /\ ~tokenFresh'[n] => TakenRightly(n)]_phoneVars
  BY <1>3, <1>4, TypeInvHolds, ProofInvHolds, ReplayInvHolds, CodesAtHomeHolds, PTL DEF Spec
<1> QED
  BY <1>5 DEF VerificationKept, TakenRightly
=============================================================================
