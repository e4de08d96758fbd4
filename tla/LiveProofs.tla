------------------------------ MODULE LiveProofs ------------------------------
(***************************************************************************)
(* Proved for any number of codes, links, tabs, passengers, maps and       *)
(* handlers, about the components that share nothing but their callers:    *)
(* boarding codes, password links, sessions, live positions, the rooms of  *)
(* a tab's maps and the bell badge.                                        *)
(***************************************************************************)
EXTENDS BoardingCode, Passwords, Sessions, LiveLocation, RideRoom, Badge, FiniteSetTheorems, TLAPS

---------------------------------------------------------------------------
(* Boarding codes.                                                          *)

USE CallersAssumption, BoardingCodesAssumption

JobSteps == {"idle", "send", "compare", "count", "mark"}

Jobs == [step : JobSteps, stage : Stages \cup {"NONE"}, code : BoardingCodes \cup {NoCode}]

BoardingTypeOK ==
  /\ otp \in BoardingCodes \cup {NoCode}
  /\ otpAttempts \in Nat
  /\ stageOf \in [BoardingCodes -> Stages \cup {"NONE"}]
  /\ job \in [Procs -> Jobs]
  /\ otpAnswered \in [BoardingCodes -> Nat]

(* A code somebody may still count a guess at, or has, was sent: a code that *)
(* is sent next is new.                                                      *)
SentBefore(c) == stageOf[c] # "NONE"

CodesWereSent ==
  /\ otp # NoCode => SentBefore(otp)
  /\ \A p \in Procs : job[p].step = "send" => job[p].stage \in Stages
  /\ \A p \in Procs : job[p].step = "count" => job[p].code \in BoardingCodes /\ SentBefore(job[p].code)
  /\ \A c \in BoardingCodes : ~SentBefore(c) => otpAnswered[c] = 0

SentInv == BoardingTypeOK /\ CodesWereSent

USE DEF Stages, JobSteps, Jobs, NoJob, SentStatus, StatusesFrom

LEMMA SentInvStarts == BoardingInit => SentInv
BY DEF BoardingInit, SentInv, BoardingTypeOK, CodesWereSent, SentBefore

(* What a handler does to its job and to the row keeps the invariant.        *)
LEMMA SentInvStep ==
  ASSUME SentInv, BoardingNext
  PROVE  SentInv'
<1> USE DEF SentInv, BoardingTypeOK, CodesWereSent, SentBefore, bookingRow
<1>1. ASSUME NEW p \in Procs, NEW stage \in Stages, SendCodeRead(p, stage) \/ VerifyCodeRead(p, stage)
      PROVE  SentInv'
  BY <1>1 DEF SendCodeRead, VerifyCodeRead, Start
<1>2. ASSUME NEW p \in Procs, SendCodeSave(p)
      PROVE  SentInv'
  <2>1. PICK c \in BoardingCodes : /\ stageOf[c] = "NONE"
                                   /\ stageOf' = [stageOf EXCEPT ![c] = job[p].stage]
                                   /\ otp' = c
    BY <1>2 DEF SendCodeSave
  <2>2. job[p].stage \in Stages /\ job' = [job EXCEPT ![p] = NoJob]
    BY <1>2 DEF SendCodeSave, Continue
  <2>3. otpAttempts' = 0 /\ otpAnswered' = otpAnswered
    BY <1>2 DEF SendCodeSave
  <2>4. BoardingTypeOK'
    BY <2>1, <2>2, <2>3
  <2>5. CodesWereSent'
    BY <2>1, <2>2, <2>3
  <2> QED
    BY <2>4, <2>5
<1>3. ASSUME NEW p \in Procs, SendCodeWait(p)
      PROVE  SentInv'
  BY <1>3 DEF SendCodeWait, Continue
<1>4. ASSUME NEW p \in Procs, VerifyCodeCompare(p)
      PROVE  SentInv'
  <2>1. UNCHANGED <<otp, otpAttempts, stageOf, otpAnswered>>
    BY <1>4 DEF VerifyCodeCompare
  <2>2. ASSUME NEW step \in {"mark", "count"}, otp # NoCode,
               job' = [job EXCEPT ![p] = [job[p] EXCEPT !.step = step, !.code = otp]]
        PROVE  SentInv'
    <3> HIDE DEF SentInv, BoardingTypeOK, CodesWereSent
    <3>0. job[p] \in Jobs /\ otp \in BoardingCodes
      BY <2>2 DEF SentInv, BoardingTypeOK
    <3>1. [job[p] EXCEPT !.step = step, !.code = otp] \in Jobs
      BY <3>0
    <3>2. job' \in [Procs -> Jobs]
      BY <2>2, <3>1 DEF SentInv, BoardingTypeOK
    <3>3. BoardingTypeOK'
      BY <2>1, <3>2 DEF SentInv, BoardingTypeOK
    <3>4. CodesWereSent'
      BY <2>1, <2>2 DEF SentInv, BoardingTypeOK, CodesWereSent
    <3> QED
      BY <3>3, <3>4 DEF SentInv
  <2>3. CASE job' = [job EXCEPT ![p] = NoJob]
    BY <2>1, <2>3
  <2> QED
    BY <1>4, <2>2, <2>3 DEF VerifyCodeCompare, Continue, GuessAllowed
<1>5. ASSUME NEW p \in Procs, VerifyCodeCount(p)
      PROVE  SentInv'
  BY <1>5 DEF VerifyCodeCount, Continue
<1>6. ASSUME NEW p \in Procs, VerifyCodeMark(p)
      PROVE  SentInv'
  BY <1>6 DEF VerifyCodeMark, Continue
<1>7. CASE BoardingCodeExpires
  BY <1>7 DEF BoardingCodeExpires
<1> QED
  BY <1>1, <1>2, <1>3, <1>4, <1>5, <1>6, <1>7 DEF BoardingNext

(* Every code that is current, or that a handler is about to count a guess   *)
(* at, was sent earlier, and no other code has been guessed at.              *)
THEOREM CurrentCodeWasSent == BoardingSpec => []SentInv
<1>1. SentInv /\ UNCHANGED boardingVars => SentInv'
  BY DEF boardingVars, SentInv, BoardingTypeOK, CodesWereSent, SentBefore
<1> QED
  BY <1>1, SentInvStarts, SentInvStep, PTL DEF BoardingSpec

---------------------------------------------------------------------------
(* The refinement mapping, by name.                                         *)
Counted  == IF otp = NoCode THEN 0 ELSE otpAttempts
Counting == [p \in Procs |-> IF job[p].step = "count" THEN job[p].code ELSE NoCode]

(* A handler that is not counting before or after its step leaves what it    *)
(* compares, in the abstract, as it is.                                      *)
LEMMA SameCounting ==
  ASSUME NEW p \in Procs, NEW j, SentInv, job' = [job EXCEPT ![p] = j],
         job[p].step # "count", j.step # "count"
  PROVE  Counting' = Counting
BY DEF Counting, SentInv, BoardingTypeOK

LEMMA SameCountingAtEnd ==
  ASSUME NEW p \in Procs, SentInv, job' = [job EXCEPT ![p] = NoJob], job[p].step # "count"
  PROVE  Counting' = Counting
BY DEF Counting, SentInv, BoardingTypeOK

LEMMA CodeStarts == BoardingInit => BookingCode!Init
BY DEF BoardingInit, BookingCode!Init

(* Each step of the booking is a step of the one-time code place or none.    *)
LEMMA CodeStep ==
  ASSUME SentInv, BoardingNext
  PROVE  BookingCode!Next \/ UNCHANGED BookingCode!codeVars
<1> USE DEF bookingRow
<1>1. ASSUME NEW p \in Procs, NEW stage \in Stages, SendCodeRead(p, stage) \/ VerifyCodeRead(p, stage)
      PROVE  UNCHANGED BookingCode!codeVars
  <2>1. PICK j : job' = [job EXCEPT ![p] = j] /\ j.step # "count"
    BY <1>1 DEF SendCodeRead, VerifyCodeRead, Start
  <2>2. job[p].step # "count"
    BY <1>1 DEF SendCodeRead, VerifyCodeRead, Start
  <2>3. Counting' = Counting
    BY <2>1, <2>2, SameCounting
  <2> QED
    BY <1>1, <2>3 DEF SendCodeRead, VerifyCodeRead, BookingCode!codeVars, Counting
<1>2. ASSUME NEW p \in Procs, SendCodeSave(p)
      PROVE  BookingCode!Issue
  <2>1. PICK c \in BoardingCodes : stageOf[c] = "NONE" /\ otp' = c
    BY <1>2 DEF SendCodeSave
  <2>2. c # otp /\ otpAnswered[c] = 0
    BY <2>1 DEF SentInv, CodesWereSent, SentBefore, BoardingTypeOK
  <2>3. \A q \in Procs : Counting[q] # c
    BY <2>1 DEF Counting, SentInv, CodesWereSent, SentBefore
  <2>4. BookingCode!New(c)
    BY <2>2, <2>3 DEF BookingCode!New, BookingCode!Comparing, Counting
  <2>5. Counting' = Counting
    <3>1. job' = [job EXCEPT ![p] = NoJob] /\ job[p].step # "count"
      BY <1>2 DEF SendCodeSave, Continue
    <3> QED
      BY <3>1, SameCountingAtEnd
  <2>6. otpAttempts' = 0 /\ otpAnswered' = otpAnswered
    BY <1>2 DEF SendCodeSave
  <2> QED
    BY <2>1, <2>2, <2>4, <2>5, <2>6 DEF BookingCode!Issue, Counting
<1>3. ASSUME NEW p \in Procs, SendCodeWait(p)
      PROVE  UNCHANGED BookingCode!codeVars
  <2>1. Counting' = Counting
    <3>1. job' = [job EXCEPT ![p] = NoJob] /\ job[p].step # "count"
      BY <1>3 DEF SendCodeWait, Continue
    <3> QED
      BY <3>1, SameCountingAtEnd
  <2> QED
    BY <1>3, <2>1 DEF SendCodeWait, BookingCode!codeVars, Counting
<1>4. ASSUME NEW p \in Procs, VerifyCodeCompare(p)
      PROVE  BookingCode!Next \/ UNCHANGED BookingCode!codeVars
  <2>1. /\ job[p].step = "compare"
        /\ UNCHANGED <<otp, otpAttempts, otpAnswered>>
    BY <1>4 DEF VerifyCodeCompare
  <2>2. CASE GuessAllowed /\ job' = [job EXCEPT ![p] = [job[p] EXCEPT !.step = "count", !.code = otp]]
    <3>1. Counting' = [Counting EXCEPT ![p] = otp]
      BY <2>2 DEF Counting, SentInv, BoardingTypeOK
    <3>2. Counting[p] = NoCode
      BY <2>1 DEF Counting
    <3>3. BookingCode!Read(p)
      BY <2>1, <2>2, <3>1, <3>2 DEF BookingCode!Read, Counting, GuessAllowed
    <3> QED
      BY <3>3 DEF BookingCode!Next
  <2>3. CASE job' = [job EXCEPT ![p] = NoJob]
    <3>1. Counting' = Counting
      <4>1. job[p].step # "count"
        BY <2>1
      <4> QED
        BY <2>3, <4>1, SameCountingAtEnd
    <3> QED
      BY <2>1, <3>1 DEF BookingCode!codeVars, Counting
  <2>4. CASE job' = [job EXCEPT ![p] = [job[p] EXCEPT !.step = "mark", !.code = otp]]
    <3>1. job[p] \in Jobs
      BY DEF SentInv, BoardingTypeOK
    <3>2. [job[p] EXCEPT !.step = "mark", !.code = otp].step = "mark"
      BY <3>1
    <3>3. Counting' = Counting
      BY <2>1, <2>4, <3>2, SameCounting
    <3> QED
      BY <2>1, <3>3 DEF BookingCode!codeVars, Counting
  <2> QED
    BY <1>4, <2>2, <2>3, <2>4 DEF VerifyCodeCompare, Continue
<1>5. ASSUME NEW p \in Procs, VerifyCodeCount(p)
      PROVE  BookingCode!AnswerWrong(p)
  <2>1. Counting' = [Counting EXCEPT ![p] = NoCode]
    BY <1>5 DEF VerifyCodeCount, Continue, Counting, SentInv, BoardingTypeOK
  <2>2. Counting[p] = job[p].code /\ job[p].code # NoCode
    BY <1>5 DEF VerifyCodeCount, Counting, SentInv, CodesWereSent
  <2>3. /\ otpAttempts' = otpAttempts + 1 /\ otp' = otp
        /\ otpAnswered' = [otpAnswered EXCEPT ![job[p].code] = @ + 1]
    BY <1>5 DEF VerifyCodeCount
  <2> QED
    BY <2>1, <2>2, <2>3 DEF BookingCode!AnswerWrong, Counting
<1>6. ASSUME NEW p \in Procs, VerifyCodeMark(p)
      PROVE  BookingCode!Forget
  <2>1. Counting' = Counting
    <3>1. job' = [job EXCEPT ![p] = NoJob] /\ job[p].step # "count"
      BY <1>6 DEF VerifyCodeMark, Continue
    <3> QED
      BY <3>1, SameCountingAtEnd
  <2> QED
    BY <1>6, <2>1 DEF VerifyCodeMark, BookingCode!Forget, Counting
<1>7. CASE BoardingCodeExpires
  BY <1>7 DEF BoardingCodeExpires, BookingCode!codeVars
<1> QED
  BY <1>1, <1>2, <1>3, <1>4, <1>5, <1>6, <1>7 DEF BoardingNext, BookingCode!Next

(* A booking's code is a one-time code place: verifyOtp compares before it   *)
(* counts, and counts on whatever code the row holds by then.                *)
THEOREM BoardingImplementsCode == BoardingSpec => BoardingCodeLimited
<1>1. UNCHANGED boardingVars => UNCHANGED BookingCode!codeVars
  BY DEF boardingVars, BookingCode!codeVars
<1> QED
  BY <1>1, CodeStarts, CodeStep, CurrentCodeWasSent, PTL
     DEF BoardingSpec, BoardingCodeLimited, BookingCode!Spec

Proved == INSTANCE OneTimeCodeProofs WITH
  Codes <- BoardingCodes, current <- otp, answered <- otpAnswered,
  attempts <- IF otp = NoCode THEN 0 ELSE otpAttempts,
  comparing <- [p \in Procs |-> IF job[p].step = "count" THEN job[p].code ELSE NoCode]

(* A boarding code is answered "wrong" at most once per guess allowed and    *)
(* once for every other handler in flight, whatever is sent meanwhile.       *)
THEOREM BoardingGuessesLimited == BoardingSpec => []BookingCode!Limited
<1>1. Proved!CodeNumbers
  BY DEF Proved!CodeNumbers, IsFiniteSet, Proved!IsFiniteSet
<1>2. Proved!Spec => []Proved!Limited
  BY <1>1, Proved!GuessesLimited
<1>3. BookingCode!Limited <=> Proved!Limited
  BY DEF BookingCode!Limited, Proved!Limited, BookingCode!Cardinality, Proved!Cardinality
<1>4. BookingCode!Init => Proved!Init
  BY DEF BookingCode!Init, Proved!Init
<1>5. BookingCode!Next => Proved!Next
  BY DEF BookingCode!Next, BookingCode!Issue, BookingCode!Forget, BookingCode!Read,
         BookingCode!AnswerWrong, BookingCode!Leave, BookingCode!New, BookingCode!Comparing,
         Proved!Next, Proved!Issue, Proved!Forget, Proved!Read,
         Proved!AnswerWrong, Proved!Leave, Proved!New, Proved!Comparing
<1>6. UNCHANGED BookingCode!codeVars => UNCHANGED Proved!codeVars
  BY DEF BookingCode!codeVars, Proved!codeVars
<1> QED
  BY <1>2, <1>3, <1>4, <1>5, <1>6, BoardingImplementsCode, PTL DEF BoardingCodeLimited, BookingCode!Spec, Proved!Spec

(* The code a booking holds is one for the stage the booking waits in, and   *)
(* while handlers take turns so is the one a handler has matched.            *)
CodeFitsStage == otp # NoCode => stageOf[otp] \in Stages /\ boarding = SentStatus(stageOf[otp])

OneAtWork == \A p, q \in Procs : job[p] # NoJob /\ job[q] # NoJob => p = q

MatchedFits ==
  \A p \in Procs :
    /\ job[p].step = "compare" => boarding = SentStatus(job[p].stage) /\ job[p].stage \in Stages
    /\ job[p].step = "mark" => job[p].stage = stageOf[job[p].code] /\ job[p].code \in BoardingCodes

BoardsInv ==
  /\ SentInv
  /\ CodeFitsStage
  /\ overlapped \in BOOLEAN
  /\ ~overlapped => OneAtWork /\ MatchedFits
  /\ BoardsWithPickupCode

LEMMA BoardsStep ==
  ASSUME BoardsInv, BoardingNext
  PROVE  BoardsInv'
<1> USE DEF BoardsInv, CodeFitsStage, OneAtWork, MatchedFits, BoardsWithPickupCode, bookingRow
<1>0. SentInv'
  BY SentInvStep
<1>t. BoardingTypeOK /\ CodesWereSent
  BY DEF SentInv
<1>u. \A p \in Procs : job[p] \in Jobs
  BY <1>t DEF BoardingTypeOK
<1>1. ASSUME NEW p \in Procs, NEW stage \in Stages, SendCodeRead(p, stage) \/ VerifyCodeRead(p, stage)
      PROVE  BoardsInv'
  <2>1. UNCHANGED <<boarding, otp, stageOf, boardedBy>>
    BY <1>1 DEF SendCodeRead, VerifyCodeRead
  <2>2. PICK j : /\ Start(p, j) /\ j.step \in {"send", "compare"}
                 /\ j.step = "compare" => boarding = SentStatus(j.stage) /\ j.stage \in Stages
    BY <1>1 DEF SendCodeRead, VerifyCodeRead
  <2>3. /\ job' = [job EXCEPT ![p] = j] /\ job'[p] = j
        /\ \A q \in Procs : q # p => job'[q] = job[q]
    BY <1>t, <2>2 DEF Start, BoardingTypeOK
  <2>4. /\ overlapped' \in BOOLEAN
        /\ ~overlapped' => ~overlapped /\ \A q \in Procs : job[q] = NoJob
    BY <2>2 DEF Start
  <2>5. ~overlapped' => OneAtWork' /\ MatchedFits'
    BY <2>1, <2>2, <2>3, <2>4
  <2> QED
    BY <1>0, <2>1, <2>4, <2>5
<1>2. ASSUME NEW p \in Procs, SendCodeSave(p)
      PROVE  BoardsInv'
  <2>1. PICK c \in BoardingCodes : /\ stageOf[c] = "NONE"
                                   /\ stageOf' = [stageOf EXCEPT ![c] = job[p].stage]
                                   /\ otp' = c
    BY <1>2 DEF SendCodeSave
  <2>2. /\ job[p].stage \in Stages /\ job[p] # NoJob
        /\ job' = [job EXCEPT ![p] = NoJob]
        /\ boarding' = SentStatus(job[p].stage)
        /\ UNCHANGED <<overlapped, boardedBy>>
    BY <1>2, <1>t DEF SendCodeSave, Continue, CodesWereSent
  <2>3. CodeFitsStage'
    BY <1>t, <2>1, <2>2 DEF BoardingTypeOK
  <2>4. ~overlapped => \A q \in Procs : job'[q] = NoJob
    BY <1>t, <2>2 DEF BoardingTypeOK
  <2> QED
    BY <1>0, <2>2, <2>3, <2>4
<1>3. ASSUME NEW p \in Procs, SendCodeWait(p)
      PROVE  BoardsInv'
  BY <1>0, <1>3, <1>t DEF SendCodeWait, Continue, BoardingTypeOK
<1>4. ASSUME NEW p \in Procs, VerifyCodeCompare(p)
      PROVE  BoardsInv'
  <2>1. UNCHANGED <<boarding, otp, stageOf, boardedBy, overlapped>> /\ job[p].step = "compare"
    BY <1>4 DEF VerifyCodeCompare, Continue
  <2>2. ASSUME NEW step \in {"mark", "count"}, otp # NoCode,
               job' = [job EXCEPT ![p] = [job[p] EXCEPT !.step = step, !.code = otp]]
        PROVE  BoardsInv'
    <3>1. otp \in BoardingCodes
      BY <1>t, <2>2 DEF BoardingTypeOK
    <3>2. ~overlapped => job[p].stage = stageOf[otp]
      BY <2>1, <2>2
    <3>3. \A q \in Procs : q # p => job'[q] = job[q]
      BY <2>2
    <3>4. job'[p] = [job[p] EXCEPT !.step = step, !.code = otp]
      BY <1>t, <2>2 DEF BoardingTypeOK
    <3>5. ~overlapped => OneAtWork'
      BY <2>1, <3>3
    <3>6. /\ job'[p].step = step /\ job'[p].code = otp
          /\ job'[p].stage = job[p].stage
      BY <1>u, <3>4
    <3>7. ASSUME ~overlapped, NEW q \in Procs
          PROVE  /\ job'[q].step = "compare" => boarding' = SentStatus(job'[q].stage) /\ job'[q].stage \in Stages
                 /\ job'[q].step = "mark" => job'[q].stage = stageOf'[job'[q].code] /\ job'[q].code \in BoardingCodes
      <4>1. CASE q = p
        BY <2>1, <3>1, <3>2, <3>6, <3>7, <4>1
      <4>2. CASE q # p
        BY <2>1, <3>3, <3>7, <4>2
      <4> QED
        BY <4>1, <4>2
    <3>8. ~overlapped => MatchedFits'
      BY <3>7
    <3> QED
      BY <1>0, <2>1, <3>5, <3>8
  <2>3. CASE job' = [job EXCEPT ![p] = NoJob]
    BY <1>0, <1>t, <2>1, <2>3 DEF BoardingTypeOK
  <2> QED
    BY <1>4, <2>2, <2>3 DEF VerifyCodeCompare, Continue, GuessAllowed
<1>5. ASSUME NEW p \in Procs, VerifyCodeCount(p)
      PROVE  BoardsInv'
  BY <1>0, <1>5, <1>t DEF VerifyCodeCount, Continue, BoardingTypeOK
<1>6. ASSUME NEW p \in Procs, VerifyCodeMark(p)
      PROVE  BoardsInv'
  <2>1. /\ job[p].step = "mark" /\ otp' = NoCode
        /\ job' = [job EXCEPT ![p] = NoJob]
        /\ UNCHANGED <<overlapped, stageOf>>
        /\ boardedBy' = IF job[p].stage = "PICKUP" THEN boardedBy \cup {stageOf[job[p].code]} ELSE boardedBy
    BY <1>6 DEF VerifyCodeMark, Continue
  <2>2. ~overlapped => \A q \in Procs : job'[q] = NoJob
    BY <1>t, <2>1 DEF BoardingTypeOK
  <2>3. BoardsWithPickupCode'
    BY <2>1
  <2> QED
    BY <1>0, <2>1, <2>2, <2>3
<1>7. CASE BoardingCodeExpires
  BY <1>0, <1>7 DEF BoardingCodeExpires
<1> QED
  BY <1>1, <1>2, <1>3, <1>4, <1>5, <1>6, <1>7 DEF BoardingNext

(* A passenger boards with a pickup code and nothing else, as long as the    *)
(* handlers of the booking do not overlap.                                   *)
THEOREM PickupCodeBoards == BoardingSpec => []BoardsWithPickupCode
<1>1. BoardingInit => BoardsInv
  <2> SUFFICES ASSUME BoardingInit PROVE BoardsInv
    OBVIOUS
  <2>1. \A p \in Procs : job[p] = NoJob
    BY DEF BoardingInit
  <2>2. otp = NoCode /\ overlapped = FALSE /\ boardedBy = {}
    BY DEF BoardingInit
  <2>3. SentInv
    BY SentInvStarts
  <2>4. CodeFitsStage /\ BoardsWithPickupCode
    BY <2>2 DEF CodeFitsStage, BoardsWithPickupCode
  <2>5. OneAtWork /\ MatchedFits
    BY <2>1 DEF OneAtWork, MatchedFits
  <2> QED
    BY <2>2, <2>3, <2>4, <2>5 DEF BoardsInv
<1>2. BoardsInv /\ UNCHANGED boardingVars => BoardsInv'
  BY DEF boardingVars, BoardsInv, SentInv, BoardingTypeOK, CodesWereSent, SentBefore,
         CodeFitsStage, OneAtWork, MatchedFits, BoardsWithPickupCode
<1>3. BoardsInv => BoardsWithPickupCode
  BY DEF BoardsInv
<1> QED
  BY <1>1, <1>2, <1>3, BoardsStep, PTL DEF BoardingSpec

---------------------------------------------------------------------------
(* Sessions.                                                                *)

CallRecords ==
  [tab : Tabs \cup {NoTab}, kind : {"none", "me", "login", "logout", "profile"},
   user : Users \cup {NoUser}, answer : {"none", "unsent", "ok", "401", "403", "lost"}]

SessionTypeOK ==
  /\ stored \in Users \cup {NoUser}
  /\ shown \in [Tabs -> Users \cup {NoUser}]
  /\ loading \in [Tabs -> BOOLEAN]
  /\ check \in [Tabs -> CallRecords]
  /\ call \in [Calls -> CallRecords]
  /\ lastLogin \in Tabs \cup {NoTab}
  /\ outlived \subseteq Tabs

(* A tab that checks its session shows no page and has no other call under   *)
(* way, so nobody logs in from it.                                           *)
ChecksHoldPages ==
  \A tab \in Tabs : check[tab] # NoCall =>
    /\ loading[tab]
    /\ \A i \in Calls : call[i].tab # tab

(* What the tab that logged in last asks about the profile, it asks by the   *)
(* token that is stored.                                                     *)
CallsAreCurrent ==
  \A i \in Calls :
    /\ call[i].kind = "profile" /\ call[i].answer # "unsent"
    /\ call[i].tab = lastLogin /\ call[i].tab \notin outlived /\ stored # NoUser
    => call[i].user = stored

(* Calls under way are those of tabs.                                        *)
CallsOfTabs == \A i \in Calls : call[i] # NoCall => call[i].tab \in Tabs

SessionInv ==
  SessionTypeOK /\ ChecksHoldPages /\ CallsAreCurrent /\ CallsOfTabs /\ ShownIsStored

LEMMA SessionStep ==
  ASSUME SessionInv, SessionNext
  PROVE  SessionInv'
<1> USE SessionsAssumption DEF SessionInv, SessionTypeOK, ChecksHoldPages, CallsAreCurrent, CallsOfTabs, ShownIsStored,
            CallRecords, NoCall
<1>1. ASSUME NEW u \in Users, SetUserStatus(u)
      PROVE  SessionInv'
  BY <1>1 DEF SetUserStatus
<1>2. ASSUME NEW tab \in Tabs, Reload(tab)
      PROVE  SessionInv'
  <2> USE <1>2 DEF Reload
  <2>1. SessionTypeOK'
    OBVIOUS
  <2>2. ChecksHoldPages'
    OBVIOUS
  <2>3. CallsAreCurrent' /\ CallsOfTabs'
    OBVIOUS
  <2>4. ShownIsStored'
    OBVIOUS
  <2> QED
    BY <2>1, <2>2, <2>3, <2>4
<1>3. ASSUME NEW tab \in Tabs, AnswerCheck(tab)
      PROVE  SessionInv'
  <2>1. PICK a \in {"ok", "401", "403", "lost"} : check' = [check EXCEPT ![tab].answer = a]
    BY <1>3 DEF AnswerCheck, Answers
  <2> QED
    BY <1>3, <2>1 DEF AnswerCheck, Waits
<1>4. ASSUME NEW tab \in Tabs, DeliverMe(tab)
      PROVE  SessionInv'
  <2> USE <1>4 DEF DeliverMe
  <2>1. SessionTypeOK'
    OBVIOUS
  <2>2. ChecksHoldPages'
    OBVIOUS
  <2>3. CallsAreCurrent' /\ CallsOfTabs'
    OBVIOUS
  <2>4. ShownIsStored'
    OBVIOUS
  <2> QED
    BY <2>1, <2>2, <2>3, <2>4
<1>5. ASSUME NEW i \in Calls, NEW tab \in Tabs, NEW kind \in {"login", "logout", "profile"},
             NEW u \in Users \cup {NoUser}, NEW answer \in {"none", "unsent"}, PagesShown(tab),
             kind = "profile" => u = stored \/ answer = "unsent", Send(i, tab, kind, u, answer)
      PROVE  SessionInv'
  <2>1. /\ call' = [call EXCEPT ![i] = [tab |-> tab, kind |-> kind, user |-> u, answer |-> answer]]
        /\ UNCHANGED <<active, stored, shown, loading, check, lastLogin, outlived>>
        /\ check[tab] = NoCall
    BY <1>5 DEF Send, PagesShown
  <2>2. SessionTypeOK' /\ CallsOfTabs' /\ ShownIsStored'
    BY <2>1
  <2>3. ChecksHoldPages'
    BY <2>1
  <2>4. CallsAreCurrent'
    BY <1>5, <2>1
  <2> QED
    BY <2>2, <2>3, <2>4
<1>6. ASSUME NEW i \in Calls, NEW tab \in Tabs, NEW u \in Users, Submit(i, tab, u)
      PROVE  SessionInv'
  BY <1>5, <1>6 DEF Submit
<1>7. ASSUME NEW i \in Calls, NEW tab \in Tabs, NEW kind \in {"logout", "profile"}, Use(i, tab, kind)
      PROVE  SessionInv'
  BY <1>5, <1>7 DEF Use
<1>8. ASSUME NEW i \in Calls, NEW tab \in Tabs, PickPhoto(i, tab)
      PROVE  SessionInv'
  BY <1>5, <1>8 DEF PickPhoto
<1>9. ASSUME NEW i \in Calls, SendPhoto(i)
      PROVE  SessionInv'
  BY <1>9 DEF SendPhoto
<1>10. ASSUME NEW i \in Calls, Answer(i)
       PROVE  SessionInv'
  <2>1. PICK a \in {"ok", "401", "403", "lost"} : call' = [call EXCEPT ![i].answer = a]
    BY <1>10 DEF Answer, Answers
  <2> QED
    BY <1>10, <2>1 DEF Answer, Waits
<1>11. ASSUME NEW i \in Calls, DeliverLogin(i)
       PROVE  SessionInv'
  <2>1. /\ call[i].kind = "login" /\ call[i].tab \in Tabs
        /\ call' = [call EXCEPT ![i] = NoCall]
        /\ UNCHANGED <<active, loading, check>>
    BY <1>11 DEF DeliverLogin, Delivers
  <2>2. check[call[i].tab] = NoCall
    BY <2>1
  <2>3. CASE call[i].answer # "ok"
    BY <1>11, <2>1, <2>3 DEF DeliverLogin, AfterIntercept
  <2>4. CASE call[i].answer = "ok"
    <3> DEFINE tab == call[i].tab
               u == call[i].user
    <3>1. /\ stored' = u /\ shown' = [shown EXCEPT ![tab] = u] /\ lastLogin' = tab
          /\ outlived' = IF CallsForOthers(tab, u) = {} THEN outlived \ {tab} ELSE outlived \cup {tab}
      BY <1>11, <2>4 DEF DeliverLogin
    <3>2. SessionTypeOK' /\ CallsOfTabs'
      BY <2>1, <3>1
    <3>3. ChecksHoldPages'
      BY <2>1, <2>2, <3>1
    <3>4. CallsAreCurrent'
      <4>1. tab \notin outlived' => \A j \in Calls :
              call[j].tab = tab /\ call[j].kind = "profile" /\ call[j].answer # "unsent" => call[j].user = u
        BY <2>1, <3>1 DEF CallsForOthers
      <4> QED
        BY <2>1, <3>1, <4>1
    <3>5. ShownIsStored'
      BY <2>1, <3>1
    <3> QED
      BY <3>2, <3>3, <3>4, <3>5
  <2> QED
    BY <2>3, <2>4
<1>12. ASSUME NEW i \in Calls, DeliverLogout(i)
       PROVE  SessionInv'
  BY <1>12 DEF DeliverLogout, Delivers
<1>13. ASSUME NEW i \in Calls, DeliverProfile(i)
       PROVE  SessionInv'
  <2>1. /\ call[i].kind = "profile" /\ call[i].tab \in Tabs /\ call[i].answer # "unsent"
        /\ call' = [call EXCEPT ![i] = NoCall]
        /\ stored' \in {stored, NoUser}
        /\ shown' = IF call[i].answer = "ok" THEN [shown EXCEPT ![call[i].tab] = call[i].user] ELSE shown
        /\ UNCHANGED <<active, loading, check, lastLogin, outlived>>
    BY <1>13 DEF DeliverProfile, Delivers, AfterIntercept
  <2>2. SessionTypeOK' /\ CallsOfTabs' /\ ChecksHoldPages' /\ CallsAreCurrent'
    BY <2>1
  <2>3. ShownIsStored'
    BY <2>1
  <2> QED
    BY <2>2, <2>3
<1> HIDE DEF SessionInv, SessionTypeOK, ChecksHoldPages, CallsAreCurrent, CallsOfTabs, ShownIsStored
<1> QED
  BY <1>1, <1>2, <1>3, <1>4, <1>6, <1>7, <1>8, <1>9, <1>10, <1>11, <1>12, <1>13 DEF SessionNext

LEMMA SessionInvariant == SessionSpec => []SessionInv
<1>1. SessionInit => SessionInv
  BY DEF SessionInit, SessionInv, SessionTypeOK, ChecksHoldPages, CallsAreCurrent, CallsOfTabs,
         ShownIsStored, CallRecords, NoCall
<1>2. SessionInv /\ UNCHANGED sessionVars => SessionInv'
  BY DEF sessionVars, SessionInv, SessionTypeOK, ChecksHoldPages, CallsAreCurrent, CallsOfTabs,
         ShownIsStored
<1> QED
  BY <1>1, <1>2, SessionStep, PTL DEF SessionSpec

(* Whom a tab shows, or asks the server about when it is reloaded, is whom   *)
(* its requests are made for, unless another tab has logged in since, or it  *)
(* did itself under a call of somebody else's, for any number of tabs, users *)
(* and calls that cross.                                                     *)
THEOREM ShowsWhoIsStored == SessionSpec => []ShownIsStored
<1>1. SessionInv => ShownIsStored
  BY DEF SessionInv
<1> QED
  BY <1>1, SessionInvariant, PTL

---------------------------------------------------------------------------
(* Live positions.                                                          *)

HandlerSteps == {"idle", "join", "booking", "store", "look", "ping"}

(* The positions in memory say whose they are, the persisted ones do not,    *)
(* and nobody is in the room, or about to enter it, whose present connection *)
(* was not checked.                                                          *)
PositionsInv ==
  /\ latest \subseteq {PositionOf(u) : u \in Sharers}
  /\ \A x \in lastPing : x.userType = "none"
  /\ inRoom \subseteq admitted
  /\ serving \in [Procs -> [step : HandlerSteps, user : Sharers \cup {NoUser}]]
  /\ \A p \in Procs : serving[p].step = "join" => serving[p].user \in admitted
  /\ \A p \in Procs : serving[p].step \in {"booking", "store"} => serving[p].user \in Sharers

(* Nothing a user may see in memory is a fellow passenger's position, and    *)
(* the persisted one is not drawn as one.                                    *)
LEMMA AnswersAreOwn == PositionsInv => PositionsStayPrivate
<1> SUFFICES ASSUME PositionsInv, NEW p \in Procs
             PROVE  LET u == serving[p].user  theirs == OfFellows(u, Answered(p)) IN
                    /\ Drawable(theirs) = {}
                    /\ serving[p].step # "ping" => theirs = {}
                    /\ serving[p].step = "store" =>
                         Receivers(u) \subseteq IF u = Rider THEN admitted ELSE {Rider}
  BY DEF PositionsStayPrivate
<1> DEFINE u == serving[p].user
           theirs == OfFellows(u, Answered(p))
<1>1. \A x \in latest : x.userType = "rider" => x.of = Rider
  BY DEF PositionsInv, PositionOf
<1>2. OfFellows(u, Visible(u)) = {}
  BY <1>1 DEF OfFellows, Visible
<1>3. serving[p].step # "ping" => theirs = {}
  BY <1>2 DEF Answered, OfFellows
<1>4. serving[p].step = "ping" => \A x \in theirs : x \in lastPing
  BY DEF Answered, OfFellows
<1>5. Drawable(theirs) = {}
  BY <1>3, <1>4 DEF Drawable, PositionsInv
<1>6. Receivers(u) \subseteq IF u = Rider THEN admitted ELSE {Rider}
  BY DEF Receivers, PositionsInv
<1> QED
  BY <1>3, <1>5, <1>6

LEMMA PositionsStep ==
  ASSUME PositionsInv, LiveNext
  PROVE  PositionsInv'
<1> USE DEF PositionsInv, serverVars, HandlerSteps
<1>1. ASSUME NEW u \in Passengers, Accept(u) \/ BookingEnds(u)
      PROVE  PositionsInv'
  <2>1. UNCHANGED <<latest, lastPing, inRoom, serving, admitted>>
    BY <1>1 DEF Accept, BookingEnds
  <2> QED
    BY <2>1 DEF PositionOf
<1>2. ASSUME NEW u \in Sharers, Leave(u)
      PROVE  PositionsInv'
  <2>1. UNCHANGED <<latest, lastPing, serving, admitted>> /\ inRoom' \subseteq inRoom
    BY <1>2 DEF Leave
  <2> QED
    BY <2>1 DEF PositionOf
<1>3. ASSUME NEW u \in Sharers, Disconnect(u)
      PROVE  PositionsInv'
  <2>1. /\ UNCHANGED <<latest, lastPing>>
        /\ inRoom' = inRoom \ {u} /\ admitted' = admitted \ {u}
        /\ serving' = [p \in Procs |-> IF serving[p] = [step |-> "join", user |-> u] THEN Idle ELSE serving[p]]
    BY <1>3 DEF Disconnect
  <2>2. \A p \in Procs : serving'[p] \in {Idle, serving[p]}
    BY <2>1
  <2>3. serving' \in [Procs -> [step : HandlerSteps, user : Sharers \cup {NoUser}]]
    BY <2>1, <2>2 DEF Idle
  <2>4. ASSUME NEW p \in Procs, serving'[p].step = "join"
        PROVE  serving'[p].user \in admitted'
    <3>1. serving'[p] = serving[p] /\ serving[p] # [step |-> "join", user |-> u]
      BY <2>1, <2>4 DEF Idle
    <3>2. serving[p] = [step |-> serving[p].step, user |-> serving[p].user]
      OBVIOUS
    <3>3. serving[p].user # u
      BY <2>4, <3>1, <3>2
    <3> QED
      BY <2>1, <2>4, <3>1, <3>3
  <2>5. \A p \in Procs : serving'[p].step \in {"booking", "store"} => serving'[p].user \in Sharers
    BY <2>2 DEF Idle
  <2> QED
    BY <2>1, <2>3, <2>4, <2>5 DEF PositionOf
<1>4. ASSUME NEW p \in Procs, NEW u \in Sharers, JoinRead(p, u) \/ UpdateReadRide(p, u) \/ LookRead(p, u)
      PROVE  PositionsInv'
  <2>1. UNCHANGED <<latest, lastPing, inRoom>> /\ admitted \subseteq admitted'
    BY <1>4 DEF JoinRead, UpdateReadRide, LookRead
  <2>2. \E step \in {"join", "booking", "store", "look"} :
          /\ serving' = [serving EXCEPT ![p] = [step |-> step, user |-> u]]
          /\ step = "join" => u \in admitted'
    BY <1>4 DEF JoinRead, UpdateReadRide, LookRead, HandlerStarts
  <2>3. /\ serving' \in [Procs -> [step : HandlerSteps, user : Sharers \cup {NoUser}]]
        /\ \A q \in Procs : serving'[q].step = "join" => serving'[q].user \in admitted'
        /\ \A q \in Procs : serving'[q].step \in {"booking", "store"} => serving'[q].user \in Sharers
    BY <2>1, <2>2
  <2> QED
    BY <2>1, <2>3 DEF PositionOf
<1>5. ASSUME NEW p \in Procs, JoinEnter(p)
      PROVE  PositionsInv'
  BY <1>5 DEF JoinEnter, HandlerEnds, Idle, PositionOf
<1>6. ASSUME NEW p \in Procs, UpdateReadBooking(p) \/ LookAnswer(p) \/ LookPing(p)
      PROVE  PositionsInv'
  <2>1. UNCHANGED <<latest, lastPing, inRoom, admitted>>
    BY <1>6 DEF UpdateReadBooking, LookAnswer, LookPing
  <2>2. HandlerMoves(p, "store") \/ HandlerMoves(p, "ping") \/ HandlerEnds(p)
    BY <1>6 DEF UpdateReadBooking, LookAnswer, LookPing
  <2>3. /\ serving' \in [Procs -> [step : HandlerSteps, user : Sharers \cup {NoUser}]]
        /\ \A q \in Procs : serving'[q].step = "join" => serving'[q].user \in admitted
        /\ \A q \in Procs : serving'[q].step \in {"booking", "store"} => serving'[q].user \in Sharers
    <3>1. CASE HandlerEnds(p)
      BY <3>1 DEF HandlerEnds, Idle
    <3>2. CASE HandlerMoves(p, "store")
      <4>1. serving[p].user \in Sharers
        BY <1>6, <3>2 DEF UpdateReadBooking, LookAnswer, LookPing, HandlerMoves, HandlerEnds, Idle
      <4> QED
        BY <3>2, <4>1 DEF HandlerMoves
    <3>3. CASE HandlerMoves(p, "ping")
      BY <3>3 DEF HandlerMoves
    <3> QED
      BY <2>2, <3>1, <3>2, <3>3
  <2> QED
    BY <2>1, <2>3 DEF PositionOf
<1>7. ASSUME NEW p \in Procs, UpdateStore(p)
      PROVE  PositionsInv'
  <2>1. /\ serving[p].user \in Sharers
        /\ latest' = latest \cup {PositionOf(serving[p].user)}
        /\ lastPing' \in {lastPing, {Persisted(PositionOf(serving[p].user))}}
        /\ UNCHANGED <<inRoom, admitted>>
    BY <1>7 DEF UpdateStore
  <2>2. /\ serving' \in [Procs -> [step : HandlerSteps, user : Sharers \cup {NoUser}]]
        /\ \A q \in Procs : serving'[q].step = "join" => serving'[q].user \in admitted
        /\ \A q \in Procs : serving'[q].step \in {"booking", "store"} => serving'[q].user \in Sharers
    BY <1>7 DEF UpdateStore, HandlerEnds, Idle
  <2>3. latest' \subseteq {PositionOf(u) : u \in Sharers}
    BY <2>1 DEF PositionOf
  <2>4. \A x \in lastPing' : x.userType = "none"
    BY <2>1 DEF PositionOf, Persisted
  <2> QED
    BY <2>1, <2>2, <2>3, <2>4 DEF PositionOf
<1>8. CASE TripEnds
  <2>1. UNCHANGED <<latest, lastPing, inRoom, serving, admitted>>
    BY <1>8 DEF TripEnds
  <2> QED
    BY <2>1 DEF PositionOf
<1>9. CASE Restart
  BY <1>9 DEF Restart, Idle
<1> QED
  BY <1>1, <1>2, <1>3, <1>4, <1>5, <1>6, <1>7, <1>8, <1>9 DEF LiveNext

(* No map draws a fellow passenger's position, none but the persisted ping   *)
(* is even answered, and the rider's goes to nobody whose connection was not *)
(* let in, whatever happens between the awaits of a handler.                 *)
THEOREM PositionsArePrivate == LiveSpec => []PositionsStayPrivate
<1>1. LiveInit => PositionsInv
  BY DEF LiveInit, PositionsInv, HandlerSteps, Idle
<1>2. PositionsInv /\ UNCHANGED liveVars => PositionsInv'
  BY DEF liveVars, serverVars, PositionsInv, PositionOf
<1> QED
  BY <1>1, <1>2, AnswersAreOwn, PositionsStep, PTL DEF LiveSpec

---------------------------------------------------------------------------
(* The maps of a tab and their socket.                                      *)

JoinSteps == {"idle", "up", "server", "joined", "refused"}

RoomTypeOK ==
  /\ showing \in [Maps -> Rides \cup {NoRide}]
  /\ connected \in [Maps -> BOOLEAN]
  /\ join \in [JoinIds -> [map : Maps \cup {NoMap}, ride : Rides \cup {NoRide},
                          mounted : BOOLEAN, at : JoinSteps]]
  /\ up \in Seq(JoinIds \cup {"leave"})
  /\ cut \subseteq Maps /\ left \subseteq Maps /\ newest \subseteq Maps

(* What is on its way up is the joins that were sent, each once, and leaves. *)
UpIsSent ==
  /\ \A k \in 1 .. Len(up) : up[k] # "leave" => join[up[k]].at = "up"
  /\ \A k, l \in 1 .. Len(up) : up[k] = up[l] /\ up[k] # "leave" => k = l

Own(i, m) == join[i].mounted /\ join[i].map = m

(* A map waits for one join at most, that of the ride it shows.              *)
JoinsFitMaps ==
  /\ \A i \in JoinIds : join[i].mounted =>
       join[i].at # "idle" /\ join[i].map \in Maps /\ join[i].ride = showing[join[i].map]
  /\ \A m \in Maps, i, j \in JoinIds : Own(i, m) /\ Own(j, m) => i = j

NoLeaveIn(s) == \A k \in 1 .. Len(s) : s[k] # "leave"

NoLeaveBehind(i) == \A k, l \in 1 .. Len(up) : up[k] = i /\ k < l => up[l] # "leave"

Heard(m) == NoLeaveIn(up) /\ showing[m] \in rooms

(* No leave is on its way behind the join of a map since which no other one  *)
(* left, so none arrives once it is served.                                  *)
NothingLeaves ==
  \A m \in Maps \ (cut \cup left) :
    /\ \A i \in JoinIds : Own(i, m) =>
         /\ join[i].at = "up" => NoLeaveBehind(i)
         /\ join[i].at = "server" => NoLeaveIn(up)
         /\ join[i].at = "joined" => Heard(m)
    /\ connected[m] /\ ~Waiting(m) => Heard(m)

(* The newest map's join is the only one that may still set the ride.        *)
NewestIsLast ==
  \A m \in newest \ (cut \cup left) :
    /\ newest = {m}
    /\ \A i \in JoinIds : UnderWay(i) => Own(i, m)
    /\ \A i \in JoinIds : Own(i, m) /\ join[i].at = "joined" => dataRide = showing[m]
    /\ connected[m] /\ ~Waiting(m) => dataRide = showing[m]

RoomInv == RoomTypeOK /\ UpIsSent /\ JoinsFitMaps /\ NothingLeaves /\ NewestIsLast

(* A join or a leave put at the end of what is on its way.                   *)
LEMMA Queueing ==
  ASSUME NEW S, NEW s \in Seq(S), NEW e \in S
  PROVE  /\ Append(s, e) \in Seq(S)
         /\ Len(Append(s, e)) = Len(s) + 1
         /\ Append(s, e)[Len(s) + 1] = e
         /\ \A k \in 1 .. Len(s) : Append(s, e)[k] = s[k]
OBVIOUS

LEMMA Unqueueing ==
  ASSUME NEW S, NEW s \in Seq(S), s # <<>>
  PROVE  /\ Tail(s) \in Seq(S) /\ Len(s) \in Nat \ {0}
         /\ Len(Tail(s)) = Len(s) - 1
         /\ \A k \in 1 .. Len(s) - 1 : Tail(s)[k] = s[k + 1]
         /\ Head(s) = s[1] /\ Head(s) \in S
OBVIOUS

(* The joins of a map whose effect is cleaned up.                            *)
LEMMA Cleaning ==
  ASSUME RoomTypeOK, NEW m \in Maps, NEW i \in JoinIds
  PROVE  /\ Cleaned(m)[i].at = join[i].at /\ Cleaned(m)[i].map = join[i].map
         /\ Cleaned(m)[i].ride = join[i].ride
         /\ Cleaned(m)[i].mounted = (join[i].mounted /\ join[i].map # m)
         /\ Cleaned(m)[i] \in [map : Maps \cup {NoMap}, ride : Rides \cup {NoRide},
                               mounted : BOOLEAN, at : JoinSteps]
BY DEF Cleaned, RoomTypeOK

LEMMA SendStep ==
  ASSUME RoomInv, NEW m \in Maps, NEW r \in Rides, NEW i \in JoinIds,
         NEW sent, SendJoin(m, r, i, sent), UNCHANGED <<connected, socketVars>>,
         \/ sent = up /\ left' = left \ {m}
         \/ sent = Append(up, "leave") /\ left' = Maps \ {m}
  PROVE  RoomInv'
<1>t. RoomTypeOK /\ UpIsSent /\ JoinsFitMaps /\ NothingLeaves /\ NewestIsLast
  BY DEF RoomInv
<1>1. /\ join[i].at = "idle"
      /\ join' = [Cleaned(m) EXCEPT ![i] = [map |-> m, ride |-> r, mounted |-> TRUE, at |-> "up"]]
      /\ up' = Append(sent, i)
      /\ showing' = [showing EXCEPT ![m] = r]
      /\ cut' = cut \ {m}
      /\ newest' = IF \E j \in JoinIds : UnderWay(j) THEN {} ELSE {m}
      /\ UNCHANGED <<connected, rooms, dataRide>>
  BY DEF SendJoin, socketVars
<1>2. /\ sent \in Seq(JoinIds \cup {"leave"}) /\ Len(up) \in Nat
      /\ Len(sent) \in Nat /\ Len(sent) >= Len(up)
      /\ \A k \in 1 .. Len(up) : sent[k] = up[k]
      /\ \A k \in 1 .. Len(sent) : k > Len(up) => sent[k] = "leave"
      /\ (left' = left \ {m} /\ Len(sent) = Len(up)) \/ left' = Maps \ {m}
  <2>1. up \in Seq(JoinIds \cup {"leave"}) /\ Len(up) \in Nat
    BY <1>t DEF RoomTypeOK
  <2>2. CASE sent = up
    BY <2>1, <2>2
  <2>3. CASE sent = Append(up, "leave") /\ left' = Maps \ {m}
    <3>1. /\ sent \in Seq(JoinIds \cup {"leave"}) /\ Len(sent) = Len(up) + 1
          /\ sent[Len(up) + 1] = "leave"
          /\ \A k \in 1 .. Len(up) : sent[k] = up[k]
      BY <2>1, <2>3, Queueing
    <3> QED
      BY <2>1, <2>3, <3>1
  <2> QED
    BY <2>2, <2>3
<1>3. /\ up' \in Seq(JoinIds \cup {"leave"}) /\ Len(up') = Len(sent) + 1
      /\ up'[Len(sent) + 1] = i
      /\ \A k \in 1 .. Len(sent) : up'[k] = sent[k]
  BY <1>1, <1>2, Queueing
<1>4. /\ join'[i] = [map |-> m, ride |-> r, mounted |-> TRUE, at |-> "up"]
      /\ \A j \in JoinIds \ {i} :
           /\ join'[j].at = join[j].at /\ join'[j].map = join[j].map /\ join'[j].ride = join[j].ride
           /\ join'[j].mounted = (join[j].mounted /\ join[j].map # m)
      /\ join' \in [JoinIds -> [map : Maps \cup {NoMap}, ride : Rides \cup {NoRide},
                              mounted : BOOLEAN, at : JoinSteps]]
  <2>1. Cleaned(m) \in [JoinIds -> [map : Maps \cup {NoMap}, ride : Rides \cup {NoRide},
                                    mounted : BOOLEAN, at : JoinSteps]]
    BY <1>t, Cleaning DEF Cleaned
  <2>2. [map |-> m, ride |-> r, mounted |-> TRUE, at |-> "up"]
          \in [map : Maps \cup {NoMap}, ride : Rides \cup {NoRide}, mounted : BOOLEAN, at : JoinSteps]
    BY DEF JoinSteps
  <2> QED
    BY <1>1, <1>t, <2>1, <2>2, Cleaning
<1>5. RoomTypeOK'
  BY <1>1, <1>2, <1>3, <1>4, <1>t DEF RoomTypeOK
<1>6. UpIsSent'
  <2>1. \A k \in 1 .. Len(up) : up[k] # "leave" => up[k] \in JoinIds \ {i} /\ join[up[k]].at = "up"
    BY <1>1, <1>t DEF UpIsSent, RoomTypeOK
  <2>2. \A k \in 1 .. Len(up') : up'[k] # "leave" =>
          \/ k = Len(sent) + 1 /\ up'[k] = i
          \/ k \in 1 .. Len(up) /\ up'[k] = up[k]
    BY <1>2, <1>3
  <2>3. \A k \in 1 .. Len(up) : up[k] # "leave" => up[k] # i /\ join'[up[k]].at = "up"
    BY <1>4, <2>1
  <2>4. join'[i].at = "up"
    BY <1>4
  <2>5. \A k \in 1 .. Len(up') : up'[k] # "leave" => join'[up'[k]].at = "up"
    BY <2>2, <2>3, <2>4
  <2>6. \A k, l \in 1 .. Len(up') : up'[k] = up'[l] /\ up'[k] # "leave" => k = l
    BY <1>t, <2>2, <2>3 DEF UpIsSent
  <2> QED
    BY <2>5, <2>6 DEF UpIsSent
<1>7. JoinsFitMaps'
  BY <1>1, <1>4, <1>t DEF JoinsFitMaps, RoomTypeOK, Own
<1>8. ASSUME NEW n \in Maps, n # m, n \notin cut' \cup left'
      PROVE  /\ n \notin cut \cup left /\ showing'[n] = showing[n] /\ connected'[n] = connected[n]
             /\ Len(sent) = Len(up)
             /\ \A j \in JoinIds : (Own(j, n)' <=> Own(j, n))
             /\ \A j \in JoinIds : Own(j, n) => j # i /\ join'[j].at = join[j].at
             /\ (Waiting(n)' <=> Waiting(n))
             /\ NoLeaveIn(up) => NoLeaveIn(up')
  <2>1. n \notin cut \cup left /\ showing'[n] = showing[n] /\ connected'[n] = connected[n] /\ Len(sent) = Len(up)
    BY <1>1, <1>2, <1>8, <1>t DEF RoomTypeOK
  <2>2. ~Own(i, n) /\ ~Own(i, n)'
    BY <1>1, <1>4, <1>8, <1>t DEF JoinsFitMaps, Own
  <2>3. \A j \in JoinIds : (Own(j, n)' <=> Own(j, n))
    BY <1>4, <1>8, <2>2 DEF Own
  <2>4. \A j \in JoinIds : Own(j, n) => j # i /\ join'[j].at = join[j].at
    BY <1>4, <2>2
  <2>5. Waiting(n)' <=> Waiting(n)
    BY <2>3 DEF Waiting, Own
  <2>6. NoLeaveIn(up) => NoLeaveIn(up')
    BY <1>2, <1>3, <2>1, RoomAssumption DEF NoLeaveIn
  <2> QED
    BY <2>1, <2>3, <2>4, <2>5, <2>6
<1>9. Waiting(m)' /\ (\A j \in JoinIds : Own(j, m)' => j = i)
  BY <1>4 DEF Waiting, Own
<1>10. NothingLeaves'
  <2>1. ASSUME NEW n \in Maps, n # m, n \notin cut' \cup left', NEW j \in JoinIds, Own(j, n)',
               join'[j].at = "up"
        PROVE  NoLeaveBehind(j)'
    <3>1. NoLeaveBehind(j) /\ j # i /\ Len(sent) = Len(up)
      BY <1>8, <1>t, <2>1 DEF NothingLeaves
    <3> QED
      BY <1>2, <1>3, <3>1, RoomAssumption DEF NoLeaveBehind
  <2>2. ASSUME NEW n \in Maps, n # m, n \notin cut' \cup left'
        PROVE  /\ \A j \in JoinIds : Own(j, n)' =>
                    /\ join'[j].at = "server" => NoLeaveIn(up')
                    /\ join'[j].at = "joined" => Heard(n)'
               /\ connected'[n] /\ ~Waiting(n)' => Heard(n)'
    BY <1>1, <1>8, <1>t, <2>2 DEF NothingLeaves, Heard
  <2>3. NoLeaveBehind(i)'
    <3>1. \A k \in 1 .. Len(up') : up'[k] = i => k = Len(sent) + 1
      BY <1>1, <1>2, <1>3, <1>t, RoomAssumption DEF UpIsSent
    <3> QED
      BY <1>2, <1>3, <3>1 DEF NoLeaveBehind
  <2>4. join'[i].at = "up"
    BY <1>4
  <2> QED
    BY <1>9, <2>1, <2>2, <2>3, <2>4 DEF NothingLeaves
<1>11. NewestIsLast'
  <2>1. SUFFICES ASSUME ~\E j \in JoinIds : UnderWay(j), newest' = {m}
                 PROVE  NewestIsLast'
    BY <1>1 DEF NewestIsLast
  <2>2. \A j \in JoinIds : UnderWay(j)' => j = i
    BY <1>4, <2>1 DEF UnderWay
  <2>3. Own(i, m)' /\ join'[i].at = "up"
    BY <1>4 DEF Own
  <2> QED
    BY <1>9, <2>1, <2>2, <2>3 DEF NewestIsLast
<1> QED
  BY <1>5, <1>6, <1>7, <1>10, <1>11 DEF RoomInv

(* A step of the socket or of an answer, given by what it does to one join.  *)
LEMMA RoomStep ==
  ASSUME RoomInv, RoomNext
  PROVE  RoomInv'
<1>t. RoomTypeOK /\ UpIsSent /\ JoinsFitMaps /\ NothingLeaves /\ NewestIsLast
  BY DEF RoomInv
<1>1. ASSUME NEW m \in Maps, NEW r \in Rides, NEW i \in JoinIds, Mount(m, r, i)
      PROVE  RoomInv'
  BY <1>1, SendStep DEF Mount
<1>2. ASSUME NEW m \in Maps, NEW r \in Rides, NEW i \in JoinIds, Change(m, r, i)
      PROVE  RoomInv'
  BY <1>2, SendStep DEF Change
<1>3. ASSUME NEW m \in Maps, Unmount(m)
      PROVE  RoomInv'
  <2>1. /\ join' = Cleaned(m) /\ up' = Append(up, "leave")
        /\ showing' = [showing EXCEPT ![m] = NoRide]
        /\ connected' = [connected EXCEPT ![m] = FALSE]
        /\ left' = Maps /\ UNCHANGED <<cut, newest>>
    BY <1>3 DEF Unmount
  <2>2. /\ up' \in Seq(JoinIds \cup {"leave"}) /\ Len(up') = Len(up) + 1 /\ Len(up) \in Nat
        /\ up'[Len(up) + 1] = "leave"
        /\ \A k \in 1 .. Len(up) : up'[k] = up[k]
    BY <1>t, <2>1, Queueing DEF RoomTypeOK
  <2>3. \A j \in JoinIds :
          /\ join'[j].at = join[j].at /\ join'[j].map = join[j].map /\ join'[j].ride = join[j].ride
          /\ join'[j].mounted = (join[j].mounted /\ join[j].map # m)
    BY <1>t, <2>1, Cleaning
  <2>4. RoomTypeOK'
    <3>1. join' \in [JoinIds -> [map : Maps \cup {NoMap}, ride : Rides \cup {NoRide},
                               mounted : BOOLEAN, at : JoinSteps]]
      <4>1. join' = [i \in JoinIds |-> IF join[i].map = m THEN [join[i] EXCEPT !.mounted = FALSE]
                                                        ELSE join[i]]
        BY <2>1 DEF Cleaned
      <4>2. \A i \in JoinIds : join'[i] \in [map : Maps \cup {NoMap}, ride : Rides \cup {NoRide},
                                           mounted : BOOLEAN, at : JoinSteps]
        BY <1>t, <2>1, Cleaning
      <4> QED
        BY <4>1, <4>2
    <3> QED
      BY <1>t, <2>1, <2>2, <3>1 DEF RoomTypeOK
  <2>5. UpIsSent'
    <3>1. \A k \in 1 .. Len(up') : up'[k] # "leave" => k \in 1 .. Len(up) /\ up'[k] = up[k]
      BY <2>2
    <3>2. \A k \in 1 .. Len(up) : up[k] # "leave" => up[k] \in JoinIds
      BY <1>t DEF RoomTypeOK
    <3> QED
      BY <1>t, <2>3, <3>1, <3>2 DEF UpIsSent
  <2>6. JoinsFitMaps'
    <3>1. ASSUME NEW j \in JoinIds, join'[j].mounted
          PROVE  join'[j].at # "idle" /\ join'[j].map \in Maps /\ join'[j].ride = showing'[join'[j].map]
      <4>1. join[j].mounted /\ join[j].map # m
        BY <2>3, <3>1
      <4>2. join[j].at # "idle" /\ join[j].map \in Maps /\ join[j].ride = showing[join[j].map]
        BY <1>t, <4>1 DEF JoinsFitMaps
      <4>3. showing'[join[j].map] = showing[join[j].map]
        BY <1>t, <2>1, <4>1, <4>2 DEF RoomTypeOK
      <4> QED
        BY <2>3, <4>2, <4>3
    <3>2. \A n \in Maps, j, k \in JoinIds : Own(j, n)' /\ Own(k, n)' => j = k
      <4>1. \A n \in Maps, j \in JoinIds : Own(j, n)' => Own(j, n)
        BY <2>3 DEF Own
      <4> QED
        BY <1>t, <4>1 DEF JoinsFitMaps
    <3> QED
      BY <3>1, <3>2 DEF JoinsFitMaps
  <2>7. NothingLeaves' /\ NewestIsLast'
    <3>1. \A n \in Maps : n \in left'
      BY <2>1
    <3>2. newest' \subseteq Maps
      BY <2>4 DEF RoomTypeOK
    <3> QED
      BY <3>1, <3>2 DEF NothingLeaves, NewestIsLast
  <2> QED
    BY <2>4, <2>5, <2>6, <2>7 DEF RoomInv
<1>4. ASSUME NEW i \in JoinIds, Acknowledge(i)
      PROVE  RoomInv'
  <2>1. /\ join[i].at \in {"joined", "refused"}
        /\ connected' = IF join[i].mounted
                        THEN [connected EXCEPT ![join[i].map] = (join[i].at = "joined")] ELSE connected
        /\ join' = [join EXCEPT ![i] = NoJoin]
        /\ UNCHANGED <<showing, up, rooms, dataRide, cut, left, newest>>
    BY <1>4 DEF Acknowledge, socketVars
  <2>2. /\ join'[i] = NoJoin /\ \A j \in JoinIds \ {i} : join'[j] = join[j]
        /\ \A n \in Maps : ~Own(i, n)'
    BY <1>t, <2>1 DEF RoomTypeOK, NoJoin, Own
  <2>3. RoomTypeOK'
    BY <1>t, <2>1 DEF RoomTypeOK, NoJoin, JoinSteps
  <2>4. UpIsSent'
    BY <1>t, <2>1, <2>2 DEF UpIsSent, RoomTypeOK
  <2>5. JoinsFitMaps'
    BY <1>t, <2>1, <2>2 DEF JoinsFitMaps, Own, NoJoin
  <2>6. ASSUME NEW n \in Maps
        PROVE  /\ \A j \in JoinIds : Own(j, n)' => Own(j, n) /\ join'[j].at = join[j].at
               /\ connected'[n] /\ ~Waiting(n)' =>
                    \/ Own(i, n) /\ join[i].at = "joined"
                    \/ connected[n] /\ ~Waiting(n)
    <3>1. \A j \in JoinIds : Own(j, n)' => j # i /\ Own(j, n) /\ join'[j].at = join[j].at
      BY <2>2 DEF Own
    <3>2. CASE Own(i, n)
      BY <1>t, <2>1, <3>1, <3>2 DEF Own, RoomTypeOK
    <3>3. CASE ~Own(i, n)
      <4>1. connected'[n] = connected[n]
        BY <1>t, <2>1, <3>3 DEF Own, RoomTypeOK
      <4>2. Waiting(n) => Waiting(n)'
        BY <2>2, <3>3 DEF Waiting, Own
      <4> QED
        BY <3>1, <4>1, <4>2
    <3> QED
      BY <3>1, <3>2, <3>3
  <2>7. NothingLeaves'
    BY <1>t, <2>1, <2>6 DEF NothingLeaves, Heard, NoLeaveBehind
  <2>8. NewestIsLast'
    <3>1. \A j \in JoinIds : UnderWay(j)' => j # i /\ UnderWay(j)
      BY <2>2 DEF UnderWay, NoJoin
    <3>2. \A j \in JoinIds, n \in Maps : j # i => (Own(j, n)' <=> Own(j, n))
      BY <2>2 DEF Own
    <3> QED
      BY <1>t, <2>1, <2>6, <3>1, <3>2 DEF NewestIsLast, RoomTypeOK
  <2> QED
    BY <2>3, <2>4, <2>5, <2>7, <2>8 DEF RoomInv
<1>5. ASSUME NEW i \in JoinIds, NEW at \in {"server", "joined", "refused"},
             join' = [join EXCEPT ![i].at = at],
             (at = "server") <=> (join[i].at = "up"),
             at # "server" => join[i].at = "server",
             UNCHANGED <<showing, connected, cut, left, newest>>
      PROVE  /\ join' \in [JoinIds -> [map : Maps \cup {NoMap}, ride : Rides \cup {NoRide},
                                     mounted : BOOLEAN, at : JoinSteps]]
             /\ join'[i].at = at
             /\ \A j \in JoinIds \ {i} : join'[j] = join[j]
             /\ JoinsFitMaps'
             /\ \A j \in JoinIds, n \in Maps : (Own(j, n)' <=> Own(j, n))
             /\ \A n \in Maps : (Waiting(n)' <=> Waiting(n))
             /\ \A j \in JoinIds : UnderWay(j)' => UnderWay(j)
  <2>1. /\ join' \in [JoinIds -> [map : Maps \cup {NoMap}, ride : Rides \cup {NoRide},
                                mounted : BOOLEAN, at : JoinSteps]]
        /\ join'[i].at = at /\ join'[i].map = join[i].map /\ join'[i].ride = join[i].ride
        /\ join'[i].mounted = join[i].mounted
        /\ \A j \in JoinIds \ {i} : join'[j] = join[j]
    BY <1>5, <1>t DEF RoomTypeOK, JoinSteps
  <2>2. \A j \in JoinIds, n \in Maps : (Own(j, n)' <=> Own(j, n))
    BY <2>1 DEF Own
  <2>3. JoinsFitMaps'
    <3>1. \A m \in Maps, j, k \in JoinIds : Own(j, m)' /\ Own(k, m)' => j = k
      BY <1>t, <2>2 DEF JoinsFitMaps
    <3>2. \A j \in JoinIds : join'[j].mounted =>
            join'[j].at # "idle" /\ join'[j].map \in Maps /\ join'[j].ride = showing'[join'[j].map]
      BY <1>5, <1>t, <2>1 DEF JoinsFitMaps
    <3> QED
      BY <3>1, <3>2 DEF JoinsFitMaps
  <2>4. \A n \in Maps : (Waiting(n)' <=> Waiting(n))
    BY <2>2 DEF Waiting, Own
  <2>5. \A j \in JoinIds : UnderWay(j)' => UnderWay(j)
    BY <1>5, <2>1 DEF UnderWay
  <2> QED
    BY <2>1, <2>2, <2>3, <2>4, <2>5
<1>6. CASE JoinArrives
  <2> DEFINE i == Head(up)
  <2>1. /\ up # <<>> /\ i # "leave" /\ up' = Tail(up)
        /\ join' = [join EXCEPT ![i].at = "server"]
        /\ UNCHANGED <<showing, connected, rooms, dataRide, cut, left, newest>>
    BY <1>6 DEF JoinArrives, socketVars
  <2>2. /\ up' \in Seq(JoinIds \cup {"leave"}) /\ Len(up) \in Nat \ {0} /\ Len(up') = Len(up) - 1
        /\ \A k \in 1 .. Len(up) - 1 : up'[k] = up[k + 1]
        /\ i = up[1] /\ i \in JoinIds
    BY <1>t, <2>1, Unqueueing DEF RoomTypeOK
  <2> HIDE DEF i
  <2>3. join[i].at = "up"
    BY <1>t, <2>1, <2>2 DEF UpIsSent
  <2>4. /\ join' \in [JoinIds -> [map : Maps \cup {NoMap}, ride : Rides \cup {NoRide},
                                mounted : BOOLEAN, at : JoinSteps]]
        /\ join'[i].at = "server"
        /\ \A j \in JoinIds \ {i} : join'[j] = join[j]
        /\ JoinsFitMaps'
        /\ \A j \in JoinIds, n \in Maps : (Own(j, n)' <=> Own(j, n))
        /\ \A n \in Maps : (Waiting(n)' <=> Waiting(n))
        /\ \A j \in JoinIds : UnderWay(j)' => UnderWay(j)
    BY <1>5, <2>1, <2>2, <2>3
  <2>5. RoomTypeOK'
    BY <1>t, <2>1, <2>2, <2>4 DEF RoomTypeOK
  <2>6. UpIsSent'
    <3>1. \A k \in 1 .. Len(up') : up'[k] = up[k + 1] /\ k + 1 \in 1 .. Len(up) /\ k + 1 # 1
      BY <2>2
    <3>2. \A k \in 1 .. Len(up') : up'[k] # "leave" => up'[k] \in JoinIds /\ up'[k] # i
      <4>1. 1 \in 1 .. Len(up) /\ up[1] = i /\ i # "leave"
        BY <2>1, <2>2
      <4>2. \A k \in 1 .. Len(up') : up'[k] # i
        BY <1>t, <3>1, <4>1 DEF UpIsSent
      <4>3. \A k \in 1 .. Len(up') : up'[k] \in JoinIds \cup {"leave"}
        BY <1>t, <3>1 DEF RoomTypeOK
      <4> QED
        BY <4>2, <4>3
    <3>3. \A k \in 1 .. Len(up') : up'[k] # "leave" => join'[up'[k]].at = "up"
      BY <1>t, <2>4, <3>1, <3>2 DEF UpIsSent
    <3>4. \A k, l \in 1 .. Len(up') : up'[k] = up'[l] /\ up'[k] # "leave" => k = l
      BY <1>t, <2>2, <3>1 DEF UpIsSent
    <3> QED
      BY <3>3, <3>4 DEF UpIsSent
  <2>7. /\ NoLeaveIn(up) => NoLeaveIn(up')
        /\ NoLeaveBehind(i) => NoLeaveIn(up')
        /\ \A j \in JoinIds : NoLeaveBehind(j) => NoLeaveBehind(j)'
    <3>1. \A k \in 1 .. Len(up') : up'[k] = up[k + 1] /\ k + 1 \in 1 .. Len(up) /\ 1 < k + 1
      BY <2>2
    <3>2. 1 \in 1 .. Len(up)
      BY <2>2
    <3> QED
      BY <2>2, <3>1, <3>2 DEF NoLeaveIn, NoLeaveBehind
  <2>8. NothingLeaves'
    <3>1. ASSUME NEW n \in Maps \ (cut \cup left), NEW j \in JoinIds, Own(j, n)
          PROVE  /\ join'[j].at = "up" => NoLeaveBehind(j)'
                 /\ join'[j].at = "server" => NoLeaveIn(up')
                 /\ join'[j].at = "joined" => Heard(n)'
      BY <1>t, <2>1, <2>3, <2>4, <2>7, <3>1 DEF NothingLeaves, Heard
    <3>2. ASSUME NEW n \in Maps \ (cut \cup left), connected[n], ~Waiting(n)
          PROVE  Heard(n)'
      BY <1>t, <2>1, <2>7, <3>2 DEF NothingLeaves, Heard
    <3> QED
      BY <2>1, <2>4, <3>1, <3>2 DEF NothingLeaves
  <2>9. NewestIsLast'
    <3>1. \A j \in JoinIds : join'[j].at = "joined" => join[j].at = "joined"
      BY <2>4
    <3> QED
      BY <1>t, <2>1, <2>4, <3>1 DEF NewestIsLast, RoomTypeOK
  <2> QED
    BY <2>4, <2>5, <2>6, <2>8, <2>9 DEF RoomInv
<1>7. CASE LeaveArrives
  <2>1. /\ up # <<>> /\ Head(up) = "leave" /\ up' = Tail(up)
        /\ UNCHANGED <<showing, connected, join, dataRide, cut, left, newest>>
    BY <1>7 DEF LeaveArrives
  <2>2. /\ up' \in Seq(JoinIds \cup {"leave"}) /\ Len(up) \in Nat \ {0} /\ Len(up') = Len(up) - 1
        /\ \A k \in 1 .. Len(up) - 1 : up'[k] = up[k + 1]
        /\ up[1] = "leave"
    BY <1>t, <2>1, Unqueueing DEF RoomTypeOK
  <2>3. \A k \in 1 .. Len(up') : up'[k] = up[k + 1] /\ k + 1 \in 1 .. Len(up)
    BY <2>2
  <2>4. ~NoLeaveIn(up) /\ \A j \in JoinIds : NoLeaveBehind(j) => NoLeaveBehind(j)'
    BY <2>2, <2>3 DEF NoLeaveIn, NoLeaveBehind
  <2>5. RoomTypeOK'
    BY <1>t, <2>1, <2>2 DEF RoomTypeOK
  <2>6. UpIsSent'
    BY <1>t, <2>1, <2>2, <2>3 DEF UpIsSent
  <2>7. JoinsFitMaps' /\ NewestIsLast'
    BY <1>t, <2>1 DEF JoinsFitMaps, NewestIsLast, Own, UnderWay, Waiting
  <2>8. NothingLeaves'
    BY <1>t, <2>1, <2>4 DEF NothingLeaves, Own, Waiting, Heard
  <2> QED
    BY <2>5, <2>6, <2>7, <2>8 DEF RoomInv
<1>8. ASSUME NEW i \in JoinIds, JoinServed(i) \/ JoinRefused(i)
      PROVE  RoomInv'
  <2>1. PICK at \in {"joined", "refused"} :
          /\ join[i].at = "server" /\ join' = [join EXCEPT ![i].at = at]
          /\ at = "joined" => rooms' = rooms \cup {join[i].ride} /\ dataRide' = join[i].ride
          /\ at = "refused" => UNCHANGED <<rooms, dataRide>>
          /\ UNCHANGED <<showing, connected, up, cut, left, newest>>
    BY <1>8 DEF JoinServed, JoinRefused, RoomsAfterJoin, socketVars
  <2>2. /\ join' \in [JoinIds -> [map : Maps \cup {NoMap}, ride : Rides \cup {NoRide},
                                mounted : BOOLEAN, at : JoinSteps]]
        /\ join'[i].at = at
        /\ \A j \in JoinIds \ {i} : join'[j] = join[j]
        /\ JoinsFitMaps'
        /\ \A j \in JoinIds, n \in Maps : (Own(j, n)' <=> Own(j, n))
        /\ \A n \in Maps : (Waiting(n)' <=> Waiting(n))
        /\ \A j \in JoinIds : UnderWay(j)' => UnderWay(j)
    BY <1>5, <2>1
  <2>3. RoomTypeOK'
    BY <1>t, <2>1, <2>2 DEF RoomTypeOK
  <2>4. UpIsSent'
    BY <1>t, <2>1, <2>2 DEF UpIsSent, RoomTypeOK
  <2>5. rooms \subseteq rooms'
    BY <2>1
  <2>6. \A n \in Maps : Own(i, n) => join[i].ride = showing[n]
    BY <1>t DEF JoinsFitMaps, Own
  <2>7. NothingLeaves'
    <3>1. ASSUME NEW n \in Maps \ (cut \cup left), NEW j \in JoinIds, Own(j, n)
          PROVE  /\ join'[j].at = "up" => NoLeaveBehind(j)'
                 /\ join'[j].at = "server" => NoLeaveIn(up')
                 /\ join'[j].at = "joined" => Heard(n)'
      <4>1. CASE j = i
        BY <1>t, <2>1, <2>2, <2>6, <3>1, <4>1 DEF NothingLeaves, Heard
      <4>2. CASE j # i
        BY <1>t, <2>1, <2>2, <2>5, <3>1, <4>2 DEF NothingLeaves, Heard, NoLeaveBehind
      <4> QED
        BY <4>1, <4>2
    <3>2. ASSUME NEW n \in Maps \ (cut \cup left), connected[n], ~Waiting(n)
          PROVE  Heard(n)'
      BY <1>t, <2>1, <2>5, <3>2 DEF NothingLeaves, Heard
    <3> QED
      BY <2>1, <2>2, <3>1, <3>2 DEF NothingLeaves
  <2>8. NewestIsLast'
    <3>1. SUFFICES ASSUME NEW n \in newest \ (cut \cup left)
                   PROVE  /\ newest = {n}
                          /\ \A j \in JoinIds : UnderWay(j)' => Own(j, n)'
                          /\ \A j \in JoinIds : Own(j, n)' /\ join'[j].at = "joined" => dataRide' = showing[n]
                          /\ connected[n] /\ ~Waiting(n) => dataRide' = showing[n]
      BY <1>t, <2>1, <2>2 DEF NewestIsLast, RoomTypeOK
    <3>2. /\ n \in Maps /\ newest = {n}
          /\ \A j \in JoinIds : UnderWay(j) => Own(j, n)
      BY <1>t, <3>1 DEF NewestIsLast, RoomTypeOK
    <3>3. Own(i, n) /\ Waiting(n) /\ (\A j \in JoinIds : Own(j, n) => j = i)
      BY <1>t, <2>1, <3>2 DEF UnderWay, JoinsFitMaps, Waiting, Own
    <3>4. join'[i].at = "joined" => dataRide' = showing[n]
      BY <2>1, <2>2, <2>6, <3>2, <3>3
    <3> QED
      BY <2>2, <3>2, <3>3, <3>4
  <2> QED
    BY <2>2, <2>3, <2>4, <2>7, <2>8 DEF RoomInv
<1>9. CASE Reconnect
  <2>1. /\ up' = <<>> /\ join' = [i \in JoinIds |-> NoJoin] /\ cut' = Maps /\ newest' = {}
        /\ UNCHANGED <<showing, connected, left>>
    BY <1>9 DEF Reconnect
  <2>2. RoomTypeOK' /\ UpIsSent'
    BY <1>t, <2>1 DEF RoomTypeOK, UpIsSent, NoJoin, JoinSteps
  <2>3. JoinsFitMaps'
    BY <2>1 DEF JoinsFitMaps, Own, NoJoin
  <2>4. NothingLeaves' /\ NewestIsLast'
    BY <2>1 DEF NothingLeaves, NewestIsLast
  <2> QED
    BY <2>2, <2>3, <2>4 DEF RoomInv
<1> QED
  BY <1>1, <1>2, <1>3, <1>4, <1>6, <1>7, <1>8, <1>9 DEF RoomNext

(* A map that says it is connected listens to its ride, and the last to join *)
(* sends to its own, until another map leaves or the line drops: for any     *)
(* number of maps, rides and joins, and however joins, leaves and answers    *)
(* cross on the network.                                                     *)
THEOREM ConnectedMapsListen == RoomSpec => []MapIsConnected
<1>1. RoomInit => RoomInv
  <2> SUFFICES ASSUME RoomInit PROVE RoomInv
    OBVIOUS
  <2>1. /\ up = <<>> /\ Len(up) = 0 /\ up \in Seq(JoinIds \cup {"leave"})
        /\ \A i \in JoinIds : join[i] = NoJoin
        /\ \A m \in Maps : ~connected[m]
    BY DEF RoomInit
  <2>2. RoomTypeOK
    BY <2>1 DEF RoomInit, RoomTypeOK, NoJoin, JoinSteps
  <2> QED
    BY <2>1, <2>2 DEF RoomInit, RoomInv, UpIsSent, JoinsFitMaps, NothingLeaves, NewestIsLast, Own, NoJoin
<1>2. RoomInv /\ UNCHANGED roomVars => RoomInv'
  BY DEF roomVars, socketVars, RoomInv, RoomTypeOK, UpIsSent, JoinsFitMaps, NothingLeaves, NewestIsLast,
         Own, Waiting, UnderWay, Heard, NoLeaveIn, NoLeaveBehind
<1>3. RoomInv => MapIsConnected
  BY DEF RoomInv, NothingLeaves, NewestIsLast, Heard, MapIsConnected
<1> QED
  BY <1>1, <1>2, <1>3, RoomStep, PTL DEF RoomSpec

---------------------------------------------------------------------------
(* The bell badge.                                                          *)

USE BadgeAssumption

(* While nothing came or was read since the page changed, nothing is on its  *)
(* way, and the page's list, once read, has what is unread.                  *)
ListIsCurrent ==
  ~overlap =>
    /\ emitting = 0 /\ events = 0
    /\ \A f \in fetches : f.page = page /\ f.unread # NotRead => f.unread = unread

BadgeTypeOK ==
  /\ rows \in Nat /\ unread \in Nat /\ emitting \in Nat /\ events \in Nat
  /\ unreadCount \in Nat
  /\ fetches \in SUBSET [page : 0 .. MaxFetches, unread : Nat]
  /\ IsFiniteSet(fetches)
  /\ page \in 0 .. MaxFetches
  /\ overlap \in BOOLEAN /\ astray \in BOOLEAN

BadgeInv == BadgeTypeOK /\ ListIsCurrent /\ BadgeCountsUnread

(* There is a page no list is on its way for, for ChangePage to go to.       *)
LEMMA AnotherPage ==
  ASSUME BadgeTypeOK, Cardinality(fetches) < MaxFetches
  PROVE  \E n \in 0 .. MaxFetches : \A f \in fetches : f.page # n
<1> USE DEF BadgeTypeOK
<1> DEFINE pages == {f.page : f \in fetches}
<1>1. IsFiniteSet(pages) /\ Cardinality(pages) <= Cardinality(fetches)
  <2> DEFINE g == [f \in fetches |-> f.page]
  <2>1. g \in Surjection(fetches, pages)
    BY DEF Surjection
  <2> QED
    BY <2>1, FS_Surjection
<1>2. Cardinality(0 .. MaxFetches) = MaxFetches + 1
  BY FS_Interval
<1>3. ~((0 .. MaxFetches) \subseteq pages)
  <2>1. ASSUME (0 .. MaxFetches) \subseteq pages
        PROVE  FALSE
    <3>1. Cardinality(0 .. MaxFetches) <= Cardinality(pages)
      BY <1>1, <2>1, FS_Subset
    <3>2. Cardinality(pages) \in Nat /\ Cardinality(fetches) \in Nat
      BY <1>1, FS_CardinalityType
    <3> HIDE DEF pages
    <3> QED
      BY <1>1, <1>2, <3>1, <3>2
  <2> QED
    BY <2>1
<1> QED
  BY <1>3

LEMMA BadgeStep ==
  ASSUME BadgeInv, BadgeNext
  PROVE  BadgeInv'
<1> USE DEF BadgeInv, BadgeTypeOK, ListIsCurrent, BadgeCountsUnread
<1>1. CASE Dispatch
  BY <1>1 DEF Dispatch, NotRead
<1>2. CASE Emit
  <2>1. /\ emitting > 0 /\ emitting' = emitting - 1
        /\ UNCHANGED <<rows, unread, fetches, page, unreadCount>>
    BY <1>2 DEF Emit
  <2>2. CASE events' = events + 1 /\ UNCHANGED <<overlap, astray>>
    <3>1. overlap
      BY <2>1
    <3> QED
      BY <2>1, <2>2, <3>1
  <2>3. CASE overlap' = TRUE /\ astray' = TRUE /\ UNCHANGED events
    BY <2>1, <2>3
  <2> QED
    BY <1>2, <2>2, <2>3 DEF Emit
<1>3. CASE OnNotification
  BY <1>3 DEF OnNotification
<1>4. CASE MarkRead
  BY <1>4 DEF MarkRead
<1>5. CASE ChangePage
  <2> DEFINE next == CHOOSE n \in 0 .. MaxFetches : \A f \in fetches : f.page # n
  <2>1. next \in 0 .. MaxFetches /\ \A f \in fetches : f.page # next
    BY <1>5, AnotherPage DEF ChangePage
  <2>2. page' = next /\ fetches' = fetches \cup {[page |-> next, unread |-> NotRead]}
    BY <1>5 DEF ChangePage
  <2>3. overlap' = (emitting + events > 0) /\ UNCHANGED <<rows, unread, emitting, events, unreadCount, astray>>
    BY <1>5 DEF ChangePage
  <2> HIDE DEF next
  <2>4. IsFiniteSet(fetches')
    BY <2>2, FS_AddElement
  <2>5. BadgeTypeOK'
    BY <2>1, <2>2, <2>3, <2>4 DEF NotRead
  <2>6. ListIsCurrent'
    BY <2>1, <2>2, <2>3
  <2> QED
    BY <2>3, <2>5, <2>6
<1>6. ASSUME NEW f \in fetches, ListRead(f)
      PROVE  BadgeInv'
  <2>1. /\ fetches' = (fetches \ {f}) \cup {[f EXCEPT !.unread = unread]}
        /\ UNCHANGED <<rows, unread, emitting, events, page, unreadCount, overlap, astray>>
    BY <1>6 DEF ListRead
  <2>2. IsFiniteSet(fetches')
    BY <2>1, FS_RemoveElement, FS_AddElement
  <2>3. BadgeTypeOK'
    BY <2>1, <2>2
  <2>4. ListIsCurrent'
    BY <2>1
  <2> QED
    BY <2>1, <2>3, <2>4
<1>7. ASSUME NEW f \in fetches, ListArrives(f)
      PROVE  BadgeInv'
  <2>1. IsFiniteSet(fetches')
    BY <1>7, FS_RemoveElement DEF ListArrives
  <2> QED
    BY <1>7, <2>1 DEF ListArrives, Cancelled
<1> QED
  BY <1>1, <1>2, <1>3, <1>4, <1>5, <1>6, <1>7 DEF BadgeNext

(* The badge counts the unread notifications it has heard of, unless one was *)
(* stored, read or lost while a list was on its way.                         *)
THEOREM BadgeIsRight == BadgeSpec => []BadgeCountsUnread
<1>1. BadgeInit => BadgeInv
  <2>1. IsFiniteSet({}) /\ 0 \in 0 .. MaxFetches
    BY FS_EmptySet
  <2>2. ASSUME BadgeInit
        PROVE  BadgeTypeOK
    <3>1. IsFiniteSet(fetches) /\ fetches \in SUBSET [page : 0 .. MaxFetches, unread : Nat]
      BY <2>1, <2>2 DEF BadgeInit
    <3>2. /\ rows = 0 /\ unread = 0 /\ emitting = 0 /\ events = 0 /\ unreadCount = 0
          /\ page = 0 /\ overlap = FALSE /\ astray = FALSE
      BY <2>2 DEF BadgeInit
    <3> QED
      BY <2>1, <3>1, <3>2 DEF BadgeTypeOK
  <2>3. BadgeInit => ListIsCurrent /\ BadgeCountsUnread
    BY DEF BadgeInit, ListIsCurrent, BadgeCountsUnread
  <2> QED
    BY <2>2, <2>3 DEF BadgeInv
<1>2. BadgeInv /\ UNCHANGED badgeVars => BadgeInv'
  BY DEF badgeVars, BadgeInv, BadgeTypeOK, ListIsCurrent, BadgeCountsUnread
<1>3. BadgeInv => BadgeCountsUnread
  BY DEF BadgeInv
<1> QED
  BY <1>1, <1>2, <1>3, BadgeStep, PTL DEF BadgeSpec

---------------------------------------------------------------------------
(* Password links.                                                          *)

USE LinksAssumption

Working    == {q \in Procs : work[q] # NoWork}
Holding(l) == {q \in Procs : work[q].link = l}

PasswordTypeOK ==
  /\ link \in [Users -> Links \cup {NoLink}]
  /\ mailed \in SUBSET Links
  /\ work \in [Procs -> [step : {"idle", "saveLink", "setPassword"}, user : Users \cup {NoUser},
                         link : Links \cup {NoLink}]]
  /\ resets \in [Links -> Nat]
  /\ handlers \in Nat

(* A link is on one account at most, where it has set no password yet, and   *)
(* the handlers that hold it found it there.                                 *)
LinksInPlace ==
  /\ \A u, v \in Users : link[u] = link[v] /\ link[u] # NoLink => u = v
  /\ \A u \in Users : link[u] # NoLink => link[u] \in mailed /\ resets[link[u]] = 0
  /\ \A p \in Procs :
       /\ work[p].step = "setPassword" <=> work[p].link # NoLink
       /\ work[p].link # NoLink => work[p].link \in mailed /\ work[p].user \in Users
       /\ work[p].step = "saveLink" => work[p].user \in Users
       /\ \A u \in Users : work[p].link # NoLink /\ link[u] = work[p].link => work[p].user = u
  /\ \A l \in Links : l \notin mailed => resets[l] = 0

(* The passwords a link has set and those it is about to set were asked for  *)
(* by handlers that were in flight at once.                                  *)
LinksCounted ==
  /\ Cardinality(Working) <= handlers
  /\ \A l \in Links : resets[l] + Cardinality(Holding(l)) <= handlers

PasswordInv == PasswordTypeOK /\ LinksInPlace /\ LinksCounted

LEMMA HandlersAreFinite ==
  /\ IsFiniteSet(Working) /\ Cardinality(Working) \in Nat
  /\ \A l \in Links :
       /\ Cardinality(Holding(l)) \in Nat /\ IsFiniteSet(Holding(l))
       /\ Cardinality(Holding(l)) <= Cardinality(Working)
<1>1. IsFiniteSet(Working) /\ Cardinality(Working) \in Nat
  BY FS_Subset, FS_CardinalityType DEF Working
<1>2. ASSUME NEW l \in Links
      PROVE  Holding(l) \in SUBSET Working
  BY DEF Holding, Working, NoWork
<1> QED
  BY <1>1, <1>2, FS_Subset, FS_CardinalityType

(* Beginning and finishing, on the counts.                                   *)
LEMMA TakeCounts ==
  ASSUME PasswordTypeOK, LinksCounted, NEW p \in Procs, NEW w, Take(p, w), w # NoWork
  PROVE  /\ work[p] = NoWork /\ work' = [work EXCEPT ![p] = w]
         /\ handlers' \in Nat /\ handlers <= handlers'
         /\ Cardinality(Working') <= handlers'
<1> USE DEF PasswordTypeOK, LinksCounted
<1>1. Working' = Working \cup {p} /\ p \notin Working
  BY DEF Take, Working
<1>2. Cardinality(Working') = Cardinality(Working) + 1
  BY <1>1, HandlersAreFinite, FS_AddElement
<1>3. handlers' = IF Cardinality(Working) + 1 > handlers THEN Cardinality(Working) + 1 ELSE handlers
  BY DEF Take, Working
<1> QED
  BY <1>1, <1>2, <1>3, HandlersAreFinite DEF Take, Working

LEMMA FinishCounts ==
  ASSUME PasswordTypeOK, LinksCounted, NEW p \in Procs, Finish(p)
  PROVE  /\ work' = [work EXCEPT ![p] = NoWork] /\ handlers' = handlers
         /\ Cardinality(Working') <= handlers'
         /\ \A l \in Links :
              Cardinality(Holding(l)') = IF work[p].link = l THEN Cardinality(Holding(l)) - 1
                                                             ELSE Cardinality(Holding(l))
<1> USE DEF PasswordTypeOK, LinksCounted
<1>1. Working' \in SUBSET Working
  BY DEF Finish, Working
<1>2. Cardinality(Working') <= Cardinality(Working)
  BY <1>1, HandlersAreFinite, FS_Subset
<1>3. Cardinality(Working') \in Nat
  BY <1>1, HandlersAreFinite, FS_Subset, FS_CardinalityType
<1>4. ASSUME NEW l \in Links
      PROVE  Holding(l)' = Holding(l) \ {p}
  BY DEF Finish, Holding, NoWork
<1>5. ASSUME NEW l \in Links
      PROVE  Cardinality(Holding(l)') = IF work[p].link = l THEN Cardinality(Holding(l)) - 1
                                                            ELSE Cardinality(Holding(l))
  <2>1. p \in Holding(l) <=> work[p].link = l
    BY DEF Holding
  <2>2. CASE p \in Holding(l)
    <3>1. IsFiniteSet(Holding(l))
      BY HandlersAreFinite
    <3>2. Cardinality(Holding(l) \ {p}) = Cardinality(Holding(l)) - 1
      BY <2>2, <3>1, FS_RemoveElement
    <3>3. Cardinality(Holding(l)') = Cardinality(Holding(l)) - 1
      BY <1>4, <3>2, Zenon
    <3> QED
      BY <2>1, <2>2, <3>3, Zenon
  <2>3. CASE p \notin Holding(l)
    <3>1. Holding(l) \ {p} = Holding(l)
      BY <2>3
    <3>2. Holding(l)' = Holding(l)
      BY <1>4, <3>1, Zenon
    <3> QED
      BY <2>1, <2>3, <3>2, Zenon
  <2> QED
    BY <2>2, <2>3
<1>6. Cardinality(Working') <= handlers'
  BY <1>2, <1>3, HandlersAreFinite DEF Finish
<1> QED
  BY <1>5, <1>6 DEF Finish

LEMMA PasswordStep ==
  ASSUME PasswordInv, PasswordNext
  PROVE  PasswordInv'
<1> USE DEF PasswordInv, PasswordTypeOK
<1>1. ASSUME NEW p \in Procs, NEW u \in Users, ForgotFind(p, u)
      PROVE  PasswordInv'
  <2> DEFINE w == [step |-> "saveLink", user |-> u, link |-> NoLink]
  <2>1. w # NoWork /\ UNCHANGED <<link, mailed, resets>>
    BY <1>1 DEF ForgotFind, NoWork
  <2>2. /\ work[p] = NoWork /\ work' = [work EXCEPT ![p] = w]
        /\ handlers' \in Nat /\ handlers <= handlers'
        /\ Cardinality(Working') <= handlers'
    BY <1>1, <2>1, TakeCounts DEF ForgotFind
  <2>3. PasswordTypeOK' /\ LinksInPlace'
    BY <2>1, <2>2 DEF LinksInPlace, NoWork
  <2>4. ASSUME NEW l \in Links
        PROVE  Holding(l)' = Holding(l)
    BY <2>2 DEF Holding, NoWork
  <2>5. LinksCounted'
    BY <2>1, <2>2, <2>4, HandlersAreFinite DEF LinksCounted
  <2> QED
    BY <2>3, <2>5
<1>2. ASSUME NEW p \in Procs, ForgotSave(p)
      PROVE  PasswordInv'
  <2>1. PICK l \in Links \ mailed :
          link' = [link EXCEPT ![work[p].user] = l] /\ mailed' = mailed \cup {l}
    BY <1>2 DEF ForgotSave
  <2>2. work[p].step = "saveLink" /\ Finish(p) /\ resets' = resets
    BY <1>2 DEF ForgotSave
  <2>3. PasswordTypeOK' /\ LinksInPlace'
    <3>1. work' = [work EXCEPT ![p] = NoWork] /\ handlers' = handlers
      BY <2>2 DEF Finish
    <3>2. PasswordTypeOK'
      BY <2>1, <2>2, <3>1 DEF NoWork
    <3>3. LinksInPlace'
      BY <2>1, <2>2, <3>1 DEF NoWork, LinksInPlace
    <3> QED
      BY <3>2, <3>3
  <2>4. LinksCounted'
    BY <2>2, FinishCounts, HandlersAreFinite DEF LinksCounted
  <2> QED
    BY <2>3, <2>4
<1>3. ASSUME NEW p \in Procs, NEW u \in Users, NEW l \in mailed, ResetFind(p, u, l)
      PROVE  PasswordInv'
  <2> DEFINE w == [step |-> "setPassword", user |-> u, link |-> l]
  <2>1. w # NoWork /\ UNCHANGED <<link, mailed, resets>> /\ link[u] = l /\ l # NoLink
    BY <1>3 DEF ResetFind, NoWork, LinkValid
  <2>2. /\ work[p] = NoWork /\ work' = [work EXCEPT ![p] = w]
        /\ handlers' \in Nat /\ handlers <= handlers'
        /\ Cardinality(Working') <= handlers'
    BY <1>3, <2>1, TakeCounts DEF ResetFind
  <2>3. PasswordTypeOK' /\ LinksInPlace'
    BY <2>1, <2>2 DEF LinksInPlace, NoWork
  <2>4. ASSUME NEW k \in Links
        PROVE  resets'[k] + Cardinality(Holding(k)') <= handlers'
    <3>1. CASE k = l
      <4>1. resets'[l] = 0
        BY <2>1 DEF LinksInPlace
      <4>2. Cardinality(Holding(l)') <= Cardinality(Working') /\ Cardinality(Working') \in Nat
              /\ Cardinality(Holding(l)') \in Nat
        <5>1. Holding(l)' \in SUBSET Working'
          BY <2>1 DEF Holding, Working, NoWork
        <5>2. IsFiniteSet(Working')
          BY FS_Subset DEF Working
        <5> QED
          BY <5>1, <5>2, FS_Subset, FS_CardinalityType
      <4> QED
        BY <2>2, <3>1, <4>1, <4>2
    <3>2. CASE k # l
      <4>1. Holding(k)' = Holding(k)
        BY <2>2, <3>2 DEF Holding, NoWork
      <4> QED
        BY <2>1, <2>2, <4>1, HandlersAreFinite DEF LinksCounted
    <3> QED
      BY <3>1, <3>2
  <2>5. LinksCounted'
    BY <2>2, <2>4 DEF LinksCounted
  <2> QED
    BY <2>3, <2>5
<1>4. ASSUME NEW p \in Procs, ResetSave(p)
      PROVE  PasswordInv'
  <2> DEFINE u == work[p].user
             l == work[p].link
  <2>1. /\ u \in Users /\ l \in Links /\ l # NoLink /\ l \in mailed
        /\ link' = [link EXCEPT ![u] = NoLink]
        /\ resets' = [resets EXCEPT ![l] = @ + 1]
        /\ Finish(p) /\ mailed' = mailed
    BY <1>4 DEF ResetSave, LinksInPlace
  <2>2. work' = [work EXCEPT ![p] = NoWork] /\ handlers' = handlers
    BY <2>1 DEF Finish
  <2>3. \A v \in Users : link'[v] # NoLink => link'[v] = link[v] /\ link[v] # l
    BY <2>1 DEF LinksInPlace
  <2>4. PasswordTypeOK'
    BY <2>1, <2>2 DEF NoWork
  <2>5. LinksInPlace'
    BY <2>1, <2>2, <2>3 DEF NoWork, LinksInPlace
  <2>6. LinksCounted'
    <3>1. \A k \in Links : resets'[k] = IF k = l THEN resets[k] + 1 ELSE resets[k]
      BY <2>1
    <3>2. \A k \in Links :
            Cardinality(Holding(k)') = IF l = k THEN Cardinality(Holding(k)) - 1 ELSE Cardinality(Holding(k))
      BY <2>1, FinishCounts
    <3>3. Cardinality(Working') <= handlers'
      BY <2>1, FinishCounts
    <3> HIDE DEF l, u
    <3> QED
      BY <2>2, <3>1, <3>2, <3>3, HandlersAreFinite DEF LinksCounted
  <2> QED
    BY <2>4, <2>5, <2>6
<1>5. ASSUME NEW u \in Users, LinkExpires(u)
      PROVE  PasswordInv'
  BY <1>5 DEF LinkExpires, LinksInPlace, LinksCounted, Holding, Working
<1> QED
  BY <1>1, <1>2, <1>3, <1>4, <1>5 DEF PasswordNext

(* A reset link sets at most as many passwords as there were handlers in     *)
(* flight at once: one, unless resets overlap.                               *)
THEOREM LinksAreUsedOnce == PasswordSpec => []LinkUsedOnce
<1>1. PasswordInit => PasswordInv
  <2> SUFFICES ASSUME PasswordInit PROVE PasswordInv
    OBVIOUS
  <2>1. PasswordTypeOK
    BY DEF PasswordInit, PasswordTypeOK, NoWork
  <2>2. \A p \in Procs : work[p] = NoWork
    BY DEF PasswordInit
  <2>3. LinksInPlace
    BY <2>2 DEF PasswordInit, LinksInPlace, NoWork
  <2>4. Working = {} /\ \A l \in Links : Holding(l) = {}
    BY <2>2 DEF Working, Holding, NoWork
  <2>5. LinksCounted
    BY <2>4, FS_EmptySet DEF PasswordInit, LinksCounted
  <2> QED
    BY <2>1, <2>3, <2>5 DEF PasswordInv
<1>2. PasswordInv /\ UNCHANGED passwordVars => PasswordInv'
  BY DEF passwordVars, PasswordInv, PasswordTypeOK, LinksInPlace, LinksCounted, Holding, Working
<1>3. PasswordInv => LinkUsedOnce
  BY HandlersAreFinite DEF PasswordInv, PasswordTypeOK, LinksCounted, LinkUsedOnce
<1> QED
  BY <1>1, <1>2, <1>3, PasswordStep, PTL DEF PasswordSpec
=============================================================================
