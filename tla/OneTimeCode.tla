---------------------------- MODULE OneTimeCode ----------------------------
(***************************************************************************)
(* What a place that checks one-time codes promises, however many handlers *)
(* check at once: one code is current at a time, a wrong guess is counted  *)
(* only after it has been compared, and still no code is guessed at much   *)
(* more often than the limit says.                                         *)
(*                                                                         *)
(* The sign-up code of a phone number (PhoneOtp) and the boarding code of  *)
(* a booking (BoardingCode) are both shown to implement it.                *)
(***************************************************************************)
EXTENDS Integers, FiniteSets

CONSTANTS
  Codes,         \* the codes that can be issued, each at most once
  Procs,         \* the handlers that can be in flight at once
  MaxAttempts,   \* wrong guesses a code takes
  NoCode         \* no code is current, or a handler compares none

VARIABLES
  current,       \* the code that is valid now
  attempts,      \* wrong guesses counted since it was issued
  comparing,     \* the code each handler has read and not yet answered
  answered       \* the wrong guesses at each code that were answered

codeVars == <<current, attempts, comparing, answered>>

Comparing(c) == {p \in Procs : comparing[p] = c}

(* A code is new if nobody has read it or guessed at it.                     *)
New(c) == answered[c] = 0 /\ Comparing(c) = {}

Init ==
  /\ current = NoCode
  /\ attempts = 0
  /\ comparing = [p \in Procs |-> NoCode]
  /\ answered = [c \in Codes |-> 0]

Issue ==
  /\ \E c \in Codes \ {current} : New(c) /\ current' = c
  /\ attempts' = 0
  /\ UNCHANGED <<comparing, answered>>

Forget ==
  /\ current' = NoCode
  /\ attempts' = 0
  /\ UNCHANGED <<comparing, answered>>

(* A guess that turns out right needs no counting and is no step of its own. *)
Read(p) ==
  /\ comparing[p] = NoCode
  /\ current # NoCode
  /\ attempts < MaxAttempts
  /\ comparing' = [comparing EXCEPT ![p] = current]
  /\ UNCHANGED <<current, attempts, answered>>

(* The guess is counted against whatever code is current by now.             *)
AnswerWrong(p) ==
  /\ comparing[p] # NoCode
  /\ answered' = [answered EXCEPT ![comparing[p]] = @ + 1]
  /\ attempts' = IF current = NoCode THEN 0 ELSE attempts + 1
  /\ comparing' = [comparing EXCEPT ![p] = NoCode]
  /\ UNCHANGED current

(* The handler dies before it has counted the guess.                         *)
Leave(p) ==
  /\ comparing[p] # NoCode
  /\ comparing' = [comparing EXCEPT ![p] = NoCode]
  /\ UNCHANGED <<current, attempts, answered>>

Next ==
  \/ Issue
  \/ Forget
  \/ \E p \in Procs : Read(p) \/ AnswerWrong(p) \/ Leave(p)

Spec == Init /\ [][Next]_codeVars

TypeOK ==
  /\ current \in Codes \cup {NoCode}
  /\ attempts \in Nat
  /\ comparing \in [Procs -> Codes \cup {NoCode}]
  /\ answered \in [Codes -> Nat]

(* A code is never answered "wrong" more often than the limit and one guess  *)
(* for every other handler that had read it before the limit was reached.    *)
Limited ==
  \A c \in Codes : answered[c] <= MaxAttempts + Cardinality(Procs) - 1
===========================================================================
