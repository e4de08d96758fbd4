------------------------------ MODULE Callers ------------------------------
(***************************************************************************)
(* What the account components have in common: accounts, the handlers that *)
(* serve their requests, and the limit on wrong guesses at a code.         *)
(***************************************************************************)
EXTENDS Integers, FiniteSets

CONSTANTS
  Users,         \* the accounts there are or may come to be
  Procs,         \* bound: the handlers in flight at once
  MaxAttempts,   \* MAX_ATTEMPTS of phoneOtp.service.js and boarding.service.js
  NoUser, NoCode

ASSUME CallersAssumption ==
  /\ MaxAttempts \in Nat \ {0}
  /\ IsFiniteSet(Procs)
  /\ NoUser \notin Users
=============================================================================
