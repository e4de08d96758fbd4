----------------------------- MODULE MCAccounts -----------------------------
(***************************************************************************)
(* The instance of Accounts TLC runs: one account has a number, a second   *)
(* one may be created.                                                     *)
(***************************************************************************)
EXTENDS Accounts, TLC

CONSTANTS n1, n2, u1, u2

OneAccount == u1 :> n1 @@ u2 :> NoPhone

Interchangeable ==
  Permutations(Codes) \cup Permutations(Tokens) \cup Permutations(Procs)
=============================================================================
