----------------------------- MODULE Passwords -----------------------------
(***************************************************************************)
(* Forgotten passwords (auth.service.js forgotPassword, resetPassword): a  *)
(* link is stored on the account, looked up when it is used, and cleared   *)
(* with the write of the new password, after that has been hashed.         *)
(***************************************************************************)
EXTENDS Callers

CONSTANTS
  Links,           \* bound: the reset links that can be asked for
  NoLink

ASSUME LinksAssumption == NoLink \notin Links

VARIABLES
  password,    \* users.password_hash, as the link it was set with
  link,        \* users.reset_token, NoLink if NULL
  linkFresh,   \* users.reset_token_expiry is still to come
  mailed,      \* the links that have been made
  work,        \* what each handler does and remembers
  resets,      \* history: passwords each link has set
  handlers     \* history: most handlers that were in flight at once

passwordVars == <<password, link, linkFresh, mailed, work, resets, handlers>>

NoWork == [step |-> "idle", user |-> NoUser, link |-> NoLink]

Take(p, w) ==
  LET busy == {q \in Procs : work[q] # NoWork} IN
  /\ p \notin busy
  /\ work' = [work EXCEPT ![p] = w]
  /\ handlers' = IF Cardinality(busy) + 1 > handlers THEN Cardinality(busy) + 1 ELSE handlers

Finish(p) == work' = [work EXCEPT ![p] = NoWork] /\ UNCHANGED handlers

ForgotFind(p, u) ==
  /\ Take(p, [step |-> "saveLink", user |-> u, link |-> NoLink])
  /\ UNCHANGED <<password, link, linkFresh, mailed, resets>>

(* A new link replaces any earlier one.                                      *)
ForgotSave(p) ==
  /\ work[p].step = "saveLink"
  /\ \E l \in Links \ mailed :
       /\ link' = [link EXCEPT ![work[p].user] = l]
       /\ mailed' = mailed \cup {l}
  /\ linkFresh' = [linkFresh EXCEPT ![work[p].user] = TRUE]
  /\ Finish(p)
  /\ UNCHANGED <<password, resets>>

LinkValid(u, l) == link[u] = l /\ linkFresh[u]

ResetFind(p, u, l) ==
  /\ LinkValid(u, l)
  /\ Take(p, [step |-> "setPassword", user |-> u, link |-> l])
  /\ UNCHANGED <<password, link, linkFresh, mailed, resets>>

(* Fault: the link is left on the account.                                   *)
ResetSaveFault(p) ==
  LET u == work[p].user IN
  /\ work[p].step = "setPassword"
  /\ password' = [password EXCEPT ![u] = work[p].link]
  /\ resets' = [resets EXCEPT ![work[p].link] = @ + 1]
  /\ Finish(p)
  /\ UNCHANGED <<link, linkFresh, mailed>>

(* The new password is hashed meanwhile; the row is written by its id.       *)
ResetSave(p) ==
  LET u == work[p].user IN
  /\ work[p].step = "setPassword"
  /\ password' = [password EXCEPT ![u] = work[p].link]
  /\ link' = [link EXCEPT ![u] = NoLink]
  /\ linkFresh' = [linkFresh EXCEPT ![u] = FALSE]
  /\ resets' = [resets EXCEPT ![work[p].link] = @ + 1]
  /\ Finish(p)
  /\ UNCHANGED mailed

LinkExpires(u) ==
  /\ linkFresh[u]
  /\ linkFresh' = [linkFresh EXCEPT ![u] = FALSE]
  /\ UNCHANGED <<password, link, mailed, work, resets, handlers>>

---------------------------------------------------------------------------
PasswordInit ==
  /\ password = [u \in Users |-> NoLink]
  /\ link = [u \in Users |-> NoLink]
  /\ linkFresh = [u \in Users |-> FALSE]
  /\ mailed = {}
  /\ work = [p \in Procs |-> NoWork]
  /\ resets = [l \in Links |-> 0]
  /\ handlers = 0

PasswordNext ==
  \/ \E p \in Procs :
       \/ \E u \in Users : ForgotFind(p, u) \/ \E l \in mailed : ResetFind(p, u, l)
       \/ ForgotSave(p) \/ ResetSave(p)
  \/ \E u \in Users : LinkExpires(u)

PasswordSpec == PasswordInit /\ [][PasswordNext]_passwordVars

---------------------------------------------------------------------------
(* A reset link sets one password; only resets that overlap can share one,   *)
(* since the link is looked up before the new password is hashed and cleared *)
(* with the write.                                                           *)
LinkUsedOnce == \A l \in Links : resets[l] <= handlers
===========================================================================
