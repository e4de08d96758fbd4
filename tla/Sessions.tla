------------------------------ MODULE Sessions ------------------------------
(***************************************************************************)
(* Being logged in: browser tabs that share one stored session token       *)
(* (AuthContext.jsx, authService.js, api.js) and the server that checks    *)
(* the token of every request (middleware/auth.js).  A token is a signed   *)
(* statement of who its user is; the server keeps none, so a token is      *)
(* represented by that user.                                               *)
(***************************************************************************)
EXTENDS Callers

CONSTANTS
  Tabs, NoTab,
  Calls          \* bound: calls of pages under way at once

ASSUME SessionsAssumption == NoTab \notin Tabs

VARIABLES
  active,      \* users.is_active
  stored,      \* localStorage bikeride_token, shared by the tabs
  shown,       \* AuthContext user of each tab
  loading,     \* AuthContext loading of each tab
  check,       \* the call by which a tab that was reloaded checks its session
  call,        \* the other calls under way, each with its tab
  lastLogin,   \* history: the tab that stored a token last, NoTab before
  outlived     \* history: tabs that last logged in under a call for another user

sessionVars == <<active, stored, shown, loading, check, call, lastLogin, outlived>>

NoCall == [tab |-> NoTab, kind |-> "none", user |-> NoUser, answer |-> "none"]

(* The administrator turns an account off or on (setUserStatus).             *)
SetUserStatus(u) ==
  /\ active' = [active EXCEPT ![u] = ~@]
  /\ UNCHANGED <<stored, shown, loading, check, call, lastLogin, outlived>>

---------------------------------------------------------------------------
(* Tabs.  A call is sent with the token stored at the time, answered by the  *)
(* server and delivered to the tab, in three steps.  A tab may have several  *)
(* under way, and they outlive the page, the logout and the login that       *)
(* follow.  Signing up is logging in to a new account.                       *)

Send(i, tab, kind, u, answer) ==
  /\ call[i] = NoCall
  /\ call' = [call EXCEPT ![i] = [tab |-> tab, kind |-> kind, user |-> u, answer |-> answer]]
  /\ UNCHANGED <<active, stored, shown, loading, check, lastLogin, outlived>>

(* The tab is opened or reloaded, and forgets its calls: AuthProvider mounts *)
(* and calls refreshUser.                                                    *)
Reload(tab) ==
  /\ shown' = [shown EXCEPT ![tab] = NoUser]
  /\ loading' = [loading EXCEPT ![tab] = stored # NoUser]
  /\ check' = [check EXCEPT ![tab] =
       IF stored = NoUser THEN NoCall
       ELSE [tab |-> tab, kind |-> "me", user |-> stored, answer |-> "none"]]
  /\ call' = [i \in Calls |-> IF call[i].tab = tab THEN NoCall ELSE call[i]]
  /\ outlived' = outlived \ {tab}
  /\ UNCHANGED <<active, stored, lastLogin>>

(* Fault: the login form is shown while the session is checked.              *)
PagesShownFault(tab) == TRUE

(* No page is shown, the login form included, until the session is checked.  *)
PagesShown(tab) == ~loading[tab]

(* The login page is there for a signed-in user too.                         *)
Submit(i, tab, u) == PagesShown(tab) /\ Send(i, tab, "login", u, "none")

(* Logging out, or a call that answers with the user's changed profile; the  *)
(* other calls of a page matter to the session as a failed one of these.     *)
Use(i, tab, kind) ==
  PagesShown(tab) /\ shown[tab] # NoUser /\ Send(i, tab, kind, stored, "none")

(* A photo is shrunk before it is sent, by the token of that later time.     *)
PickPhoto(i, tab) ==
  PagesShown(tab) /\ shown[tab] # NoUser /\ Send(i, tab, "profile", NoUser, "unsent")

SendPhoto(i) ==
  /\ call[i].answer = "unsent"
  /\ call' = [call EXCEPT ![i].user = stored, ![i].answer = "none"]
  /\ UNCHANGED <<active, stored, shown, loading, check, lastLogin, outlived>>

(* authenticate: the token is valid and its account active, now.             *)
Authenticated(u) == u # NoUser /\ active[u]

(* The server's answer: 401 to a wrong password or a session that is over,   *)
(* 403 to the right password of a deactivated account; or none arrives, or   *)
(* an error that says nothing of the session.                                *)
Answers(c) ==
  {a \in {"ok", "401", "403", "lost"} :
     /\ a = "ok" => Authenticated(c.user)
     /\ a = "403" => c.kind = "login" /\ ~active[c.user]}

Waits(c) == c # NoCall /\ c.answer = "none"

AnswerCheck(tab) ==
  /\ Waits(check[tab])
  /\ \E a \in Answers(check[tab]) : check' = [check EXCEPT ![tab].answer = a]
  /\ UNCHANGED <<active, stored, shown, loading, call, lastLogin, outlived>>

Answer(i) ==
  /\ Waits(call[i])
  /\ \E a \in Answers(call[i]) : call' = [call EXCEPT ![i].answer = a]
  /\ UNCHANGED <<active, stored, shown, loading, check, lastLogin, outlived>>

(* The interceptor of every call drops the stored token at a 401.            *)
AfterIntercept(a) == IF a = "401" THEN NoUser ELSE stored

DeliverMe(tab) ==
  LET c == check[tab] IN
  /\ c # NoCall /\ c.answer # "none"
  /\ shown' = [shown EXCEPT ![tab] = IF c.answer = "ok" THEN c.user ELSE NoUser]
  /\ stored' = IF c.answer = "ok" THEN stored ELSE NoUser
  /\ loading' = [loading EXCEPT ![tab] = FALSE]
  /\ check' = [check EXCEPT ![tab] = NoCall]
  /\ UNCHANGED <<active, call, lastLogin, outlived>>

Delivers(i, kind) ==
  /\ call[i].kind = kind /\ call[i].answer \in {"ok", "401", "403", "lost"}
  /\ call' = [call EXCEPT ![i] = NoCall]
  /\ UNCHANGED <<active, loading, check>>

(* Calls of the tab that will answer for another user than u.                *)
CallsForOthers(tab, u) ==
  {j \in Calls : /\ call[j].tab = tab /\ call[j].kind = "profile"
                 /\ call[j].answer # "unsent" /\ call[j].user # u}

DeliverLogin(i) ==
  LET c == call[i] IN
  /\ Delivers(i, "login")
  /\ IF c.answer = "ok"
     THEN /\ stored' = c.user
          /\ shown' = [shown EXCEPT ![c.tab] = c.user]
          /\ lastLogin' = c.tab
          /\ outlived' = IF CallsForOthers(c.tab, c.user) = {} THEN outlived \ {c.tab}
                         ELSE outlived \cup {c.tab}
     ELSE /\ stored' = AfterIntercept(c.answer)
          /\ UNCHANGED <<shown, lastLogin, outlived>>

(* The token goes in any case; the page is left only if the call succeeded.  *)
DeliverLogout(i) ==
  LET c == call[i] IN
  /\ Delivers(i, "logout")
  /\ stored' = NoUser
  /\ shown' = IF c.answer = "ok" THEN [shown EXCEPT ![c.tab] = NoUser] ELSE shown
  /\ UNCHANGED <<lastLogin, outlived>>

(* The changed profile becomes the user of the tab, whoever that is by now.  *)
DeliverProfile(i) ==
  LET c == call[i] IN
  /\ Delivers(i, "profile")
  /\ shown' = IF c.answer = "ok" THEN [shown EXCEPT ![c.tab] = c.user] ELSE shown
  /\ stored' = AfterIntercept(c.answer)
  /\ UNCHANGED <<lastLogin, outlived>>

---------------------------------------------------------------------------
SessionInit ==
  /\ active = [u \in Users |-> TRUE]
  /\ stored = NoUser
  /\ shown = [tab \in Tabs |-> NoUser]
  /\ loading = [tab \in Tabs |-> FALSE]
  /\ check = [tab \in Tabs |-> NoCall]
  /\ call = [i \in Calls |-> NoCall]
  /\ lastLogin = NoTab
  /\ outlived = {}

SessionNext ==
  \/ \E u \in Users : SetUserStatus(u)
  \/ \E tab \in Tabs : Reload(tab) \/ AnswerCheck(tab) \/ DeliverMe(tab)
  \/ \E i \in Calls :
       \/ \E tab \in Tabs :
            \/ \E u \in Users : Submit(i, tab, u)
            \/ \E kind \in {"logout", "profile"} : Use(i, tab, kind)
            \/ PickPhoto(i, tab)
       \/ SendPhoto(i) \/ Answer(i)
       \/ DeliverLogin(i) \/ DeliverLogout(i) \/ DeliverProfile(i)

SessionSpec == SessionInit /\ [][SessionNext]_sessionVars

---------------------------------------------------------------------------
(* "The new photo shows everywhere straight away (it's on the signed-in      *)
(* user)" (ProfilePhotoPicker.jsx): a tab that logged in last shows the user *)
(* whose token is stored, and nobody a late answer is about.                 *)
ShowsSignedInUser ==
  \A tab \in Tabs :
    shown[tab] # NoUser /\ stored # NoUser /\ lastLogin = tab => stored = shown[tab]

(* Whom a tab shows is whom its requests are made for, unless another tab    *)
(* has logged in since, or this tab did while a call of somebody else's was  *)
(* still under way in it.  Nor does a reload get in between: it checks the   *)
(* very token that is stored, so that the late answer, at which refreshUser  *)
(* drops the stored token, never costs the tab a login of its own.           *)
ShownIsStored ==
  \A tab \in Tabs :
    stored # NoUser /\ lastLogin = tab =>
      /\ shown[tab] # NoUser /\ tab \notin outlived => shown[tab] = stored
      /\ check[tab] # NoCall => check[tab].user = stored
===========================================================================
