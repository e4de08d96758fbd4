------------------------------ MODULE Licences ------------------------------
(***************************************************************************)
(* Driving licences (drivingLicence.service.js): a number is checked with  *)
(* the government registry or, failing that, by OCR, and may be verified   *)
(* for one account only.  A user's calls may overlap.                      *)
(***************************************************************************)
EXTENDS Callers

CONSTANTS Numbers, NoNumber

VARIABLES
  licence,       \* driving_licences: licence_number and status, by user
  expired,       \* users whose expiry_date has passed
  application    \* the check each handler is waiting for

licenceVars == <<licence, expired, application>>

NoLicence == [number |-> NoNumber, status |-> "NOT_SUBMITTED"]
NoApplication == [user |-> NoUser, number |-> NoNumber]

(* findVerifiedByNumber: an expired licence keeps its number.                *)
VerifiedElsewhere(n, u) == \E x \in Users \ {u} : licence[x] = [number |-> n, status |-> "VERIFIED"]

Submit(p, u, n) ==
  /\ application[p] = NoApplication
  /\ ~VerifiedElsewhere(n, u)
  /\ application' = [application EXCEPT ![p] = [user |-> u, number |-> n]]
  /\ UNCHANGED <<licence, expired>>

(* Fault: there is no such index.                                            *)
NumberFreeFault(n, u) == TRUE

(* upsert: the index on verified numbers has the last word ...               *)
NumberFree(n, u) == ~VerifiedElsewhere(n, u)

(* ... when the registry or the OCR has found the licence,                   *)
SaveVerified(p) ==
  LET u == application[p].user  n == application[p].number IN
  /\ application[p] # NoApplication
  /\ IF NumberFree(n, u)
     THEN /\ licence' = [licence EXCEPT ![u] = [number |-> n, status |-> "VERIFIED"]]
          /\ expired' = expired \ {u}
     ELSE UNCHANGED <<licence, expired>>
  /\ application' = [application EXCEPT ![p] = NoApplication]

(* and if it was not found, or has expired, the row says so and keeps the    *)
(* date that was typed or found.                                             *)
SaveRejected(p) ==
  LET u == application[p].user  n == application[p].number IN
  /\ application[p] # NoApplication
  /\ licence' = [licence EXCEPT ![u] = [number |-> n, status |-> "REJECTED"]]
  /\ expired' \in {expired \ {u}, expired \cup {u}}
  /\ application' = [application EXCEPT ![p] = NoApplication]

LicenceExpires(u) ==
  /\ licence[u] # NoLicence
  /\ u \notin expired
  /\ expired' = expired \cup {u}
  /\ UNCHANGED <<licence, application>>

(* serialize, assertVerified: whose licence lets them offer rides.           *)
Licensed(u) == licence[u].status = "VERIFIED" /\ u \notin expired

LicencesInit ==
  /\ licence = [u \in Users |-> NoLicence]
  /\ expired = {}
  /\ application = [p \in Procs |-> NoApplication]

LicencesNext ==
  \/ \E p \in Procs :
       \/ \E u \in Users, n \in Numbers : Submit(p, u, n)
       \/ SaveVerified(p) \/ SaveRejected(p)
  \/ \E u \in Users : LicenceExpires(u)

LicencesSpec == LicencesInit /\ [][LicencesNext]_licenceVars

---------------------------------------------------------------------------
(* Nobody offers rides on a licence another account also offers rides on,    *)
(* however their submissions overlap.                                        *)
OneLicencePerNumber ==
  \A u, x \in Users : Licensed(u) /\ Licensed(x) /\ licence[u].number = licence[x].number => u = x
=============================================================================
