----------------------------- MODULE OfferProofs -----------------------------
(***************************************************************************)
(* Proved for any number of accounts, vehicles, licences and handlers:     *)
(* nobody shares a licence, a proved plate stays with its vehicle, what a  *)
(* ride is offered on stands while calls take turns, the saved route fits  *)
(* the ride, and search and join agree on who can come along.              *)
(***************************************************************************)
EXTENDS RideOffers, Licences, RideRoute, PickupZone, TLAPS

USE CallersAssumption

---------------------------------------------------------------------------
(* Licences.                                                                *)

LicencesTypeOK ==
  /\ licence \in [Users -> [number : Numbers \cup {NoNumber},
                            status : {"NOT_SUBMITTED", "VERIFIED", "REJECTED"}]]
  /\ application \in [Procs -> [user : Users, number : Numbers] \cup {NoApplication}]

(* A number is verified for one account only, expired or not.                *)
NumbersOnce ==
  \A u, x \in Users :
    licence[u].status = "VERIFIED" /\ licence[x].status = "VERIFIED"
      /\ licence[u].number = licence[x].number => u = x

LicencesInv == LicencesTypeOK /\ NumbersOnce

LEMMA LicencesStart == LicencesInit => LicencesInv
BY DEF LicencesInit, LicencesInv, LicencesTypeOK, NumbersOnce, NoLicence

LEMMA LicencesStep ==
  ASSUME LicencesInv, LicencesNext
  PROVE  LicencesInv'
<1> USE DEF LicencesInv, LicencesTypeOK, NumbersOnce
<1>1. ASSUME NEW p \in Procs, NEW u \in Users, NEW n \in Numbers, Submit(p, u, n)
      PROVE  LicencesInv'
  BY <1>1 DEF Submit
<1>2. ASSUME NEW p \in Procs, SaveVerified(p)
      PROVE  LicencesInv'
  <2> DEFINE u == application[p].user
             n == application[p].number
  <2>1. u \in Users /\ n \in Numbers
    BY <1>2 DEF SaveVerified
  <2>2. LicencesTypeOK'
    BY <1>2, <2>1 DEF SaveVerified
  <2>3. CASE VerifiedElsewhere(n, u)
    BY <1>2, <2>3 DEF SaveVerified, NumberFree
  <2>4. CASE ~VerifiedElsewhere(n, u)
    <3>1. licence' = [licence EXCEPT ![u] = [number |-> n, status |-> "VERIFIED"]]
      BY <1>2, <2>4 DEF SaveVerified, NumberFree
    <3>2. \A x \in Users \ {u} : ~(licence[x].status = "VERIFIED" /\ licence[x].number = n)
      BY <2>4, <2>1 DEF VerifiedElsewhere
    <3>3. NumbersOnce'
      BY <2>1, <3>1, <3>2
    <3> QED
      BY <2>2, <3>3
  <2> QED
    BY <2>3, <2>4
<1>3. ASSUME NEW p \in Procs, SaveRejected(p)
      PROVE  LicencesInv'
  BY <1>3 DEF SaveRejected
<1>4. ASSUME NEW u \in Users, LicenceExpires(u)
      PROVE  LicencesInv'
  BY <1>4 DEF LicenceExpires
<1> QED
  BY <1>1, <1>2, <1>3, <1>4 DEF LicencesNext

(* No two accounts offer rides on one licence number, however their          *)
(* submissions overlap: the check before the registry call is not enough,    *)
(* the index on verified numbers is.                                         *)
THEOREM NoSharedLicence == LicencesSpec => []OneLicencePerNumber
<1>1. LicencesInv /\ UNCHANGED licenceVars => LicencesInv'
  BY DEF LicencesInv, LicencesTypeOK, NumbersOnce, licenceVars
<1>2. LicencesInv => OneLicencePerNumber
  BY DEF LicencesInv, NumbersOnce, OneLicencePerNumber, Licensed
<1> QED
  BY <1>1, <1>2, LicencesStart, LicencesStep, PTL DEF LicencesSpec

---------------------------------------------------------------------------
(* Plates.                                                                  *)

ErrandSteps ==
  {"idle", "release", "claimForAdd", "reactivate", "insert", "countForUpdate", "claimForUpdate",
   "update", "countForRemove", "remove", "ocr", "registry", "vehicle", "openRide", "insertRide",
   "publishVehicle", "publish"}

Errands == [step : ErrandSteps, user : Users \cup {NoUser}, vehicle : VehicleIds \cup {NoVehicle},
            plate : Plates \cup {NoPlate}, ride : RideIds \cup {NoRide},
            on : VehicleIds \cup {NoVehicle}]

VehiclesTypeOK ==
  /\ owner \in [VehicleIds -> Users \cup {NoUser}]
  /\ plate \in [VehicleIds -> Plates \cup {NoPlate}]
  /\ vehicleActive \in [VehicleIds -> BOOLEAN]
  /\ vehicleStatus \in [VehicleIds -> {"PENDING", "VERIFIED", "REJECTED"}]
  /\ rides \in [RideIds -> [rider : Users \cup {NoUser}, vehicle : VehicleIds \cup {NoVehicle},
                            status : {"NONE", "DRAFT", "PUBLISHED", "CLOSED"}]]
  /\ errand \in [Procs -> Errands]

(* A row that is not there is not active, and the handlers that insert or    *)
(* reactivate one know for whom.                                             *)
RowsHaveOwners ==
  /\ \A v \in VehicleIds : vehicleActive[v] => owner[v] # NoUser
  /\ \A p \in Procs :
       /\ errand[p].step \in {"claimForAdd", "claimForUpdate", "release", "insert"} =>
            errand[p].user # NoUser
       /\ errand[p].step = "reactivate" =>
            errand[p].vehicle \in VehicleIds /\ owner[errand[p].vehicle] # NoUser

PlatesInv == VehiclesTypeOK /\ RowsHaveOwners

USE DEF ErrandSteps, Errands, NoErrand

LEMMA PlatesStart == OffersInit => PlatesInv
BY DEF OffersInit, PlatesInv, VehiclesTypeOK, RowsHaveOwners

(* What claimRegistrationNumber does for create and for update.              *)
LEMMA AddClaimErrand ==
  ASSUME PlatesInv, NEW p \in Procs, AddClaim(p)
  PROVE  PlatesInv'
<1>1. errand[p] \in Errands /\ errand[p].user # NoUser
  BY DEF AddClaim, Doing, PlatesInv, VehiclesTypeOK, RowsHaveOwners
<1>2. UNCHANGED <<owner, plate, vehicleActive, vehicleStatus, rides>>
  BY DEF AddClaim, vehicleRows
<1>3. CASE errand' = [errand EXCEPT ![p] = [errand[p] EXCEPT !.step = "insert"]]
  <2>1. [errand[p] EXCEPT !.step = "insert"] \in Errands
    BY <1>1
  <2> QED
    BY <1>1, <1>2, <1>3, <2>1 DEF PlatesInv, VehiclesTypeOK, RowsHaveOwners
<1>4. CASE errand' = [errand EXCEPT ![p] = NoErrand]
  BY <1>2, <1>4 DEF PlatesInv, VehiclesTypeOK, RowsHaveOwners
<1>5. ASSUME NEW v \in VehicleIds, owner[v] # NoUser,
             errand' = [errand EXCEPT ![p] = [errand[p] EXCEPT !.step = "reactivate", !.vehicle = v]]
      PROVE  PlatesInv'
  BY <1>1, <1>2, <1>5 DEF PlatesInv, VehiclesTypeOK, RowsHaveOwners
<1>6. ASSUME NEW v \in VehicleIds,
             errand' = [errand EXCEPT ![p] = [errand[p] EXCEPT !.step = "release", !.on = v]]
      PROVE  PlatesInv'
  BY <1>1, <1>2, <1>6 DEF PlatesInv, VehiclesTypeOK, RowsHaveOwners
<1> QED
  BY <1>3, <1>4, <1>5, <1>6 DEF AddClaim, Claim, OwnRow, RowsWith, Reply, Proceed, To

LEMMA EditClaimErrand ==
  ASSUME PlatesInv, NEW p \in Procs, EditClaim(p)
  PROVE  PlatesInv'
<1>1. errand[p] \in Errands /\ Doing(p, "claimForUpdate")
  BY DEF EditClaim, Doing, PlatesInv, VehiclesTypeOK
<1>2. UNCHANGED <<owner, plate, vehicleActive, vehicleStatus, rides>>
  BY DEF EditClaim, vehicleRows
<1>3. CASE errand' = [errand EXCEPT ![p] = [errand[p] EXCEPT !.step = "countForUpdate"]]
  BY <1>1, <1>2, <1>3 DEF PlatesInv, VehiclesTypeOK, RowsHaveOwners
<1>4. CASE errand' = [errand EXCEPT ![p] = NoErrand]
  BY <1>2, <1>4 DEF PlatesInv, VehiclesTypeOK, RowsHaveOwners
<1>5. ASSUME NEW v \in VehicleIds,
             errand' = [errand EXCEPT ![p] = [errand[p] EXCEPT !.step = "release", !.on = v]]
      PROVE  PlatesInv'
  BY <1>1, <1>2, <1>5 DEF PlatesInv, VehiclesTypeOK, RowsHaveOwners, Doing
<1> QED
  BY <1>3, <1>4, <1>5 DEF EditClaim, Claim, OwnRow, RowsWith, Reply, Proceed, To

LEMMA RequestStep ==
  ASSUME PlatesInv, NEW p \in Procs,
         \/ \E u \in Users, n \in Plates : AddBegin(p, u, n)
         \/ \E u \in Users, v \in VehicleIds :
              \/ \E n \in Plates : EditBegin(p, u, v, n)
              \/ RemoveBegin(p, u, v) \/ UploadBegin(p, u, v) \/ VerifyBegin(p, u, v)
              \/ OfferBegin(p, u, v)
  PROVE  PlatesInv'
<1> USE DEF Accept, vehicleRows, PlatesInv, VehiclesTypeOK, RowsHaveOwners
<1>1. ASSUME NEW u \in Users, NEW n \in Plates, AddBegin(p, u, n)
      PROVE  PlatesInv'
  BY <1>1 DEF AddBegin
<1>2. ASSUME NEW u \in Users, NEW v \in VehicleIds, NEW n \in Plates, EditBegin(p, u, v, n)
      PROVE  PlatesInv'
  BY <1>2 DEF EditBegin
<1>3. ASSUME NEW u \in Users, NEW v \in VehicleIds, RemoveBegin(p, u, v)
      PROVE  PlatesInv'
  BY <1>3 DEF RemoveBegin
<1>4. ASSUME NEW u \in Users, NEW v \in VehicleIds, UploadBegin(p, u, v)
      PROVE  PlatesInv'
  BY <1>4 DEF UploadBegin
<1>5. ASSUME NEW u \in Users, NEW v \in VehicleIds, VerifyBegin(p, u, v)
      PROVE  PlatesInv'
  BY <1>5 DEF VerifyBegin
<1>6. ASSUME NEW u \in Users, NEW v \in VehicleIds, OfferBegin(p, u, v)
      PROVE  PlatesInv'
  BY <1>6 DEF OfferBegin
<1> QED
  BY <1>1, <1>2, <1>3, <1>4, <1>5, <1>6

LEMMA VehicleRowStep ==
  ASSUME PlatesInv, NEW p \in Procs,
         \/ Release(p) \/ AddReactivate(p) \/ AddInsert(p) \/ CountRides(p) \/ EditWrite(p)
         \/ RemoveWrite(p) \/ UploadWrite(p) \/ VerifyWrite(p)
  PROVE  PlatesInv'
<1> USE DEF Doing, To, Proceed, Reply, SetStatus, vehicleRows, PlatesInv, VehiclesTypeOK, RowsHaveOwners
<1>1. CASE Release(p)
  <2> DEFINE e == IF errand[p].vehicle = NoVehicle THEN "insert" ELSE "countForUpdate"
  <2>1. errand[p] \in Errands /\ errand[p].user # NoUser /\ UNCHANGED <<owner, rides>>
    BY <1>1 DEF Release
  <2>2. CASE UNCHANGED <<plate, vehicleActive, vehicleStatus>> /\ errand' = [errand EXCEPT ![p] = NoErrand]
    BY <2>1, <2>2
  <2>3. CASE /\ plate' = [plate EXCEPT ![errand[p].on] = NoPlate]
             /\ vehicleActive' = [vehicleActive EXCEPT ![errand[p].on] = FALSE]
             /\ vehicleStatus' = [vehicleStatus EXCEPT ![errand[p].on] = "REJECTED"]
             /\ errand' = [errand EXCEPT ![p] = [errand[p] EXCEPT !.step = e]]
    <3>1. VehiclesTypeOK'
      BY <2>1, <2>3
    <3>2. RowsHaveOwners'
      BY <2>1, <2>3
    <3> QED
      BY <3>1, <3>2
  <2> QED
    BY <1>1, <2>2, <2>3 DEF Release
<1>2. CASE AddReactivate(p)
  BY <1>2 DEF AddReactivate
<1>3. CASE AddInsert(p)
  <2>1. /\ errand[p].user \in Users /\ errand[p].plate \in Plates \cup {NoPlate}
        /\ errand' = [errand EXCEPT ![p] = NoErrand]
        /\ UNCHANGED <<vehicleStatus, rides>>
    BY <1>3 DEF AddInsert
  <2>2. CASE UNCHANGED <<owner, plate, vehicleActive>>
    BY <2>1, <2>2
  <2>3. ASSUME NEW v \in VehicleIds, owner' = [owner EXCEPT ![v] = errand[p].user],
               plate' = [plate EXCEPT ![v] = errand[p].plate], vehicleActive' = [vehicleActive EXCEPT ![v] = TRUE]
        PROVE  PlatesInv'
    <3>1. VehiclesTypeOK'
      BY <2>1, <2>3
    <3>2. RowsHaveOwners'
      BY <2>1, <2>3, CallersAssumption
    <3> QED
      BY <3>1, <3>2
  <2> QED
    BY <1>3, <2>2, <2>3 DEF AddInsert
<1>4. CASE CountRides(p)
  BY <1>4 DEF CountRides
<1>5. CASE EditWrite(p)
  BY <1>5 DEF EditWrite
<1>6. CASE RemoveWrite(p)
  BY <1>6 DEF RemoveWrite
<1>7. CASE UploadWrite(p)
  BY <1>7 DEF UploadWrite
<1>8. CASE VerifyWrite(p)
  <2>1. PICK t \in {"VERIFIED", "PENDING", "REJECTED"} :
          vehicleStatus' = [vehicleStatus EXCEPT ![errand[p].vehicle] = t]
    BY <1>8 DEF VerifyWrite
  <2>2. UNCHANGED <<owner, plate, vehicleActive, rides>> /\ errand' = [errand EXCEPT ![p] = NoErrand]
    BY <1>8 DEF VerifyWrite
  <2> QED
    BY <2>1, <2>2
<1> QED
  BY <1>1, <1>2, <1>3, <1>4, <1>5, <1>6, <1>7, <1>8

(* A handler that only goes on, to a step that needs no row, or answers.     *)
LEMMA ErrandGoesOn ==
  ASSUME PlatesInv, NEW p \in Procs, NEW step \in {"openRide", "insertRide", "publish"},
         UNCHANGED <<owner, plate, vehicleActive, vehicleStatus, rides>>,
         \/ errand' = [errand EXCEPT ![p] = NoErrand]
         \/ errand' = [errand EXCEPT ![p] = [errand[p] EXCEPT !.step = step]]
  PROVE  PlatesInv'
<1> DEFINE e == errand'[p]
<1>1. errand \in [Procs -> Errands] /\ errand[p] \in Errands
  BY DEF PlatesInv, VehiclesTypeOK
<1>2. e \in Errands /\ e.step \in {"idle", "openRide", "insertRide", "publish"}
  <2>1. CASE errand' = [errand EXCEPT ![p] = NoErrand]
    BY <1>1, <2>1
  <2>2. CASE errand' = [errand EXCEPT ![p] = [errand[p] EXCEPT !.step = step]]
    BY <1>1, <2>2
  <2> QED
    BY <2>1, <2>2
<1>3. errand' = [errand EXCEPT ![p] = e]
  BY <1>1
<1>4. VehiclesTypeOK'
  <2>1. errand' \in [Procs -> Errands]
    BY <1>1, <1>2, <1>3
  <2> QED
    BY <2>1 DEF PlatesInv, VehiclesTypeOK
<1>5. \A q \in Procs : q # p => errand'[q] = errand[q]
  BY <1>1, <1>3
<1>6. RowsHaveOwners'
  BY <1>2, <1>5 DEF PlatesInv, RowsHaveOwners
<1> QED
  BY <1>4, <1>6 DEF PlatesInv

LEMMA RideRowStep ==
  ASSUME PlatesInv, NEW p \in Procs,
         \/ OfferVehicle(p) \/ OfferCheck(p) \/ OfferInsert(p) \/ PublishVehicle(p) \/ Publish(p)
         \/ \E r \in RideIds : PublishBegin(p, r)
  PROVE  PlatesInv'
<1> USE DEF Doing, Accept, To, Proceed, Reply, vehicleRows, PlatesInv, VehiclesTypeOK, RowsHaveOwners
<1>1. CASE OfferVehicle(p)
  <2>1. UNCHANGED <<owner, plate, vehicleActive, vehicleStatus, rides>>
    BY <1>1 DEF OfferVehicle
  <2>2. \/ errand' = [errand EXCEPT ![p] = NoErrand]
        \/ errand' = [errand EXCEPT ![p] = [errand[p] EXCEPT !.step = "openRide"]]
    BY <1>1 DEF OfferVehicle
  <2> QED
    BY <2>1, <2>2, ErrandGoesOn
<1>2. CASE OfferCheck(p)
  <2>1. UNCHANGED <<owner, plate, vehicleActive, vehicleStatus, rides>>
    BY <1>2 DEF OfferCheck
  <2>2. \/ errand' = [errand EXCEPT ![p] = NoErrand]
        \/ errand' = [errand EXCEPT ![p] = [errand[p] EXCEPT !.step = "insertRide"]]
    BY <1>2 DEF OfferCheck
  <2> QED
    BY <2>1, <2>2, ErrandGoesOn
<1>3. CASE OfferInsert(p)
  BY <1>3 DEF OfferInsert
<1>4. CASE PublishVehicle(p)
  <2>1. UNCHANGED <<owner, plate, vehicleActive, vehicleStatus, rides>>
    BY <1>4 DEF PublishVehicle
  <2>2. \/ errand' = [errand EXCEPT ![p] = NoErrand]
        \/ errand' = [errand EXCEPT ![p] = [errand[p] EXCEPT !.step = "publish"]]
    BY <1>4 DEF PublishVehicle
  <2> QED
    BY <2>1, <2>2, ErrandGoesOn
<1>5. CASE Publish(p)
  <2>1. /\ UNCHANGED <<owner, plate, vehicleActive, vehicleStatus>>
        /\ errand' = [errand EXCEPT ![p] = NoErrand]
        /\ rides' = [rides EXCEPT ![errand[p].ride] = [@ EXCEPT !.status = "PUBLISHED"]]
    BY <1>5 DEF Publish
  <2>2. VehiclesTypeOK'
    <3>1. ASSUME NEW r \in RideIds
          PROVE  rides'[r] \in [rider : Users \cup {NoUser}, vehicle : VehicleIds \cup {NoVehicle},
                                status : {"NONE", "DRAFT", "PUBLISHED", "CLOSED"}]
      <4>1. rides'[r] = IF r = errand[p].ride THEN [rides[r] EXCEPT !.status = "PUBLISHED"]
                                              ELSE rides[r]
        BY <2>1
      <4> QED
        BY <4>1
    <3>2. DOMAIN rides' = RideIds /\ rides' = [r \in RideIds |-> rides'[r]]
      BY <2>1
    <3>3. rides' \in [RideIds -> [rider : Users \cup {NoUser}, vehicle : VehicleIds \cup {NoVehicle},
                                  status : {"NONE", "DRAFT", "PUBLISHED", "CLOSED"}]]
      BY <3>1, <3>2
    <3> QED
      BY <2>1, <3>3
  <2>3. RowsHaveOwners'
    BY <2>1
  <2> QED
    BY <2>2, <2>3
<1>6. ASSUME NEW r \in RideIds, PublishBegin(p, r)
      PROVE  PlatesInv'
  BY <1>6 DEF PublishBegin
<1> QED
  BY <1>1, <1>2, <1>3, <1>4, <1>5, <1>6

LEMMA PlatesStep ==
  ASSUME PlatesInv, OffersNext
  PROVE  PlatesInv'
<1>1. ASSUME NEW v \in VehicleIds, NEW s \in {"PENDING", "VERIFIED", "REJECTED"}, AdminSets(v, s)
      PROVE  PlatesInv'
  BY <1>1 DEF AdminSets, SetStatus, PlatesInv, VehiclesTypeOK, RowsHaveOwners
<1>2. ASSUME NEW r \in RideIds, EndRide(r)
      PROVE  PlatesInv'
  BY <1>2 DEF EndRide, vehicleRows, PlatesInv, VehiclesTypeOK, RowsHaveOwners
<1>3. ASSUME NEW p \in Procs, VehicleStep(p) \/ OfferStep(p)
      PROVE  PlatesInv'
  BY <1>3, RequestStep, AddClaimErrand, EditClaimErrand, VehicleRowStep, RideRowStep
     DEF VehicleStep, OfferStep
<1> QED
  BY <1>1, <1>2, <1>3 DEF OffersNext

(* A step that takes a proved plate, or the vehicle that has it, away.       *)
KeptBy(v) ==
  Proven(v) =>
    /\ plate'[v] # plate[v] => \E p \in Procs : Takes(p, "update", v)
    /\ ~vehicleActive'[v] => \E p \in Procs : Takes(p, "remove", v)

LEMMA PlateKeptStep ==
  ASSUME PlatesInv, OffersNext, NEW v \in VehicleIds
  PROVE  KeptBy(v)
<1> SUFFICES ASSUME Proven(v), UNCHANGED <<plate, vehicleActive>> => FALSE
             PROVE  KeptBy(v)
  BY DEF KeptBy, Proven
<1> USE DEF PlatesInv, VehiclesTypeOK
<1>1. PICK p \in Procs : Release(p) \/ AddReactivate(p) \/ AddInsert(p) \/ EditWrite(p) \/ RemoveWrite(p)
  <2> USE DEF vehicleRows
  <2>1. ASSUME NEW p \in Procs, VehicleStep(p)
        PROVE  Release(p) \/ AddReactivate(p) \/ AddInsert(p) \/ EditWrite(p) \/ RemoveWrite(p)
    BY <2>1 DEF VehicleStep, AddBegin, EditBegin, RemoveBegin, UploadBegin, VerifyBegin, AddClaim,
                EditClaim, CountRides, UploadWrite, VerifyWrite
  <2>2. ASSUME NEW p \in Procs, OfferStep(p)
        PROVE  FALSE
    BY <2>2 DEF OfferStep, OfferBegin, OfferVehicle, OfferCheck, OfferInsert, PublishBegin,
                PublishVehicle, Publish
  <2>3. ASSUME NEW w \in VehicleIds, NEW s \in {"PENDING", "VERIFIED", "REJECTED"}, AdminSets(w, s)
        PROVE  FALSE
    BY <2>3 DEF AdminSets
  <2>4. ASSUME NEW r \in RideIds, EndRide(r)
        PROVE  FALSE
    BY <2>4 DEF EndRide
  <2> QED
    BY <2>1, <2>2, <2>3, <2>4 DEF OffersNext
<1>2. CASE Release(p)
  <2>1. errand[p].on = v => UNCHANGED <<plate, vehicleActive>>
    BY <1>2 DEF Release, MayRelease
  <2>2. errand[p].on # v => plate'[v] = plate[v] /\ vehicleActive'[v] = vehicleActive[v]
    BY <1>2 DEF Release
  <2> QED
    BY <2>1, <2>2 DEF KeptBy, Proven
<1>3. CASE AddReactivate(p)
  BY <1>3 DEF AddReactivate, KeptBy, Proven
<1>4. CASE AddInsert(p)
  <2>1. owner[v] # NoUser
    BY DEF RowsHaveOwners, Proven
  <2>2. plate'[v] = plate[v] /\ vehicleActive'[v] = vehicleActive[v]
    BY <1>4, <2>1 DEF AddInsert
  <2> QED
    BY <2>2 DEF KeptBy, Proven
<1>5. CASE EditWrite(p)
  <2>1. errand'[p] # errand[p]
    BY <1>5 DEF EditWrite, Doing, Reply, Proceed
  <2>2. plate'[v] # plate[v] => errand[p].vehicle = v
    BY <1>5 DEF EditWrite
  <2> QED
    BY <1>5, <2>1, <2>2 DEF EditWrite, KeptBy, Takes, Proven
<1>6. CASE RemoveWrite(p)
  <2>1. errand'[p] # errand[p]
    BY <1>6 DEF RemoveWrite, Doing, Reply, Proceed
  <2>2. ~vehicleActive'[v] => errand[p].vehicle = v
    BY <1>6 DEF RemoveWrite, Proven
  <2> QED
    BY <1>6, <2>1, <2>2 DEF RemoveWrite, KeptBy, Takes
<1> QED
  BY <1>1, <1>2, <1>3, <1>4, <1>5, <1>6

(* A proved plate is taken away by its owner's own edit or removal only,     *)
(* whatever claims, uploads and administrators do at the same time.          *)
THEOREM ProvedPlateKept == OffersSpec => VerifiedPlateKept
<1>1. PlatesInv /\ [OffersNext]_offerVars => PlatesInv'
  <2>1. PlatesInv /\ UNCHANGED offerVars => PlatesInv'
    BY DEF PlatesInv, VehiclesTypeOK, RowsHaveOwners, offerVars
  <2> QED
    BY <2>1, PlatesStep
<1>2. PlatesInv /\ [OffersNext]_offerVars => [\A v \in VehicleIds : KeptBy(v)]_offerVars
  BY PlateKeptStep
<1>3. OffersSpec => [][\A v \in VehicleIds : KeptBy(v)]_offerVars
  BY <1>1, <1>2, PlatesStart, PTL DEF OffersSpec
<1> QED
  BY <1>3 DEF VerifiedPlateKept, KeptBy

---------------------------------------------------------------------------
(* Calls that take turns.                                                   *)

(* What a handler that offers a ride or reads an RC knows of its rows,       *)
(* whatever other handlers do ...                                            *)
Knows(p) ==
  /\ Doing(p, "ocr") => errand[p].vehicle \in VehicleIds /\ owner[errand[p].vehicle] # NoUser
  /\ errand[p].step \in {"vehicle", "openRide", "insertRide"} =>
       errand[p].vehicle \in VehicleIds /\ errand[p].user \in Users
  /\ errand[p].step \in {"publishVehicle", "publish"} =>
       /\ errand[p].ride \in RideIds /\ rides[errand[p].ride].status # "NONE"
       /\ errand[p].user = rides[errand[p].ride].rider
       /\ errand[p].vehicle = rides[errand[p].ride].vehicle

RowsFit ==
  /\ extracted \in [VehicleIds -> Plates \cup {NoPlate}]
  /\ \A v \in VehicleIds : owner[v] = NoUser => extracted[v] = NoPlate
  /\ \A r \in RideIds : rides[r].status # "NONE" =>
       rides[r].rider \in Users /\ rides[r].vehicle \in VehicleIds
  /\ \A p \in Procs : Knows(p)

(* ... and what it found by its earlier statements and still holds at the    *)
(* later ones, if nobody else runs.                                          *)
Remembers(p) ==
  /\ Doing(p, "remove") => ~OpenOn(errand[p].vehicle)
  /\ Doing(p, "ocr") => plate[errand[p].vehicle] = errand[p].plate
  /\ errand[p].step \in {"openRide", "insertRide", "publish"} => vehicleActive[errand[p].vehicle]
  /\ Doing(p, "insertRide") => OpenRides(errand[p].user) = {}
  /\ errand[p].step \in {"publishVehicle", "publish"} => OpenRides(errand[p].user) \subseteq {errand[p].ride}

OneErrand == \A p, q \in Procs : errand[p] # NoErrand /\ errand[q] # NoErrand => p = q

TakesTurns ==
  /\ crossed \in BOOLEAN
  /\ ~crossed => OneErrand /\ \A p \in Procs : Remembers(p)

(* A reading is of the plate the vehicle has, verified or still to be.       *)
ReadingsFit ==
  ~crossed => \A v \in VehicleIds :
    vehicleActive[v] /\ extracted[v] # NoPlate => LookAlike(plate[v], extracted[v])

OffersInv ==
  /\ PlatesInv /\ RowsFit /\ TakesTurns
  /\ demotedInUse \in BOOLEAN
  /\ ReadingsFit /\ OneOpenRide /\ OpenRideHasVehicle

LEMMA RequestTurn ==
  ASSUME PlatesInv, TakesTurns, NEW p \in Procs, NEW e, Accept(p, e),
         ~crossed /\ errand'[p] = e => Remembers(p)'
  PROVE  /\ TakesTurns' /\ (crossed => crossed')
         /\ errand[p] = NoErrand /\ errand'[p] = e
         /\ \A q \in Procs \ {p} : errand'[q] = errand[q]
<1>1. /\ errand[p] = NoErrand /\ errand'[p] = e
      /\ \A q \in Procs \ {p} : errand'[q] = errand[q]
  BY DEF Accept, PlatesInv, VehiclesTypeOK
<1>2. /\ crossed' \in BOOLEAN
      /\ ~crossed' => ~crossed /\ \A q \in Procs : errand[q] = NoErrand
  BY DEF Accept, TakesTurns
<1>3. ~crossed' => OneErrand'
  BY <1>1, <1>2 DEF OneErrand
<1>4. ASSUME ~crossed', NEW q \in Procs
      PROVE  Remembers(q)'
  <2>1. CASE q = p
    BY <1>1, <1>2, <1>4, <2>1
  <2>2. CASE q # p
    <3>1. errand'[q].step = "idle"
      BY <1>1, <1>2, <1>4, <2>2
    <3> QED
      BY <3>1 DEF Remembers, Doing
  <2> QED
    BY <2>1, <2>2
<1> QED
  BY <1>1, <1>2, <1>3, <1>4 DEF TakesTurns

LEMMA StepTurn ==
  ASSUME PlatesInv, TakesTurns, NEW p \in Procs, NEW e, Proceed(p, e), errand[p] # NoErrand,
         ~crossed /\ errand'[p] = e => Remembers(p)'
  PROVE  /\ TakesTurns' /\ crossed' = crossed /\ errand'[p] = e
         /\ \A q \in Procs \ {p} : errand'[q] = errand[q]
<1>1. /\ errand'[p] = e /\ crossed' = crossed
      /\ \A q \in Procs \ {p} : errand'[q] = errand[q]
  BY DEF Proceed, PlatesInv, VehiclesTypeOK
<1>2. ~crossed => \A q \in Procs \ {p} : errand[q] = NoErrand
  BY DEF TakesTurns, OneErrand
<1>3. ~crossed => OneErrand'
  BY <1>1, <1>2 DEF OneErrand
<1>4. ASSUME ~crossed, NEW q \in Procs \ {p}
      PROVE  Remembers(q)'
  <2>1. errand'[q].step = "idle"
    BY <1>1, <1>2, <1>4
  <2> QED
    BY <2>1 DEF Remembers, Doing
<1> QED
  BY <1>1, <1>3, <1>4 DEF TakesTurns

(* A handler that is done remembers nothing.                                 *)
LEMMA ReplyRemembers ==
  ASSUME NEW p, errand'[p] = NoErrand
  PROVE  Remembers(p)' /\ Knows(p)'
BY DEF Remembers, Knows, Doing

(* Only rows that change matter to the rest.                                 *)
RowsSame == UNCHANGED <<vehicleRows, rides, demotedInUse>>

LEMMA ReadsOnly ==
  ASSUME OffersInv, PlatesInv', TakesTurns', RowsSame, crossed => crossed',
         NEW p \in Procs, Knows(p)', \A q \in Procs \ {p} : errand'[q] = errand[q]
  PROVE  OffersInv'
<1> USE DEF OffersInv, RowsSame, vehicleRows
<1>1. RowsFit'
  BY DEF RowsFit, Knows, Doing
<1>2. ReadingsFit' /\ OneOpenRide' /\ OpenRideHasVehicle'
  BY DEF ReadingsFit, OneOpenRide, OpenRideHasVehicle, OpenRides
<1> QED
  BY <1>1, <1>2

LEMMA RequestOffer ==
  ASSUME OffersInv, NEW p \in Procs,
         \/ \E u \in Users, n \in Plates : AddBegin(p, u, n)
         \/ \E u \in Users, v \in VehicleIds :
              \/ \E n \in Plates : EditBegin(p, u, v, n)
              \/ RemoveBegin(p, u, v) \/ UploadBegin(p, u, v) \/ VerifyBegin(p, u, v)
              \/ OfferBegin(p, u, v)
         \/ \E r \in RideIds : PublishBegin(p, r)
  PROVE  OffersInv'
<1> USE DEF OffersInv
<1>0. PlatesInv'
  BY RequestStep, RideRowStep
<1>1. ASSUME NEW e, Accept(p, e), RowsSame,
             e.step \in {"claimForAdd", "claimForUpdate", "countForUpdate", "countForRemove", "registry"}
      PROVE  OffersInv'
  <2>1. errand'[p] = e => Remembers(p)' /\ Knows(p)'
    BY <1>1 DEF Remembers, Knows, Doing
  <2> QED
    BY <1>0, <1>1, <2>1, RequestTurn, ReadsOnly
<1>2. ASSUME NEW u \in Users, NEW v \in VehicleIds, UploadBegin(p, u, v)
      PROVE  OffersInv'
  <2> DEFINE e == [NoErrand EXCEPT !.step = "ocr", !.user = u, !.vehicle = v, !.plate = plate[v]]
  <2>1. Accept(p, e) /\ RowsSame /\ owner[v] = u
    BY <1>2 DEF UploadBegin, RowsSame
  <2>2. e.step = "ocr" /\ e.vehicle = v /\ e.plate = plate[v]
    OBVIOUS
  <2> HIDE DEF e
  <2>3. errand'[p] = e => Remembers(p)' /\ Knows(p)'
    BY <2>1, <2>2 DEF Remembers, Knows, Doing, RowsSame, vehicleRows
  <2> QED
    BY <1>0, <2>1, <2>3, RequestTurn, ReadsOnly
<1>3. ASSUME NEW u \in Users, NEW v \in VehicleIds, OfferBegin(p, u, v)
      PROVE  OffersInv'
  <2> DEFINE e == [NoErrand EXCEPT !.step = "vehicle", !.user = u, !.vehicle = v]
  <2>1. Accept(p, e) /\ RowsSame
    BY <1>3 DEF OfferBegin, RowsSame
  <2>2. e.step = "vehicle" /\ e.vehicle = v /\ e.user = u
    OBVIOUS
  <2> HIDE DEF e
  <2>3. errand'[p] = e => Remembers(p)' /\ Knows(p)'
    BY <2>1, <2>2 DEF Remembers, Knows, Doing
  <2> QED
    BY <1>0, <2>1, <2>3, RequestTurn, ReadsOnly
<1>4. ASSUME NEW r \in RideIds, PublishBegin(p, r)
      PROVE  OffersInv'
  <2> DEFINE e == [NoErrand EXCEPT !.step = "publishVehicle", !.user = rides[r].rider,
                                   !.vehicle = rides[r].vehicle, !.ride = r]
  <2>1. Accept(p, e) /\ RowsSame /\ rides[r].status = "DRAFT"
    BY <1>4 DEF PublishBegin, RowsSame
  <2>2. e.step = "publishVehicle" /\ e.vehicle = rides[r].vehicle /\ e.user = rides[r].rider /\ e.ride = r
    OBVIOUS
  <2> HIDE DEF e
  <2>3. ~crossed => OpenRides(rides[r].rider) \subseteq {r}
    BY <2>1 DEF OneOpenRide, OpenRides, OpenStatuses, RowsFit
  <2>4. errand'[p] = e => Knows(p)' /\ (~crossed => Remembers(p)')
    BY <2>1, <2>2, <2>3 DEF Remembers, Knows, Doing, RowsSame, OpenRides
  <2> QED
    BY <1>0, <2>1, <2>4, RequestTurn, ReadsOnly
<1> QED
  BY <1>1, <1>2, <1>3, <1>4 DEF AddBegin, EditBegin, RemoveBegin, VerifyBegin, RowsSame

(* A handler that only reads and goes on, or gives up.                       *)
LEMMA OnwardOffer ==
  ASSUME OffersInv, PlatesInv', NEW p \in Procs, errand[p] # NoErrand, RowsSame, NEW e, Proceed(p, e),
         errand'[p] = e => Knows(p)' /\ (~crossed => Remembers(p)')
  PROVE  OffersInv'
BY StepTurn, ReadsOnly DEF OffersInv

LEMMA GivesUp ==
  ASSUME OffersInv, PlatesInv', NEW p \in Procs, errand[p] # NoErrand, RowsSame, Reply(p)
  PROVE  OffersInv'
<1>1. errand'[p] = NoErrand => Knows(p)' /\ Remembers(p)'
  BY ReplyRemembers
<1> QED
  BY <1>1, OnwardOffer DEF Reply

LEMMA ReadingOffer ==
  ASSUME OffersInv, NEW p \in Procs,
         \/ AddClaim(p) \/ EditClaim(p) \/ CountRides(p)
         \/ OfferVehicle(p) \/ OfferCheck(p) \/ PublishVehicle(p)
  PROVE  OffersInv'
<1>0. PlatesInv' /\ RowsSame
  BY PlatesStep, RideRowStep, VehicleRowStep, AddClaimErrand, EditClaimErrand
     DEF OffersInv, RowsSame, AddClaim, EditClaim, CountRides, OfferVehicle, OfferCheck, PublishVehicle
<1>t. errand[p] \in Errands /\ errand[p] # NoErrand
  <2>1. errand[p] \in Errands
    BY DEF OffersInv, PlatesInv, VehiclesTypeOK
  <2>2. errand[p].step # "idle"
    BY DEF Doing, AddClaim, EditClaim, CountRides, OfferVehicle, OfferCheck, PublishVehicle
  <2> QED
    BY <2>1, <2>2
<1>r. ASSUME Reply(p)
      PROVE  OffersInv'
  BY <1>0, <1>t, <1>r, GivesUp
<1>1. ASSUME NEW e, Proceed(p, e),
             e.step \in {"insert", "reactivate", "release", "countForUpdate", "update"}
      PROVE  OffersInv'
  <2>1. errand'[p] = e => Knows(p)' /\ Remembers(p)'
    BY <1>1 DEF Knows, Remembers, Doing
  <2> QED
    BY <1>0, <1>t, <1>1, <2>1, OnwardOffer
<1>2. ASSUME AddClaim(p) \/ EditClaim(p)
      PROVE  OffersInv'
  <2>1. \A v : [errand[p] EXCEPT !.step = "release", !.on = v].step = "release"
    BY <1>t
  <2>2. \A v : [errand[p] EXCEPT !.step = "reactivate", !.vehicle = v].step = "reactivate"
    BY <1>t
  <2>3. \A t \in {"insert", "countForUpdate"} : [errand[p] EXCEPT !.step = t].step = t
    BY <1>t
  <2>4. ASSUME NEW free \in {"insert", "countForUpdate"}, Claim(p, errand[p].user, errand[p].plate, free)
        PROVE  OffersInv'
    BY <2>4, <1>r, <1>1, <2>1, <2>3 DEF Claim, To
  <2>5. CASE AddClaim(p)
    BY <2>5, <1>r, <1>1, <2>2, <2>4 DEF AddClaim
  <2>6. CASE EditClaim(p)
    BY <2>6, <1>r, <1>1, <2>3, <2>4 DEF EditClaim, To
  <2> QED
    BY <1>2, <2>5, <2>6
<1>3. CASE CountRides(p)
  <2>1. CASE To(p, "update")
    <3>1. [errand[p] EXCEPT !.step = "update"].step = "update"
      BY <1>t
    <3> QED
      BY <1>1, <2>1, <3>1 DEF To
  <2>2. CASE To(p, "remove") /\ ~OpenOn(errand[p].vehicle)
    <3> DEFINE e == [errand[p] EXCEPT !.step = "remove"]
    <3>1. e.step = "remove" /\ e.vehicle = errand[p].vehicle
      BY <1>t
    <3>2. Proceed(p, e)
      BY <2>2 DEF To
    <3> HIDE DEF e
    <3>3. errand'[p] = e => Knows(p)' /\ Remembers(p)'
      BY <1>0, <2>2, <3>1 DEF Knows, Remembers, Doing, RowsSame, OpenOn
    <3> QED
      BY <1>0, <1>t, <3>2, <3>3, OnwardOffer
  <2> QED
    BY <1>3, <1>r, <2>1, <2>2 DEF CountRides
<1>4. ASSUME NEW step \in {"openRide", "insertRide"}, To(p, step),
             errand[p].step \in {"vehicle", "openRide"},
             ~crossed => vehicleActive[errand[p].vehicle],
             step = "insertRide" => OpenRides(errand[p].user) = {}
      PROVE  OffersInv'
  <2> DEFINE e == [errand[p] EXCEPT !.step = step]
  <2>1. e.step = step /\ e.vehicle = errand[p].vehicle /\ e.user = errand[p].user
    BY <1>t
  <2>2. Proceed(p, e)
    BY <1>4 DEF To
  <2>3. errand[p].vehicle \in VehicleIds /\ errand[p].user \in Users
    BY <1>4 DEF OffersInv, RowsFit, Knows
  <2> HIDE DEF e
  <2>4. errand'[p] = e => Knows(p)' /\ (~crossed => Remembers(p)')
    BY <1>0, <1>4, <2>1, <2>3 DEF Knows, Remembers, Doing, RowsSame, vehicleRows, OpenRides
  <2> QED
    BY <1>0, <1>t, <2>2, <2>4, OnwardOffer
<1>5. CASE OfferVehicle(p)
  BY <1>5, <1>r, <1>4 DEF OfferVehicle, Doing, Usable, Proven
<1>6. CASE OfferCheck(p)
  <2>1. ~crossed => vehicleActive[errand[p].vehicle]
    BY <1>6 DEF OfferCheck, Doing, OffersInv, TakesTurns, Remembers
  <2> QED
    BY <1>6, <1>r, <1>4, <2>1 DEF OfferCheck, Doing
<1>7. CASE PublishVehicle(p)
  <2>1. CASE To(p, "publish") /\ vehicleActive[errand[p].vehicle]
    <3> DEFINE e == [errand[p] EXCEPT !.step = "publish"]
    <3>1. e.step = "publish" /\ e.vehicle = errand[p].vehicle /\ e.user = errand[p].user /\ e.ride = errand[p].ride
      BY <1>t
    <3>2. Proceed(p, e)
      BY <2>1 DEF To
    <3>3. /\ errand[p].step = "publishVehicle"
          /\ Knows(p) /\ (~crossed => Remembers(p))
      BY <1>7 DEF PublishVehicle, Doing, OffersInv, RowsFit, TakesTurns
    <3> HIDE DEF e
    <3>4. errand'[p] = e => Knows(p)' /\ (~crossed => Remembers(p)')
      BY <1>0, <2>1, <3>1, <3>3 DEF Knows, Remembers, Doing, RowsSame, vehicleRows, OpenRides
    <3> QED
      BY <1>0, <1>t, <3>2, <3>4, OnwardOffer
  <2> QED
    BY <1>7, <1>r, <2>1 DEF PublishVehicle, Usable, Proven
<1> QED
  BY <1>2, <1>3, <1>5, <1>6, <1>7

(* A handler that writes is done with it or goes on to a step for which      *)
(* nothing is remembered; the rows it leaves decide.                         *)
LEMMA WritesThen ==
  ASSUME OffersInv, NEW p \in Procs, errand[p] # NoErrand, NEW e, Proceed(p, e),
         e.step \in {"idle", "insert", "countForUpdate"},
         \A v \in VehicleIds : owner[v] # NoUser => owner'[v] # NoUser,
         \A r \in RideIds : rides[r].status # "NONE" =>
           rides'[r].status # "NONE" /\ rides'[r].rider = rides[r].rider /\ rides'[r].vehicle = rides[r].vehicle
  PROVE  TakesTurns' /\ crossed' = crossed /\ \A q \in Procs : Knows(q)'
<1>1. errand'[p] = e => Knows(p)' /\ Remembers(p)'
  BY DEF Knows, Remembers, Doing
<1>2. /\ TakesTurns' /\ crossed' = crossed /\ errand'[p] = e
      /\ \A q \in Procs \ {p} : errand'[q] = errand[q]
  BY <1>1, StepTurn DEF OffersInv
<1>3. \A q \in Procs \ {p} : Knows(q)'
  BY <1>2 DEF OffersInv, RowsFit, Knows, Doing
<1> QED
  BY <1>1, <1>2, <1>3

LEMMA VehicleWrites ==
  ASSUME OffersInv, NEW p \in Procs,
         \/ Release(p) \/ AddReactivate(p) \/ AddInsert(p) \/ EditWrite(p)
         \/ RemoveWrite(p) \/ UploadWrite(p) \/ VerifyWrite(p)
  PROVE  OffersInv'
<1> USE DEF Doing
<1>0. PlatesInv'
  BY VehicleRowStep DEF OffersInv
<1>t. errand[p] \in Errands /\ errand[p] # NoErrand
  BY DEF OffersInv, PlatesInv, VehiclesTypeOK, Release, AddReactivate, AddInsert, EditWrite,
         RemoveWrite, UploadWrite, VerifyWrite
<1>n. NoErrand.step = "idle"
  OBVIOUS
<1>e. VehiclesTypeOK /\ RowsHaveOwners /\ RowsFit /\ demotedInUse \in BOOLEAN
  BY DEF OffersInv, PlatesInv
<1>r. rides' = rides
  BY DEF Release, AddReactivate, AddInsert, EditWrite, RemoveWrite, UploadWrite, VerifyWrite
<1>o. \A v \in VehicleIds : owner[v] # NoUser => owner'[v] # NoUser
  BY <1>e DEF Release, AddReactivate, AddInsert, EditWrite, RemoveWrite, UploadWrite, VerifyWrite,
              VehiclesTypeOK
<1>1. ASSUME Reply(p)
      PROVE  TakesTurns' /\ crossed' = crossed /\ \A q \in Procs : Knows(q)'
  BY <1>1, <1>t, <1>n, <1>r, <1>o, WritesThen DEF Reply
<1>2. ASSUME TakesTurns', crossed' = crossed, \A q \in Procs : Knows(q)',
             demotedInUse' \in BOOLEAN, demotedInUse => demotedInUse',
             extracted' \in [VehicleIds -> Plates \cup {NoPlate}],
             \A v \in VehicleIds : owner'[v] = NoUser => extracted'[v] = NoPlate,
             ReadingsFit', OpenRideHasVehicle'
      PROVE  OffersInv'
  BY <1>0, <1>2, <1>r, <1>e DEF OffersInv, RowsFit, OneOpenRide, OpenRides
<1>3. CASE RowsSame /\ Reply(p)
  BY <1>0, <1>t, <1>3, GivesUp
<1>4. CASE Release(p) /\ MayRelease(errand[p].on)
  <2> DEFINE v == errand[p].on
             e == [errand[p] EXCEPT !.step = IF errand[p].vehicle = NoVehicle THEN "insert" ELSE "countForUpdate"]
  <2>1. /\ plate' = [plate EXCEPT ![v] = NoPlate]
        /\ vehicleActive' = [vehicleActive EXCEPT ![v] = FALSE]
        /\ SetStatus(v, "REJECTED", extracted[v]) /\ Proceed(p, e)
        /\ UNCHANGED <<owner, rides>>
    BY <1>4 DEF Release, To
  <2>2. e.step \in {"insert", "countForUpdate"}
    BY <1>t
  <2>3. TakesTurns' /\ crossed' = crossed /\ \A q \in Procs : Knows(q)'
    <3> HIDE DEF e
    <3> QED
      BY <1>t, <1>r, <1>o, <2>1, <2>2, WritesThen
  <2>4. extracted' = extracted /\ demotedInUse' = (demotedInUse \/ OpenOn(v))
    BY <1>e, <2>1 DEF SetStatus, RowsFit
  <2>5. ReadingsFit'
    BY <1>e, <2>1, <2>3, <2>4 DEF OffersInv, ReadingsFit, VehiclesTypeOK
  <2>6. OpenRideHasVehicle'
    BY <1>e, <2>1, <2>3, <2>4 DEF OffersInv, OpenRideHasVehicle, OpenOn, VehiclesTypeOK, OpenStatuses, RowsFit
  <2> QED
    BY <1>2, <1>e, <2>1, <2>3, <2>4, <2>5, <2>6 DEF RowsFit
<1>5. CASE AddReactivate(p)
  <2> DEFINE v == errand[p].vehicle
  <2>1. /\ vehicleActive' = [vehicleActive EXCEPT ![v] = TRUE]
        /\ SetStatus(v, "PENDING", NoPlate) /\ Reply(p) /\ UNCHANGED <<owner, plate, rides>>
    BY <1>5 DEF AddReactivate
  <2>2. extracted' = [extracted EXCEPT ![v] = NoPlate] /\ demotedInUse' = (demotedInUse \/ OpenOn(v))
    BY <2>1 DEF SetStatus
  <2>3. ReadingsFit'
    BY <1>1, <1>e, <2>1, <2>2 DEF OffersInv, ReadingsFit, RowsFit, VehiclesTypeOK
  <2>4. OpenRideHasVehicle'
    BY <1>1, <1>e, <2>1, <2>2 DEF OffersInv, OpenRideHasVehicle, VehiclesTypeOK, RowsFit, OpenStatuses
  <2> QED
    BY <1>1, <1>2, <1>e, <2>1, <2>2, <2>3, <2>4 DEF RowsFit
<1>6. CASE AddInsert(p) /\ ~UNCHANGED <<owner, plate, vehicleActive>>
  <2>1. PICK v \in VehicleIds :
          /\ owner[v] = NoUser
          /\ owner' = [owner EXCEPT ![v] = errand[p].user]
          /\ plate' = [plate EXCEPT ![v] = errand[p].plate]
          /\ vehicleActive' = [vehicleActive EXCEPT ![v] = TRUE]
    BY <1>6 DEF AddInsert
  <2>2. Reply(p) /\ UNCHANGED <<extracted, demotedInUse>>
    BY <1>6 DEF AddInsert
  <2>3. extracted[v] = NoPlate
    BY <1>e, <2>1 DEF RowsFit
  <2>4. ReadingsFit'
    BY <1>1, <1>e, <2>1, <2>2, <2>3 DEF OffersInv, ReadingsFit, VehiclesTypeOK
  <2>5. OpenRideHasVehicle'
    BY <1>1, <1>e, <1>r, <2>1, <2>2 DEF OffersInv, OpenRideHasVehicle, VehiclesTypeOK, RowsFit, OpenStatuses
  <2> QED
    BY <1>1, <1>2, <1>e, <1>o, <2>1, <2>2, <2>4, <2>5 DEF RowsFit, VehiclesTypeOK
<1>7. CASE EditWrite(p) /\ plate' = [plate EXCEPT ![errand[p].vehicle] = errand[p].plate]
             /\ SetStatus(errand[p].vehicle, "PENDING", NoPlate)
  <2> DEFINE v == errand[p].vehicle
  <2>1. extracted' = [extracted EXCEPT ![v] = NoPlate] /\ demotedInUse' = (demotedInUse \/ OpenOn(v))
    BY <1>7 DEF SetStatus
  <2>2. Reply(p) /\ UNCHANGED <<owner, vehicleActive, rides>>
    BY <1>7 DEF EditWrite
  <2>3. ReadingsFit'
    BY <1>1, <1>7, <1>e, <2>1, <2>2 DEF OffersInv, ReadingsFit, RowsFit, VehiclesTypeOK
  <2>4. OpenRideHasVehicle'
    BY <1>1, <2>1, <2>2 DEF OffersInv, OpenRideHasVehicle
  <2> QED
    BY <1>1, <1>2, <1>e, <2>1, <2>2, <2>3, <2>4 DEF RowsFit
<1>8. CASE RemoveWrite(p)
  <2> DEFINE v == errand[p].vehicle
  <2>1. /\ vehicleActive' = [vehicleActive EXCEPT ![v] = FALSE]
        /\ Reply(p) /\ UNCHANGED <<owner, plate, extracted, rides, demotedInUse>>
    BY <1>8 DEF RemoveWrite
  <2>2. ~crossed => ~OpenOn(v)
    BY <1>8 DEF RemoveWrite, OffersInv, TakesTurns, Remembers
  <2>3. ReadingsFit'
    BY <1>1, <1>e, <2>1 DEF OffersInv, ReadingsFit, VehiclesTypeOK
  <2>4. OpenRideHasVehicle'
    BY <1>1, <1>e, <2>1, <2>2 DEF OffersInv, OpenRideHasVehicle, OpenOn, VehiclesTypeOK, RowsFit, OpenStatuses
  <2> QED
    BY <1>1, <1>2, <1>e, <2>1, <2>3, <2>4 DEF RowsFit
<1>9. ASSUME UploadWrite(p), NEW s \in {"REJECTED", "VERIFIED"}, NEW found \in Plates \cup {NoPlate},
             found # NoPlate => LookAlike(errand[p].plate, found),
             SetStatus(errand[p].vehicle, s, found)
      PROVE  OffersInv'
  <2> DEFINE v == errand[p].vehicle
  <2>1. /\ extracted' = [extracted EXCEPT ![v] = found]
        /\ demotedInUse' \in BOOLEAN /\ (demotedInUse => demotedInUse')
    BY <1>9, <1>e DEF SetStatus
  <2>2. Reply(p) /\ UNCHANGED <<owner, plate, vehicleActive, rides>>
    BY <1>9 DEF UploadWrite
  <2>3. v \in VehicleIds /\ owner[v] # NoUser /\ (~crossed => plate[v] = errand[p].plate)
    BY <1>9, <1>e DEF UploadWrite, OffersInv, TakesTurns, Remembers, RowsFit, Knows
  <2>4. ReadingsFit'
    BY <1>1, <1>9, <1>e, <2>1, <2>2, <2>3 DEF OffersInv, ReadingsFit, RowsFit
  <2>5. OpenRideHasVehicle'
    BY <1>1, <2>1, <2>2 DEF OffersInv, OpenRideHasVehicle
  <2> QED
    BY <1>1, <1>2, <1>e, <2>1, <2>2, <2>3, <2>4, <2>5 DEF RowsFit
<1>10. CASE UploadWrite(p)
  <2>1. CASE UNCHANGED <<vehicleStatus, extracted, demotedInUse>>
    BY <1>3, <1>10, <2>1 DEF UploadWrite, RowsSame, vehicleRows
  <2> QED
    BY <1>9, <1>10, <2>1 DEF UploadWrite
<1>11. CASE VerifyWrite(p)
  <2> DEFINE v == errand[p].vehicle
  <2>1. PICK s \in {"VERIFIED", "PENDING", "REJECTED"} : SetStatus(v, s, extracted[v])
    BY <1>11 DEF VerifyWrite
  <2>2. Reply(p) /\ UNCHANGED <<owner, plate, vehicleActive, rides>>
    BY <1>11 DEF VerifyWrite
  <2>3. extracted' = extracted /\ demotedInUse' \in BOOLEAN /\ (demotedInUse => demotedInUse')
    BY <1>e, <2>1 DEF SetStatus, RowsFit
  <2>4. ReadingsFit' /\ OpenRideHasVehicle'
    BY <1>1, <2>2, <2>3 DEF OffersInv, ReadingsFit, OpenRideHasVehicle
  <2> QED
    BY <1>1, <1>2, <1>e, <2>2, <2>3, <2>4 DEF RowsFit
<1> QED
  BY <1>3, <1>4, <1>5, <1>6, <1>7, <1>8, <1>10, <1>11 DEF Release, AddInsert, EditWrite, RowsSame, vehicleRows

LEMMA RideWrites ==
  ASSUME OffersInv, NEW p \in Procs, OfferInsert(p) \/ Publish(p)
  PROVE  OffersInv'
<1> USE DEF Doing, OpenStatuses
<1>0. PlatesInv'
  BY RideRowStep DEF OffersInv
<1>t. errand[p] \in Errands /\ errand[p] # NoErrand
  <2>1. errand[p] \in Errands
    BY DEF OffersInv, PlatesInv, VehiclesTypeOK
  <2>2. errand[p].step # "idle"
    BY DEF OfferInsert, Publish
  <2> QED
    BY <2>1, <2>2
<1>e. /\ VehiclesTypeOK /\ RowsFit /\ Knows(p) /\ UNCHANGED <<vehicleRows, demotedInUse>>
      /\ ~crossed => Remembers(p)
  BY DEF OffersInv, PlatesInv, TakesTurns, RowsFit, OfferInsert, Publish
<1>n. NoErrand.step = "idle"
  OBVIOUS
<1>1. ASSUME NEW r \in RideIds,
             \A x \in RideIds \ {r} : rides'[x] = rides[x],
             rides[r].status # "NONE" => rides'[r].rider = rides[r].rider /\ rides'[r].vehicle = rides[r].vehicle,
             rides'[r].status # "NONE",
             rides'[r].rider \in Users, rides'[r].vehicle \in VehicleIds,
             ~crossed => vehicleActive[rides'[r].vehicle],
             ~crossed => OpenRides(rides'[r].rider) \subseteq {r}
      PROVE  OffersInv'
  <2>1. TakesTurns' /\ crossed' = crossed /\ \A q \in Procs : Knows(q)'
    <3>1. Reply(p)
      BY DEF OfferInsert, Publish
    <3>2. owner' = owner
      BY <1>e DEF vehicleRows
    <3> QED
      BY <1>1, <1>t, <1>n, <3>1, <3>2, WritesThen DEF Reply
  <2>2. RowsFit'
    BY <1>1, <1>e, <2>1 DEF RowsFit, vehicleRows
  <2>3. ReadingsFit'
    BY <1>e, <2>1 DEF OffersInv, ReadingsFit, vehicleRows
  <2>4. OneOpenRide'
    <3>1. \A u \in Users : OpenRides(u)' \subseteq OpenRides(u) \cup {r}
      BY <1>1 DEF OpenRides
    <3>2. \A u \in Users : rides'[r].rider # u => OpenRides(u)' \subseteq OpenRides(u)
      BY <1>1 DEF OpenRides
    <3> QED
      BY <1>1, <2>1, <3>1, <3>2 DEF OffersInv, OneOpenRide
  <2>5. OpenRideHasVehicle'
    BY <1>1, <1>e, <2>1 DEF OffersInv, OpenRideHasVehicle, vehicleRows
  <2> QED
    BY <1>0, <1>e, <2>1, <2>2, <2>3, <2>4, <2>5 DEF OffersInv
<1>2. CASE OfferInsert(p)
  <2>1. PICK r \in RideIds :
          /\ rides[r].status = "NONE"
          /\ rides' = [rides EXCEPT ![r] = [rider |-> errand[p].user, vehicle |-> errand[p].vehicle,
                                            status |-> "DRAFT"]]
    BY <1>2 DEF OfferInsert
  <2>2. errand[p].step = "insertRide"
    BY <1>2 DEF OfferInsert
  <2>3. rides'[r] = [rider |-> errand[p].user, vehicle |-> errand[p].vehicle, status |-> "DRAFT"]
          /\ \A x \in RideIds \ {r} : rides'[x] = rides[x]
    BY <1>e, <2>1 DEF VehiclesTypeOK
  <2> QED
    BY <1>1, <1>e, <2>1, <2>2, <2>3 DEF Knows, Remembers
<1>3. CASE Publish(p)
  <2> DEFINE r == errand[p].ride
  <2>1. /\ errand[p].step = "publish" /\ r \in RideIds /\ rides[r].status # "NONE"
        /\ errand[p].user = rides[r].rider /\ errand[p].vehicle = rides[r].vehicle
    BY <1>3, <1>e DEF Publish, Knows
  <2>2. rides' = [rides EXCEPT ![r] = [@ EXCEPT !.status = "PUBLISHED"]]
    BY <1>3 DEF Publish
  <2>3. /\ \A x \in RideIds \ {r} : rides'[x] = rides[x]
        /\ rides'[r] = [rides[r] EXCEPT !.status = "PUBLISHED"]
    BY <1>e, <2>1, <2>2 DEF VehiclesTypeOK
  <2>4. rides'[r].status = "PUBLISHED" /\ rides'[r].rider = rides[r].rider /\ rides'[r].vehicle = rides[r].vehicle
    BY <1>e, <2>1, <2>3 DEF VehiclesTypeOK
  <2>5. rides[r].rider \in Users /\ rides[r].vehicle \in VehicleIds
    BY <1>e, <2>1 DEF RowsFit
  <2>6. ~crossed => vehicleActive[rides[r].vehicle] /\ OpenRides(rides[r].rider) \subseteq {r}
    BY <1>e, <2>1 DEF Remembers
  <2> HIDE DEF r
  <2> QED
    BY <1>1, <2>1, <2>3, <2>4, <2>5, <2>6
<1> QED
  BY <1>2, <1>3

(* An administrator, or the end of a ride, leaves what handlers remember     *)
(* true: a ride that ends is not open, and a verdict takes nothing away.     *)
LEMMA OutsideOffer ==
  ASSUME OffersInv,
         \/ \E v \in VehicleIds, s \in {"PENDING", "VERIFIED", "REJECTED"} : AdminSets(v, s)
         \/ \E r \in RideIds : EndRide(r)
  PROVE  OffersInv'
<1>0. PlatesInv'
  BY PlatesStep DEF OffersInv, OffersNext
<1>e. VehiclesTypeOK /\ RowsFit
  BY DEF OffersInv, PlatesInv
<1>1. ASSUME NEW v \in VehicleIds, NEW s \in {"PENDING", "VERIFIED", "REJECTED"}, AdminSets(v, s)
      PROVE  OffersInv'
  <2>1. /\ extracted' = extracted /\ demotedInUse' \in BOOLEAN /\ (demotedInUse => demotedInUse')
        /\ UNCHANGED <<owner, plate, vehicleActive, rides, errand, crossed>>
    BY <1>1, <1>e DEF AdminSets, SetStatus, RowsFit, OffersInv
  <2>2. RowsFit'
    BY <1>e, <2>1 DEF RowsFit, Knows, Doing
  <2>3. TakesTurns'
    BY <2>1 DEF OffersInv, TakesTurns, OneErrand, Remembers, Doing, OpenOn, OpenRides
  <2>4. ReadingsFit' /\ OneOpenRide' /\ OpenRideHasVehicle'
    BY <2>1 DEF OffersInv, ReadingsFit, OneOpenRide, OpenRides, OpenRideHasVehicle
  <2> QED
    BY <1>0, <2>1, <2>2, <2>3, <2>4 DEF OffersInv
<1>2. ASSUME NEW r \in RideIds, EndRide(r)
      PROVE  OffersInv'
  <2>1. /\ rides[r].status \in OpenStatuses
        /\ rides' = [rides EXCEPT ![r] = [@ EXCEPT !.status = "CLOSED"]]
        /\ UNCHANGED <<owner, plate, vehicleActive, vehicleStatus, extracted, errand, demotedInUse, crossed>>
    BY <1>2 DEF EndRide, vehicleRows
  <2>2. /\ \A x \in RideIds \ {r} : rides'[x] = rides[x]
        /\ rides'[r] = [rides[r] EXCEPT !.status = "CLOSED"]
    BY <1>e, <2>1 DEF VehiclesTypeOK
  <2>3. rides'[r].status = "CLOSED" /\ rides'[r].rider = rides[r].rider /\ rides'[r].vehicle = rides[r].vehicle
    BY <1>e, <2>2 DEF VehiclesTypeOK
  <2>4. rides[r].status # "NONE"
    BY <2>1 DEF OpenStatuses
  <2>5. \A x \in RideIds : /\ rides'[x].rider = rides[x].rider /\ rides'[x].vehicle = rides[x].vehicle
                           /\ rides'[x].status \in OpenStatuses => rides[x].status \in OpenStatuses
                           /\ rides'[x].status # "NONE" <=> rides[x].status # "NONE"
    BY <2>2, <2>3, <2>4 DEF OpenStatuses
  <2>6. RowsFit'
    BY <1>e, <2>1, <2>5 DEF RowsFit, Knows, Doing
  <2>7. /\ \A u : OpenRides(u)' \subseteq OpenRides(u)
        /\ \A v : OpenOn(v)' => OpenOn(v)
    BY <2>5 DEF OpenRides, OpenOn
  <2>8. TakesTurns'
    BY <2>1, <2>7 DEF OffersInv, TakesTurns, OneErrand, Remembers, Doing
  <2>9. ReadingsFit' /\ OneOpenRide'
    BY <2>1, <2>7 DEF OffersInv, ReadingsFit, OneOpenRide
  <2>10. OpenRideHasVehicle'
    BY <2>1, <2>5 DEF OffersInv, OpenRideHasVehicle
  <2> QED
    BY <1>0, <2>1, <2>6, <2>8, <2>9, <2>10 DEF OffersInv
<1> QED
  BY <1>1, <1>2

LEMMA OffersStep ==
  ASSUME OffersInv, OffersNext
  PROVE  OffersInv'
<1>1. ASSUME NEW p \in Procs, VehicleStep(p)
      PROVE  OffersInv'
  BY <1>1, RequestOffer, ReadingOffer, VehicleWrites DEF VehicleStep
<1>2. ASSUME NEW p \in Procs, OfferStep(p)
      PROVE  OffersInv'
  BY <1>2, RequestOffer, ReadingOffer, RideWrites DEF OfferStep
<1> QED
  BY <1>1, <1>2, OutsideOffer DEF OffersNext

LEMMA OffersStart == OffersInit => OffersInv
<1> SUFFICES ASSUME OffersInit PROVE OffersInv
  OBVIOUS
<1>1. \A p \in Procs : errand[p] = NoErrand
  BY DEF OffersInit
<1>2. \A r \in RideIds : rides[r].status = "NONE"
  BY DEF OffersInit
<1>3. \A v \in VehicleIds : extracted[v] = NoPlate
  BY DEF OffersInit
<1>4. RowsFit /\ TakesTurns
  BY <1>1, <1>2, <1>3 DEF OffersInit, RowsFit, Knows, TakesTurns, OneErrand, Remembers, Doing
<1>5. ReadingsFit /\ OneOpenRide /\ OpenRideHasVehicle
  BY <1>2, <1>3 DEF ReadingsFit, OneOpenRide, OpenRides, OpenRideHasVehicle, OpenStatuses
<1> QED
  BY <1>4, <1>5, PlatesStart DEF OffersInit, OffersInv

(* What a ride is offered on, inductively: handlers that take turns find at  *)
(* their later statements what they found at the earlier ones.               *)
THEOREM OffersInvariant == OffersSpec => []OffersInv
<1>1. OffersInv /\ UNCHANGED offerVars => OffersInv'
  BY DEF offerVars, OffersInv, PlatesInv, VehiclesTypeOK, RowsHaveOwners, RowsFit, Knows, TakesTurns,
         OneErrand, Remembers, Doing, OpenOn, OpenRides, ReadingsFit, OneOpenRide, OpenRideHasVehicle
<1> QED
  BY <1>1, OffersStart, OffersStep, PTL DEF OffersSpec

(* A rider has one open ride at a time, if calls do not overlap.             *)
THEOREM RidersOfferOneRide == OffersSpec => []OneOpenRide
BY OffersInvariant, PTL DEF OffersInv

(* A vehicle is not removed under an open ride, unless calls overlap or it   *)
(* lost its verification meanwhile.                                          *)
THEOREM VehiclesStay == OffersSpec => []OpenRideHasVehicle
BY OffersInvariant, PTL DEF OffersInv

(* A vehicle verified from an RC has the plate that RC shows, as long as     *)
(* handlers do not overlap.                                                  *)
THEOREM ReadingsAreProof == OffersSpec => []VerifiedIsProven
<1>1. OffersInv => VerifiedIsProven
  BY DEF OffersInv, ReadingsFit, VerifiedIsProven, Proven
<1> QED
  BY <1>1, OffersInvariant, PTL

---------------------------------------------------------------------------
(* The saved route.                                                         *)

(* Without a race there is one edit on its way, of the end points the ride   *)
(* has, and then no look-up, or look-ups for these end points only.          *)
WritersCurrent ==
  ~raced => /\ \A e \in editing : e.ends = ends
            /\ \A e, f \in editing : e = f
            /\ \A k \in Lookups : lookup[k] # NoLookup => lookup[k].ends = ends /\ editing = {}

RouteInv ==
  /\ ends \in Nat
  /\ editing \subseteq [ends : Nat, path : BOOLEAN]
  /\ raced \in BOOLEAN
  /\ lookup \in [Lookups -> [step : {"idle", "has", "fetch"}, ends : Nat]]
  /\ WritersCurrent
  /\ RouteFitsEnds

LEMMA RouteStep ==
  ASSUME RouteInv, RouteNext
  PROVE  RouteInv'
<1> USE DEF RouteInv, WritersCurrent, RouteFitsEnds, NoLookup
<1>1. ASSUME NEW path \in BOOLEAN, EditEnds(path)
      PROVE  RouteInv'
  <2>1. /\ ends' = ends + 1 /\ editing' = editing \cup {[ends |-> ends + 1, path |-> path]}
        /\ UNCHANGED <<route, lookup>>
    BY <1>1 DEF EditEnds
  <2>2. /\ raced' \in BOOLEAN
        /\ ~raced' => editing = {} /\ \A k \in Lookups : lookup[k] = NoLookup
    BY <1>1 DEF EditEnds, Background
  <2>3. WritersCurrent'
    BY <2>1, <2>2
  <2>4. RouteFitsEnds'
    BY <2>1
  <2> QED
    BY <2>1, <2>2, <2>3, <2>4
<1>2. ASSUME NEW e \in editing, EditRoute(e)
      PROVE  RouteInv'
  <2>1. /\ editing' = editing \ {e} /\ UNCHANGED <<ends, raced>>
        /\ route' \in {0, e.ends}
    BY <1>2 DEF EditRoute, RouteAfter
  <2>2. ~raced => e.ends = ends /\ editing' = {} /\ \A k \in Lookups : lookup[k] = NoLookup
    BY <2>1
  <2>3. CASE lookup' = lookup
    BY <2>1, <2>2, <2>3
  <2>4. ASSUME NEW k \in Lookups, lookup' = [lookup EXCEPT ![k] = [step |-> "has", ends |-> e.ends]]
        PROVE  RouteInv'
    <3>1. e.ends \in Nat
      OBVIOUS
    <3>2. lookup' \in [Lookups -> [step : {"idle", "has", "fetch"}, ends : Nat]]
      BY <2>4, <3>1
    <3>3. ~raced => \A l \in Lookups : lookup'[l] # NoLookup => lookup'[l].ends = ends
      BY <2>2, <2>4
    <3> QED
      BY <2>1, <2>2, <3>2, <3>3
  <2> QED
    BY <1>2, <2>3, <2>4 DEF EditRoute, LookUp
<1>3. ASSUME NEW k \in Lookups, Backfill(k)
      PROVE  RouteInv'
  BY <1>3 DEF Backfill, LookUp
<1>4. ASSUME NEW k \in Lookups, LookupHas(k)
      PROVE  RouteInv'
  BY <1>4 DEF LookupHas
<1>5. ASSUME NEW k \in Lookups, LookupSave(k)
      PROVE  RouteInv'
  BY <1>5 DEF LookupSave
<1> QED
  BY <1>1, <1>2, <1>3, <1>4, <1>5 DEF RouteNext

(* Once an edit is through the saved route joins the end points the ride     *)
(* has, for any number of edits and look-ups, an edit under another one or   *)
(* under a look-up excepted.                                                *)
THEOREM RoutesFit == RouteSpec => []RouteFitsEnds
<1>1. RouteInit => RouteInv
  <2> SUFFICES ASSUME RouteInit PROVE RouteInv
    OBVIOUS
  <2>1. \A k \in Lookups : lookup[k] = NoLookup
    BY DEF RouteInit
  <2>2. lookup \in [Lookups -> [step : {"idle", "has", "fetch"}, ends : Nat]]
    BY DEF RouteInit, NoLookup
  <2> QED
    BY <2>1, <2>2 DEF RouteInit, RouteInv, WritersCurrent, RouteFitsEnds
<1>2. RouteInv /\ UNCHANGED routeVars => RouteInv'
  BY DEF routeVars, RouteInv, WritersCurrent, RouteFitsEnds
<1>3. RouteInv => RouteFitsEnds
  BY DEF RouteInv
<1> QED
  BY <1>1, <1>2, <1>3, RouteStep, PTL DEF RouteSpec

---------------------------------------------------------------------------
(* The pickup rule.                                                         *)

USE ZoneAssumption

(* What rounding does to the order of lengths.                               *)
LEMMA RoundKeepsOrder ==
  ASSUME NEW m \in Nat, NEW n \in Nat
  PROVE  /\ Round1(m) \in Nat
         /\ m <= n => Round1(m) <= Round1(n)
         /\ m > n + 99 => Round1(m) > Round1(n)
         /\ 100 * Round1(m) >= m - 49
         /\ Round1(m + 100) = Round1(m) + 1
BY DEF Round1

LEMMA LimitIsLength ==
  ASSUME NEW a \in Asks
  PROVE  /\ SearchLimit(a.routeM) \in Nat
         /\ DetourLimit(a.routeM) = Round1(SearchLimit(a.routeM))
<1>1. (a.routeM * DetourPercent) \div 100 \in Nat
  <2>1. a.routeM \in Nat
    OBVIOUS
  <2>2. a.routeM * DetourPercent \in Nat
    BY <2>1
  <2> QED
    BY <2>2
<1> QED
  BY <1>1 DEF SearchLimit, DetourLimit, Least, Most

(* A length within the limit for the search is within it for the ride; one   *)
(* that is within it for the ride alone is beyond it by less than 100 m.     *)
LEMMA LimitsAgree ==
  ASSUME NEW a \in Asks, NEW m \in Nat
  PROVE  /\ Within(a, m) => ~Beyond(a, m)
         /\ ~Beyond(a, m) => m - SearchLimit(a.routeM) <= 99
<1> DEFINE l == SearchLimit(a.routeM)
<1>1. l \in Nat /\ DetourLimit(a.routeM) = Round1(l)
  BY LimitIsLength
<1> HIDE DEF l
<1>2. /\ Round1(m) \in Nat /\ Round1(l) \in Nat
      /\ m <= l => Round1(m) <= Round1(l)
      /\ m > l + 99 => Round1(m) > Round1(l)
  BY <1>1, RoundKeepsOrder
<1> QED
  BY <1>1, <1>2 DEF Within, Beyond, l

(* Whatever a search lists and goes forward can be joined; what it lists in  *)
(* vain runs backwards, by no more than its wider slack or between points    *)
(* near the two ends; and what can be joined is listed unless its farther    *)
(* point is beyond the limit by less than 100 m - whatever the route, the    *)
(* limits and the points.                                                    *)
THEOREM SearchAndJoinAgreeAlways == ZoneInit => SearchAndJoinAgree
<1> SUFFICES ASSUME ask \in Asks PROVE SearchAndJoinAgree
  BY DEF ZoneInit
<1> DEFINE l == SearchLimit(ask.routeM)
<1>t. /\ ask.pickupM \in Nat /\ ask.dropM \in Nat /\ ask.pickupAt \in Nat /\ ask.dropAt \in Nat
      /\ ask.fromStartM \in Nat /\ ask.fromEndM \in Nat
      /\ ask.fromStartM >= ask.pickupM /\ ask.fromEndM >= ask.dropM
  OBVIOUS
<1>l. l \in Nat
  BY LimitIsLength
<1>f. GoesForward(ask) => Ordered(ask)
  BY <1>t DEF GoesForward, Ordered
<1>1. GoesForward(ask) => (Listed(ask) <=> Within(ask, ask.pickupM) /\ Within(ask, ask.dropM))
  <2>1. /\ Within(ask, ask.fromStartM) => Within(ask, ask.pickupM)
        /\ Within(ask, ask.fromEndM) => Within(ask, ask.dropM)
    BY <1>t, <1>l DEF Within
  <2> QED
    BY <1>f, <2>1 DEF Listed
<1>2. Zone(ask) # TooFar => GoesForward(ask) /\ ~Beyond(ask, ask.pickupM) /\ ~Beyond(ask, ask.dropM)
  BY DEF Zone
<1>3. GoesForward(ask) /\ ~Beyond(ask, ask.pickupM) /\ ~Beyond(ask, ask.dropM) => Zone(ask) # TooFar
  BY DEF Zone, TooFar
<1>4. ASSUME Listed(ask), Zone(ask) = TooFar
      PROVE  /\ ~GoesForward(ask)
             /\ Ordered(ask) \/ (Within(ask, ask.fromStartM) /\ Within(ask, ask.fromEndM))
  <2>1. ~GoesForward(ask)
    BY <1>1, <1>3, <1>4, <1>t, LimitsAgree
  <2>2. Ordered(ask) \/ (Within(ask, ask.fromStartM) /\ Within(ask, ask.fromEndM))
    BY <1>4 DEF Listed
  <2> QED
    BY <2>1, <2>2
<1>5. ASSUME Zone(ask) # TooFar, ~Listed(ask)
      PROVE  Most(ask.pickupM, ask.dropM) - l \in 1 .. 99
  <2>1. ~Within(ask, ask.pickupM) \/ ~Within(ask, ask.dropM)
    BY <1>1, <1>2, <1>5
  <2>2. ask.pickupM - l > 0 \/ ask.dropM - l > 0
    BY <1>l, <1>t, <2>1 DEF Within
  <2>3. ask.pickupM - l <= 99 /\ ask.dropM - l <= 99
    BY <1>2, <1>5, <1>t, LimitsAgree
  <2> HIDE DEF l
  <2> QED
    BY <1>l, <1>t, <2>2, <2>3 DEF Most
<1> QED
  BY <1>4, <1>5 DEF SearchAndJoinAgree

LEMMA ProductsKeepOrder ==
  ASSUME NEW x \in Int, NEW y \in Int, NEW r \in Nat, x <= y
  PROVE  x * r <= y * r
<1>1. y - x \in Nat /\ (y - x) * r \in Nat
  OBVIOUS
<1>2. y * r = x * r + (y - x) * r
  OBVIOUS
<1> QED
  BY <1>1, <1>2

LEMMA RateIsEnough ==
  ASSUME NEW a \in Asks
  PROVE  RateTenths(a) \in Nat /\ RateTenths(a) >= 10 * TipRatePerKm
<1>1. a.routeM \in Nat \ {0} /\ a.fare \in Nat
  OBVIOUS
<1>2. (20000 * a.fare + a.routeM) \div (2 * a.routeM) \in Nat
  <2>1. 20000 * a.fare + a.routeM \in Nat /\ 2 * a.routeM \in Nat \ {0}
    BY <1>1
  <2> QED
    BY <2>1
<1> QED
  BY <1>2 DEF RateTenths, Most

(* The fare of a detour, to the rupee, and that a longer one costs no less.  *)
LEMMA FareOfDetour ==
  ASSUME NEW a \in Asks, NEW off \in Nat
  PROVE  /\ DetourFare(off, a) \in Nat
         /\ 100 * DetourFare(off, a) + 49 >= 20 * (off * TipRatePerKm)
         /\ \A more \in Nat : off <= more => DetourFare(off, a) <= DetourFare(more, a)
<1> DEFINE r == RateTenths(a)
<1>1. r \in Nat /\ r >= 10 * TipRatePerKm
  BY RateIsEnough
<1> HIDE DEF r
<1>2. \A x \in Nat : /\ x * r \in Nat /\ 2 * x * r = 2 * (x * r)
                     /\ DetourFare(x, a) = (2 * (x * r) + 50) \div 100
  BY <1>1 DEF DetourFare, r
<1>3. off * r >= 10 * (off * TipRatePerKm)
  <2>1. r * off >= (10 * TipRatePerKm) * off
    BY <1>1, ProductsKeepOrder
  <2>2. r * off = off * r /\ (10 * TipRatePerKm) * off = 10 * (off * TipRatePerKm)
    BY <1>1
  <2> QED
    BY <2>1, <2>2
<1>4. off * TipRatePerKm \in Nat
  OBVIOUS
<1>5. DetourFare(off, a) \in Nat /\ 100 * DetourFare(off, a) + 49 >= 2 * (off * r)
  <2>1. \A w \in Nat : (2 * w + 50) \div 100 \in Nat /\ 100 * ((2 * w + 50) \div 100) + 49 >= 2 * w
    OBVIOUS
  <2>2. off * r \in Nat /\ DetourFare(off, a) = (2 * (off * r) + 50) \div 100
    BY <1>2
  <2> QED
    BY <2>1, <2>2
<1>6. ASSUME NEW more \in Nat, off <= more
      PROVE  DetourFare(off, a) <= DetourFare(more, a)
  <2>1. off * r <= more * r
    BY <1>1, <1>6, ProductsKeepOrder
  <2> QED
    BY <1>2, <2>1
<1> QED
  BY <1>2, <1>3, <1>4, <1>5, <1>6

(* The hectometres a detour is charged for are those of the farther point at *)
(* least, and no fewer for a farther pickup.                                 *)
OffOf(p, d) == OffRoute(Round1(p)) + OffRoute(Round1(d))

LEMMA OffIsCharged ==
  ASSUME NEW p \in Nat, NEW d \in Nat
  PROVE  /\ OffOf(p, d) \in Nat
         /\ OffOf(p, d) > 0 => OffOf(p, d) >= Round1(Most(p, d))
         /\ OffOf(p, d) <= OffOf(p + 100, d)
<1>1. /\ Round1(p) \in Nat /\ Round1(d) \in Nat /\ Round1(OnRouteM) \in Nat
      /\ p <= d => Round1(p) <= Round1(d)
      /\ d <= p => Round1(d) <= Round1(p)
      /\ Round1(p + 100) = Round1(p) + 1
  BY RoundKeepsOrder
<1>2. OffOf(p, d) \in Nat
  BY <1>1 DEF OffOf, OffRoute
<1>3. OffOf(p, d) > 0 => OffOf(p, d) >= Round1(Most(p, d))
  BY <1>1 DEF OffOf, OffRoute, Most
<1>4. OffOf(p, d) <= OffOf(p + 100, d)
  BY <1>1 DEF OffOf, OffRoute
<1> QED
  BY <1>2, <1>3, <1>4

(* A detour costs at least the default rate for the way there and back, less *)
(* the rounding, and a farther pickup never costs less, whatever the rates   *)
(* and the limits.                                                           *)
THEOREM DetoursArePaid == ZoneInit => DetourIsPaid
<1> SUFFICES ASSUME ask \in Asks PROVE DetourIsPaid
  BY DEF ZoneInit
<1> DEFINE far  == [ask EXCEPT !.pickupM = @ + 100]
           most == Most(ask.pickupM, ask.dropM)
           off  == OffOf(ask.pickupM, ask.dropM)
           more == OffOf(ask.pickupM + 100, ask.dropM)
<1>t. /\ ask.pickupM \in Nat /\ ask.dropM \in Nat /\ ask.routeM \in Nat \ {0}
      /\ ask.pickupAt \in Nat /\ ask.dropAt \in Nat
  OBVIOUS
<1>f. /\ far.pickupM = ask.pickupM + 100 /\ far.dropM = ask.dropM /\ far.routeM = ask.routeM
      /\ far.pickupAt = ask.pickupAt /\ far.dropAt = ask.dropAt /\ far.fare = ask.fare
  OBVIOUS
<1>1. /\ off \in Nat /\ more \in Nat /\ off <= more
      /\ off > 0 => off >= Round1(most)
  <2>1. ask.pickupM + 100 \in Nat
    BY <1>t
  <2>2. /\ off \in Nat /\ off <= more
        /\ off > 0 => off >= Round1(most)
    BY <1>t, OffIsCharged
  <2>3. more \in Nat
    BY <1>t, <2>1, OffIsCharged
  <2> QED
    BY <2>2, <2>3
<1>2. most \in Nat /\ Round1(most) \in Nat /\ 100 * Round1(most) >= most - 49
  BY <1>t, RoundKeepsOrder DEF Most
<1>3. /\ DetourFare(off, ask) \in Nat /\ DetourFare(more, ask) \in Nat
      /\ 100 * DetourFare(off, ask) + 49 >= 20 * (off * TipRatePerKm)
      /\ DetourFare(off, ask) <= DetourFare(more, ask)
  BY <1>1, FareOfDetour
<1>4. DetourFare(more, far) = DetourFare(more, ask)
  BY <1>f DEF DetourFare, RateTenths
<1>z. Zone(ask) = IF ~GoesForward(ask) \/ Beyond(ask, ask.dropM) \/ Beyond(ask, ask.pickupM) THEN TooFar
                  ELSE IF off > 0 THEN [zone |-> "DETOUR", extraTip |-> DetourFare(off, ask)]
                  ELSE [zone |-> "ON_ROUTE", extraTip |-> 0]
  BY DEF Zone, OffOf
<1>y. Zone(far) = IF ~GoesForward(far) \/ Beyond(far, far.dropM) \/ Beyond(far, far.pickupM) THEN TooFar
                  ELSE IF more > 0 THEN [zone |-> "DETOUR", extraTip |-> DetourFare(more, ask)]
                  ELSE [zone |-> "ON_ROUTE", extraTip |-> 0]
  BY <1>4, <1>f DEF Zone, OffOf
<1>5. ASSUME Zone(ask).zone = "DETOUR"
      PROVE  1000 * Zone(ask).extraTip + 500 >= 2 * TipRatePerKm * (most - 50)
  <2>1. off > 0 /\ Zone(ask).extraTip = DetourFare(off, ask)
    BY <1>5, <1>z DEF TooFar
  <2>2. 100 * off >= most - 50
    BY <1>1, <1>2, <2>1
  <2> HIDE DEF most, off
  <2>3. (most - 50) * TipRatePerKm <= (100 * off) * TipRatePerKm
    BY <1>1, <1>2, <2>2, ProductsKeepOrder
  <2>4. /\ (100 * off) * TipRatePerKm = 100 * (off * TipRatePerKm)
        /\ 2 * TipRatePerKm * (most - 50) = 2 * ((most - 50) * TipRatePerKm)
        /\ off * TipRatePerKm \in Nat /\ (most - 50) * TipRatePerKm \in Int
    BY <1>1, <1>2
  <2> QED
    BY <1>3, <2>1, <2>3, <2>4
<1>6. ASSUME Zone(far) # TooFar
      PROVE  Zone(far).extraTip >= Zone(ask).extraTip
  <2>1. Beyond(ask, ask.pickupM) => Beyond(far, far.pickupM)
    <3>1. Round1(ask.pickupM + 100) = Round1(ask.pickupM) + 1 /\ Round1(ask.pickupM) \in Nat
      BY <1>t, RoundKeepsOrder
    <3>2. DetourLimit(ask.routeM) \in Nat
      BY LimitIsLength, RoundKeepsOrder
    <3> QED
      BY <1>f, <3>1, <3>2 DEF Beyond
  <2>2. GoesForward(far) = GoesForward(ask) /\ Beyond(far, far.dropM) = Beyond(ask, ask.dropM)
    BY <1>f DEF GoesForward, Beyond
  <2>3. ~(~GoesForward(ask) \/ Beyond(ask, ask.dropM) \/ Beyond(ask, ask.pickupM))
    BY <1>6, <1>y, <2>1, <2>2
  <2>4. Zone(far).extraTip = IF more > 0 THEN DetourFare(more, ask) ELSE 0
    BY <1>6, <1>y
  <2>5. Zone(ask).extraTip = IF off > 0 THEN DetourFare(off, ask) ELSE 0
    BY <1>z, <2>3
  <2> HIDE DEF more, off
  <2> QED
    BY <1>1, <1>3, <2>4, <2>5
<1> QED
  BY <1>5, <1>6 DEF DetourIsPaid
=============================================================================
