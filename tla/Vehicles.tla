------------------------------ MODULE Vehicles ------------------------------
(***************************************************************************)
(* Vehicles and their registration numbers (vehicle.service.js): a plate   *)
(* belongs to the account that proves it with an RC, and a claim nobody    *)
(* proved gives way to another account's.                                  *)
(*                                                                         *)
(* A step is one SQL statement or the answer of the OCR or the registry.   *)
(* registration_number is UNIQUE, active or not.  Fields that no check     *)
(* looks at (colour, model, ...) are left out.                             *)
(***************************************************************************)
EXTENDS Callers

CONSTANTS
  VehicleIds, Plates, RideIds,
  Ambiguous,      \* pairs of plates that differ in characters OCR confuses
  NoPlate,        \* no registration number
  NoVehicle, NoRide

VARIABLES
  owner,          \* vehicles.owner_id, NoUser while there is no such row
  plate,          \* registration_number, NoPlate for 'RELEASED-<id>'
  vehicleActive,  \* is_active
  vehicleStatus,  \* verification_status
  extracted,      \* rc_extracted_registration_number if rc_ocr_status is MATCHED, else NoPlate
  rides,          \* rides: rider_id, vehicle_id, status
  errand,         \* what each handler in flight is doing and remembers
  demotedInUse,  \* history: a vehicle was no longer verified while a ride was open on it
  crossed         \* history: two handlers have been in flight at once

vehicleRows == <<owner, plate, vehicleActive, vehicleStatus, extracted>>
offerVars   == <<owner, plate, vehicleActive, vehicleStatus, extracted, rides, errand,
                 demotedInUse, crossed>>

NoErrand == [step |-> "idle", user |-> NoUser, vehicle |-> NoVehicle, plate |-> NoPlate,
             ride |-> NoRide, on |-> NoVehicle]

Accept(p, e) ==
  /\ errand[p] = NoErrand
  /\ errand' = [errand EXCEPT ![p] = e]
  /\ crossed' = (crossed \/ \E q \in Procs : errand[q] # NoErrand)

Proceed(p, e) == errand' = [errand EXCEPT ![p] = e] /\ UNCHANGED crossed
To(p, step)   == Proceed(p, [errand[p] EXCEPT !.step = step])
Reply(p)      == Proceed(p, NoErrand)
Doing(p, step) == errand[p].step = step

(* registrationNumbersLookAlike: OCR confuses some characters both ways.     *)
LookAlike(a, b) ==
  a # NoPlate /\ b # NoPlate /\ (a = b \/ <<a, b>> \in Ambiguous \/ <<b, a>> \in Ambiguous)

(* A ride that has started is no different from a published one here.        *)
OpenStatuses == {"DRAFT", "PUBLISHED"}

(* Fault: a draft does not count as open.                                    *)
OpenOnFault(v) == \E r \in RideIds : rides[r].vehicle = v /\ rides[r].status = "PUBLISHED"

OpenOn(v) == \E r \in RideIds : rides[r].vehicle = v /\ rides[r].status \in OpenStatuses

(* The rows that stand in the way of plate n; there is at most one.          *)
RowsWith(n) == {v \in VehicleIds : owner[v] # NoUser /\ plate[v] = n}
Proven(v) == vehicleActive[v] /\ vehicleStatus[v] = "VERIFIED"

(* UPDATE of row v: status s with RC reading x.                              *)
SetStatus(v, s, x) ==
  /\ vehicleStatus' = [vehicleStatus EXCEPT ![v] = s]
  /\ extracted' = [extracted EXCEPT ![v] = x]
  /\ demotedInUse' = (demotedInUse \/ (s # "VERIFIED" /\ OpenOn(v)))

---------------------------------------------------------------------------
(* claimRegistrationNumber, for the step that follows if the plate is free. *)
Claim(p, u, n, free) ==
  \/ RowsWith(n) = {} /\ To(p, free)
  \/ \E v \in RowsWith(n) :
       /\ owner[v] # u
       /\ IF Proven(v) THEN Reply(p)
          ELSE Proceed(p, [errand[p] EXCEPT !.step = "release", !.on = v])

(* The row that has plate n is the account's own.                            *)
OwnRow(v, u, n) == v \in RowsWith(n) /\ owner[v] = u

(* releaseRegistrationNumber: one UPDATE whose WHERE asks again whether the  *)
(* owner has proved the plate in the meantime.                               *)
(* Fault: the WHERE does not ask again.                                      *)
MayReleaseFault(v) == TRUE

MayRelease(v) == ~Proven(v)

Release(p) ==
  LET v == errand[p].on IN
  /\ Doing(p, "release")
  /\ IF MayRelease(v)
     THEN /\ plate' = [plate EXCEPT ![v] = NoPlate]
          /\ vehicleActive' = [vehicleActive EXCEPT ![v] = FALSE]
          /\ SetStatus(v, "REJECTED", extracted[v])
          /\ To(p, IF errand[p].vehicle = NoVehicle THEN "insert" ELSE "countForUpdate")
     ELSE Reply(p) /\ UNCHANGED <<plate, vehicleActive, vehicleStatus, extracted, demotedInUse>>
  /\ UNCHANGED <<owner, rides>>

(* create                                                                   *)
AddBegin(p, u, n) ==
  /\ Accept(p, [NoErrand EXCEPT !.step = "claimForAdd", !.user = u, !.plate = n])
  /\ UNCHANGED <<vehicleRows, rides, demotedInUse>>

(* An own row that is active is carried on with, or refused if verified;     *)
(* neither changes anything modelled.  A removed one is reactivated.         *)
AddClaim(p) ==
  /\ Doing(p, "claimForAdd")
  /\ \/ Claim(p, errand[p].user, errand[p].plate, "insert")
     \/ \E v \in VehicleIds :
          /\ OwnRow(v, errand[p].user, errand[p].plate)
          /\ IF vehicleActive[v] THEN Reply(p)
             ELSE Proceed(p, [errand[p] EXCEPT !.step = "reactivate", !.vehicle = v])
  /\ UNCHANGED <<vehicleRows, rides, demotedInUse>>

AddReactivate(p) ==
  LET v == errand[p].vehicle IN
  /\ Doing(p, "reactivate")
  /\ vehicleActive' = [vehicleActive EXCEPT ![v] = TRUE]
  /\ SetStatus(v, "PENDING", NoPlate)
  /\ Reply(p)
  /\ UNCHANGED <<owner, plate, rides>>

(* The unique index refuses a plate another row has by now.                  *)
AddInsert(p) ==
  /\ Doing(p, "insert")
  /\ \/ /\ RowsWith(errand[p].plate) = {}
        /\ \E v \in VehicleIds :
             /\ owner[v] = NoUser
             /\ owner' = [owner EXCEPT ![v] = errand[p].user]
             /\ plate' = [plate EXCEPT ![v] = errand[p].plate]
             /\ vehicleActive' = [vehicleActive EXCEPT ![v] = TRUE]
     \/ RowsWith(errand[p].plate) # {} /\ UNCHANGED <<owner, plate, vehicleActive>>
  /\ Reply(p)
  /\ UNCHANGED <<vehicleStatus, extracted, rides, demotedInUse>>

---------------------------------------------------------------------------
(* update of the plate, or of other details the verification rests on when  *)
(* n is the plate the vehicle has.                                           *)
EditBegin(p, u, v, n) ==
  /\ owner[v] = u
  /\ Accept(p, [NoErrand EXCEPT !.step = IF n = plate[v] THEN "countForUpdate" ELSE "claimForUpdate",
                                !.user = u, !.vehicle = v, !.plate = n])
  /\ UNCHANGED <<vehicleRows, rides, demotedInUse>>

EditClaim(p) ==
  /\ Doing(p, "claimForUpdate")
  /\ \/ Claim(p, errand[p].user, errand[p].plate, "countForUpdate")
     \/ \E v \in VehicleIds :
          /\ OwnRow(v, errand[p].user, errand[p].plate)
          /\ IF v = errand[p].vehicle THEN To(p, "countForUpdate") ELSE Reply(p)
  /\ UNCHANGED <<vehicleRows, rides, demotedInUse>>

(* countActiveRides, for update and remove.                                  *)
CountRides(p) ==
  /\ \/ Doing(p, "countForUpdate") /\ (IF OpenOn(errand[p].vehicle) THEN Reply(p) ELSE To(p, "update"))
     \/ Doing(p, "countForRemove") /\ (IF OpenOn(errand[p].vehicle) THEN Reply(p) ELSE To(p, "remove"))
  /\ UNCHANGED <<vehicleRows, rides, demotedInUse>>

(* Fault: the verification outlives the plate it was for.                    *)
EditWriteFault(p) ==
  LET v == errand[p].vehicle IN
  /\ Doing(p, "update")
  /\ plate' = IF RowsWith(errand[p].plate) \subseteq {v}
              THEN [plate EXCEPT ![v] = errand[p].plate] ELSE plate
  /\ Reply(p)
  /\ UNCHANGED <<owner, vehicleActive, vehicleStatus, extracted, rides, demotedInUse>>

EditWrite(p) ==
  LET v == errand[p].vehicle IN
  /\ Doing(p, "update")
  /\ IF RowsWith(errand[p].plate) \subseteq {v}
     THEN /\ plate' = [plate EXCEPT ![v] = errand[p].plate]
          /\ SetStatus(v, "PENDING", NoPlate)
     ELSE UNCHANGED <<plate, vehicleStatus, extracted, demotedInUse>>
  /\ Reply(p)
  /\ UNCHANGED <<owner, vehicleActive, rides>>

RemoveBegin(p, u, v) ==
  /\ owner[v] = u
  /\ Accept(p, [NoErrand EXCEPT !.step = "countForRemove", !.user = u, !.vehicle = v])
  /\ UNCHANGED <<vehicleRows, rides, demotedInUse>>

RemoveWrite(p) ==
  /\ Doing(p, "remove")
  /\ vehicleActive' = [vehicleActive EXCEPT ![errand[p].vehicle] = FALSE]
  /\ Reply(p)
  /\ UNCHANGED <<owner, plate, vehicleStatus, extracted, rides, demotedInUse>>

---------------------------------------------------------------------------
(* uploadRcDocument: the plate is read before the OCR and the upload.        *)
UploadBegin(p, u, v) ==
  /\ owner[v] = u
  /\ Accept(p, [NoErrand EXCEPT !.step = "ocr", !.user = u, !.vehicle = v, !.plate = plate[v]])
  /\ UNCHANGED <<vehicleRows, rides, demotedInUse>>

(* The OCR finds no number, another one, or the expected, and a document     *)
(* that is verified is hosted; or one of the two services fails.             *)
UploadWrite(p) ==
  LET v == errand[p].vehicle IN
  /\ Doing(p, "ocr")
  /\ \/ UNCHANGED <<vehicleStatus, extracted, demotedInUse>>
     \/ SetStatus(v, "REJECTED", NoPlate)
     \/ \E found \in Plates :
          LookAlike(errand[p].plate, found) /\ SetStatus(v, "VERIFIED", found)
  /\ Reply(p)
  /\ UNCHANGED <<owner, plate, vehicleActive, rides>>

(* verify: the registry is asked about the plate the RC was read for.        *)
MayVerify(v) == vehicleStatus[v] # "VERIFIED" /\ LookAlike(plate[v], extracted[v])

VerifyBegin(p, u, v) ==
  /\ owner[v] = u
  /\ MayVerify(v)
  /\ Accept(p, [NoErrand EXCEPT !.step = "registry", !.user = u, !.vehicle = v])
  /\ UNCHANGED <<vehicleRows, rides, demotedInUse>>

(* A registry that is down leaves it pending.                                *)
VerifyWrite(p) ==
  LET v == errand[p].vehicle IN
  /\ Doing(p, "registry")
  /\ \E s \in {"VERIFIED", "PENDING", "REJECTED"} : SetStatus(v, s, extracted[v])
  /\ Reply(p)
  /\ UNCHANGED <<owner, plate, vehicleActive, rides>>

(* PUT /admin/vehicles/:id/verify                                            *)
AdminSets(v, s) ==
  /\ owner[v] # NoUser
  /\ vehicleStatus[v] # s
  /\ SetStatus(v, s, extracted[v])
  /\ UNCHANGED <<owner, plate, vehicleActive, rides, errand, crossed>>

VehicleStep(p) ==
  \/ \E u \in Users :
       \/ \E n \in Plates : AddBegin(p, u, n)
       \/ \E v \in VehicleIds :
            \/ \E n \in Plates : EditBegin(p, u, v, n)
            \/ RemoveBegin(p, u, v) \/ UploadBegin(p, u, v) \/ VerifyBegin(p, u, v)
  \/ AddClaim(p) \/ Release(p) \/ AddReactivate(p) \/ AddInsert(p)
  \/ EditClaim(p) \/ CountRides(p) \/ EditWrite(p) \/ RemoveWrite(p)
  \/ UploadWrite(p) \/ VerifyWrite(p)
=============================================================================
