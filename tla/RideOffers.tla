----------------------------- MODULE RideOffers -----------------------------
(***************************************************************************)
(* Who may offer a ride: the creation and publication of rides             *)
(* (ride.service.js) on top of the vehicles.  The driving licence that     *)
(* both ask for first is in Licences, and what becomes of a published ride *)
(* in RideTrip.                                                            *)
(***************************************************************************)
EXTENDS Vehicles

---------------------------------------------------------------------------
(* create: licence, vehicle, open ride, insert; four statements.            *)
OfferBegin(p, u, v) ==
  /\ Accept(p, [NoErrand EXCEPT !.step = "vehicle", !.user = u, !.vehicle = v])
  /\ UNCHANGED <<vehicleRows, rides, demotedInUse>>

Usable(v, u) == owner[v] = u /\ Proven(v)

OfferVehicle(p) ==
  /\ Doing(p, "vehicle")
  /\ IF Usable(errand[p].vehicle, errand[p].user) THEN To(p, "openRide") ELSE Reply(p)
  /\ UNCHANGED <<vehicleRows, rides, demotedInUse>>

(* Fault: drafts do not count.                                               *)
OpenRidesFault(u) == {r \in RideIds : rides[r].rider = u /\ rides[r].status = "PUBLISHED"}

(* findOpenByRider                                                           *)
OpenRides(u) == {r \in RideIds : rides[r].rider = u /\ rides[r].status \in OpenStatuses}

OfferCheck(p) ==
  /\ Doing(p, "openRide")
  /\ IF OpenRides(errand[p].user) = {} THEN To(p, "insertRide") ELSE Reply(p)
  /\ UNCHANGED <<vehicleRows, rides, demotedInUse>>

OfferInsert(p) ==
  /\ Doing(p, "insertRide")
  /\ \E r \in RideIds :
       /\ rides[r].status = "NONE"
       /\ rides' = [rides EXCEPT ![r] = [rider |-> errand[p].user, vehicle |-> errand[p].vehicle,
                                         status |-> "DRAFT"]]
  /\ Reply(p)
  /\ UNCHANGED <<vehicleRows, demotedInUse>>

(* publish reads the ride and the licence, then the vehicle, then writes.    *)
PublishBegin(p, r) ==
  /\ rides[r].status = "DRAFT"
  /\ Accept(p, [NoErrand EXCEPT !.step = "publishVehicle", !.user = rides[r].rider,
                                !.vehicle = rides[r].vehicle, !.ride = r])
  /\ UNCHANGED <<vehicleRows, rides, demotedInUse>>

PublishVehicle(p) ==
  /\ Doing(p, "publishVehicle")
  /\ IF Usable(errand[p].vehicle, errand[p].user) THEN To(p, "publish") ELSE Reply(p)
  /\ UNCHANGED <<vehicleRows, rides, demotedInUse>>

Publish(p) ==
  /\ Doing(p, "publish")
  /\ rides' = [rides EXCEPT ![errand[p].ride].status = "PUBLISHED"]
  /\ Reply(p)
  /\ UNCHANGED <<vehicleRows, demotedInUse>>

(* cancel, complete or the sweep ends the ride.                              *)
EndRide(r) ==
  /\ rides[r].status \in OpenStatuses
  /\ rides' = [rides EXCEPT ![r].status = "CLOSED"]
  /\ UNCHANGED <<vehicleRows, errand, demotedInUse, crossed>>

---------------------------------------------------------------------------
OffersInit ==
  /\ owner = [v \in VehicleIds |-> NoUser]
  /\ plate = [v \in VehicleIds |-> NoPlate]
  /\ vehicleActive = [v \in VehicleIds |-> FALSE]
  /\ vehicleStatus = [v \in VehicleIds |-> "PENDING"]
  /\ extracted = [v \in VehicleIds |-> NoPlate]
  /\ rides = [r \in RideIds |-> [rider |-> NoUser, vehicle |-> NoVehicle, status |-> "NONE"]]
  /\ errand = [p \in Procs |-> NoErrand]
  /\ demotedInUse = FALSE
  /\ crossed = FALSE

OfferStep(p) ==
  \/ \E u \in Users, v \in VehicleIds : OfferBegin(p, u, v)
  \/ OfferVehicle(p) \/ OfferCheck(p) \/ OfferInsert(p)
  \/ \E r \in RideIds : PublishBegin(p, r)
  \/ PublishVehicle(p) \/ Publish(p)

OffersNext ==
  \/ \E p \in Procs : VehicleStep(p) \/ OfferStep(p)
  \/ \E v \in VehicleIds, s \in {"PENDING", "VERIFIED", "REJECTED"} : AdminSets(v, s)
  \/ \E r \in RideIds : EndRide(r)

OffersSpec == OffersInit /\ [][OffersNext]_offerVars

---------------------------------------------------------------------------
(* vehicle.service.js:21: a registration number belongs to whoever proved it *)
(* with a matching RC.  A vehicle verified from an RC has the plate that RC  *)
(* shows, as long as handlers do not overlap: the upload writes its verdict  *)
(* on the row by then, whose plate may have been edited under the OCR.       *)
VerifiedIsProven ==
  \/ crossed
  \/ \A v \in VehicleIds :
       Proven(v) /\ extracted[v] # NoPlate => LookAlike(plate[v], extracted[v])

(* Handler p now takes this step for vehicle v.                              *)
Takes(p, step, v) == Doing(p, step) /\ errand[p].vehicle = v /\ errand'[p] # errand[p]

(* Whatever overlaps, a proved plate and the vehicle that has it are taken   *)
(* away by its owner's own edit or removal only, never by another claim.     *)
VerifiedPlateKept ==
  [][\A v \in VehicleIds :
       Proven(v) =>
         /\ plate'[v] # plate[v] => \E p \in Procs : Takes(p, "update", v)
         /\ ~vehicleActive'[v] => \E p \in Procs : Takes(p, "remove", v)]_offerVars

(* ride.repository.js:115: a rider has one open ride at a time, if calls do  *)
(* not overlap.                                                              *)
OneOpenRide == crossed \/ \A u \in Users : \A r, s \in OpenRides(u) : r = s

(* vehicle.service.js:269: a vehicle is not removed under a ride.  It takes  *)
(* two overlapping calls, or a vehicle that lost its verification meanwhile  *)
(* and so its plate to another account's claim.                              *)
OpenRideHasVehicle ==
  \/ crossed \/ demotedInUse
  \/ \A r \in RideIds : rides[r].status \in OpenStatuses => vehicleActive[rides[r].vehicle]

(* ride.service.js:43, "one open trip at a time", whatever overlaps.         *)
NoSecondOpenRide == \A u \in Users : \A r, s \in OpenRides(u) : r = s

(* vehicle.service.js:269, "cannot delete a vehicle with active or upcoming  *)
(* rides", whatever overlaps.                                                *)
NoRideWithoutVehicle ==
  demotedInUse \/ \A r \in RideIds : rides[r].status \in OpenStatuses => vehicleActive[rides[r].vehicle]

(* vehicle.service.js:21, the owner of a plate "proved it with a matching    *)
(* RC", whatever overlaps.                                                   *)
ProvedByMatchingRc ==
  \A v \in VehicleIds : Proven(v) /\ extracted[v] # NoPlate => LookAlike(plate[v], extracted[v])
=============================================================================
