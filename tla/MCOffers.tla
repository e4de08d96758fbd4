------------------------------ MODULE MCOffers ------------------------------
(***************************************************************************)
(* The instance of what comes before a trip that TLC runs.  Each behaviour *)
(* follows one part: who holds which plate, who offers rides on a vehicle, *)
(* driving licences, the saved route, and the pickup rule.                 *)
(***************************************************************************)
EXTENDS RideOffers, Licences, RideRoute, PickupZone, TLC

CONSTANT Parts   \* the parts that may move

VARIABLE part

parts == <<offerVars, licenceVars, routeVars, ask, part>>

(* Routes around the lengths where the limit changes, points around limits.  *)
SomeAsks ==
  {a \in [routeM : {4000, 13040, 60000, 200000}, fare : {0, 500},
          pickupM : {0, 1500, 2580, 2640, 11000, 29000}, dropM : {0, 2580, 20000},
          pickupAt : {0, 500, 530, 600}, dropAt : {490, 980},
          fromStartM : {0, 2000, 90000}, fromEndM : {0, 90000}] :
     a.fromStartM >= a.pickupM /\ a.fromEndM >= a.dropM}

OneAsk == CHOOSE a \in Asks : TRUE

MCInit ==
  /\ part \in Parts
  /\ OffersInit /\ LicencesInit /\ RouteInit
  /\ IF part = "zone" THEN ZoneInit ELSE ask = OneAsk

PlatesNext ==
  \/ \E p \in Procs : VehicleStep(p)
  \/ \E v \in VehicleIds, s \in {"PENDING", "VERIFIED", "REJECTED"} : AdminSets(v, s)

(* With rides, one vehicle is enough.                                        *)
RidesNext == OffersNext /\ \A v, w \in VehicleIds : owner'[v] # NoUser /\ owner'[w] # NoUser => v = w

MCNext ==
  /\ UNCHANGED <<ask, part>>
  /\ \/ part = "plates" /\ PlatesNext /\ UNCHANGED <<licenceVars, routeVars>>
     \/ part = "rides" /\ RidesNext /\ UNCHANGED <<licenceVars, routeVars>>
     \/ part = "licences" /\ LicencesNext /\ UNCHANGED <<offerVars, routeVars>>
     \/ part = "route" /\ RouteNext /\ UNCHANGED <<offerVars, licenceVars>>

MCSpec == MCInit /\ [][MCNext]_parts

Interchangeable ==
  Permutations(Procs) \cup Permutations(VehicleIds) \cup Permutations(RideIds)
    \cup Permutations(Users) \cup Permutations(Plates)
=============================================================================
