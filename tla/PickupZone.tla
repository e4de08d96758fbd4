----------------------------- MODULE PickupZone -----------------------------
(***************************************************************************)
(* Which passengers a ride can take (utils/pickupZone.js) and which rides  *)
(* a search lists (ride.repository.js searchCandidates, pickupGeometry).   *)
(* Both measure pickup and drop against the ride's route; lengths are in   *)
(* metres, fractions of the route in thousandths, money in rupees.         *)
(***************************************************************************)
EXTENDS Integers

CONSTANTS
  OnRouteM, DetourPercent, DetourMaxM,   \* env.pickupZone, lengths in metres
  TipRatePerKm,
  Asks     \* bound: route, fare, and where pickup and drop lie

(* The ends of a route are on it: a point is no nearer to an end than to it. *)
ASSUME ZoneAssumption ==
  /\ OnRouteM \in Nat /\ DetourPercent \in Nat /\ DetourMaxM \in Nat /\ TipRatePerKm \in Nat
  /\ Asks \subseteq [routeM : Nat \ {0}, fare : Nat, pickupM : Nat, dropM : Nat,
                     pickupAt : Nat, dropAt : Nat, fromStartM : Nat, fromEndM : Nat]
  /\ \A a \in Asks : a.fromStartM >= a.pickupM /\ a.fromEndM >= a.dropM

VARIABLE ask      \* what one passenger asks of one ride

Least(a, b) == IF a <= b THEN a ELSE b
Most(a, b) == IF a >= b THEN a ELSE b

(* round1 of kilometres, in hectometres; halves go up.                       *)
Round1(m) == (m + 50) \div 100

(* The limit as the search computes it, in metres ...                        *)
SearchLimit(routeM) == Least(DetourMaxM, Most(OnRouteM, (routeM * DetourPercent) \div 100))

(* Fault: nothing is allowed below the percentage.                           *)
DetourLimitFault(routeM) == Round1(Least(DetourMaxM, (routeM * DetourPercent) \div 100))

(* ... and detourLimitKm, "the same rule", which rounds it.                  *)
DetourLimit(routeM) == Round1(Least(DetourMaxM, Most(OnRouteM, (routeM * DetourPercent) \div 100)))

(* pickupGeometry's slack for points that are both near the start.           *)
GoesForward(a) == a.pickupAt <= a.dropAt + 20

OffRoute(hm) == IF hm > Round1(OnRouteM) THEN hm ELSE 0

(* detourRatePerKm, rounded to tenths: the ride's own fare per km or the     *)
(* default.                                                                  *)
RateTenths(a) == Most(10 * TipRatePerKm, (20000 * a.fare + a.routeM) \div (2 * a.routeM))

(* Fault: the way back is not charged.                                       *)
DetourFareFault(offHm, a) == (offHm * RateTenths(a) + 50) \div 100

(* detourFare: there and back at that rate, rounded to a rupee.              *)
DetourFare(offHm, a) == (2 * offHm * RateTenths(a) + 50) \div 100

TooFar == [zone |-> "TOO_FAR", extraTip |-> 0]

Beyond(a, m) == Round1(m) > DetourLimit(a.routeM)

(* classifyPickup                                                            *)
Zone(a) ==
  LET off == OffRoute(Round1(a.pickupM)) + OffRoute(Round1(a.dropM)) IN
  IF ~GoesForward(a) \/ Beyond(a, a.dropM) \/ Beyond(a, a.pickupM) THEN TooFar
  ELSE IF off > 0 THEN [zone |-> "DETOUR", extraTip |-> DetourFare(off, a)]
  ELSE [zone |-> "ON_ROUTE", extraTip |-> 0]

(* searchCandidates: each point is near its end of the route, or near the    *)
(* route with the points in the right order, give or take a wider slack.     *)
Within(a, m) == m <= SearchLimit(a.routeM)

Ordered(a) == a.pickupAt <= a.dropAt + 50

Listed(a) ==
  /\ Within(a, a.fromStartM) \/ (Within(a, a.pickupM) /\ Ordered(a))
  /\ Within(a, a.fromEndM) \/ (Within(a, a.dropM) /\ Ordered(a))

ZoneInit == ask \in Asks

---------------------------------------------------------------------------
(* ride.repository.js:251: a search "lists exactly the rides the passenger   *)
(* can join".                                                                *)
SearchListsExactly == Listed(ask) <=> Zone(ask) # TooFar

(* How far that is true.  Whatever is listed and goes forward can be joined; *)
(* what is listed in vain runs backwards, by no more than the wider slack or *)
(* between points near the two ends; and what can be joined is listed unless *)
(* its farther point is beyond the limit by less than the rounding, 100 m.   *)
SearchAndJoinAgree ==
  LET beyond == Most(ask.pickupM, ask.dropM) - SearchLimit(ask.routeM) IN
  /\ Listed(ask) /\ Zone(ask) = TooFar =>
       /\ ~GoesForward(ask)
       /\ Ordered(ask) \/ (Within(ask, ask.fromStartM) /\ Within(ask, ask.fromEndM))
  /\ Zone(ask) # TooFar => Listed(ask) \/ beyond \in 1 .. 99

(* A detour costs at least the default rate for the way there and back, less *)
(* the rounding, and a farther pickup never costs less.                      *)
DetourIsPaid ==
  LET z == Zone(ask)  farther == Zone([ask EXCEPT !.pickupM = @ + 100]) IN
  /\ z.zone = "DETOUR" =>
       1000 * z.extraTip + 500 >= 2 * TipRatePerKm * (Most(ask.pickupM, ask.dropM) - 50)
  /\ farther # TooFar => farther.extraTip >= z.extraTip
=============================================================================
