----------------------------- MODULE RideRoute -----------------------------
(***************************************************************************)
(* The road route saved with a ride (ride.service.js create, update,       *)
(* ensureRoadRoute, backfillRoadRoutes).  The app may send it along with   *)
(* the end points; otherwise it is looked up in the background, where the  *)
(* end points may be edited meanwhile.                                     *)
(***************************************************************************)
EXTENDS Callers

CONSTANTS
  Lookups,      \* bound: background look-ups in flight at once
  MaxEdits      \* bound: how often the end points are set

VARIABLES
  ends,         \* the ride's end points, numbered as they are edited; 0 before create
  route,        \* route_geog, as the end points it joins; 0 if NULL
  editing,      \* edits that have yet to write the route: their end points and
                \* whether they send it along
  lookup,       \* each look-up: its step and the end points it was given
  raced         \* history: end points were edited under another edit or a look-up

routeVars == <<ends, route, editing, lookup, raced>>

NoLookup == [step |-> "idle", ends |-> 0]

(* ensureRoadRoute(ride): not awaited by whoever calls it.                   *)
LookUp(k, e) ==
  /\ lookup[k] = NoLookup
  /\ lookup' = [lookup EXCEPT ![k] = [step |-> "has", ends |-> e]]

Background == \E k \in Lookups : lookup[k] # NoLookup

(* create and update: the fields, then the route if they moved or one was    *)
(* sent.  Nothing keeps another edit from coming between the two.            *)
EditEnds(path) ==
  /\ ends < MaxEdits
  /\ ends' = ends + 1
  /\ editing' = editing \cup {[ends |-> ends + 1, path |-> path]}
  /\ raced' = (raced \/ Background \/ editing # {})
  /\ UNCHANGED <<route, lookup>>

(* Fault: only a route that was sent is written.                             *)
RouteAfterFault(e, path) == IF path THEN e ELSE route

RouteAfter(e, path) == IF path THEN e ELSE 0

EditRoute(e) ==
  /\ route' = RouteAfter(e.ends, e.path)
  /\ IF e.path THEN UNCHANGED lookup ELSE \E k \in Lookups : LookUp(k, e.ends)
  /\ editing' = editing \ {e}
  /\ UNCHANGED <<ends, raced>>

(* The timer of server.js finds an open ride without a route.                *)
Backfill(k) ==
  /\ ends # 0 /\ route = 0
  /\ LookUp(k, ends)
  /\ raced' = (raced \/ editing # {})
  /\ UNCHANGED <<ends, route, editing>>

LookupHas(k) ==
  /\ lookup[k].step = "has"
  /\ lookup' = [lookup EXCEPT ![k] = IF route # 0 THEN NoLookup ELSE [@ EXCEPT !.step = "fetch"]]
  /\ UNCHANGED <<ends, route, editing, raced>>

(* The routing service answers, or does not.                                 *)
LookupSave(k) ==
  /\ lookup[k].step = "fetch"
  /\ route' \in {lookup[k].ends, route}
  /\ lookup' = [lookup EXCEPT ![k] = NoLookup]
  /\ UNCHANGED <<ends, editing, raced>>

RouteInit ==
  /\ ends = 0
  /\ route = 0
  /\ editing = {}
  /\ lookup = [k \in Lookups |-> NoLookup]
  /\ raced = FALSE

RouteNext ==
  \/ \E path \in BOOLEAN : EditEnds(path)
  \/ \E e \in editing : EditRoute(e)
  \/ \E k \in Lookups : Backfill(k) \/ LookupHas(k) \/ LookupSave(k)

RouteSpec == RouteInit /\ [][RouteNext]_routeVars

---------------------------------------------------------------------------
(* ride.service.js:87, "keep the saved road route in step with the           *)
(* start/end": once an edit is through, the route joins the end points the   *)
(* ride has.  An edit under another one or under a look-up that is still on  *)
(* its way is excepted: that one then writes the route of its end points.    *)
RouteFitsEnds == raced \/ editing # {} \/ route \in {0, ends}

(* The same of a look-up whose answer comes when no edit is under way,       *)
(* however long it took: what it writes joins the end points the ride has.   *)
RouteInStep ==
  [][\A k \in Lookups :
       lookup[k] # NoLookup /\ lookup'[k] = NoLookup /\ editing = {} /\ route' # route
         => route' = ends]_routeVars
=============================================================================
