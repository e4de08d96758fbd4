---------------------------- MODULE LiveLocation ----------------------------
(***************************************************************************)
(* Who gets whose live position on one ride: the socket handlers and their *)
(* awaits (realtime/socket.js), the positions kept in memory               *)
(* (locationStore.js), who may see them (visibility.js) and the HTTP       *)
(* answer that falls back on the last persisted ping                       *)
(* (ride.controller.js).  Of a position, whose it is and what it says of   *)
(* that is kept.                                                           *)
(***************************************************************************)
EXTENDS Callers

CONSTANTS Rider, Passengers   \* of the ride; no passenger is its rider

Sharers == Passengers \cup {Rider}

VARIABLES
  open,        \* rides.status is PUBLISHED or STARTED
  booked,      \* passengers whose booking is PAYMENT_PENDING or CONFIRMED
  joined,      \* users whose socket has data.rideId
  inRoom,      \* users whose socket is in the room of the ride
  latest,      \* latestByRide: the positions in memory
  lastPing,    \* ride_tracking_pings: the last position, if any
  serving,     \* what each handler does: its step and its user
  admitted     \* history: users whose connection was let in: they were the rider or booked

serverVars == <<joined, inRoom, latest, lastPing>>
liveVars   == <<open, booked, serverVars, serving, admitted>>

Idle == [step |-> "idle", user |-> NoUser]

HandlerStarts(p, step, u) == serving[p] = Idle /\ serving' = [serving EXCEPT ![p] = [step |-> step, user |-> u]]
HandlerMoves(p, step) == serving' = [serving EXCEPT ![p].step = step]
HandlerEnds(p) == serving' = [serving EXCEPT ![p] = Idle]

---------------------------------------------------------------------------
(* The rider accepts a passenger; a booking ends; the trip ends.             *)

Accept(u) ==
  /\ open
  /\ booked' = booked \cup {u}
  /\ UNCHANGED <<open, serverVars, serving, admitted>>

BookingEnds(u) ==
  /\ u \in booked
  /\ booked' = booked \ {u}
  /\ UNCHANGED <<open, serverVars, serving, admitted>>

TripEnds ==
  /\ open' = FALSE
  /\ UNCHANGED <<booked, serverVars, serving, admitted>>

---------------------------------------------------------------------------
PositionOf(u) == [of |-> u, userType |-> IF u = Rider THEN "rider" ELSE "passenger"]

(* Fault: pings are given the type of their user.                            *)
PersistedFault(position) == position

(* A row of ride_tracking_pings has no column for either.                    *)
Persisted(position) == [position EXCEPT !.userType = "none"]

(* visibleLocations: the rider sees everyone, a passenger the rider and      *)
(* themselves.                                                               *)
Visible(u) ==
  IF u = Rider THEN latest ELSE {x \in latest : x.userType = "rider" \/ x.of = u}

(* The maps draw the positions that say what they are.                       *)
Drawable(positions) == {x \in positions : x.userType \in {"rider", "passenger"}}

(* Positions of a passenger other than the one they are given to.            *)
OfFellows(u, positions) == IF u = Rider THEN {} ELSE {x \in positions : x.of \notin {Rider, u}}

(* What handler p answers, to a join or a look, with its next step.          *)
Answered(p) ==
  LET h == serving[p] IN
  IF h.step \in {"join", "look"} THEN Visible(h.user)
  ELSE IF h.step = "ping" THEN lastPing ELSE {}

MayWatch(u) == u = Rider \/ u \in booked

(* ride:join reads the ride and the booking (assertRideAccess) ...           *)
JoinRead(p, u) ==
  /\ MayWatch(u)
  /\ HandlerStarts(p, "join", u)
  /\ admitted' = admitted \cup {u}
  /\ UNCHANGED <<open, booked, serverVars>>

(* ... and enters the room by what it read.                                  *)
JoinEnter(p) ==
  LET u == serving[p].user IN
  /\ serving[p].step = "join"
  /\ joined' = joined \cup {u}
  /\ inRoom' = inRoom \cup {u}
  /\ HandlerEnds(p)
  /\ UNCHANGED <<open, booked, latest, lastPing, admitted>>

(* ride:leave leaves the room; data.rideId stays.                            *)
Leave(u) ==
  /\ u \in inRoom
  /\ inRoom' = inRoom \ {u}
  /\ UNCHANGED <<open, booked, joined, latest, lastPing, serving, admitted>>

(* The socket is lost, and with it what a join of it would still do.         *)
Disconnect(u) ==
  /\ inRoom' = inRoom \ {u}
  /\ joined' = joined \ {u}
  /\ serving' = [p \in Procs |-> IF serving[p] = [step |-> "join", user |-> u] THEN Idle ELSE serving[p]]
  /\ admitted' = admitted \ {u}
  /\ UNCHANGED <<open, booked, latest, lastPing>>

---------------------------------------------------------------------------
(* location:update reads the ride, then the booking, then stores and emits.  *)

UpdateReadRide(p, u) ==
  /\ u \in joined /\ open
  /\ HandlerStarts(p, IF u = Rider THEN "store" ELSE "booking", u)
  /\ UNCHANGED <<open, booked, serverVars, admitted>>

UpdateReadBooking(p) ==
  LET u == serving[p].user IN
  /\ serving[p].step = "booking"
  /\ IF u \in booked THEN HandlerMoves(p, "store") ELSE HandlerEnds(p)
  /\ UNCHANGED <<open, booked, serverVars, admitted>>

(* The rider's position goes to the room, a passenger's to the rider.        *)
Receivers(u) == IF u = Rider THEN inRoom ELSE {Rider}

(* Now and then a position is persisted too, and that may fail.              *)
UpdateStore(p) ==
  LET u == serving[p].user IN
  /\ serving[p].step = "store"
  /\ latest' = latest \cup {PositionOf(u)}
  /\ lastPing' \in {lastPing, {Persisted(PositionOf(u))}}
  /\ HandlerEnds(p)
  /\ UNCHANGED <<open, booked, joined, inRoom, admitted>>

---------------------------------------------------------------------------
(* GET /rides/:id/live-location.                                             *)

LookRead(p, u) ==
  /\ MayWatch(u)
  /\ HandlerStarts(p, "look", u)
  /\ UNCHANGED <<open, booked, serverVars, admitted>>

LookAnswer(p) ==
  /\ serving[p].step = "look"
  /\ IF Answered(p) = {} THEN HandlerMoves(p, "ping") ELSE HandlerEnds(p)
  /\ UNCHANGED <<open, booked, serverVars, admitted>>

LookPing(p) ==
  /\ serving[p].step = "ping"
  /\ HandlerEnds(p)
  /\ UNCHANGED <<open, booked, serverVars, admitted>>

(* The server restarts: only the database is left.                           *)
Restart ==
  /\ joined' = {} /\ inRoom' = {} /\ latest' = {} /\ admitted' = {}
  /\ serving' = [p \in Procs |-> Idle]
  /\ UNCHANGED <<open, booked, lastPing>>

---------------------------------------------------------------------------
LiveInit ==
  /\ open = TRUE
  /\ booked = {} /\ joined = {} /\ inRoom = {} /\ latest = {}
  /\ lastPing = {}
  /\ serving = [p \in Procs |-> Idle]
  /\ admitted = {}

LiveNext ==
  \/ \E u \in Passengers : Accept(u) \/ BookingEnds(u)
  \/ \E u \in Sharers : Leave(u) \/ Disconnect(u)
  \/ \E p \in Procs :
       \/ \E u \in Sharers : JoinRead(p, u) \/ UpdateReadRide(p, u) \/ LookRead(p, u)
       \/ JoinEnter(p) \/ UpdateReadBooking(p) \/ UpdateStore(p) \/ LookAnswer(p) \/ LookPing(p)
  \/ TripEnds \/ Restart

LiveSpec == LiveInit /\ [][LiveNext]_liveVars

---------------------------------------------------------------------------
(* A passenger's map draws no fellow passenger's position, and no answer but *)
(* the one that falls back on the last persisted ping holds one.  A position *)
(* is broadcast to nobody but those it is for: a passenger's to the rider,   *)
(* the rider's to users whose present connection was let in.  So it is       *)
(* whatever happens between the awaits of a handler.                         *)
PositionsStayPrivate ==
  \A p \in Procs :
    LET u == serving[p].user  theirs == OfFellows(u, Answered(p)) IN
    /\ Drawable(theirs) = {}
    /\ serving[p].step # "ping" => theirs = {}
    /\ serving[p].step = "store" => Receivers(u) \subseteq IF u = Rider THEN admitted ELSE {Rider}

(* "A passenger sees only the rider and themselves, never other passengers"  *)
(* (visibility.js): no answer at all holds a fellow passenger's position.    *)
FellowsUnseen == \A p \in Procs : OfFellows(serving[p].user, Answered(p)) = {}

(* "Live tracking is only visible to the rider and confirmed passengers on   *)
(* this ride" (LiveTrackingMap.jsx): the rider's position goes to nobody     *)
(* whose booking has ended.                                                  *)
OnlyPassengersListen ==
  \A p \in Procs :
    serving[p] = [step |-> "store", user |-> Rider] => \A u \in Receivers(Rider) : MayWatch(u)
===========================================================================
