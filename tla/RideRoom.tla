------------------------------ MODULE RideRoom ------------------------------
(***************************************************************************)
(* The maps of one browser tab, its one socket, and the server's end of it *)
(* (realtime/socket.js).  Each mounted LiveTrackingMap.jsx joins the room  *)
(* of its ride and leaves "the room" of the socket when it unmounts.  A    *)
(* join is answered after two awaited reads, a leave is served as it       *)
(* arrives, and the network lies between the two ends.  The tab may show   *)
(* two maps at once: the one of a page and the full-screen one of          *)
(* CurrentRideTracker.jsx.                                                 *)
(***************************************************************************)
EXTENDS Callers, Sequences

CONSTANTS
  Maps, Rides, NoMap, NoRide,
  JoinIds,       \* bound: joins between their sending and their answer
  MaxUp          \* bound: messages on their way to the server

ASSUME RoomAssumption ==
  NoMap \notin Maps /\ NoRide \notin Rides /\ "leave" \notin JoinIds /\ MaxUp \in Nat

VARIABLES
  showing,     \* the ride each map is mounted for, NoRide if it is not
  connected,   \* connected of each map
  join,        \* the joins: their map and ride, whether their effect lives, and how far they are
  up,          \* the messages on their way to the server, in order: joins and "leave"s
  rooms,       \* the ride rooms the socket is in
  dataRide,    \* socket.data.rideId
  cut,         \* history: maps whose line dropped since they joined
  left,        \* history: maps since whose join another one left
  newest       \* history: the map that joined while no other join was under way

roomVars == <<showing, connected, join, up, rooms, dataRide, cut, left, newest>>
socketVars == <<rooms, dataRide>>

NoJoin == [map |-> NoMap, ride |-> NoRide, mounted |-> FALSE, at |-> "idle"]

UnderWay(i) == join[i].at \in {"up", "server"}

(* A map waits for the answer to the join of its last effect.                *)
Waiting(m) == \E i \in JoinIds : join[i].map = m /\ join[i].mounted

---------------------------------------------------------------------------
(* The browser.  An effect sends a join; its cleanup sends a leave and drops *)
(* the answer to that join, if it still comes.                               *)

Cleaned(m) == [i \in JoinIds |-> IF join[i].map = m THEN [join[i] EXCEPT !.mounted = FALSE] ELSE join[i]]

SendJoin(m, r, i, sent) ==
  /\ join[i].at = "idle"
  /\ join' = [Cleaned(m) EXCEPT ![i] = [map |-> m, ride |-> r, mounted |-> TRUE, at |-> "up"]]
  /\ up' = Append(sent, i)
  /\ Len(up') <= MaxUp
  /\ showing' = [showing EXCEPT ![m] = r]
  /\ cut' = cut \ {m}
  /\ newest' = IF \E j \in JoinIds : UnderWay(j) THEN {} ELSE {m}

Mount(m, r, i) ==
  /\ showing[m] = NoRide
  /\ SendJoin(m, r, i, up)
  /\ left' = left \ {m}
  /\ UNCHANGED <<connected, socketVars>>

(* The map's ride.id changes: cleanup and effect, and connected is kept.     *)
Change(m, r, i) ==
  /\ showing[m] \notin {NoRide, r}
  /\ SendJoin(m, r, i, Append(up, "leave"))
  /\ left' = Maps \ {m}
  /\ UNCHANGED <<connected, socketVars>>

Unmount(m) ==
  /\ showing[m] # NoRide
  /\ join' = Cleaned(m)
  /\ up' = Append(up, "leave")
  /\ Len(up') <= MaxUp
  /\ showing' = [showing EXCEPT ![m] = NoRide]
  /\ connected' = [connected EXCEPT ![m] = FALSE]
  /\ left' = Maps
  /\ UNCHANGED <<socketVars, cut, newest>>

(* The callback of a join; it is dropped if the effect is gone.              *)
Acknowledge(i) ==
  LET j == join[i] IN
  /\ j.at \in {"joined", "refused"}
  /\ connected' = IF j.mounted THEN [connected EXCEPT ![j.map] = (j.at = "joined")] ELSE connected
  /\ join' = [join EXCEPT ![i] = NoJoin]
  /\ UNCHANGED <<showing, up, socketVars, cut, left, newest>>

---------------------------------------------------------------------------
(* The server.  Messages arrive in the order they were sent.                 *)

JoinArrives ==
  /\ up # <<>> /\ Head(up) # "leave"
  /\ join' = [join EXCEPT ![Head(up)].at = "server"]
  /\ up' = Tail(up)
  /\ UNCHANGED <<showing, connected, socketVars, cut, left, newest>>

(* The room that is left is the one of the last join that was served, which  *)
(* need not be the one of the map that unmounts.                             *)
LeaveArrives ==
  /\ up # <<>> /\ Head(up) = "leave"
  /\ rooms' = rooms \ {dataRide}
  /\ up' = Tail(up)
  /\ UNCHANGED <<showing, connected, join, dataRide, cut, left, newest>>

(* Fault: a socket is in one ride's room at a time.                          *)
RoomsAfterJoinFault(r) == {r}

RoomsAfterJoin(r) == rooms \cup {r}

(* assertRideAccess answers: the socket keeps its earlier rooms.             *)
JoinServed(i) ==
  /\ join[i].at = "server"
  /\ rooms' = RoomsAfterJoin(join[i].ride)
  /\ dataRide' = join[i].ride
  /\ join' = [join EXCEPT ![i].at = "joined"]
  /\ UNCHANGED <<showing, connected, up, cut, left, newest>>

JoinRefused(i) ==
  /\ join[i].at = "server"
  /\ join' = [join EXCEPT ![i].at = "refused"]
  /\ UNCHANGED <<showing, connected, up, socketVars, cut, left, newest>>

---------------------------------------------------------------------------
(* The line drops, with what was on it, and socket.io connects again: a new  *)
(* socket at the server, in no ride's room.  No map joins again.             *)
Reconnect ==
  /\ rooms' = {} /\ dataRide' = NoRide
  /\ up' = <<>> /\ join' = [i \in JoinIds |-> NoJoin]
  /\ cut' = Maps /\ newest' = {}
  /\ UNCHANGED <<showing, connected, left>>

RoomInit ==
  /\ showing = [m \in Maps |-> NoRide]
  /\ connected = [m \in Maps |-> FALSE]
  /\ join = [i \in JoinIds |-> NoJoin]
  /\ up = <<>> /\ rooms = {} /\ dataRide = NoRide
  /\ cut = {} /\ left = {} /\ newest = {}

RoomNext ==
  \/ \E m \in Maps :
       \/ Unmount(m)
       \/ \E r \in Rides, i \in JoinIds : Mount(m, r, i) \/ Change(m, r, i)
  \/ \E i \in JoinIds : Acknowledge(i) \/ JoinServed(i) \/ JoinRefused(i)
  \/ JoinArrives \/ LeaveArrives \/ Reconnect

RoomSpec == RoomInit /\ [][RoomNext]_roomVars

---------------------------------------------------------------------------
(* A map that says it is connected, with no join of its own to be answered,  *)
(* gets its ride's positions, and the one that joined last sends the user's  *)
(* position to its own ride, however joins, their answers and the leaves of  *)
(* closed maps cross between the tab and the server - until another map      *)
(* leaves or the line drops, after which neither is certain.                 *)
MapIsConnected ==
  \A m \in Maps : connected[m] /\ ~Waiting(m) /\ m \notin cut \cup left =>
    /\ showing[m] \in rooms
    /\ m \in newest => dataRide = showing[m]

(* "A passenger sees the rider live" (LiveTrackingMap.jsx): a connected map  *)
(* gets the positions of its ride as long as the line does not drop.         *)
ShownRideIsHeard ==
  \A m \in Maps : connected[m] /\ ~Waiting(m) /\ m \notin cut => showing[m] \in rooms
===========================================================================
