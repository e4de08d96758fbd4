--------------------------- MODULE StateMachine ---------------------------
(***************************************************************************)
(* The status machines of rides, ride requests and bookings                *)
(* (backend/src/utils/stateMachine.js).  A machine is the function that    *)
(* takes a status to the statuses it may move to.                          *)
(***************************************************************************)

RideStatus == {"DRAFT", "PUBLISHED", "STARTED", "COMPLETED", "CANCELLED", "EXPIRED"}

RequestStatus == {"REQUESTED", "ACCEPTED", "REJECTED", "CANCELLED", "EXPIRED"}

BookingStatus == {"PAYMENT_PENDING", "CONFIRMED", "CANCELLED"}

RideTransitions ==
  [s \in RideStatus |->
     CASE s = "DRAFT"     -> {"PUBLISHED", "CANCELLED", "EXPIRED"}
       [] s = "PUBLISHED" -> {"STARTED", "CANCELLED", "EXPIRED"}
       [] s = "STARTED"   -> {"COMPLETED"}
       [] OTHER           -> {}]

RequestTransitions ==
  [s \in RequestStatus |->
     CASE s = "REQUESTED" -> {"ACCEPTED", "REJECTED", "CANCELLED", "EXPIRED"}
       [] s = "ACCEPTED"  -> {"CANCELLED"}
       [] OTHER           -> {}]

BookingTransitions ==
  [s \in BookingStatus |->
     CASE s = "PAYMENT_PENDING" -> {"CONFIRMED", "CANCELLED"}
       [] s = "CONFIRMED"       -> {"CANCELLED"}
       [] OTHER                 -> {}]

(* assertTransition: `map[current] || []`, so a row that does not exist (a   *)
(* status outside the machine) allows nothing.                               *)
Allows(machine, current, next) ==
  current \in DOMAIN machine /\ next \in machine[current]
===========================================================================
