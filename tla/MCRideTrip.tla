----------------------------- MODULE MCRideTrip -----------------------------
(***************************************************************************)
(* Instances of RideTrip for TLC.                                          *)
(***************************************************************************)
EXTENDS RideTrip, TLC

CONSTANTS r1, r2, r3, alice, bob

(* Alice may ask twice; Bob's request is the third.                          *)
AliceTwiceAndBob == r1 :> alice @@ r2 :> alice @@ r3 :> bob

AliceAndBob == r1 :> alice @@ r2 :> bob

AliceTwice == r1 :> alice @@ r2 :> alice

Alice == r1 :> alice

(* On a ride of two seats the last request wants both of them.               *)
OneOneTwoSeats == r1 :> 1 @@ r2 :> 1 @@ r3 :> 2

OneTwoSeats == r1 :> 1 @@ r2 :> 2

OneSeatEach == r1 :> 1 @@ r2 :> 1

OneSeat == r1 :> 1

AllOps == OpNames \ {"none"}

(* The operations that give seats back only under the ride's row lock.       *)
LockedOps ==
  {"createRequest", "acceptRequest", "rejectRequest", "publish", "cancelRide",
   "start", "complete", "sweep"}

Handlers == Permutations(Procs)
===========================================================================
