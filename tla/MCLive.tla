------------------------------- MODULE MCLive -------------------------------
(***************************************************************************)
(* Instance of the components that share nothing but their callers: one of *)
(* them moves, the others stay as they start.  Since they never move       *)
(* together, what one of them may interchange bears the names of what      *)
(* another may, and few permutations serve them all.                       *)
(***************************************************************************)
EXTENDS BoardingCode, Passwords, Sessions, LiveLocation, RideRoom, Badge, TLC

CONSTANT Parts   \* the parts that may move

Alike == Permutations(Procs) \cup Permutations(Passengers) \cup Permutations(Users)

VARIABLE part

vars == <<part, boardingVars, passwordVars, sessionVars, liveVars, roomVars, badgeVars>>

MCInit ==
  /\ part \in Parts
  /\ BoardingInit /\ PasswordInit /\ SessionInit /\ LiveInit /\ RoomInit /\ BadgeInit

MCNext ==
  /\ UNCHANGED part
  /\ \/ part = "boarding" /\ BoardingNext
     \/ part # "boarding" /\ UNCHANGED boardingVars
  /\ \/ part = "passwords" /\ PasswordNext
     \/ part # "passwords" /\ UNCHANGED passwordVars
  /\ \/ part = "sessions" /\ SessionNext
     \/ part # "sessions" /\ UNCHANGED sessionVars
  /\ \/ part = "location" /\ LiveNext
     \/ part # "location" /\ UNCHANGED liveVars
  /\ \/ part = "room" /\ RoomNext
     \/ part # "room" /\ UNCHANGED roomVars
  /\ \/ part = "badge" /\ BadgeNext
     \/ part # "badge" /\ UNCHANGED badgeVars

MCSpec == MCInit /\ [][MCNext]_vars
===========================================================================
