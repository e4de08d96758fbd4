----------------------------- MODULE SeatLedger -----------------------------
(***************************************************************************)
(* What the ride's seat counter promises, without handlers or rows: a      *)
(* number of free seats and the set of bookings that hold some.  A booking *)
(* takes its seats if that many are free, gives them back at most once,    *)
(* and calling the trip off empties the ride without offering its seats    *)
(* again.                                                                  *)
(***************************************************************************)
EXTENDS Integers, FiniteSets

CONSTANTS Requests, SeatsRequested, TotalSeats

VARIABLES
  free,     \* seats on offer
  holders   \* bookings that hold seats

ledgerVars == <<free, holders>>

LedgerInit ==
  /\ free = TotalSeats
  /\ holders = {}

Take(r) ==
  /\ r \notin holders
  /\ SeatsRequested[r] <= free
  /\ free' = free - SeatsRequested[r]
  /\ holders' = holders \cup {r}

GiveBack(r) ==
  /\ r \in holders
  /\ free' = free + SeatsRequested[r]
  /\ holders' = holders \ {r}

CallOff ==
  /\ holders' = {}
  /\ UNCHANGED free

LedgerNext ==
  \/ \E r \in Requests : Take(r) \/ GiveBack(r)
  \/ CallOff

LedgerSpec == LedgerInit /\ [][LedgerNext]_ledgerVars

(* The seats held, as numbered places of each booking.                       *)
Places(S) == UNION {{r} \X (1 .. SeatsRequested[r]) : r \in S}

(* Nobody is promised a seat that is on offer or taken: free seats and held  *)
(* seats together never exceed the seats of the ride (rides.total_seats).    *)
LedgerBalanced ==
  /\ free \in Nat
  /\ free + Cardinality(Places(holders)) <= TotalSeats
===========================================================================
