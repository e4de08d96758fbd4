-------------------------- MODULE SeatLedgerProofs --------------------------
(***************************************************************************)
(* The seat ledger never promises more seats than the ride has, for every  *)
(* set of requests and every number of seats.                              *)
(***************************************************************************)
EXTENDS SeatLedger, FiniteSetTheorems, TLAPS

(* Seats are counted in whole numbers and a request asks for at least one.   *)
SeatNumbers ==
  /\ SeatsRequested \in [Requests -> Nat \ {0}]
  /\ TotalSeats \in Nat

(* The holders are finitely many because they were added one at a time: the  *)
(* set of all requests need not be finite.                                   *)
LedgerInv ==
  /\ LedgerBalanced
  /\ holders \subseteq Requests
  /\ IsFiniteSet(holders)
  /\ IsFiniteSet(Places(holders))

(* One request holds as many places as it asked for.                         *)
LEMMA OnePlaceEach ==
  ASSUME SeatNumbers, NEW r \in Requests
  PROVE  /\ IsFiniteSet(Places({r}))
         /\ Cardinality(Places({r})) = SeatsRequested[r]
<1>1. PICK n \in Nat : n > 0 /\ SeatsRequested[r] = n
  BY DEF SeatNumbers
<1>2. Places({r}) = {r} \X (1 .. n)
  BY <1>1 DEF Places
<1>3. IsFiniteSet({r}) /\ Cardinality({r}) = 1
  BY FS_Singleton
<1>4. IsFiniteSet(1 .. n) /\ Cardinality(1 .. n) = n
  <2>1. 1 \in Int /\ n \in Int /\ ~(1 > n) /\ n - 1 + 1 = n
    BY <1>1
  <2>2. /\ IsFiniteSet(1 .. n)
        /\ Cardinality(1 .. n) = IF 1 > n THEN 0 ELSE n - 1 + 1
    BY <2>1, FS_Interval, Zenon
  <2> QED
    BY <2>1, <2>2, Zenon
<1>5. /\ IsFiniteSet({r} \X (1 .. n))
      /\ Cardinality({r} \X (1 .. n)) = 1 * n
  <2> DEFINE S == {r}
             T == 1 .. n
  <2>1. IsFiniteSet(S) /\ IsFiniteSet(T) /\ Cardinality(S) = 1 /\ Cardinality(T) = n
    BY <1>3, <1>4
  <2> HIDE DEF S, T
  <2>2. IsFiniteSet(S \X T) /\ Cardinality(S \X T) = 1 * n
    BY <2>1, FS_Product
  <2> QED
    BY <2>2 DEF S, T
<1>6. 1 * n = n
  OBVIOUS
<1> QED
  BY <1>1, <1>2, <1>5, <1>6, Zenon

(* The places of two sets of requests that have none in common are counted   *)
(* once each.                                                                *)
LEMMA PlacesOfOneMore ==
  ASSUME SeatNumbers, NEW S \in SUBSET Requests, NEW r \in Requests, r \notin S,
         IsFiniteSet(Places(S))
  PROVE  /\ IsFiniteSet(Places(S \cup {r}))
         /\ Cardinality(Places(S \cup {r})) = Cardinality(Places(S)) + SeatsRequested[r]
<1>1. Places(S \cup {r}) = Places(S) \cup Places({r})
  BY DEF Places
<1>2. Places(S) \cap Places({r}) = {}
  BY DEF Places
<1>3. IsFiniteSet(Places({r})) /\ Cardinality(Places({r})) = SeatsRequested[r]
  BY OnePlaceEach
<1>4. /\ IsFiniteSet(Places(S) \cup Places({r}))
      /\ Cardinality(Places(S) \cup Places({r})) =
           Cardinality(Places(S)) + Cardinality(Places({r}))
             - Cardinality(Places(S) \cap Places({r}))
  BY <1>3, FS_Union
<1>5. Cardinality(Places(S) \cap Places({r})) = 0
  BY <1>2, FS_EmptySet
<1>6. Cardinality(Places(S)) \in Nat /\ SeatsRequested[r] \in Nat
  BY FS_CardinalityType DEF SeatNumbers
<1>7. ASSUME NEW a \in Nat, NEW b \in Nat
      PROVE  a + b - 0 = a + b
  BY <1>7
<1> QED
  BY <1>1, <1>3, <1>4, <1>5, <1>6, <1>7, Zenon

(* The ledger starts balanced.                                               *)
LEMMA LedgerInitInv ==
  ASSUME SeatNumbers, LedgerInit
  PROVE  LedgerInv
<1>1. Places({}) = {}
  BY DEF Places
<1> QED
  BY <1>1, FS_EmptySet DEF LedgerInit, LedgerInv, LedgerBalanced, SeatNumbers

(* Taking seats needs that many free; giving back returns what was taken;    *)
(* calling off only empties.                                                 *)
LEMMA LedgerStepInv ==
  ASSUME SeatNumbers, LedgerInv, [LedgerNext]_ledgerVars
  PROVE  LedgerInv'
<1> USE DEF LedgerInv, LedgerBalanced
<1>1. ASSUME NEW r \in Requests, Take(r)
      PROVE  LedgerInv'
  <2>1. /\ IsFiniteSet(Places(holders \cup {r}))
        /\ Cardinality(Places(holders \cup {r})) =
             Cardinality(Places(holders)) + SeatsRequested[r]
    BY <1>1, PlacesOfOneMore DEF Take
  <2>2. IsFiniteSet(holders \cup {r})
    BY FS_AddElement
  <2>3. Cardinality(Places(holders)) \in Nat /\ SeatsRequested[r] \in Nat
    BY FS_CardinalityType DEF SeatNumbers
  <2>4. holders' = holders \cup {r} /\ free' = free - SeatsRequested[r] /\ SeatsRequested[r] <= free
    BY <1>1 DEF Take
  <2>5. Places(holders') = Places(holders \cup {r}) /\ Places(holders)' = Places(holders')
    BY <2>4 DEF Places
  <2> QED
    BY <2>1, <2>2, <2>3, <2>4, <2>5 DEF SeatNumbers
<1>2. ASSUME NEW r \in Requests, GiveBack(r)
      PROVE  LedgerInv'
  <2> DEFINE S == holders \ {r}
  <2>1. holders' = S /\ free' = free + SeatsRequested[r] /\ holders = S \cup {r}
    BY <1>2 DEF GiveBack
  <2>2. IsFiniteSet(S)
    BY FS_RemoveElement
  <2>3. Places(S) \subseteq Places(holders)
    BY DEF Places
  <2>4. IsFiniteSet(Places(S))
    BY <2>3, FS_Subset
  <2>5. Cardinality(Places(S \cup {r})) = Cardinality(Places(S)) + SeatsRequested[r]
    BY <2>4, PlacesOfOneMore
  <2>6. Cardinality(Places(S)) \in Nat /\ SeatsRequested[r] \in Nat
    BY <2>4, FS_CardinalityType DEF SeatNumbers
  <2>7. Places(holders)' = Places(S)
    BY <2>1 DEF Places
  <2> HIDE DEF S
  <2>8. Cardinality(Places(holders)) = Cardinality(Places(S)) + SeatsRequested[r]
    BY <2>1, <2>5
  <2> QED
    BY <2>1, <2>2, <2>4, <2>6, <2>7, <2>8 DEF SeatNumbers, S
<1>3. CASE CallOff
  <2>1. Places(holders)' = {} /\ holders' = {} /\ free' = free
    BY <1>3 DEF CallOff, Places
  <2>2. Cardinality(Places(holders)) \in Nat
    BY FS_CardinalityType
  <2> QED
    BY <2>1, <2>2, FS_EmptySet DEF SeatNumbers
<1>4. CASE UNCHANGED ledgerVars
  BY <1>4 DEF ledgerVars, Places
<1> QED
  BY <1>1, <1>2, <1>3, <1>4 DEF LedgerNext

(* Whatever the ledger does, free seats and held seats together never exceed *)
(* the seats of the ride: a seat is promised to one passenger only.          *)
THEOREM LedgerIsBalanced ==
  ASSUME SeatNumbers
  PROVE  LedgerSpec => []LedgerBalanced
<1>1. LedgerInit => LedgerInv
  BY LedgerInitInv
<1>2. LedgerInv /\ [LedgerNext]_ledgerVars => LedgerInv'
  BY LedgerStepInv
<1>3. LedgerInv => LedgerBalanced
  BY DEF LedgerInv
<1> QED
  BY <1>1, <1>2, <1>3, PTL DEF LedgerSpec
===========================================================================
