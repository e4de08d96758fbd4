------------------------- MODULE OneTimeCodeProofs -------------------------
(***************************************************************************)
(* Guesses at a code stay limited, for every limit, every set of codes and *)
(* any number of handlers that compare before they count.                  *)
(***************************************************************************)
EXTENDS OneTimeCode, FiniteSetTheorems, TLAPS

CodeNumbers ==
  /\ MaxAttempts \in Nat \ {0}
  /\ IsFiniteSet(Procs)
  /\ NoCode \notin Codes

(* The limit alone is not inductive.  A handler that has read a code is      *)
(* counted before it answers, and what holds it back is that the counter is  *)
(* never behind the answers to the current code: it counts those to older    *)
(* codes as well.                                                            *)
NotBehind == \A c \in Codes : current = c => answered[c] <= attempts

WithReaders ==
  \A c \in Codes : answered[c] + Cardinality(Comparing(c)) <= MaxAttempts + Cardinality(Procs) - 1

CodeInv == TypeOK /\ NotBehind /\ WithReaders

(* The handlers that compare with a code are no more than all of them.       *)
LEMMA Readers ==
  ASSUME CodeNumbers, NEW c
  PROVE  /\ IsFiniteSet(Comparing(c))
         /\ Cardinality(Comparing(c)) \in Nat
         /\ Cardinality(Procs) \in Nat
         /\ Cardinality(Comparing(c)) <= Cardinality(Procs)
<1>1. Comparing(c) \subseteq Procs
  BY DEF Comparing
<1> QED
  BY <1>1, FS_Subset, FS_CardinalityType DEF CodeNumbers

LEMMA StartsLimited ==
  ASSUME CodeNumbers, Init
  PROVE  CodeInv
<1>1. TypeOK /\ NotBehind
  BY DEF Init, TypeOK, NotBehind, CodeNumbers
<1>2. WithReaders
  <2> SUFFICES ASSUME NEW c \in Codes
               PROVE  answered[c] + Cardinality(Comparing(c))
                        <= MaxAttempts + Cardinality(Procs) - 1
    BY DEF WithReaders
  <2>1. Comparing(c) = {}
    BY DEF Init, Comparing, CodeNumbers
  <2>2. Cardinality(Comparing(c)) = 0
    BY <2>1, FS_EmptySet
  <2>3. answered[c] = 0
    BY DEF Init
  <2> QED
    BY <2>2, <2>3, Readers DEF CodeNumbers
<1> QED
  BY <1>1, <1>2 DEF CodeInv

(* A handler that reads: its code was answered fewer times than the limit.   *)
LEMMA ReadKeepsLimit ==
  ASSUME CodeNumbers, CodeInv, NEW p \in Procs, Read(p)
  PROVE  CodeInv'
<1> USE DEF CodeInv
<1>1. TypeOK' /\ NotBehind'
  BY DEF Read, TypeOK, NotBehind
<1>2. ASSUME NEW c \in Codes, c # current
      PROVE  Comparing(c)' = Comparing(c)
  BY <1>2 DEF Read, Comparing, TypeOK, CodeNumbers
<1>3. ASSUME NEW c \in Codes, c = current
      PROVE  answered[c] <= MaxAttempts - 1
  BY <1>3 DEF Read, NotBehind, TypeOK, CodeNumbers
<1>4. ASSUME NEW c
      PROVE  Cardinality(Comparing(c)') \in Nat /\ Cardinality(Comparing(c)') <= Cardinality(Procs)
  <2>1. Comparing(c)' \subseteq Procs
    BY DEF Comparing
  <2> QED
    BY <2>1, FS_Subset, FS_CardinalityType DEF CodeNumbers
<1>5. WithReaders'
  <2> SUFFICES ASSUME NEW c \in Codes
               PROVE  answered[c] + Cardinality(Comparing(c)')
                        <= MaxAttempts + Cardinality(Procs) - 1
    BY DEF WithReaders, Read
  <2>1. CASE c # current
    BY <2>1, <1>2 DEF WithReaders
  <2>2. CASE c = current
    BY <2>2, <1>3, <1>4, Readers DEF TypeOK, CodeNumbers
  <2> QED
    BY <2>1, <2>2
<1> QED
  BY <1>1, <1>5

(* A handler that stops comparing: there is one reader fewer of its code,    *)
(* and at most one answer more.                                              *)
LEMMA LeavingKeepsLimit ==
  ASSUME CodeNumbers, CodeInv, NEW p \in Procs, AnswerWrong(p) \/ Leave(p)
  PROVE  CodeInv'
<1> USE DEF CodeInv
<1>1. PICK mine \in Codes : mine = comparing[p]
  BY DEF AnswerWrong, Leave, TypeOK
<1>2. TypeOK'
  BY <1>1 DEF AnswerWrong, Leave, TypeOK
<1>3. NotBehind'
  BY <1>1 DEF AnswerWrong, Leave, TypeOK, NotBehind, CodeNumbers
<1>4. comparing' = [comparing EXCEPT ![p] = NoCode]
  BY DEF AnswerWrong, Leave
<1>5. ASSUME NEW c \in Codes, c # mine
      PROVE  Comparing(c)' = Comparing(c)
  BY <1>1, <1>4, <1>5 DEF Comparing, TypeOK, CodeNumbers
<1>6. Comparing(mine)' = Comparing(mine) \ {p}
  BY <1>1, <1>4 DEF Comparing, TypeOK, CodeNumbers
<1>7. p \in Comparing(mine)
  BY <1>1 DEF Comparing
<1>8. Cardinality(Comparing(mine)') = Cardinality(Comparing(mine)) - 1
  BY <1>6, <1>7, Readers, FS_RemoveElement
<1>9. WithReaders'
  <2> SUFFICES ASSUME NEW c \in Codes
               PROVE  answered'[c] + Cardinality(Comparing(c)')
                        <= MaxAttempts + Cardinality(Procs) - 1
    BY DEF WithReaders
  <2>1. CASE c # mine
    <3>1. answered'[c] = answered[c]
      BY <2>1, <1>1 DEF AnswerWrong, Leave, TypeOK
    <3> QED
      BY <3>1, <2>1, <1>5 DEF WithReaders
  <2>2. CASE c = mine
    <3>1. answered'[c] \in {answered[c], answered[c] + 1}
      BY <2>2, <1>1 DEF AnswerWrong, Leave, TypeOK
    <3>2. answered[c] + Cardinality(Comparing(c)) <= MaxAttempts + Cardinality(Procs) - 1
      BY DEF WithReaders
    <3>3. answered[c] \in Nat
      BY DEF TypeOK
    <3> QED
      BY <3>1, <3>2, <3>3, <2>2, <1>8, Readers DEF CodeNumbers
  <2> QED
    BY <2>1, <2>2
<1> QED
  BY <1>2, <1>3, <1>9

(* A new code has no answers and no readers yet.                             *)
LEMMA IssueKeepsLimit ==
  ASSUME CodeNumbers, CodeInv, Issue \/ Forget
  PROVE  CodeInv'
<1> USE DEF CodeInv
<1>1. TypeOK' /\ NotBehind'
  BY DEF Issue, Forget, New, TypeOK, NotBehind, CodeNumbers
<1>2. UNCHANGED <<comparing, answered>>
  BY DEF Issue, Forget
<1>3. WithReaders'
  BY <1>2 DEF WithReaders, Comparing
<1> QED
  BY <1>1, <1>3

(* Every step keeps the invariant.                                           *)
THEOREM CodeInvariant ==
  ASSUME CodeNumbers
  PROVE  Spec => []CodeInv
<1>1. Init => CodeInv
  BY StartsLimited
<1>2. CodeInv /\ [Next]_codeVars => CodeInv'
  <2> SUFFICES ASSUME CodeInv, [Next]_codeVars
               PROVE  CodeInv'
    OBVIOUS
  <2>1. CASE UNCHANGED codeVars
    BY <2>1 DEF codeVars, CodeInv, TypeOK, NotBehind, WithReaders, Comparing
  <2>2. CASE Issue \/ Forget
    BY <2>2, IssueKeepsLimit
  <2>3. ASSUME NEW p \in Procs, Read(p)
        PROVE  CodeInv'
    BY <2>3, ReadKeepsLimit
  <2>4. ASSUME NEW p \in Procs, AnswerWrong(p) \/ Leave(p)
        PROVE  CodeInv'
    BY <2>4, LeavingKeepsLimit
  <2> QED
    BY <2>1, <2>2, <2>3, <2>4 DEF Next
<1> QED
  BY <1>1, <1>2, PTL DEF Spec

(* Wrong guesses at one code are answered at most MaxAttempts times, and     *)
(* once more for every other handler: comparing before counting costs no     *)
(* more than that.                                                           *)
THEOREM GuessesLimited ==
  ASSUME CodeNumbers
  PROVE  Spec => []Limited
<1>1. CodeInv => Limited
  <2> SUFFICES ASSUME CodeInv, NEW c \in Codes
               PROVE  answered[c] <= MaxAttempts + Cardinality(Procs) - 1
    BY DEF Limited
  <2> QED
    BY Readers DEF CodeInv, WithReaders, TypeOK, CodeNumbers
<1> QED
  BY <1>1, CodeInvariant, PTL
=============================================================================
