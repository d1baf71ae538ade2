-------------------------- MODULE UsageShapeProofs --------------------------
(***************************************************************************)
(* The binary search of _shape_overview is right for every report whose    *)
(* size grows with its rows, and every budget.                             *)
(***************************************************************************)
EXTENDS UsageShape, TLAPS

USE BudgetAssumption, PayloadAssumption

LEMMA MidBetween ==
    ASSUME NEW i \in Int, NEW j \in Int, i <= j
    PROVE  (i + j) \div 2 \in i..j
OBVIOUS

LEMMA MidWithin ==
    ASSUME TypeOK, lo <= hi
    PROVE  Mid \in lo..hi /\ Mid \in 0..payload.rows
<1>1. lo \in Int /\ hi \in Int /\ payload.rows \in Nat /\ lo >= 0 /\ hi <= payload.rows
  BY DEF TypeOK
<1>2. Mid \in lo..hi
  BY <1>1, MidBetween DEF Mid
<1>3. QED
  BY <1>1, <1>2

LEMMA SizeType ==
    ASSUME TypeOK, NEW k \in 0..payload.rows
    PROVE  payload.marked[k] \in Nat
BY DEF TypeOK, Grows

\* What fits with more rows fits with fewer.
LEMMA FitsDownwards ==
    ASSUME TypeOK, NEW j \in 0..payload.rows, NEW k \in 0..payload.rows, j <= k, Fits(k)
    PROVE  Fits(j)
<1>1. payload.marked[j] <= payload.marked[k]
  BY DEF TypeOK, Grows
<1>2. payload.marked[j] \in Nat /\ payload.marked[k] \in Nat
  BY SizeType
<1>3. QED
  BY <1>1, <1>2 DEF Fits

\* With all its rows and the markers a report is larger than without markers.
LEMMA MarkersCost ==
    ASSUME TypeOK, Fits(payload.rows)
    PROVE  FitsWhole(payload)
<1>1. payload.plain < payload.marked[payload.rows] /\ payload.plain \in Nat /\ payload.rows \in Nat
  BY DEF TypeOK, Grows
<1>2. payload.marked[payload.rows] \in Nat
  BY <1>1, SizeType
<1>3. QED
  BY <1>1, <1>2 DEF Fits, FitsWhole

-----------------------------------------------------------------------------
LEMMA InitIInv == Init => IInv
BY DEF Init, IInv, TypeOK, SearchInv, OutInv, NoOutput

LEMMA WholeStep ==
    ASSUME IInv, PassThrough \/ ReturnWhole
    PROVE  IInv'
BY DEF IInv, TypeOK, SearchInv, OutInv, KeepsTheMost, MarkerTrue, PassThrough, ReturnWhole, Return

LEMMA StartSearchStep ==
    ASSUME IInv, StartSearch
    PROVE  IInv'
BY DEF IInv, TypeOK, SearchInv, OutInv, StartSearch, NoOutput

LEMMA ProbeStep ==
    ASSUME IInv, Probe
    PROVE  IInv'
<1>1. /\ TypeOK /\ SearchInv /\ pc = "search" /\ lo <= hi
      /\ Mid \in lo..hi /\ Mid \in 0..payload.rows
      /\ UNCHANGED <<pc, payload, out>>
  BY MidWithin DEF IInv, Probe
<1>2. lo \in Nat /\ hi \in Int /\ payload.rows \in Nat
  BY <1>1 DEF TypeOK
<1>3. OutInv'
  BY <1>1 DEF IInv, OutInv
<1>4. CASE Fits(Mid)
  <2>1. best' = Mid /\ lo' = Mid + 1 /\ hi' = hi
    BY <1>4 DEF Probe
  <2>2. TypeOK'
    BY <1>1, <1>2, <2>1 DEF TypeOK
  <2>3. SearchInv'
    BY <1>1, <1>2, <1>4, <2>1 DEF SearchInv, Fits, FitsWhole
  <2>4. QED
    BY <1>3, <2>2, <2>3 DEF IInv
<1>5. CASE ~Fits(Mid)
  <2>1. hi' = Mid - 1 /\ lo' = lo /\ best' = best
    BY <1>5 DEF Probe
  <2>2. TypeOK'
    BY <1>1, <1>2, <2>1 DEF TypeOK
  <2>3. ASSUME NEW k \in 0..payload.rows, k > Mid - 1 PROVE ~Fits(k)
    BY <1>1, <1>2, <1>5, <2>3, FitsDownwards
  <2>4. SearchInv'
    BY <1>1, <1>2, <2>1, <2>3 DEF SearchInv, Fits, FitsWhole
  <2>5. QED
    BY <1>3, <2>2, <2>4 DEF IInv
<1>6. QED
  BY <1>4, <1>5

LEMMA EndSearchStep ==
    ASSUME IInv, EndSearch
    PROVE  IInv'
<1>1. /\ TypeOK /\ SearchInv /\ pc = "search" /\ lo > hi
      /\ pc' = "done" /\ out' = [kind |-> "trimmed", kept |-> best]
      /\ UNCHANGED <<payload, lo, hi, best>>
  BY DEF IInv, EndSearch, Return
<1>2. lo \in Nat /\ hi \in Int /\ best \in 0..payload.rows /\ payload.rows \in Nat /\ lo = hi + 1
  BY <1>1 DEF TypeOK, SearchInv
<1>3. TypeOK' /\ SearchInv'
  BY <1>1 DEF TypeOK, SearchInv
<1>4. ASSUME NEW k \in 0..payload.rows, Fits(k) PROVE k <= best
  BY <1>1, <1>2, <1>4 DEF SearchInv
<1>5. Fits(best) \/ (best = 0 /\ ~Fits(0))
  BY <1>1, <1>2 DEF SearchInv
<1>6. best < payload.rows
  <2>1. ~Fits(payload.rows)
    BY <1>1, MarkersCost DEF SearchInv
  <2>2. best # payload.rows
    BY <1>1, <1>5, <2>1 DEF SearchInv
  <2>3. QED
    BY <1>2, <2>2
<1>7. OutInv'
  BY <1>1, <1>4, <1>5, <1>6 DEF OutInv, KeepsTheMost, MarkerTrue, Fits
<1>8. QED
  BY <1>3, <1>7 DEF IInv

LEMMA Inductive == Spec => []IInv
<1>1. ASSUME IInv, [Next]_vars PROVE IInv'
  <2>1. CASE UNCHANGED vars
    BY <1>1, <2>1 DEF vars, IInv, TypeOK, SearchInv, OutInv, KeepsTheMost, MarkerTrue, Fits
  <2>2. QED
    BY <1>1, <2>1, WholeStep, StartSearchStep, ProbeStep, EndSearchStep DEF Next, Done
<1>2. QED
  BY InitIInv, <1>1, PTL DEF Spec

-----------------------------------------------------------------------------
\* The indices of the search never leave the rows there are.
THEOREM TypeCorrect == Spec => []TypeOK
<1>1. IInv => TypeOK
  BY DEF IInv
<1>2. QED
  BY <1>1, Inductive, PTL

\* A trimmed report keeps the largest number of rows that fits.
THEOREM TrimsTheLeast == Spec => []KeepsTheMost
<1>1. IInv => KeepsTheMost
  BY DEF IInv, OutInv, NoOutput, KeepsTheMost
<1>2. QED
  BY <1>1, Inductive, PTL

\* A report is marked as truncated if and only if it lost a row.
THEOREM MarkerHonest == Spec => []MarkerTrue
<1>1. IInv => MarkerTrue
  BY DEF IInv, OutInv, MarkerTrue
<1>2. QED
  BY <1>1, Inductive, PTL

\* Each probe leaves at most half of the interval.
THEOREM SearchHalves == Spec => Halves
<1>1. ASSUME IInv, [Next]_vars, pc = "search", pc' = "search"
      PROVE  2 * (hi' - lo' + 1) <= hi - lo + 1 \/ UNCHANGED vars
  <2>1. Probe \/ UNCHANGED vars
    BY <1>1 DEF Next, PassThrough, ReturnWhole, StartSearch, EndSearch, Return, Done
  <2>2. ASSUME Probe PROVE 2 * (hi' - lo' + 1) <= hi - lo + 1
    <3>1. lo \in Int /\ hi \in Int /\ lo <= hi
      BY <1>1, <2>2 DEF IInv, TypeOK, Probe
    <3>2. \/ lo' = Mid + 1 /\ hi' = hi
          \/ hi' = Mid - 1 /\ lo' = lo
      BY <2>2 DEF Probe
    <3>3. QED
      BY <3>1, <3>2 DEF Mid
  <2>3. QED
    BY <2>1, <2>2
<1>2. QED
  BY <1>1, Inductive, PTL DEF Spec, Halves
=============================================================================
