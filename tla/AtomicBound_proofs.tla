------------------------- MODULE AtomicBound_proofs --------------------------
(***************************************************************************)
(* Proofs about AtomicBound, for every number of threads and every limit.  *)
(***************************************************************************)
EXTENDS AtomicBound, FiniteSetTheorems, TLAPS

USE DEF vars

LEMMA TypeStep == TypeOK /\ [Next]_vars => TypeOK'
<1> SUFFICES ASSUME TypeOK, [Next]_vars PROVE TypeOK'
  OBVIOUS
<1> USE DEF TypeOK, PC, GoTo
<1>1. ASSUME NEW w \in Workers, Load(w) PROVE TypeOK'
  BY <1>1 DEF Load, AfterCall
<1>2. ASSUME NEW w \in Workers, Add(w) PROVE TypeOK'
  BY <1>2 DEF Add
<1>3. CASE Return
  BY <1>3 DEF Return
<1>4. CASE UNCHANGED vars
  BY <1>4
<1>. QED
  BY <1>1, <1>2, <1>3, <1>4 DEF Next

\* Every variable stays in its range.
THEOREM TypeCorrect == Spec => []TypeOK
<1>1. Init => TypeOK
  BY DEF Init, TypeOK, PC
<1>. QED
  BY <1>1, TypeStep, PTL DEF Spec

-----------------------------------------------------------------------------
LEMMA AddingFinite ==
  ASSUME AtomicBoundAssumption
  PROVE  /\ IsFiniteSet(Adding)
         /\ Cardinality(Adding) \in Nat /\ Cardinality(Workers) \in Nat
         /\ Cardinality(Adding) <= Cardinality(Workers)
<1>1. Adding \subseteq Workers /\ IsFiniteSet(Workers)
  BY DEF Adding, AtomicBoundAssumption
<1>. QED
  BY <1>1, FS_Subset, FS_CardinalityType

\* The bound is inductive by itself: a thread that reads a number below the
\* limit leaves room for itself and for all the others.
LEMMA OvershootStep ==
  ASSUME AtomicBoundAssumption
  PROVE  TypeOK /\ Overshoot /\ [Next]_vars => Overshoot'
<1> SUFFICES ASSUME TypeOK, Overshoot, [Next]_vars PROVE Overshoot'
  OBVIOUS
<1> USE AtomicBoundAssumption DEF AtomicBoundAssumption, TypeOK, GoTo, Overshoot
<1>1. ASSUME NEW w \in Workers, Load(w), i < Limit PROVE Overshoot'
  <2>1. i' = i
    BY <1>1 DEF Load
  <2>2. Adding' \subseteq Workers
    BY DEF Adding
  <2>3. Cardinality(Adding') \in Nat /\ Cardinality(Adding') <= Cardinality(Workers)
    BY <2>2, FS_Subset, FS_CardinalityType
  <2>. QED
    BY <1>1, <2>1, <2>3, AddingFinite
<1>2. ASSUME NEW w \in Workers, Load(w), ~(i < Limit) PROVE Overshoot'
  <2>1. i' = i
    BY <1>2 DEF Load
  <2>2. Adding' = Adding
    BY <1>2 DEF Load, AfterCall, Adding
  <2>. QED
    BY <2>1, <2>2
<1>3. ASSUME NEW w \in Workers, Add(w) PROVE Overshoot'
  <2>1. i' = i + 1 /\ w \in Adding /\ Adding' = Adding \ {w}
    BY <1>3 DEF Add, Adding
  <2>2. Cardinality(Adding') = Cardinality(Adding) - 1
    BY <2>1, AddingFinite, FS_RemoveElement
  <2>. QED
    BY <2>1, <2>2, AddingFinite
<1>4. CASE Return \/ UNCHANGED vars
  <2>1. i' = i
    BY <1>4 DEF Return
  <2>2. Adding' = Adding
    BY <1>4 DEF Return, Adding
  <2>. QED
    BY <2>1, <2>2
<1>. QED
  BY <1>1, <1>2, <1>3, <1>4 DEF Next

\* For any finite set of threads, the counter passes the limit by fewer than
\* there are threads: with two threads the result is 10 or 11.
THEOREM OvershootBounded ==
  ASSUME AtomicBoundAssumption
  PROVE  Spec => []Overshoot
<1>1. Init => Overshoot
  <2> SUFFICES ASSUME Init PROVE Overshoot
    OBVIOUS
  <2>1. Adding = {} /\ i = 0
    BY DEF Init, Adding
  <2>. QED
    BY <2>1, AddingFinite, FS_EmptySet DEF Overshoot, AtomicBoundAssumption
<1>. QED
  BY <1>1, OvershootStep, TypeCorrect, PTL DEF Spec

-----------------------------------------------------------------------------
\* Once main is past its join, no other thread runs.
Joined == pc[Main] = "done" => \A w \in Workers : pc[w] = "done"

LEMMA FinalStep ==
  ASSUME AtomicBoundAssumption
  PROVE  TypeOK /\ Joined /\ ReturnedFinal /\ [Next]_vars
           => Joined' /\ ReturnedFinal'
<1> SUFFICES ASSUME TypeOK, Joined, ReturnedFinal, [Next]_vars
             PROVE  Joined' /\ ReturnedFinal'
  OBVIOUS
<1> USE DEF AtomicBoundAssumption, TypeOK, PC, GoTo, Joined, ReturnedFinal
<1>1. ASSUME NEW w \in Workers, Load(w) PROVE Joined' /\ ReturnedFinal'
  BY <1>1 DEF Load, AfterCall
<1>2. ASSUME NEW w \in Workers, Add(w) PROVE Joined' /\ ReturnedFinal'
  BY <1>2 DEF Add
<1>3. CASE Return
  BY <1>3 DEF Return
<1>4. CASE UNCHANGED vars
  BY <1>4
<1>. QED
  BY <1>1, <1>2, <1>3, <1>4 DEF Next

\* example_atomic returns the final value of the counter, at least the limit.
THEOREM ReturnsFinalValue ==
  ASSUME AtomicBoundAssumption
  PROVE  Spec => []ReturnedFinal
<1>1. Init => Joined /\ ReturnedFinal
  BY DEF AtomicBoundAssumption, Init, Joined, ReturnedFinal
<1>. QED
  BY <1>1, FinalStep, TypeCorrect, PTL DEF Spec
=============================================================================
