-------------------------- MODULE AtomicSum_proofs ---------------------------
(***************************************************************************)
(* Proofs about AtomicSum for every limit: no number is lost or added      *)
(* twice, and what exactly the assertion of the test case may miss.        *)
(***************************************************************************)
EXTENDS AtomicSum, Integers, TLAPS

USE DEF AtomicSumAssumption, vars, Threads

LEMMA TypeStep ==
  ASSUME AtomicSumAssumption
  PROVE  TypeOK /\ [Next]_vars => TypeOK'
<1> SUFFICES ASSUME TypeOK, [Next]_vars PROVE TypeOK'
  OBVIOUS
<1> USE DEF TypeOK, PC, GoTo
<1>1. ASSUME NEW t \in Threads, Claim(t) PROVE TypeOK'
  BY <1>1 DEF Claim, AfterCall
<1>2. ASSUME NEW t \in Threads, Add(t) PROVE TypeOK'
  BY <1>2 DEF Add
<1>3. CASE Spin
  BY <1>3 DEF Spin
<1>4. CASE Require
  BY <1>4 DEF Require
<1>5. CASE Join
  BY <1>5 DEF Join
<1>6. CASE UNCHANGED vars
  BY <1>6
<1>. QED
  BY <1>1, <1>2, <1>3, <1>4, <1>5, <1>6 DEF Next, Step, MainStep

\* Every variable stays in its range.
THEOREM TypeCorrect ==
  ASSUME AtomicSumAssumption
  PROVE  Spec => []TypeOK
<1>1. Init => TypeOK
  BY DEF Init, TypeOK, PC
<1>. QED
  BY <1>1, TypeStep, PTL DEF Spec

-----------------------------------------------------------------------------
LEMMA ClaimOneMoreNumber ==
  \A n \in Nat : TwiceSum(n + 1) = TwiceSum(n) + 2 * n
  BY DEF TwiceSum

LEMMA ConservedStep ==
  ASSUME AtomicSumAssumption
  PROVE  TypeOK /\ SumConserved /\ [Next]_vars => SumConserved'
<1> SUFFICES ASSUME TypeOK, SumConserved, [Next]_vars PROVE SumConserved'
  OBVIOUS
<1>0. /\ Pending(Main) \in Nat /\ Pending(Sub) \in Nat /\ result \in Nat
      /\ TwiceSum(Claimed) \in Int /\ i \in Nat
      /\ 2 * (result + Pending(Main) + Pending(Sub)) = TwiceSum(Claimed)
  BY DEF TypeOK, Pending, TwiceSum, Claimed, SumConserved
<1>1. ASSUME NEW t \in Threads, NEW s \in Threads, s # t, Claim(t)
      PROVE  SumConserved'
  <2>1. /\ pc[t] = "claim" /\ i' = i + 1 /\ result' = result
        /\ Pending(s)' = Pending(s) /\ Pending(t) = 0
        /\ Pending(t)' = IF i >= Limit THEN 0 ELSE i
    BY <1>1 DEF Claim, GoTo, AfterCall, Pending, TypeOK
  <2>2. TwiceSum(Claimed)' = TwiceSum(Claimed) + (IF i >= Limit THEN 0 ELSE 2 * i)
    <3>1. CASE i >= Limit
      BY <1>0, <2>1, <3>1 DEF Claimed, TwiceSum
    <3>2. CASE i < Limit
      <4>1. Claimed = i /\ Claimed' = i + 1
        BY <1>0, <2>1, <3>2 DEF Claimed
      <4>2. TwiceSum(i + 1) = TwiceSum(i) + 2 * i
        BY <1>0, ClaimOneMoreNumber
      <4>3. TwiceSum(Claimed)' = TwiceSum(i + 1) /\ TwiceSum(Claimed) = TwiceSum(i)
        BY <4>1 DEF TwiceSum
      <4>. QED
        BY <1>0, <3>2, <4>2, <4>3
    <3>. QED
      BY <1>0, <3>1, <3>2
  <2>. QED
    BY <1>0, <1>1, <2>1, <2>2 DEF SumConserved
<1>2. ASSUME NEW t \in Threads, NEW s \in Threads, s # t, Add(t)
      PROVE  SumConserved'
  <2>1. /\ i' = i /\ result' = result + Pending(t)
        /\ Pending(t)' = 0 /\ Pending(s)' = Pending(s)
    BY <1>2 DEF Add, GoTo, Pending, TypeOK
  <2>2. TwiceSum(Claimed)' = TwiceSum(Claimed)
    BY <2>1 DEF TwiceSum, Claimed
  <2>. QED
    BY <1>0, <1>2, <2>1, <2>2 DEF SumConserved
<1>3. CASE MainStep \/ UNCHANGED vars
  <2>1. /\ i' = i /\ result' = result
        /\ Pending(Main)' = Pending(Main) /\ Pending(Sub)' = Pending(Sub)
    BY <1>3 DEF MainStep, Spin, Require, Join, GoTo, Pending, TypeOK
  <2>2. TwiceSum(Claimed)' = TwiceSum(Claimed)
    BY <2>1 DEF TwiceSum, Claimed
  <2>. QED
    BY <2>1, <2>2 DEF SumConserved
<1>. QED
  BY <1>1, <1>2, <1>3 DEF Next, Step

\* No number below the limit is lost, added twice or claimed by both threads.
THEOREM Conservation ==
  ASSUME AtomicSumAssumption
  PROVE  Spec => []SumConserved
<1>1. Init => SumConserved
  BY DEF Init, SumConserved, Pending, Claimed, TwiceSum
<1>. QED
  BY <1>1, ConservedStep, TypeCorrect, PTL DEF Spec

-----------------------------------------------------------------------------
\* How often a thread has taken the counter past the limit.
Left(t) == IF pc[t] \in {"spin", "require", "join", "done"} THEN 1 ELSE 0

\* The counter passes the limit once for each thread that has left the loop,
\* no thread leaves before the limit, and only main goes on after its call.
LeftInv ==
  /\ i <= Limit + Left(Main) + Left(Sub)
  /\ \A t \in Threads : Left(t) = 1 => i >= Limit
  /\ pc[Sub] \notin {"spin", "require", "join"}

LEMMA LeftStep ==
  ASSUME AtomicSumAssumption
  PROVE  TypeOK /\ LeftInv /\ [Next]_vars => LeftInv'
<1> SUFFICES ASSUME TypeOK, LeftInv, [Next]_vars PROVE LeftInv'
  OBVIOUS
<1>0. Left(Main) \in 0 .. 1 /\ Left(Sub) \in 0 .. 1 /\ i \in Nat
  BY DEF Left, TypeOK
<1>1. ASSUME NEW t \in Threads, NEW s \in Threads, s # t, Claim(t)
      PROVE  LeftInv'
  <2>1. /\ i' = i + 1 /\ Left(s)' = Left(s) /\ Left(t) = 0
        /\ Left(t)' = IF i >= Limit THEN 1 ELSE 0
        /\ pc'[Sub] \notin {"spin", "require", "join"}
    BY <1>1 DEF Claim, GoTo, AfterCall, Left, LeftInv, TypeOK
  <2>. QED
    BY <1>0, <1>1, <2>1 DEF LeftInv
<1>2. CASE (\E t \in Threads : Add(t)) \/ MainStep \/ UNCHANGED vars
  <2>1. /\ i' = i /\ Left(Main)' = Left(Main) /\ Left(Sub)' = Left(Sub)
        /\ pc'[Sub] \notin {"spin", "require", "join"}
    BY <1>2 DEF Add, MainStep, Spin, Require, Join, GoTo, Left, LeftInv, TypeOK
  <2>. QED
    BY <2>1 DEF LeftInv
<1>. QED
  BY <1>1, <1>2 DEF Next, Step

LEMMA LeftInvariant ==
  ASSUME AtomicSumAssumption
  PROVE  Spec => []LeftInv
<1>1. Init => LeftInv
  BY DEF Init, LeftInv, Left
<1>. QED
  BY <1>1, LeftStep, TypeCorrect, PTL DEF Spec

\* The counter passes the limit by at most two.
THEOREM CounterStaysBounded ==
  ASSUME AtomicSumAssumption
  PROVE  Spec => []CounterBounded
<1>1. LeftInv /\ TypeOK => CounterBounded
  BY DEF LeftInv, Left, CounterBounded, TypeOK
<1>. QED
  BY <1>1, LeftInvariant, TypeCorrect, PTL

\* When both threads have ended, every number has been added.
THEOREM SumCompletes ==
  ASSUME AtomicSumAssumption
  PROVE  Spec => []SumComplete
<1>1. TypeOK /\ LeftInv /\ SumConserved => SumComplete
  <2> SUFFICES ASSUME TypeOK, LeftInv, SumConserved, Terminated
               PROVE  2 * result = TwiceSum(Limit)
    BY DEF SumComplete
  <2>1. Pending(Main) = 0 /\ Pending(Sub) = 0 /\ Claimed = Limit
    BY DEF Terminated, Pending, LeftInv, Left, Claimed, TypeOK
  <2>. QED
    BY <2>1 DEF SumConserved, TypeOK
<1>. QED
  BY <1>1, Conservation, LeftInvariant, TypeCorrect, PTL

\* The assertion reads a sum that lacks the pending number of the other
\* thread and nothing else.
THEOREM RequireMissesOnlyPending ==
  ASSUME AtomicSumAssumption
  PROVE  Spec => RequireMissesPending
<1>1. TypeOK /\ LeftInv /\ SumConserved /\ [Next]_vars
        => [pc[Main] = "require" /\ pc'[Main] = "join"
              => 2 * (seen' + Pending(Sub)) = TwiceSum(Limit)]_vars
  <2> SUFFICES ASSUME TypeOK, LeftInv, SumConserved, [Next]_vars,
                      pc[Main] = "require", pc'[Main] = "join"
               PROVE  2 * (seen' + Pending(Sub)) = TwiceSum(Limit)
    OBVIOUS
  <2>1. seen' = result
    BY DEF Next, Step, Claim, Add, MainStep, Spin, Require, Join, GoTo,
           Terminated, TypeOK
  <2>2. Pending(Main) = 0 /\ Pending(Sub) \in Nat /\ Claimed = Limit
    BY DEF Pending, LeftInv, Left, Claimed, TypeOK
  <2>. QED
    BY <2>1, <2>2 DEF SumConserved, TypeOK
<1>. QED
  BY <1>1, Conservation, LeftInvariant, TypeCorrect, PTL
     DEF Spec, RequireMissesPending

\* Main's loop on the counter goes on at once, and the threads stop at the end
\* only, with the sum complete.
StopsComplete ==
  /\ pc[Main] = "spin" => i >= Limit
  /\ (\A t \in Threads : Blocked(t)) => Terminated /\ 2 * result = TwiceSum(Limit)

\* The loop that waits for the counter never does: print_atomic returns only when
\* the counter has reached the limit.  So the program stops only when both threads
\* have ended, and then the sum is complete.
THEOREM StopsOnlyComplete ==
  ASSUME AtomicSumAssumption
  PROVE  Spec => []StopsComplete
<1>1. TypeOK /\ LeftInv /\ SumComplete => StopsComplete
  <2> SUFFICES ASSUME TypeOK, LeftInv, SumComplete PROVE StopsComplete
    OBVIOUS
  <2>1. pc[Main] = "spin" => i >= Limit
    BY DEF LeftInv, Left
  <2>2. (\A t \in Threads : Blocked(t)) => Terminated
    BY <2>1 DEF Blocked, Terminated, LeftInv, TypeOK
  <2>. QED
    BY <2>1, <2>2 DEF SumComplete, StopsComplete
<1>. QED
  BY <1>1, TypeCorrect, LeftInvariant, SumCompletes, PTL
=============================================================================
