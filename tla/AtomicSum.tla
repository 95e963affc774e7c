------------------------------ MODULE AtomicSum ------------------------------
(***************************************************************************)
(* print_atomic and its test case in atomic_example.cpp: the main thread   *)
(* and one jthread claim the numbers 0, 1, 2, ... with i.fetch_add(1) and  *)
(* add each to result.  The sleep at the end of the loop is an arbitrary   *)
(* delay.                                                                  *)
(***************************************************************************)
EXTENDS Control, Naturals

CONSTANTS
  Main, Sub,  \* the two threads
  Limit       \* 10 in the code

\* What the proofs and the instance in Examples take for granted.
AtomicSumAssumption == Main # Sub /\ Limit \in Nat \ {0}

Threads == {Main, Sub}

VARIABLES
  i,        \* the atomic counter
  value,    \* the number each thread claimed last
  result,   \* the atomic sum
  seen      \* what REQUIRE read of result

vars == <<pc, i, value, result, seen>>

\* "add": between the two fetch_adds; "spin", "require": main after its call
\* of print_atomic; "join": main in the destructor of the jthread.
PC == {"claim", "add", "spin", "require", "join", "done"}

TypeOK ==
  /\ pc \in [Threads -> PC]
  /\ i \in Nat
  /\ value \in [Threads -> Nat]
  /\ result \in Nat
  /\ seen \in Nat

Init ==
  /\ pc = [t \in Threads |-> "claim"]
  /\ i = 0
  /\ value = [t \in Threads |-> 0]
  /\ result = 0
  /\ seen = 0

AfterCall(t) == IF t = Main THEN "spin" ELSE "done"

\* auto value = _i.fetch_add(1), and the test of value.
Claim(t) ==
  /\ value' = [value EXCEPT ![t] = i]
  /\ i' = i + 1
  /\ GoTo(t, "claim", IF i >= Limit THEN AfterCall(t) ELSE "add")
  /\ UNCHANGED <<result, seen>>

\* Faulty variant: the sum is stored, not accumulated.
AddOver(t) ==
  /\ GoTo(t, "add", "claim")
  /\ result' = value[t]
  /\ UNCHANGED <<i, value, seen>>

\* _result.fetch_add(value)
Add(t) ==
  /\ GoTo(t, "add", "claim")
  /\ result' = result + value[t]
  /\ UNCHANGED <<i, value, seen>>

\* while (i.load() < 10): left as soon as the counter has reached the limit.
Spin ==
  /\ i >= Limit
  /\ GoTo(Main, "spin", "require")
  /\ UNCHANGED <<i, value, result, seen>>

\* REQUIRE(result == 45)
Require ==
  /\ GoTo(Main, "require", "join")
  /\ seen' = result
  /\ UNCHANGED <<i, value, result>>

\* ~jthread
Join ==
  /\ pc[Sub] = "done"
  /\ GoTo(Main, "join", "done")
  /\ UNCHANGED <<i, value, result, seen>>

Terminated == \A t \in Threads : pc[t] = "done"

Step(t) == Claim(t) \/ Add(t)
MainStep == Spin \/ Require \/ Join

Next ==
  \/ \E t \in Threads : Step(t)
  \/ MainStep
  \/ Terminated /\ UNCHANGED vars

Spec == Init /\ [][Next]_vars

-----------------------------------------------------------------------------
\* The number a thread has claimed and not yet added.
Pending(t) == IF pc[t] = "add" THEN value[t] ELSE 0

\* Twice the sum of the numbers below n.
TwiceSum(n) == n * (n - 1)

Claimed == IF i < Limit THEN i ELSE Limit

\* Every number below the limit is claimed by exactly one thread and added
\* once: what was added and what is pending make the sum of the claimed ones.
SumConserved ==
  2 * (result + Pending(Main) + Pending(Sub)) = TwiceSum(Claimed)

\* Each thread takes the counter past the limit once.
CounterBounded == i <= Limit + 2

\* When both threads have ended, the sum is complete.
SumComplete == Terminated => 2 * result = TwiceSum(Limit)

\* What t does next is not enabled.
Blocked(t) ==
  \/ pc[t] = "spin" /\ i < Limit
  \/ pc[t] = "join" /\ pc[Sub] # "done"
  \/ pc[t] = "done"

\* Main's loop on the counter does not wait in vain.
NobodyStuck == (\A t \in Threads : Blocked(t)) => Terminated

\* What REQUIRE reads misses at most the number the other thread has claimed
\* and not added: main's spin loop waits for the claims, not for the sum.
RequireMissesPending ==
  [][pc[Main] = "require" /\ pc'[Main] = "join"
       => 2 * (seen' + Pending(Sub)) = TwiceSum(Limit)]_vars

\* atomic_example.cpp:42, REQUIRE(result == 45): 0 + 1 + ... + 9.
RequireHolds == pc[Main] \in {"join", "done"} => 2 * seen = TwiceSum(Limit)
=============================================================================
