---------------------------- MODULE BarrierPhases ----------------------------
(***************************************************************************)
(* The test case of barrier_example.cpp: the main thread and three         *)
(* detached threads meet at a std::barrier three times; each child adds    *)
(* one to result before it arrives; main reads result after each meeting   *)
(* and then clears the flag that keeps the children going.  A reading that *)
(* is not the required one throws main out of the test case at once.  The  *)
(* barrier, the flag and the sum live on main's stack: what a child does   *)
(* with them once main has left is undefined.                              *)
(***************************************************************************)
EXTENDS Control, Naturals, FiniteSets

CONSTANTS
  Main,
  Children,  \* three in the code
  Phases     \* how often main waits; three in the code

Threads == Children \cup {Main}

VARIABLES
  waiting,   \* the threads that have arrived in the current phase
  flag,
  result,
  checked    \* how many assertions of main have held

vars == <<pc, waiting, flag, result, checked>>

PC == {"test", "add", "arrive", "wait", "require", "clear", "return", "done",
       "failed", "undefined"}

TypeOK ==
  /\ pc \in [Threads -> PC]
  /\ waiting \subseteq Threads
  /\ flag \in BOOLEAN
  /\ result \in Nat
  /\ checked \in 0 .. Phases

Init ==
  /\ pc = [t \in Threads |-> IF t = Main THEN "arrive" ELSE "test"]
  /\ waiting = {}
  /\ flag = TRUE
  /\ result = 0
  /\ checked = 0

Alive == pc[Main] \notin {"done", "failed"}   \* main's stack frame

\* Faulty variant: the loop runs while the flag is not set.
TestInverted(c) ==
  /\ GoTo(c, "test", IF flag THEN "done" ELSE "add")
  /\ UNCHANGED <<waiting, flag, result, checked>>

Test(c) ==
  /\ GoTo(c, "test", IF flag THEN "add" ELSE "done")
  /\ UNCHANGED <<waiting, flag, result, checked>>

Add(c) ==
  /\ GoTo(c, "add", "arrive")
  /\ result' = result + 1
  /\ UNCHANGED <<waiting, flag, checked>>

\* Faulty variant: the barrier is made for one thread less.
ArriveEarly(t) ==
  /\ GoTo(t, "arrive", "wait")
  /\ LET here == waiting \cup {t}
     IN  waiting' = IF Cardinality(here) + 1 = Cardinality(Threads) THEN {} ELSE here
  /\ UNCHANGED <<flag, result, checked>>

\* arrive_and_wait: the last thread to arrive lets all the others go.
Arrive(t) ==
  /\ GoTo(t, "arrive", "wait")
  /\ LET here == waiting \cup {t}
     IN  waiting' = IF here = Threads THEN {} ELSE here
  /\ UNCHANGED <<flag, result, checked>>

Pass(t) ==
  /\ t \notin waiting
  /\ GoTo(t, "wait", IF t = Main THEN "require" ELSE "test")
  /\ UNCHANGED <<waiting, flag, result, checked>>

\* REQUIRE(result == 3), 6, 9 ...
Require ==
  /\ result = (checked + 1) * Cardinality(Children)
  /\ GoTo(Main, "require", IF checked + 1 = Phases THEN "clear" ELSE "arrive")
  /\ checked' = checked + 1
  /\ UNCHANGED <<waiting, flag, result>>

\* ... and the exception of Catch2, which leaves the flag as it is.
RequireThrows ==
  /\ result # (checked + 1) * Cardinality(Children)
  /\ GoTo(Main, "require", "failed")
  /\ UNCHANGED <<waiting, flag, result, checked>>

ClearFlag ==
  /\ GoTo(Main, "clear", "return")
  /\ flag' = FALSE
  /\ UNCHANGED <<waiting, result, checked>>

Return ==
  /\ GoTo(Main, "return", "done")
  /\ UNCHANGED <<waiting, flag, result, checked>>

\* Every further step of a child is on destroyed objects.
Dangle(c) ==
  /\ ~Alive
  /\ pc[c] \notin {"done", "undefined"}
  /\ pc' = [pc EXCEPT ![c] = "undefined"]
  /\ UNCHANGED <<waiting, flag, result, checked>>

MainStep ==
  Arrive(Main) \/ Pass(Main) \/ Require \/ RequireThrows \/ ClearFlag \/ Return
ChildStep(c) == Alive /\ (Test(c) \/ Add(c) \/ Arrive(c) \/ Pass(c))

Next == MainStep \/ \E c \in Children : ChildStep(c) \/ Dangle(c)

Spec == Init /\ [][Next]_vars

-----------------------------------------------------------------------------
\* The meetings held so far.
Held ==
  IF pc[Main] \in {"require", "failed"} \/ (pc[Main] = "wait" /\ Main \notin waiting)
  THEN checked + 1 ELSE checked

\* After k meetings each child has added k times, and perhaps once more: that
\* is what main's assertions can rely on, as no child waits for main to read.
SumFollowsMeetings ==
  /\ result >= Held * Cardinality(Children)
  /\ result <= (Held + 1) * Cardinality(Children)

\* barrier_example.cpp:35, 38 and 41, REQUIRE(result == 3), 6 and 9: no assertion
\* of main throws.
RequireHolds == pc[Main] # "failed"

\* Main waits for no meeting in vain: it gets through all of them and returns,
\* or one of its assertions throws.
MainReturns == <>~Alive

\* Once main has cleared the flag the barrier opens no more: a child that has
\* read the flag before comes to a meeting that is never held, and stays.
StragglersStay == [][~flag => waiting \subseteq waiting']_vars

\* A thread at the barrier, or past its last step.
Blocked(t) ==
  \/ pc[t] = "wait" /\ t \in waiting
  \/ pc[t] \in {"done", "failed", "undefined"}

\* No child leaves its loop while main still counts on it for a meeting.
NobodyStuck == (\A t \in Threads : Blocked(t)) => ~Alive
=============================================================================
