---------------------------- MODULE MutexCounter -----------------------------
(***************************************************************************)
(* print_mutex and its callers, in mutex_example.cpp and in main.cpp: each *)
(* thread adds i to result and increments i under the mutex, while i is    *)
(* below the limit, which it tests under the mutex too.  The sleep of the  *)
(* loop is an arbitrary delay.  The program runs two threads, the model    *)
(* any number of them.                                                     *)
(***************************************************************************)
EXTENDS Control, StdMutex, Naturals

CONSTANTS
  Main,     \* the main thread
  Limit     \* 10 in the code

VARIABLES
  i,        \* the shared int
  result    \* the sum

vars == <<owner, pc, i, result>>

\* "test" to "unlock": inside the scope of lock_guard; "require": main, after
\* its call of print_mutex; "join": in the destructor of the jthread.
PC == {"lock", "test", "increment", "unlock", "require", "join", "done"}

TypeOK ==
  /\ owner \in Threads \cup {Nobody}
  /\ pc \in [Threads -> PC]
  /\ i \in Nat
  /\ result \in Nat

Init ==
  /\ owner = Nobody
  /\ pc = [t \in Threads |-> "lock"]
  /\ i = 0
  /\ result = 0

Lock(t) ==
  /\ GoTo(t, "lock", "test")
  /\ LockMutex(t)
  /\ UNCHANGED <<i, result>>

AfterCall(t) == IF t = Main THEN "require" ELSE "done"

\* Faulty variant: the loop ends one number too early.
LeaveEarly(t) ==
  /\ i + 1 >= Limit
  /\ GoTo(t, "test", AfterCall(t))
  /\ UnlockMutex(t)
  /\ UNCHANGED <<i, result>>

\* Faulty variant: the return in the middle of the loop does not unlock.
LeaveLocked(t) ==
  /\ i >= Limit
  /\ GoTo(t, "test", AfterCall(t))
  /\ UNCHANGED <<owner, i, result>>

\* if (_i >= 10) return, which runs the destructor of lock_guard.
Leave(t) ==
  /\ i >= Limit
  /\ GoTo(t, "test", AfterCall(t))
  /\ UnlockMutex(t)
  /\ UNCHANGED <<i, result>>

\* Faulty variant: the scope of lock_guard ends before the update.
AddUnlocked(t) ==
  /\ i < Limit
  /\ GoTo(t, "test", "increment")
  /\ result' = result + i
  /\ owner' = Nobody
  /\ UNCHANGED i

\* _result += _i
Add(t) ==
  /\ i < Limit
  /\ GoTo(t, "test", "increment")
  /\ result' = result + i
  /\ UNCHANGED <<owner, i>>

\* _i++
Increment(t) ==
  /\ GoTo(t, "increment", "unlock")
  /\ i' = i + 1
  /\ UNCHANGED <<owner, result>>

Unlock(t) ==
  /\ GoTo(t, "unlock", "lock")
  /\ UnlockMutex(t)
  /\ UNCHANGED <<i, result>>

\* REQUIRE(result == 45) reads result without the mutex.
Require ==
  /\ GoTo(Main, "require", "join")
  /\ UNCHANGED <<owner, i, result>>

\* ~jthread, or join(t) in main.cpp.
Join ==
  /\ \A t \in Threads \ {Main} : pc[t] = "done"
  /\ GoTo(Main, "join", "done")
  /\ UNCHANGED <<owner, i, result>>

Terminated == pc = [t \in Threads |-> "done"]

Step(t) == Lock(t) \/ Leave(t) \/ Add(t) \/ Increment(t) \/ Unlock(t)

Next ==
  \/ \E t \in Threads : Step(t)
  \/ Require
  \/ Join
  \/ Terminated /\ UNCHANGED vars

-----------------------------------------------------------------------------
\* Twice the sum of the numbers below n.
TwiceSum(n) == n * (n - 1)

\* Whenever no thread is between the addition and the increment, the sum is
\* that of the numbers below i: no update is lost or interrupted.
SumConserved ==
  2 * result = IF \E t \in Threads : pc[t] = "increment"
               THEN TwiceSum(i) + 2 * i ELSE TwiceSum(i)

\* mutex_example.cpp:40, REQUIRE(result == 45), which main reads without the
\* mutex and before it joins: it holds from main's return from print_mutex on,
\* and no other thread has a write to i or result still to come.
RequireHolds ==
  pc[Main] \in {"require", "join", "done"} =>
    /\ 2 * result = TwiceSum(Limit)
    /\ i >= Limit /\ \A t \in Threads : pc[t] # "increment"

\* Threads that wait, or have ended.
Blocked(t) ==
  \/ pc[t] = "lock" /\ owner # Nobody
  \/ pc[t] = "join" /\ \E u \in Threads \ {Main} : pc[u] # "done"
  \/ pc[t] = "done"

\* They never all wait: every way out of the critical section, the return in the
\* middle of the loop included, leaves the mutex to the next thread.
NobodyStuck == (\A t \in Threads : Blocked(t)) => Terminated
=============================================================================
