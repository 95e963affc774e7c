------------------------------- MODULE StdSync -------------------------------
(***************************************************************************)
(* std::condition_variable, of the C++ standard library, with its mutex,   *)
(* as the examples use them.  A waiter is woken by a notify or for no      *)
(* reason at all, and then competes for the mutex like every other thread. *)
(***************************************************************************)
EXTENDS StdMutex, Naturals

VARIABLE sleeping   \* the threads blocked in cv.wait and not yet woken

syncVars == <<owner, sleeping>>

SyncTypeOK ==
  /\ owner \in Threads \cup {Nobody}
  /\ sleeping \subseteq Threads

SyncInit ==
  /\ owner = Nobody
  /\ sleeping = {}

Acquire(t) ==
  /\ LockMutex(t)
  /\ UNCHANGED sleeping

Release(t) ==
  /\ UnlockMutex(t)
  /\ UNCHANGED sleeping

\* cv.wait(lock) unlocks the mutex and blocks in one step ...
Sleep(t) ==
  /\ UnlockMutex(t)
  /\ sleeping' = sleeping \cup {t}

\* ... and locks the mutex again once it is woken.
Reacquire(t) ==
  /\ t \notin sleeping
  /\ Acquire(t)

\* A notification with nobody asleep is lost.
NotifyOne ==
  /\ \/ sleeping = {} /\ UNCHANGED sleeping
     \/ \E t \in sleeping : sleeping' = sleeping \ {t}
  /\ UNCHANGED owner

NotifyAll ==
  /\ sleeping' = {}
  /\ UNCHANGED owner

WakeSpuriously ==
  /\ \E t \in sleeping : sleeping' = sleeping \ {t}
  /\ UNCHANGED owner
=============================================================================
