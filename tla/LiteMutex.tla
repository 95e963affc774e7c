------------------------------ MODULE LiteMutex ------------------------------
(***************************************************************************)
(* lite::mutex and lock_guard, of mutex.hpp, as example_CreateMutex of     *)
(* windows.cpp uses them: the child writes under a guard that waits for    *)
(* the mutex, main polls for it with guards that wait for half a second    *)
(* and reads once it has got it.  A guard unlocks when it dies, whether it *)
(* has locked or not.  The sleeps are arbitrary delays.                    *)
(***************************************************************************)
EXTENDS Control

CONSTANTS Main, Child, Nobody

VARIABLES
  created,   \* CreateMutex has succeeded; mutex() does not look
  owner     \* the thread that owns the mutex, or Nobody

vars == <<created, owner, pc>>

\* "write", "read": the thread is about to touch the int; "guard": main has a
\* guard that did not lock.
PC == {"check", "lock", "write", "read", "guard", "unlock", "join", "done", "failed"}

TypeOK ==
  /\ created \in BOOLEAN
  /\ owner \in {Main, Child, Nobody}
  /\ pc \in [{Main, Child} -> PC]

\* CreateThread may fail as well.
Init ==
  /\ created \in BOOLEAN
  /\ owner = Nobody
  /\ \E child \in {"lock", "failed"} :
       pc = [t \in {Main, Child} |-> IF t = Main THEN "check" ELSE child]

\* if (t.native_handle() == NULL) return
Check ==
  /\ GoTo(Main, "check", IF pc[Child] = "failed" THEN "done" ELSE "lock")
  /\ UNCHANGED <<created, owner>>

\* WaitForSingleObject gives the mutex to the caller ...
WaitObject(t) ==
  /\ created /\ owner = Nobody
  /\ owner' = t

\* ... times out while another thread has it, or fails on a null handle.
WaitInVain ==
  /\ created => owner # Nobody
  /\ UNCHANGED owner

\* lock_guard(g_mutex): the result of the wait is not looked at.
ChildLock ==
  /\ GoTo(Child, "lock", "write")
  /\ WaitObject(Child) \/ (~created /\ UNCHANGED owner)
  /\ UNCHANGED created

ChildWrite ==
  /\ GoTo(Child, "write", "unlock")
  /\ UNCHANGED <<created, owner>>

\* guard.result() == WAIT_OBJECT_0
MainLock ==
  /\ GoTo(Main, "lock", "read")
  /\ WaitObject(Main)
  /\ UNCHANGED created

\* Faulty variant: every result but WAIT_FAILED is taken for success.
TimeoutIsSuccess ==
  /\ GoTo(Main, "lock", IF created THEN "read" ELSE "guard")
  /\ WaitInVain
  /\ UNCHANGED created

\* WAIT_TIMEOUT or WAIT_FAILED
MainLockFails ==
  /\ GoTo(Main, "lock", "guard")
  /\ WaitInVain
  /\ UNCHANGED created

MainRead ==
  /\ GoTo(Main, "read", "unlock")
  /\ UNCHANGED <<created, owner>>

\* Windows refuses a ReleaseMutex of a thread that is not the owner.
ReleaseMutex(t) == owner' = IF owner = t THEN Nobody ELSE owner

\* ~lock_guard of the guard that ends the work of the thread.
Unlock(t) ==
  /\ GoTo(t, "unlock", IF t = Main THEN "join" ELSE "done")
  /\ ReleaseMutex(t)
  /\ UNCHANGED created

\* ~lock_guard of a guard that has timed out or failed; the loop goes on.
DropGuard ==
  /\ GoTo(Main, "guard", "lock")
  /\ ReleaseMutex(Main)
  /\ UNCHANGED created

Join ==
  /\ pc[Child] = "done"
  /\ GoTo(Main, "join", "done")
  /\ UNCHANGED <<created, owner>>

MainStep ==
  Check \/ MainLock \/ MainLockFails \/ MainRead \/ DropGuard \/ Unlock(Main) \/ Join

ChildStep == ChildLock \/ ChildWrite \/ Unlock(Child)

Next == MainStep \/ ChildStep

-----------------------------------------------------------------------------
\* Main reads the int under the mutex only, and never while the child is about
\* to write it: the guards that time out release nothing that is not theirs.
GuardExcludes ==
  pc[Main] = "read" => owner = Main /\ pc[Child] # "write"

\* Main's guards time out, so it waits for the mutex only in a loop.
Blocked(t) ==
  \/ t = Child /\ pc[t] = "lock" /\ created /\ owner # Nobody
  \/ pc[t] = "join" /\ pc[Child] # "done"
  \/ pc[t] \in {"done", "failed"}

NobodyStuck == (\A t \in {Main, Child} : Blocked(t)) => pc[Main] = "done"

\* Main gets through its loop, unless there is no mutex to wait for.
EndsWithMutex == <>(pc[Main] = "done") \/ ~created
=============================================================================
