------------------------------ MODULE StdMutex -------------------------------
(***************************************************************************)
(* std::mutex, of the C++ standard library, as the examples use it: not    *)
(* recursive, unlocked by the thread that locked it, and not fair.         *)
(***************************************************************************)

CONSTANTS
  Threads,   \* the threads of the program
  Nobody     \* a value that is not a thread, as every program assumes

VARIABLE owner   \* the thread that holds the mutex, or Nobody

LockMutex(t) ==
  /\ owner = Nobody
  /\ owner' = t

UnlockMutex(t) ==
  /\ owner = t
  /\ owner' = Nobody
=============================================================================
