----------------------------- MODULE TwoStrings ------------------------------
(***************************************************************************)
(* example_mutex of test.cpp: main and its thread write under one mutex,   *)
(* each to a string of its own, one item per turn of a loop.               *)
(***************************************************************************)
EXTENDS Control, StdMutex, Naturals

CONSTANTS Main, Items   \* three in the code

VARIABLE output   \* how many items each thread has written

vars == <<owner, pc, output>>

TypeOK ==
  /\ owner \in Threads \cup {Nobody}
  /\ pc \in [Threads -> {"loop", "write", "unlock", "join", "done"}]
  /\ output \in [Threads -> 0 .. Items]

Init ==
  /\ owner = Nobody
  /\ pc = [t \in Threads |-> "loop"]
  /\ output = [t \in Threads |-> 0]

Lock(t) ==
  /\ output[t] < Items
  /\ GoTo(t, "loop", "write")
  /\ LockMutex(t)
  /\ UNCHANGED output

Write(t) ==
  /\ GoTo(t, "write", "unlock")
  /\ output' = [output EXCEPT ![t] = @ + 1]
  /\ UNCHANGED owner

Unlock(t) ==
  /\ GoTo(t, "unlock", "loop")
  /\ UnlockMutex(t)
  /\ UNCHANGED output

\* The loop ends; main goes on to t.join().
Leave(t) ==
  /\ output[t] = Items
  /\ GoTo(t, "loop", IF t = Main THEN "join" ELSE "done")
  /\ UNCHANGED <<owner, output>>

Join ==
  /\ \A t \in Threads \ {Main} : pc[t] = "done"
  /\ GoTo(Main, "join", "done")
  /\ UNCHANGED <<owner, output>>

Next == (\E t \in Threads : Lock(t) \/ Write(t) \/ Unlock(t) \/ Leave(t)) \/ Join

-----------------------------------------------------------------------------
\* The caller compares both strings when main is back: both are complete, and
\* neither thread holds the mutex, which dies with main's frame.
StringsComplete ==
  pc[Main] = "done" => owner = Nobody /\ \A t \in Threads : output[t] = Items

Blocked(t) ==
  \/ pc[t] = "loop" /\ output[t] < Items /\ owner # Nobody
  \/ pc[t] = "join" /\ \E u \in Threads \ {Main} : pc[u] # "done"
  \/ pc[t] = "done"

NobodyStuck == (\A t \in Threads : Blocked(t)) => pc[Main] = "done"
=============================================================================
