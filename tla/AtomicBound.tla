----------------------------- MODULE AtomicBound -----------------------------
(***************************************************************************)
(* example_atomic of test.cpp: every thread reads an atomic counter and,   *)
(* in a second atomic operation, adds one while it has read less than the  *)
(* limit.  The program runs two threads; the model any number.             *)
(***************************************************************************)
EXTENDS Control, Naturals, FiniteSets

CONSTANTS
  Workers,   \* the threads that run update_atomic, the main thread among them
  Main,
  Limit      \* 10 in the code

\* What the proofs and the instance in Examples take for granted.
AtomicBoundAssumption ==
  /\ IsFiniteSet(Workers)
  /\ Main \in Workers
  /\ Limit \in Nat \ {0}

VARIABLES
  i,         \* the atomic counter
  returned   \* what example_atomic returned

vars == <<pc, i, returned>>

\* "add": the thread has read a number below the limit.
PC == {"load", "add", "join", "done"}

TypeOK ==
  /\ pc \in [Workers -> PC]
  /\ i \in Nat
  /\ returned \in Nat

Init ==
  /\ pc = [w \in Workers |-> "load"]
  /\ i = 0
  /\ returned = 0

AfterCall(w) == IF w = Main THEN "join" ELSE "done"

\* Faulty variant: `<=` for `<`.
LoadOneMore(w) ==
  /\ GoTo(w, "load", IF i <= Limit THEN "add" ELSE AfterCall(w))
  /\ UNCHANGED <<i, returned>>

\* if (i.load() < 10)
Load(w) ==
  /\ GoTo(w, "load", IF i < Limit THEN "add" ELSE AfterCall(w))
  /\ UNCHANGED <<i, returned>>

\* i++, whatever i is by now.
Add(w) ==
  /\ GoTo(w, "add", "load")
  /\ i' = i + 1
  /\ UNCHANGED returned

\* t.join(); return i
Return ==
  /\ \A w \in Workers \ {Main} : pc[w] = "done"
  /\ GoTo(Main, "join", "done")
  /\ returned' = i
  /\ UNCHANGED i

Terminated == \A w \in Workers : pc[w] = "done"

Next ==
  \/ \E w \in Workers : Load(w) \/ Add(w)
  \/ Return
  \/ Terminated /\ UNCHANGED vars

Spec == Init /\ [][Next]_vars

-----------------------------------------------------------------------------
Adding == {w \in Workers : pc[w] = "add"}

\* The read and the addition are two atomic operations: the counter passes
\* the limit by at most one for every thread but one.
Overshoot == i + Cardinality(Adding) < Limit + Cardinality(Workers)

\* A thread has left only if the limit was reached, and what is returned is
\* the final value of the counter.
ReturnedFinal ==
  /\ \A w \in Workers : pc[w] \in {"join", "done"} => i >= Limit
  /\ pc[Main] = "done" => returned = i

\* test.cpp:297, REQUIRE(example_atomic() == 10): the counter stops at the limit.
ReturnsLimit == pc[Main] = "done" => returned = Limit

\* Main in t.join(), or a thread that has ended; main waits only as long as
\* another thread runs.
Blocked(w) ==
  \/ pc[w] = "join" /\ \E v \in Workers \ {Main} : pc[v] # "done"
  \/ pc[w] = "done"

NobodyStuck == (\A w \in Workers : Blocked(w)) => Terminated
=============================================================================
