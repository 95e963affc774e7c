----------------------------- MODULE LatchCount ------------------------------
(***************************************************************************)
(* The programs with a std::latch.  "detached" is latch_example.cpp: the   *)
(* threads add to the sum and then arrive, and main counts down with them  *)
(* and reads the sum when the latch opens.  "joined" is example_latch of   *)
(* test.cpp: they arrive and then add, and main joins them before it waits *)
(* and reads.  example_barrier of test.cpp does the same with one phase of *)
(* a std::barrier in place of the latch.                                   *)
(***************************************************************************)
EXTENDS Control, Naturals, FiniteSets

CONSTANTS
  Main,
  Children    \* three in latch_example.cpp, five in test.cpp

Threads == Children \cup {Main}

VARIABLES
  version,   \* "detached" or "joined"
  count,     \* the counter of the latch
  value      \* the atomic sum

vars == <<version, pc, count, value>>

PC == {"add", "arrive", "wait", "join", "require", "done", "undefined"}

TypeOK ==
  /\ version \in {"detached", "joined"}
  /\ pc \in [Threads -> PC]
  /\ count \in 0 .. Cardinality(Threads)
  /\ value \in 0 .. Cardinality(Children)

StartPlace(t) ==
  IF version = "detached" THEN IF t = Main THEN "arrive" ELSE "add"
                          ELSE IF t = Main THEN "join" ELSE "arrive"

\* Faulty variant: latch_example.cpp forgets that main counts down too.
ExpectChildren == Cardinality(Children)

\* The threads that count down.
Expected == Cardinality(IF version = "detached" THEN Threads ELSE Children)

Init ==
  /\ version \in {"detached", "joined"}
  /\ pc = [t \in Threads |-> StartPlace(t)]
  /\ count = Expected
  /\ value = 0

Add(c) ==
  /\ GoTo(c, "add", IF version = "detached" THEN "arrive" ELSE "done")
  /\ value' = value + 1
  /\ UNCHANGED <<version, count>>

\* count_down, and the first half of arrive_and_wait
Arrive(t) ==
  /\ count > 0
  /\ GoTo(t, "arrive", "wait")
  /\ count' = count - 1
  /\ UNCHANGED <<version, value>>

Wait(t) ==
  /\ count = 0
  /\ GoTo(t, "wait", IF t = Main THEN "require"
                     ELSE IF version = "detached" THEN "done" ELSE "add")
  /\ UNCHANGED <<version, count, value>>

\* The destructors of the vector of jthreads.
Join ==
  /\ \A c \in Children : pc[c] = "done"
  /\ GoTo(Main, "join", "wait")
  /\ UNCHANGED <<version, count, value>>

\* REQUIRE(result == 3), or return value.load(); the latch is destroyed.
Return ==
  /\ GoTo(Main, "require", "done")
  /\ UNCHANGED <<version, count, value>>

\* A detached thread that has not come back from its wait uses a dead latch.
Dangle(c) ==
  /\ pc[Main] = "done"
  /\ GoTo(c, "wait", "undefined")
  /\ UNCHANGED <<version, count, value>>

ChildStep(c) == pc[Main] # "done" /\ (Add(c) \/ Arrive(c) \/ Wait(c))
MainStep == Arrive(Main) \/ Wait(Main) \/ Join \/ Return

Next == MainStep \/ \E c \in Children : ChildStep(c) \/ Dangle(c)

-----------------------------------------------------------------------------
\* latch_example.cpp:33 and test.cpp:235: what main reads is the full sum, and
\* no thread has an addition still to come.
LatchCounts ==
  pc[Main] \in {"require", "done"} =>
    /\ value = Cardinality(Children)
    /\ \A c \in Children : pc[c] \notin {"add", "arrive"}

Blocked(t) ==
  \/ pc[t] = "arrive" /\ count = 0
  \/ pc[t] = "wait" /\ count > 0
  \/ pc[t] = "join" /\ \E c \in Children : pc[c] # "done"
  \/ pc[t] \in {"done", "undefined"}

\* The latch opens: as many threads count down as it was made for, and main's
\* joins, in the version that has them, do not keep one from it.
NobodyStuck == (\A t \in Threads : Blocked(t)) => pc[Main] = "done"
=============================================================================
