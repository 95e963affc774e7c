-------------------------- MODULE SemaphoreHandoff ---------------------------
(***************************************************************************)
(* example_semaphore, in semaphore_example.cpp, test.cpp and (without the  *)
(* string) main.cpp: the main thread writes "1" and releases the binary    *)
(* semaphore for the child; the child acquires it, writes "2" and releases *)
(* it for the main thread, which writes "3".  It is one semaphore in both  *)
(* directions, and main's own acquire competes for the token it released.  *)
(* The sleeps are arbitrary delays.  The program has one child.            *)
(***************************************************************************)
EXTENDS Control, Naturals, Sequences, FiniteSets

CONSTANTS
  Main,
  Children    \* the threads that run the lambda

Threads == Children \cup {Main}

VARIABLES
  count,     \* the counter of the semaphore
  output     \* the string

vars == <<pc, count, output>>

PC == {"write", "release", "acquire", "finish", "join", "done"}

TypeOK ==
  /\ pc \in [Threads -> PC]
  /\ count \in Nat
  /\ output \in Seq({1, 2, 3})

Init ==
  /\ pc = [t \in Threads |-> IF t = Main THEN "write" ELSE "acquire"]
  /\ count = 0
  /\ output = <<>>

\* Main writes 1, a child 2.
Write(t) ==
  /\ GoTo(t, "write", "release")
  /\ output' = Append(output, IF t = Main THEN 1 ELSE 2)
  /\ UNCHANGED count

\* Faulty variant: the child gives back one token too many.
ReleaseTwice(t) ==
  /\ GoTo(t, "release", IF t = Main THEN "acquire" ELSE "done")
  /\ count' = count + (IF t = Main THEN 1 ELSE 2)
  /\ UNCHANGED output

\* Faulty variant: the child gives nothing back.
ReleaseNothing(t) ==
  /\ GoTo(t, "release", IF t = Main THEN "acquire" ELSE "done")
  /\ count' = count + (IF t = Main THEN 1 ELSE 0)
  /\ UNCHANGED output

Release(t) ==
  /\ GoTo(t, "release", IF t = Main THEN "acquire" ELSE "done")
  /\ count' = count + 1
  /\ UNCHANGED output

Acquire(t) ==
  /\ count > 0
  /\ count' = count - 1
  /\ GoTo(t, "acquire", IF t = Main THEN "finish" ELSE "write")
  /\ UNCHANGED output

\* Main writes 3 and returns the string.
Finish ==
  /\ GoTo(Main, "finish", "join")
  /\ output' = Append(output, 3)
  /\ UNCHANGED count

\* ~jthread
Join ==
  /\ \A c \in Children : pc[c] = "done"
  /\ GoTo(Main, "join", "done")
  /\ UNCHANGED <<count, output>>

Terminated == pc[Main] = "done"

Step(t) == Write(t) \/ Release(t) \/ Acquire(t)

Next ==
  \/ \E t \in Threads : Step(t)
  \/ Finish
  \/ Join
  \/ Terminated /\ UNCHANGED vars

Spec == Init /\ [][Next]_vars

-----------------------------------------------------------------------------
\* At most one thread is between an acquire and its next release, or the token
\* lies in the semaphore.
HoldsToken(t) ==
  \/ t = Main /\ pc[t] \in {"write", "release", "finish", "join", "done"}
  \/ t # Main /\ pc[t] \in {"write", "release"}

\* One token in all: the semaphore is never released at its maximum, which for
\* a binary_semaphore is undefined, and no two threads write to the string,
\* which no lock protects, at the same time.
OneToken == count + Cardinality({t \in Threads : HoldsToken(t)}) = 1

\* Main took the token it had released, or the one of a child, before every
\* child had its turn; the others and main then wait for ever.
Stranded ==
  /\ pc[Main] = "join"
  /\ count = 0
  /\ \E c \in Children : pc[c] = "acquire"

Blocked(t) ==
  \/ pc[t] = "acquire" /\ count = 0
  \/ pc[t] = "join" /\ \E c \in Children : pc[c] # "done"
  \/ pc[t] = "done"

\* All wait for a token, or main for a child, only in that way.
NobodyStuck == (\A t \in Threads : Blocked(t)) => Terminated \/ Stranded

\* The program ends, or strands in just that way.
FinishesOrStrands == <>(Terminated \/ []Stranded)

\* semaphore_example.cpp:32, the comment of main's acquire: it waits for the
\* child to signal.  So when main is past it, every child has signalled.
MainWaitsForChild ==
  pc[Main] \in {"finish", "join"} => \A c \in Children : pc[c] = "done"
=============================================================================
