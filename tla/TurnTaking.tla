----------------------------- MODULE TurnTaking ------------------------------
(***************************************************************************)
(* example_condition_variable_notify_one of test.cpp: the main thread and  *)
(* the thread it starts write N items each to one string, in turns, with a *)
(* mutex, a condition variable and the variable `current` that says whose  *)
(* turn it is.  The tag of a thread is the thread itself.                  *)
(***************************************************************************)
EXTENDS Control, StdSync, Sequences

CONSTANTS
  Main, Sub,  \* the two threads
  N           \* the items of each: the size of vec_main and of vec_sub

\* What the proofs and the instance in Examples take for granted.
TurnAssumption ==
  /\ Threads = {Main, Sub}
  /\ Main # Sub
  /\ Nobody \notin Threads
  /\ N \in Nat \ {0}

VARIABLES
  item,       \* the item each thread writes next, 1 .. N
  current,    \* whose turn it is
  output      \* who wrote which item, in order

vars == <<syncVars, pc, item, current, output>>

Other(t) == IF t = Main THEN Sub ELSE Main

\* "lock": before the constructor of unique_lock; "test": before the
\* predicate; "asleep": inside cv.wait; "unlock": before the end of the block;
\* "join": main, after its loop.
PC == {"lock", "test", "asleep", "unlock", "notify", "join", "done"}

TypeOK ==
  /\ SyncTypeOK
  /\ pc \in [Threads -> PC]
  /\ item \in [Threads -> 1 .. N]
  /\ current \in Threads
  /\ output \in Seq(Threads \X (1 .. N))

Init ==
  /\ SyncInit
  /\ pc = [t \in Threads |-> "lock"]
  /\ item = [t \in Threads |-> 1]
  /\ current = Main
  /\ output = <<>>

-----------------------------------------------------------------------------
Lock(t) ==
  /\ GoTo(t, "lock", "test")
  /\ Acquire(t)
  /\ UNCHANGED <<item, current, output>>

\* cv.wait(lock, pred): sleep while the predicate is false.
Block(t) ==
  /\ current # t
  /\ GoTo(t, "test", "asleep")
  /\ Sleep(t)
  /\ UNCHANGED <<item, current, output>>

Wake(t) ==
  /\ GoTo(t, "asleep", "test")
  /\ Reacquire(t)
  /\ UNCHANGED <<item, current, output>>

\* Faulty variant: cv.wait without its predicate.
WriteUnasked(t) ==
  /\ GoTo(t, "test", "unlock")
  /\ current' = Other(t)
  /\ output' = Append(output, <<t, item[t]>>)
  /\ UNCHANGED <<syncVars, item>>

\* Faulty variant: `current` is not handed over.
WriteKeepingTurn(t) ==
  /\ current = t
  /\ GoTo(t, "test", "unlock")
  /\ output' = Append(output, <<t, item[t]>>)
  /\ UNCHANGED <<syncVars, item, current>>

\* current = the other's tag; _output += i.
Write(t) ==
  /\ current = t
  /\ GoTo(t, "test", "unlock")
  /\ current' = Other(t)
  /\ output' = Append(output, <<t, item[t]>>)
  /\ UNCHANGED <<syncVars, item>>

Unlock(t) ==
  /\ GoTo(t, "unlock", "notify")
  /\ Release(t)
  /\ UNCHANGED <<item, current, output>>

\* Faulty variant: no notify_one.
ContinueSilently(t) ==
  /\ \/ /\ item[t] < N
        /\ item' = [item EXCEPT ![t] = item[t] + 1]
        /\ GoTo(t, "notify", "lock")
     \/ /\ item[t] = N
        /\ GoTo(t, "notify", IF t = Main THEN "join" ELSE "done")
        /\ UNCHANGED item
  /\ UNCHANGED <<syncVars, current, output>>

\* notify_one, then the next item, or the end of the loop.
Notify(t) ==
  /\ NotifyOne
  /\ \/ /\ item[t] < N
        /\ item' = [item EXCEPT ![t] = item[t] + 1]
        /\ GoTo(t, "notify", "lock")
     \/ /\ item[t] = N
        /\ GoTo(t, "notify", IF t = Main THEN "join" ELSE "done")
        /\ UNCHANGED item
  /\ UNCHANGED <<current, output>>

Join ==
  /\ pc[Sub] = "done"
  /\ GoTo(Main, "join", "done")
  /\ UNCHANGED <<syncVars, item, current, output>>

Spurious ==
  /\ WakeSpuriously
  /\ UNCHANGED <<pc, item, current, output>>

Terminated == pc = [t \in Threads |-> "done"]

Step(t) == Lock(t) \/ Block(t) \/ Wake(t) \/ Write(t) \/ Unlock(t) \/ Notify(t)

Next ==
  \/ \E t \in Threads : Step(t)
  \/ Join
  \/ Spurious
  \/ Terminated /\ UNCHANGED vars

Spec == Init /\ [][Next]_vars

\* Every thread that can go on does.  No strong fairness of the mutex is
\* needed, because each thread locks it finitely often; a condition variable
\* may wake a thread for no reason, but not for ever.
Fairness ==
  /\ \A t \in Threads : WF_vars(Step(t))
  /\ WF_vars(Join)
  /\ <>[][~Spurious]_vars

FairSpec == Spec /\ Fairness

-----------------------------------------------------------------------------
\* test.cpp:320, REQUIRE(m == "a1b2c3"): in every state the output is a prefix
\* of that string, whatever the scheduler and spurious wake-ups do: item j of
\* main is at place 2j - 1, item j of the other thread at place 2j.
OutputInOrder ==
  \A k \in 1 .. Len(output) :
    k = IF output[k][1] = Main THEN 2 * output[k][2] - 1 ELSE 2 * output[k][2]

\* No notification is lost: while the thread whose turn it is sleeps, the
\* other one is between its write and its notify_one.
NoLostNotify ==
  current \in sleeping => pc[Other(current)] \in {"unlock", "notify"}

\* What t does next is not enabled: a mutex, a notification or a thread to wait
\* for, or nothing left to do.
Blocked(t) ==
  \/ pc[t] = "lock" /\ owner # Nobody
  \/ pc[t] = "asleep" /\ (t \in sleeping \/ owner # Nobody)
  \/ pc[t] = "join" /\ pc[Sub] # "done"
  \/ pc[t] = "done"

\* Without a spurious wake-up both threads stop only when all is written.
NobodyStuck ==
  (\A t \in Threads : Blocked(t)) => Terminated /\ Len(output) = 2 * N

\* Both threads end, and then all the items of both are in the output.
Finishes == <>(Terminated /\ Len(output) = 2 * N)

\* The writers alternate, main first, and stop when all is written.
Turns == INSTANCE Alternation
  WITH Players <- Threads, Starters <- {Main}, MaxLength <- 2 * N,
       log <- [k \in 1 .. Len(output) |-> output[k][1]]

Alternates == Turns!FairSpec
=============================================================================
