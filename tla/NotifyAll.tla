------------------------------ MODULE NotifyAll ------------------------------
(***************************************************************************)
(* print_notify and example_condition_variable_notify_all, in              *)
(* condition_variable_notify_all_example.cpp and, with std::thread and no  *)
(* string, in main.cpp: two children print the numbers 0, 1, 2, ... in     *)
(* turns; whoever is first begins, once the main thread has said Start.    *)
(*                                                                         *)
(* A child sleeps 200 ms at the head of its loop: an arbitrary delay.      *)
(* The State of a child is the child itself.  `return result;` moves the   *)
(* string out before the jthread objects are destroyed, hence joined,      *)
(* unless the compiler constructs it in the caller (NRVO); Builds says     *)
(* which builds are considered.  The move races with the children, who     *)
(* write under the lock main has given up: the model tells how many        *)
(* numbers the caller gets, not what a torn one looks like.                *)
(***************************************************************************)
EXTENDS Control, StdSync, Sequences

CONSTANTS
  Main,              \* the main thread; the other threads are the children
  Limit,             \* 10 in the code
  Builds,            \* subset of {"nrvo", "move"}
  None, Start        \* the other members of enum State

Printers == Threads \ {Main}

\* What the proofs and the instance in Examples take for granted.
NotifyAllAssumption ==
  /\ Nobody \notin Threads
  /\ Main \in Threads
  /\ \E a, b \in Printers : a # b /\ Printers = {a, b}
  /\ Limit \in Nat \ {0}
  /\ Builds \subseteq {"nrvo", "move"}
  /\ None \notin Threads /\ Start \notin Threads /\ None # Start

VARIABLES
  i,         \* the number to print next
  current,   \* whose turn it is
  result,    \* who printed, in order: the kth entry printed k - 1 (also
             \* the ones that come after the string was moved out)
  build,     \* how `return result;` was compiled
  returned   \* how much of result the caller got, once main has returned

vars == <<syncVars, pc, i, current, result, build, returned>>

Other(t) == CHOOSE s \in Printers : s # t

PC == {"begin", "lock", "test", "asleep", "unlock", "notify", "return", "join",
       "done"}

TypeOK ==
  /\ SyncTypeOK
  /\ pc \in [Threads -> PC]
  /\ i \in Nat
  /\ current \in Printers \cup {None, Start}
  /\ result \in Seq(Printers)
  /\ build \in {"nrvo", "move"}
  /\ returned \in Nat

Init ==
  /\ SyncInit
  /\ pc = [t \in Threads |-> IF t = Main THEN "lock" ELSE "begin"]
  /\ i = 0
  /\ current = None
  /\ result = <<>>
  /\ build \in Builds
  /\ returned = 0

-----------------------------------------------------------------------------
\* A child: sleep_for, lock, and return when i has reached the limit.
Enter(c) ==
  /\ GoTo(c, "begin", "lock")
  /\ Acquire(c)
  /\ UNCHANGED <<i, current, result, build, returned>>

Leave(c) ==
  /\ i >= Limit
  /\ GoTo(c, "lock", "done")
  /\ Release(c)
  /\ UNCHANGED <<i, current, result, build, returned>>

\* Faulty variants of the predicate: one forgets Start, one the turns.
MyTurnOnly(c) == current = c
AnyTurn(c) == current # None

MyTurn(c) == current = c \/ current = Start

\* Faulty variant: the test lets one number too many begin.
BeginWaitLate(c) ==
  /\ i <= Limit
  /\ GoTo(c, "lock", "test")
  /\ UNCHANGED <<syncVars, i, current, result, build, returned>>

\* cv.wait(lock, pred), entered with i < Limit.
BeginWait(c) ==
  /\ i < Limit
  /\ GoTo(c, "lock", "test")
  /\ UNCHANGED <<syncVars, i, current, result, build, returned>>

Block(c) ==
  /\ ~MyTurn(c)
  /\ GoTo(c, "test", "asleep")
  /\ Sleep(c)
  /\ UNCHANGED <<i, current, result, build, returned>>

Wake(c) ==
  /\ GoTo(c, "asleep", "test")
  /\ Reacquire(c)
  /\ UNCHANGED <<i, current, result, build, returned>>

\* After the wait: append i, count, hand over.  i is not tested again.
PrintNumber(c) ==
  /\ MyTurn(c)
  /\ GoTo(c, "test", "unlock")
  /\ result' = Append(result, c)
  /\ i' = i + 1
  /\ current' = Other(c)
  /\ UNCHANGED <<syncVars, build, returned>>

Unlock(c) ==
  /\ GoTo(c, "unlock", "notify")
  /\ Release(c)
  /\ UNCHANGED <<i, current, result, build, returned>>

\* Faulty variant: no notify_one.
LoopSilently(c) ==
  /\ GoTo(c, "notify", "begin")
  /\ UNCHANGED <<syncVars, i, current, result, build, returned>>

Notify(c) ==
  /\ GoTo(c, "notify", "begin")
  /\ NotifyOne
  /\ UNCHANGED <<i, current, result, build, returned>>

-----------------------------------------------------------------------------
\* Main: lock, current = Start, unlock, notify_all, return, join.
MainLock ==
  /\ GoTo(Main, "lock", "unlock")
  /\ Acquire(Main)
  /\ current' = Start
  /\ UNCHANGED <<i, result, build, returned>>

MainUnlock ==
  /\ GoTo(Main, "unlock", "notify")
  /\ Release(Main)
  /\ UNCHANGED <<i, current, result, build, returned>>

MainNotify ==
  /\ GoTo(Main, "notify", "return")
  /\ NotifyAll
  /\ UNCHANGED <<i, current, result, build, returned>>

\* `return result;`: moved out now, or built in place and complete at the end.
MainReturn ==
  /\ returned' = IF build = "move" THEN Len(result) ELSE returned
  /\ GoTo(Main, "return", "join")
  /\ UNCHANGED <<syncVars, i, current, result, build>>

MainJoin ==
  /\ \A c \in Printers : pc[c] = "done"
  /\ GoTo(Main, "join", "done")
  /\ returned' = IF build = "nrvo" THEN Len(result) ELSE returned
  /\ UNCHANGED <<syncVars, i, current, result, build>>

Spurious ==
  /\ WakeSpuriously
  /\ UNCHANGED <<pc, i, current, result, build, returned>>

Terminated == pc = [t \in Threads |-> "done"]

ChildStep(c) ==
  \/ Enter(c) \/ Leave(c) \/ BeginWait(c) \/ Block(c) \/ Wake(c)
  \/ PrintNumber(c) \/ Unlock(c) \/ Notify(c)

MainStep == MainLock \/ MainUnlock \/ MainNotify \/ MainReturn \/ MainJoin

Next ==
  \/ \E c \in Printers : ChildStep(c)
  \/ MainStep
  \/ Spurious
  \/ Terminated /\ UNCHANGED vars

Spec == Init /\ [][Next]_vars

\* As in TurnTaking: each thread locks the mutex finitely often.
Fairness ==
  /\ \A c \in Printers : WF_vars(ChildStep(c))
  /\ WF_vars(MainStep)
  /\ <>[][~Spurious]_vars

FairSpec == Spec /\ Fairness

-----------------------------------------------------------------------------
\* i is tested before the wait and not after it, so the limit can be missed, but
\* by one number only: the children print Limit numbers or one more.  A build
\* with NRVO hands all of them to the caller, even though main returns before the
\* children end; one that moves the string hands over what there was by then.
CallerGets ==
  pc[Main] = "done" =>
    /\ i \in {Limit, Limit + 1}
    /\ IF build = "nrvo" THEN returned = i ELSE returned <= i

\* No child is left asleep: if it may go on, or main has yet to say Start,
\* somebody is about to notify it; if it may not, the other child, which has
\* to print first, has not returned.
NoChildStranded ==
  \A c \in sleeping :
    \/ pc[Main] \in {"lock", "unlock", "notify"}
    \/ MyTurn(c) /\ pc[Other(c)] \in {"unlock", "notify"}
    \/ ~MyTurn(c) /\ pc[Other(c)] # "done"

\* What t does next is not enabled.
Blocked(t) ==
  \/ pc[t] = (IF t = Main THEN "lock" ELSE "begin") /\ owner # Nobody
  \/ pc[t] = "asleep" /\ (t \in sleeping \/ owner # Nobody)
  \/ pc[t] = "join" /\ \E c \in Printers : pc[c] # "done"
  \/ pc[t] = "done"

\* Without a spurious wake-up, nobody waits for ever.
NobodyStuck == (\A t \in Threads : Blocked(t)) => Terminated

\* Both children return and main joins them.
Finishes == <>Terminated

\* The children print in turns, no number by the same child as the one before.
Turns == INSTANCE Alternation
  WITH Players <- Printers, Starters <- Printers, MaxLength <- Limit + 1,
       log <- result

Alternates == Turns!Spec

\* condition_variable_notify_all_example.cpp:72: REQUIRE(... == "0123456789"),
\* the caller gets the numbers below the limit, all of them and no other.
CallerGetsDigits == pc[Main] = "done" => returned = Limit
=============================================================================
