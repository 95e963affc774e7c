------------------------------ MODULE NotifyOne ------------------------------
(***************************************************************************)
(* example_condition_variable_notify_one, in                               *)
(* condition_variable_notify_one_example.cpp and in main.cpp: the main     *)
(* thread sets the flag and notifies the child, the child sets the flag    *)
(* again and notifies main.  Nobody resets the flag.  In "jthread" the     *)
(* lock of main is destroyed before the thread; in "thread", the version   *)
(* of main.cpp (which has no string), main joins while it holds the lock.  *)
(***************************************************************************)
EXTENDS Control, StdSync, Sequences

CONSTANTS Main, Child

VARIABLES
  version,   \* "jthread" or "thread"
  flag,      \* the predicate of both waits
  result     \* the string

vars == <<syncVars, version, pc, flag, result>>

PC == {"begin", "set", "lock", "test", "asleep", "unlock", "notify", "leave",
       "join", "done"}

TypeOK ==
  /\ SyncTypeOK
  /\ version \in {"jthread", "thread"}
  /\ pc \in [Threads -> PC]
  /\ flag \in BOOLEAN
  /\ result \in Seq({1, 2, 3})

Init ==
  /\ SyncInit
  /\ version \in {"jthread", "thread"}
  /\ pc = [t \in Threads |-> IF t = Main THEN "begin" ELSE "lock"]
  /\ flag = FALSE
  /\ result = <<>>

Begin ==
  /\ GoTo(Main, "begin", "set")
  /\ result' = Append(result, 1)
  /\ UNCHANGED <<syncVars, version, flag>>

\* lock(mtx); flag = true
SetFlag ==
  /\ GoTo(Main, "set", "unlock")
  /\ Acquire(Main)
  /\ flag' = TRUE
  /\ UNCHANGED <<version, result>>

Unlock(t) ==
  /\ GoTo(t, "unlock", "notify")
  /\ Release(t)
  /\ UNCHANGED <<version, flag, result>>

\* Faulty variant: main does not notify.
NotifySilently(t) ==
  /\ GoTo(t, "notify", IF t = Main THEN "lock" ELSE "done")
  /\ UNCHANGED <<syncVars, version, flag, result>>

\* notify_one; main then sleeps and locks again.
Notify(t) ==
  /\ GoTo(t, "notify", IF t = Main THEN "lock" ELSE "done")
  /\ NotifyOne
  /\ UNCHANGED <<version, flag, result>>

Lock(t) ==
  /\ GoTo(t, "lock", "test")
  /\ Acquire(t)
  /\ UNCHANGED <<version, flag, result>>

Block(t) ==
  /\ ~flag
  /\ GoTo(t, "test", "asleep")
  /\ Sleep(t)
  /\ UNCHANGED <<version, flag, result>>

Wake(t) ==
  /\ GoTo(t, "asleep", "test")
  /\ Reacquire(t)
  /\ UNCHANGED <<version, flag, result>>

\* After the wait: main writes 3; the child writes 2 and sets the flag.
Proceed(t) ==
  /\ flag
  /\ GoTo(t, "test", IF t = Main THEN "leave" ELSE "unlock")
  /\ result' = Append(result, IF t = Main THEN 3 ELSE 2)
  /\ flag' = (flag \/ t = Child)
  /\ UNCHANGED <<syncVars, version>>

\* ~unique_lock and then ~jthread; or join() and then ~unique_lock.
Leave ==
  /\ GoTo(Main, "leave", "join")
  /\ IF version = "jthread" THEN Release(Main) ELSE UNCHANGED syncVars
  /\ UNCHANGED <<version, flag, result>>

Join ==
  /\ pc[Child] = "done"
  /\ GoTo(Main, "join", "done")
  /\ IF version = "thread" THEN Release(Main) ELSE UNCHANGED syncVars
  /\ UNCHANGED <<version, flag, result>>

Spurious ==
  /\ WakeSpuriously
  /\ UNCHANGED <<version, pc, flag, result>>

Terminated == pc = [t \in Threads |-> "done"]

Step(t) ==
  Unlock(t) \/ Notify(t) \/ Lock(t) \/ Block(t) \/ Wake(t) \/ Proceed(t)

MainStep == Begin \/ SetFlag \/ Leave \/ Join

Next == MainStep \/ (\E t \in Threads : Step(t)) \/ Spurious

-----------------------------------------------------------------------------
\* The child is never left asleep: while it sleeps, main has still to set the
\* flag and to notify.
ChildToBeNotified ==
  Child \in sleeping => pc[Main] \in {"begin", "set", "unlock", "notify"}

\* condition_variable_notify_one_example.cpp:52, REQUIRE(... == "123"): main
\* writes its second character after the child has written its own.
StringRequired ==
  version = "jthread" /\ pc[Main] = "done" => result = <<1, 2, 3>>

\* Main joins a child that needs the mutex main holds.
Deadlocked ==
  /\ version = "thread" /\ pc[Main] = "join" /\ owner = Main
  /\ pc[Child] \in {"lock", "asleep"}

Blocked(t) ==
  \/ pc[t] \in {"set", "lock"} /\ owner # Nobody
  \/ pc[t] = "asleep" /\ (t \in sleeping \/ owner # Nobody)
  \/ pc[t] = "join" /\ pc[Child] # "done"
  \/ pc[t] = "done"

\* Both threads wait, without a spurious wake-up, only in that way.
NobodyStuck == (\A t \in Threads : Blocked(t)) => Terminated \/ Deadlocked

\* The program ends, unless main comes back from its sleep before the child
\* has got the mutex, in the version that joins under the lock.
FinishesOrDeadlocks == <>(Terminated \/ []Deadlocked)
=============================================================================
