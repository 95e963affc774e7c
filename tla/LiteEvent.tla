------------------------------ MODULE LiteEvent ------------------------------
(***************************************************************************)
(* lite::Event, of event.hpp, as example_event of windows.cpp uses it: the *)
(* threads wait for the event that main sets.  A manual event stays        *)
(* signalled; an automatic one is reset by the wait it satisfies, so there *)
(* every thread sets it again for the next.  The program starts two        *)
(* threads, the model any number.  Main's sleep is an arbitrary delay.     *)
(***************************************************************************)
EXTENDS Control

CONSTANTS Main, Children

VARIABLES
  manual,      \* a constant of the program, TRUE in the code
  created,     \* CreateEvent has succeeded; Event() does not look
  signalled   \* the state of the event

vars == <<manual, created, signalled, pc>>

PC == {"wait", "set", "join", "done", "failed"}

TypeOK ==
  /\ manual \in BOOLEAN /\ created \in BOOLEAN /\ signalled \in BOOLEAN
  /\ pc \in [Children \cup {Main} -> PC]

\* Some of the threads may fail to start, which nobody looks at.
Init ==
  /\ manual \in BOOLEAN /\ created \in BOOLEAN
  /\ signalled = FALSE
  /\ \E failed \in SUBSET Children :
       pc = [t \in Children \cup {Main} |->
               IF t = Main THEN "set" ELSE IF t \in failed THEN "failed" ELSE "wait"]

\* event->wait(): a wait on a null handle returns at once.
Wait(c) ==
  /\ created => signalled
  /\ signalled' = (signalled /\ manual)
  /\ GoTo(c, "wait", IF manual THEN "done" ELSE "set")
  /\ UNCHANGED <<manual, created>>

\* Faulty variant: the thread does not pass the signal on.
SetByMainOnly(t) ==
  /\ GoTo(t, "set", IF t = Main THEN "join" ELSE "done")
  /\ signalled' = (signalled \/ (created /\ t = Main))
  /\ UNCHANGED <<manual, created>>

\* event->set()
Set(t) ==
  /\ GoTo(t, "set", IF t = Main THEN "join" ELSE "done")
  /\ signalled' = created
  /\ UNCHANGED <<manual, created>>

\* joinable() is always true; to join a thread that has not started is to wait
\* on a null handle.
Join ==
  /\ \A c \in Children : pc[c] \in {"done", "failed"}
  /\ GoTo(Main, "join", "done")
  /\ UNCHANGED <<manual, created, signalled>>

ChildStep(c) == Wait(c) \/ Set(c)
MainStep == Set(Main) \/ Join

Next == MainStep \/ \E c \in Children : ChildStep(c)

-----------------------------------------------------------------------------
Blocked(t) ==
  \/ pc[t] = "wait" /\ created /\ ~signalled
  \/ pc[t] = "join" /\ \E c \in Children : pc[c] \notin {"done", "failed"}
  \/ pc[t] \in {"done", "failed"}

\* The signal is never used up with a thread still waiting for it.
NobodyStuck == (\A t \in Children \cup {Main} : Blocked(t)) => pc[Main] = "done"

\* Main's one signal reaches every thread in both modes, whatever has failed to
\* start, and the program ends.
SignalReachesAll == <>(pc[Main] = "done")
=============================================================================
