------------------------------ MODULE StdFuture ------------------------------
(***************************************************************************)
(* The programs with a std::future.  "polled": promise_example.cpp,        *)
(* packaged_task_example.cpp, async_example.cpp and main.cpp, where main   *)
(* polls with wait_for, gets, and joins its thread (in ~jthread, in join() *)
(* or in the destructor of the future).  "joined": example_promise and     *)
(* example_packaged_task of test.cpp, which join and then get.  "get":     *)
(* example_async of test.cpp.  The thread refers to objects of main's      *)
(* frame (the promise, the task, the parameter).                           *)
(***************************************************************************)
EXTENDS Control

CONSTANTS Main, Child

VARIABLES
  version,   \* "polled", "joined" or "get"
  ready,     \* the shared state has its value
  status,    \* what wait_for has returned last
  result     \* what get() has returned

vars == <<version, pc, ready, status, result>>

PC == {"poll", "look", "get", "join", "call", "leave", "done"}

TypeOK ==
  /\ version \in {"polled", "joined", "get"}
  /\ pc \in [{Main, Child} -> PC]
  /\ ready \in BOOLEAN
  /\ status \in {"none", "ready", "timeout"}
  /\ result \in {"none", "value"}

StartPlace == [polled |-> "poll", joined |-> "join", get |-> "get"][version]

Init ==
  /\ version \in {"polled", "joined", "get"}
  /\ pc = [t \in {Main, Child} |-> IF t = Main THEN StartPlace ELSE "call"]
  /\ ready = FALSE
  /\ status = "none"
  /\ result = "none"

\* set_value(99), or the end of the task: the state becomes ready while the
\* child is still inside the call.
SetValue ==
  /\ GoTo(Child, "call", "leave")
  /\ ready' = TRUE
  /\ UNCHANGED <<version, status, result>>

LeaveCall ==
  /\ GoTo(Child, "leave", "done")
  /\ UNCHANGED <<version, ready, status, result>>

\* future.wait_for(100ms)
Poll ==
  /\ GoTo(Main, "poll", "look")
  /\ status' = IF ready THEN "ready" ELSE "timeout"
  /\ UNCHANGED <<version, ready, result>>

\* Faulty variant: a timeout ends the loop.
LookOnce ==
  /\ GoTo(Main, "look", IF status = "ready" THEN "get" ELSE "join")
  /\ UNCHANGED <<version, ready, status, result>>

\* switch (status); the launch policies exclude "deferred".
Look ==
  /\ GoTo(Main, "look", IF status = "ready" THEN "get" ELSE "poll")
  /\ UNCHANGED <<version, ready, status, result>>

\* future.get() waits for the value.
Get ==
  /\ ready
  /\ GoTo(Main, "get", IF version = "joined" THEN "done" ELSE "join")
  /\ result' = "value"
  /\ UNCHANGED <<version, ready, status>>

\* Faulty variant: the promise is declared after the thread, so it dies first.
JoinLate ==
  /\ GoTo(Main, "join", IF version = "joined" THEN "get" ELSE "done")
  /\ UNCHANGED <<version, ready, status, result>>

\* t.join() before the get, or the end of the frame.
Join ==
  /\ pc[Child] = "done"
  /\ GoTo(Main, "join", IF version = "joined" THEN "get" ELSE "done")
  /\ UNCHANGED <<version, ready, status, result>>

MainStep == Poll \/ Look \/ Get \/ Join
ChildStep == SetValue \/ LeaveCall

Next == MainStep \/ ChildStep

-----------------------------------------------------------------------------
\* The child signals from inside a call on main's objects; main, which goes on
\* at once, does not leave its frame before the child has left that call.
FrameOutlivesChild == pc[Main] = "done" => pc[Child] = "done"

Blocked(t) ==
  \/ pc[t] = "get" /\ ~ready
  \/ pc[t] = "join" /\ pc[Child] # "done"
  \/ pc[t] = "done"

NobodyStuck == (\A t \in {Main, Child} : Blocked(t)) => pc[Main] = "done"

\* Main's polling ends, and every version returns the value of the child.
Delivers == <>(pc[Main] = "done" /\ result = "value")
=============================================================================
