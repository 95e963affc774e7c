---------------------------- MODULE JoinedThread -----------------------------
(***************************************************************************)
(* The programs with one thread and one join, where main and its child     *)
(* write to one object without a lock.  "thread": thread_example.cpp joins *)
(* before it returns the string; "jthread": jthread_example.cpp returns it *)
(* before the destructor joins; "handle": example_CreateThread of          *)
(* windows.cpp, where only the child writes and the thread may fail to be  *)
(* created (the jthread of test.cpp is the same, without that failure).    *)
(* The sleeps are arbitrary delays.  An append reads and then writes, so   *)
(* two that overlap lose one.                                              *)
(***************************************************************************)
EXTENDS Control, Sequences

CONSTANTS Main, Child

VARIABLES
  version,    \* "thread", "jthread" or "handle"
  nrvo,       \* `return result;` constructs the string in the caller
  result,     \* who has written to the object, in order
  seen,       \* what an append has read of it
  returned    \* the object as returned, or as main has read it

vars == <<version, nrvo, pc, result, seen, returned>>

PC == {"check", "append", "write", "join", "return", "done", "failed"}

TypeOK ==
  /\ version \in {"thread", "jthread", "handle"}
  /\ nrvo \in BOOLEAN
  /\ pc \in [{Main, Child} -> PC]
  /\ result \in Seq({Main, Child}) /\ returned \in Seq({Main, Child})
  /\ seen \in [{Main, Child} -> Seq({Main, Child})]

Init ==
  /\ version \in {"thread", "jthread", "handle"}
  /\ nrvo \in BOOLEAN
  /\ \E child \in {"append"} \cup IF version = "handle" THEN {"failed"} ELSE {} :
       pc = [t \in {Main, Child} |->
               IF t = Child THEN child
               ELSE IF version = "handle" THEN "check" ELSE "append"]
  /\ result = <<>> /\ returned = <<>>
  /\ seen = [t \in {Main, Child} |-> <<>>]

\* The string is moved out before the destructor joins.
Moved == version = "jthread" /\ ~nrvo

\* result += "1", result += "2", *param = 1
Read(t) ==
  /\ GoTo(t, "append", "write")
  /\ seen' = [seen EXCEPT ![t] = result]
  /\ UNCHANGED <<version, nrvo, result, returned>>

Write(t) ==
  /\ GoTo(t, "write", IF t = Child THEN "done"
                      ELSE IF version = "jthread" THEN "return" ELSE "join")
  /\ result' = Append(seen[t], t)
  /\ UNCHANGED <<version, nrvo, seen, returned>>

\* if (t.native_handle() == NULL) return
Check ==
  /\ GoTo(Main, "check", IF pc[Child] = "failed" THEN "done" ELSE "join")
  /\ UNCHANGED <<version, nrvo, result, seen, returned>>

\* Faulty variant: the thread is not joined.
JoinNothing ==
  /\ GoTo(Main, "join", IF version = "jthread" THEN "done" ELSE "return")
  /\ UNCHANGED <<version, nrvo, result, seen, returned>>

\* t.join(), ~jthread
Join ==
  /\ pc[Child] = "done"
  /\ GoTo(Main, "join", IF version = "jthread" THEN "done" ELSE "return")
  /\ UNCHANGED <<version, nrvo, result, seen, returned>>

\* return result, or the last DBG(i); a string that is moved out is left empty.
Return ==
  /\ GoTo(Main, "return", IF version = "jthread" THEN "join" ELSE "done")
  /\ returned' = result
  /\ result' = IF Moved THEN <<>> ELSE result
  /\ UNCHANGED <<version, nrvo, seen>>

Next ==
  \/ \E t \in {Main, Child} : Read(t) \/ Write(t)
  \/ Check \/ Join \/ Return

-----------------------------------------------------------------------------
CallerSees == IF version = "jthread" /\ nrvo THEN result ELSE returned

\* What two appends leave: both, in either order, or one of them if neither has
\* seen the other.
Outcomes ==
  IF seen[Main] = seen[Child] THEN {<<Main>>, <<Child>>}
  ELSE {<<Main, Child>>, <<Child, Main>>}

\* Main ends after the child, and what its caller gets then is what the appends
\* have left: the join makes it final, it does not make it whole.  A build that
\* moves the string out hands over main's append only, if the child's came to
\* the string that was left behind.
WholeOnReturn ==
  pc[Main] = "done" /\ pc[Child] # "failed" =>
    /\ pc[Child] = "done"
    /\ IF version = "handle" THEN returned = <<Child>>
       ELSE IF Moved /\ result # <<>> THEN returned = <<Main>>
       ELSE CallerSees \in Outcomes

\* thread_example.cpp:33 and jthread_example.cpp:31, REQUIRE(... == "12"): main's
\* append comes first, and both are there.
StringRequired ==
  version # "handle" /\ pc[Main] = "done" => CallerSees = <<Main, Child>>

Blocked(t) ==
  \/ pc[t] = "join" /\ pc[Child] # "done"
  \/ pc[t] \in {"done", "failed"}

\* Main does not join a thread that was not created.
NobodyStuck == (\A t \in {Main, Child} : Blocked(t)) => pc[Main] = "done"
=============================================================================
