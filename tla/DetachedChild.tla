---------------------------- MODULE DetachedChild ----------------------------
(***************************************************************************)
(* example_detach, of detach_example.cpp: main and its child append to one *)
(* string, which no lock protects; the child sets a flag under the mutex   *)
(* and main polls the flag before it returns the string.  The child is     *)
(* joined before main's second append, or detached.  The sleeps are        *)
(* arbitrary delays.  An append reads the string and then writes it, so    *)
(* two that overlap may lose a character.  The string lives in the caller  *)
(* until the test case has compared it (NRVO).                             *)
(***************************************************************************)
EXTENDS Control, StdMutex, Naturals, Sequences

CONSTANTS Main, Child

VARIABLES
  detached,  \* the parameter _detach
  flag,      \* the child has ended, or so main takes it
  result,    \* the string
  seen       \* what an append has read of it

vars == <<owner, detached, pc, flag, result, seen>>

PC == {"append", "write", "join", "append again", "write again", "lock", "test",
       "set", "require", "done", "undefined"}

TypeOK ==
  /\ owner \in {Main, Child, Nobody}
  /\ detached \in BOOLEAN
  /\ pc \in [{Main, Child} -> PC]
  /\ flag \in BOOLEAN
  /\ result \in Seq(1 .. 4)
  /\ seen \in [{Main, Child} -> Seq(1 .. 4)]

Init ==
  /\ owner = Nobody
  /\ detached \in BOOLEAN
  /\ pc = [t \in {Main, Child} |-> "append"]
  /\ flag = FALSE
  /\ result = <<>>
  /\ seen = [t \in {Main, Child} |-> <<>>]

ReadString(t) ==
  /\ GoTo(t, "append", "write") \/ GoTo(t, "append again", "write again")
  /\ seen' = [seen EXCEPT ![t] = result]
  /\ UNCHANGED <<owner, detached, flag, result>>

\* Main appends 1 and 2, the child 3 and 4.
WriteString(t) ==
  /\ \/ /\ GoTo(t, "write", IF t = Main THEN "join" ELSE "set")
        /\ result' = Append(seen[t], IF t = Main THEN 1 ELSE 3)
     \/ /\ GoTo(t, "write again", IF t = Main THEN "lock" ELSE "done")
        /\ result' = Append(seen[t], IF t = Main THEN 2 ELSE 4)
  /\ UNCHANGED <<owner, detached, flag, seen>>

\* ~jthread; nothing to join once the child is detached.
Join ==
  /\ detached \/ pc[Child] = "done"
  /\ GoTo(Main, "join", "append again")
  /\ UNCHANGED <<owner, detached, flag, result, seen>>

\* Faulty variant: the child locks, but the flag is a copy.
SetCopy ==
  /\ owner = Nobody
  /\ GoTo(Child, "set", "append again")
  /\ UNCHANGED <<owner, detached, flag, result, seen>>

\* The child sets the flag in a critical section of its own.
SetFlag ==
  /\ owner = Nobody
  /\ GoTo(Child, "set", "append again")
  /\ flag' = TRUE
  /\ UNCHANGED <<owner, detached, result, seen>>

Lock ==
  /\ GoTo(Main, "lock", "test")
  /\ LockMutex(Main)
  /\ UNCHANGED <<detached, flag, result, seen>>

\* if (flag) break; both ways out of the scope unlock.
Test ==
  /\ GoTo(Main, "test", IF flag THEN "require" ELSE "lock")
  /\ UnlockMutex(Main)
  /\ UNCHANGED <<detached, flag, result, seen>>

\* REQUIRE(example_detach(...) == ...), after which the string is gone.
Require ==
  /\ GoTo(Main, "require", "done")
  /\ UNCHANGED <<owner, detached, flag, result, seen>>

Dangle ==
  /\ pc[Main] = "done"
  /\ pc[Child] \notin {"done", "undefined"}
  /\ pc' = [pc EXCEPT ![Child] = "undefined"]
  /\ UNCHANGED <<owner, detached, flag, result, seen>>

MainStep == ReadString(Main) \/ WriteString(Main) \/ Join \/ Lock \/ Test \/ Require
ChildStep == pc[Main] # "done" /\ (ReadString(Child) \/ WriteString(Child) \/ SetFlag)

Next == MainStep \/ ChildStep \/ Dangle

Spec == Init /\ [][Next]_vars

-----------------------------------------------------------------------------
\* The comment of `flag` in detach_example.cpp:16, "it marks the end of the
\* child": main is past its loop only when the child will not touch the string.
FlagMarksTheEnd == pc[Main] = "require" => pc[Child] = "done"

\* detach_example.cpp:68 and 69: example_detach(true) == "1234" and
\* example_detach(false) == "1342".
StringRequired ==
  pc[Main] = "require" =>
    result = IF detached THEN <<1, 2, 3, 4>> ELSE <<1, 3, 4, 2>>

\* Nothing but sleeps keeps the appends apart, so characters may be lost; but a
\* child that is joined in time cannot lose main's last one.
JoinedKeepsLast ==
  ~detached /\ pc[Main] \in {"lock", "test", "require", "done"} =>
    /\ pc[Child] = "done"
    /\ result # <<>> /\ result[Len(result)] = 2

Blocked(t) ==
  \/ pc[t] \in {"lock", "set"} /\ owner # Nobody
  \/ pc[t] = "join" /\ ~detached /\ pc[Child] # "done"
  \/ pc[t] \in {"done", "undefined"}

NobodyStuck == (\A t \in {Main, Child} : Blocked(t)) => pc[Main] = "done"

\* Main finds the flag set, in both versions, and returns.
DetachReturns == <>(pc[Main] = "done")
=============================================================================
