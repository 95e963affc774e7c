-------------------------- MODULE NotifyAll_proofs ---------------------------
(***************************************************************************)
(* Proofs about NotifyAll for every limit and both builds: the children    *)
(* take turns, they pass the limit by at most one number, no child is left *)
(* asleep, and the caller gets as much as the build lets it.               *)
(***************************************************************************)
EXTENDS NotifyAll, TLAPS

USE DEF vars, syncVars

LEMMA Pair ==
  ASSUME NotifyAllAssumption
  PROVE  /\ Main \in Threads /\ Nobody \notin Threads
         /\ Limit \in Nat \ {0}
         /\ None \notin Threads /\ Start \notin Threads /\ None # Start
         /\ \A c \in Printers :
              /\ Other(c) \in Printers /\ Other(c) # c
              /\ Other(Other(c)) = c
              /\ \A s \in Printers : s = c \/ s = Other(c)
<1>1. PICK a \in Printers, b \in Printers : a # b /\ Printers = {a, b}
  BY DEF NotifyAllAssumption
<1>2. \A c \in Printers :
        /\ Other(c) \in Printers /\ Other(c) # c
        /\ \A s \in Printers : s = c \/ s = Other(c)
  BY <1>1 DEF Other
<1>. QED
  BY <1>2 DEF NotifyAllAssumption

LEMMA ChildrenAreThreads ==
  Printers \subseteq Threads /\ Main \notin Printers
  BY DEF Printers

-----------------------------------------------------------------------------
LEMMA TypeStep ==
  ASSUME NotifyAllAssumption
  PROVE  TypeOK /\ [Next]_vars => TypeOK'
<1> SUFFICES ASSUME TypeOK, [Next]_vars PROVE TypeOK'
  OBVIOUS
<1> USE Pair, ChildrenAreThreads DEF TypeOK, SyncTypeOK, PC, GoTo
<1>1. ASSUME NEW c \in Printers, ChildStep(c) PROVE TypeOK'
  <2>1. CASE Enter(c)
    BY <2>1 DEF Enter, Acquire, LockMutex
  <2>2. CASE Leave(c)
    BY <2>2 DEF Leave, Release, UnlockMutex
  <2>3. CASE BeginWait(c)
    BY <2>3 DEF BeginWait
  <2>4. CASE Block(c)
    BY <2>4 DEF Block, Sleep, UnlockMutex
  <2>5. CASE Wake(c)
    BY <2>5 DEF Wake, Reacquire, Acquire, LockMutex
  <2>6. CASE PrintNumber(c)
    <3>1. result' \in Seq(Printers) /\ i' \in Nat /\ current' \in Printers
      BY <2>6 DEF PrintNumber
    <3>. QED
      BY <2>6, <3>1 DEF PrintNumber
  <2>7. CASE Unlock(c)
    BY <2>7 DEF Unlock, Release, UnlockMutex
  <2>8. CASE Notify(c)
    BY <2>8 DEF Notify, NotifyOne
  <2>. QED
    BY <1>1, <2>1, <2>2, <2>3, <2>4, <2>5, <2>6, <2>7, <2>8 DEF ChildStep
<1>2. CASE MainLock \/ MainUnlock \/ MainNotify
  BY <1>2 DEF MainLock, MainUnlock, MainNotify, Acquire, Release, LockMutex, UnlockMutex, NotifyAll
<1>3. CASE MainReturn \/ MainJoin
  <2>1. returned' \in Nat
    BY <1>3 DEF MainReturn, MainJoin
  <2>. QED
    BY <1>3, <2>1 DEF MainReturn, MainJoin
<1>4. CASE Spurious
  BY <1>4 DEF Spurious, WakeSpuriously
<1>5. CASE UNCHANGED vars
  BY <1>5
<1>. QED
  BY <1>1, <1>2, <1>3, <1>4, <1>5 DEF Next, MainStep

LEMMA TypeInit ==
  ASSUME NotifyAllAssumption
  PROVE  Init => TypeOK
  BY Pair DEF NotifyAllAssumption, Init, SyncInit, TypeOK, SyncTypeOK, PC

\* Every variable stays in its range.
THEOREM TypeCorrect ==
  ASSUME NotifyAllAssumption
  PROVE  Spec => []TypeOK
  BY TypeInit, TypeStep, PTL DEF Spec

-----------------------------------------------------------------------------
(* The inductive invariant.  A child that is past the test of i and may not *)
(* print yet saw an i that still is below the limit: only the other child   *)
(* can change i, and it hands over at once.                                 *)

Waiting(c) == pc[c] \in {"test", "asleep"}

TurnInv ==
  /\ current \in {None, Start} => i = 0 /\ result = <<>>
  /\ i = Len(result)
  /\ \A c \in Printers :
       current = c => result # <<>> /\ result[Len(result)] = Other(c)
  /\ \A c \in Printers :
       Waiting(c) => i <= Limit /\ (current # c => i < Limit)
  /\ i <= Limit + 1

\* Only children sleep, they join nobody and do not return before the limit, and
\* main's first step is to say Start.
PlaceInv ==
  /\ \A t \in sleeping : t \in Printers /\ pc[t] = "asleep"
  /\ \A c \in Printers : pc[c] # "join" /\ (pc[c] = "done" => i >= Limit)
  /\ pc[Main] = "lock" <=> current = None

\* Main ends after the children, and what it returned was moved out on the way
\* to the join or is what there is at the end.
ReturnInv ==
  /\ pc[Main] = "done" => \A c \in Printers : pc[c] = "done"
  /\ build = "move" => returned <= i
  /\ pc[Main] = "done" /\ build = "nrvo" => returned = i

\* The mutex is held exactly from lock to unlock.
OwnerInv ==
  \A t \in Threads :
    owner = t <=> pc[t] \in (IF t = Main THEN {"unlock"} ELSE {"lock", "test", "unlock"})

IInv == TypeOK /\ TurnInv /\ PlaceInv /\ NoChildStranded /\ ReturnInv /\ OwnerInv

LEMMA InitInv ==
  ASSUME NotifyAllAssumption
  PROVE  Init => IInv
<1> SUFFICES ASSUME Init PROVE IInv
  OBVIOUS
<1>1. pc[Main] = "lock" /\ \A c \in Printers : pc[c] = "begin"
  BY Pair, ChildrenAreThreads DEF Init
<1>2. PlaceInv /\ NoChildStranded
  BY <1>1 DEF Init, SyncInit, PlaceInv, NoChildStranded
<1>3. TurnInv
  <2>1. i = 0 /\ result = <<>> /\ current = None
    BY DEF Init
  <2>2. \A c \in Printers : current # c /\ ~Waiting(c)
    BY <1>1, <2>1, Pair, ChildrenAreThreads DEF Waiting
  <2>3. Len(result) = 0 /\ Limit \in Nat
    BY <2>1, Pair
  <2>. QED
    BY <2>1, <2>2, <2>3 DEF TurnInv
<1>4. ReturnInv
  BY <1>1, Pair DEF Init, ReturnInv
<1>5. OwnerInv
  BY Pair DEF NotifyAllAssumption, Init, SyncInit, OwnerInv
<1>. QED
  BY <1>2, <1>3, <1>4, <1>5, TypeInit DEF IInv

LEMMA TurnStep ==
  ASSUME NotifyAllAssumption
  PROVE  IInv /\ [Next]_vars => TurnInv'
<1> SUFFICES ASSUME IInv, [Next]_vars PROVE TurnInv'
  OBVIOUS
<1> USE Pair, ChildrenAreThreads DEF IInv, TypeOK, SyncTypeOK, GoTo
<1>1. ASSUME NEW c \in Printers, PrintNumber(c) PROVE TurnInv'
  <2>1. /\ pc[c] = "test" /\ pc' = [pc EXCEPT ![c] = "unlock"]
        /\ i' = i + 1 /\ current' = Other(c)
        /\ current = c \/ current = Start
        /\ i <= Limit
    BY <1>1 DEF PrintNumber, MyTurn, TurnInv, Waiting
  <2>2. /\ Len(result') = Len(result) + 1 /\ result' # <<>>
        /\ result'[Len(result')] = c
    BY <1>1 DEF PrintNumber
  <2>3. ~Waiting(c)'
    BY <2>1 DEF Waiting
  <2>4. Waiting(Other(c))' => i < Limit
    BY <2>1 DEF Waiting, TurnInv
  <2>. QED
    BY <2>1, <2>2, <2>3, <2>4 DEF TurnInv
<1>2. ASSUME NEW c \in Printers, BeginWait(c) PROVE TurnInv'
  BY <1>2 DEF BeginWait, TurnInv, Waiting
<1>3. ASSUME NEW c \in Printers,
             Enter(c) \/ Leave(c) \/ Block(c) \/ Wake(c) \/ Unlock(c) \/ Notify(c)
      PROVE  TurnInv'
  BY <1>3 DEF Enter, Leave, Block, Wake, Unlock, Notify, TurnInv, Waiting
<1>4. CASE MainLock
  BY <1>4 DEF MainLock, TurnInv, Waiting, PlaceInv
<1>5. CASE MainUnlock \/ MainNotify \/ MainReturn \/ MainJoin
  BY <1>5 DEF MainUnlock, MainNotify, MainReturn, MainJoin, TurnInv, Waiting
<1>6. CASE Spurious \/ UNCHANGED vars
  BY <1>6 DEF Spurious, TurnInv, Waiting
<1>. QED
  BY <1>1, <1>2, <1>3, <1>4, <1>5, <1>6 DEF Next, ChildStep, MainStep

LEMMA PlaceStep ==
  ASSUME NotifyAllAssumption
  PROVE  IInv /\ [Next]_vars => PlaceInv' /\ NoChildStranded'
<1> SUFFICES ASSUME IInv, [Next]_vars PROVE PlaceInv' /\ NoChildStranded'
  OBVIOUS
<1> USE Pair, ChildrenAreThreads
    DEF IInv, TypeOK, SyncTypeOK, GoTo, PlaceInv, NoChildStranded, MyTurn
<1>1. ASSUME NEW c \in Printers, Enter(c) \/ BeginWait(c) \/ Wake(c)
      PROVE  PlaceInv' /\ NoChildStranded'
  BY <1>1 DEF Enter, BeginWait, Wake, Reacquire, Acquire, LockMutex
<1>2. ASSUME NEW c \in Printers, Leave(c) PROVE PlaceInv' /\ NoChildStranded'
  \* The other child does not sleep out of turn: its i is below the limit.
  BY <1>2 DEF Leave, Release, UnlockMutex, TurnInv, Waiting
<1>3. ASSUME NEW c \in Printers, Block(c) PROVE PlaceInv' /\ NoChildStranded'
  BY <1>3 DEF Block, Sleep, UnlockMutex, TurnInv, Waiting
<1>4. ASSUME NEW c \in Printers, PrintNumber(c)
      PROVE  PlaceInv' /\ NoChildStranded'
  BY <1>4 DEF PrintNumber
<1>5. ASSUME NEW c \in Printers, Unlock(c) PROVE PlaceInv' /\ NoChildStranded'
  BY <1>5 DEF Unlock, Release, UnlockMutex
<1>6. ASSUME NEW c \in Printers, Notify(c) PROVE PlaceInv' /\ NoChildStranded'
  BY <1>6 DEF Notify, NotifyOne
<1>7. CASE MainLock \/ MainUnlock
  BY <1>7 DEF MainLock, MainUnlock, Acquire, Release, LockMutex, UnlockMutex
<1>8. CASE MainNotify
  BY <1>8 DEF MainNotify, NotifyAll
<1>9. CASE MainReturn \/ MainJoin
  BY <1>9 DEF MainReturn, MainJoin
<1>10. CASE Spurious
  BY <1>10 DEF Spurious, WakeSpuriously
<1>11. CASE UNCHANGED vars
  BY <1>11
<1>. QED
  BY <1>1, <1>2, <1>3, <1>4, <1>5, <1>6, <1>7, <1>8, <1>9, <1>10, <1>11
     DEF Next, ChildStep, MainStep

LEMMA ReturnStep ==
  ASSUME NotifyAllAssumption
  PROVE  IInv /\ [Next]_vars => ReturnInv'
<1> SUFFICES ASSUME IInv, [Next]_vars PROVE ReturnInv'
  OBVIOUS
<1> USE Pair, ChildrenAreThreads DEF IInv, TypeOK, SyncTypeOK, GoTo, ReturnInv
<1>1. ASSUME NEW c \in Printers, ChildStep(c) PROVE ReturnInv'
  <2> USE <1>1 DEF ChildStep, Enter, Leave, BeginWait, Block, Wake, PrintNumber, Unlock,
                   Notify
  <2>1. pc[c] # "done" /\ c # Main
    OBVIOUS
  <2>2. pc[Main] # "done" /\ pc'[Main] = pc[Main]
    BY <2>1
  <2>3. i <= i' /\ UNCHANGED <<build, returned>>
    OBVIOUS
  <2>. QED
    BY <2>2, <2>3, Pair DEF ReturnInv
<1>2. CASE MainLock \/ MainUnlock \/ MainNotify
  BY <1>2 DEF MainLock, MainUnlock, MainNotify
<1>3. CASE MainReturn
  BY <1>3 DEF MainReturn, TurnInv
<1>4. CASE MainJoin
  BY <1>4 DEF MainJoin, TurnInv
<1>5. CASE Spurious \/ UNCHANGED vars
  BY <1>5 DEF Spurious
<1>. QED
  BY <1>1, <1>2, <1>3, <1>4, <1>5 DEF Next, MainStep

LEMMA OwnerStep ==
  ASSUME NotifyAllAssumption
  PROVE  IInv /\ [Next]_vars => OwnerInv'
<1> SUFFICES ASSUME IInv, [Next]_vars PROVE OwnerInv'
  OBVIOUS
<1> USE Pair, ChildrenAreThreads DEF IInv, TypeOK, SyncTypeOK, GoTo, OwnerInv
<1>1. ASSUME NEW c \in Printers,
             Enter(c) \/ Leave(c) \/ Block(c) \/ Wake(c) \/ Unlock(c)
      PROVE  OwnerInv'
  BY <1>1 DEF Enter, Leave, Block, Wake, Unlock, Acquire, Release, Reacquire, Sleep,
              LockMutex, UnlockMutex
<1>2. ASSUME NEW c \in Printers, BeginWait(c) \/ PrintNumber(c) \/ Notify(c)
      PROVE  OwnerInv'
  BY <1>2 DEF BeginWait, PrintNumber, Notify, NotifyOne
<1>3. CASE MainLock \/ MainUnlock
  BY <1>3 DEF MainLock, MainUnlock, Acquire, Release, LockMutex, UnlockMutex
<1>4. CASE MainNotify \/ MainReturn \/ MainJoin
  BY <1>4 DEF MainNotify, NotifyAll, MainReturn, MainJoin
<1>5. CASE Spurious \/ UNCHANGED vars
  BY <1>5 DEF Spurious, WakeSpuriously
<1>. QED
  BY <1>1, <1>2, <1>3, <1>4, <1>5 DEF Next, ChildStep, MainStep

\* IInv holds in every reachable state.
THEOREM Invariance ==
  ASSUME NotifyAllAssumption
  PROVE  Spec => []IInv
<1>1. IInv /\ [Next]_vars => IInv'
  BY TypeStep, TurnStep, PlaceStep, ReturnStep, OwnerStep DEF IInv
<1>. QED
  BY InitInv, <1>1, PTL DEF Spec

-----------------------------------------------------------------------------
\* For every limit the children print at most one number too many, and the caller
\* gets all of them, or those that were there when a build without NRVO moved them.
THEOREM CallerGetsCorrect ==
  ASSUME NotifyAllAssumption
  PROVE  Spec => []CallerGets
<1>1. IInv => CallerGets
  <2> SUFFICES ASSUME IInv, pc[Main] = "done"
               PROVE  i \in {Limit, Limit + 1} /\ returned <= i /\
                      (build = "nrvo" => returned = i)
    BY DEF CallerGets, IInv, TypeOK
  <2>1. PICK c \in Printers : pc[c] = "done"
    BY DEF NotifyAllAssumption, IInv, ReturnInv
  <2>. QED
    BY <2>1, Pair DEF IInv, TypeOK, TurnInv, PlaceInv, ReturnInv
<1>. QED
  BY <1>1, Invariance, PTL

\* No child sleeps with nobody left to wake it.
THEOREM NobodyStranded ==
  ASSUME NotifyAllAssumption
  PROVE  Spec => []NoChildStranded
  BY Invariance, PTL DEF IInv

\* For every limit, without a spurious wake-up: the program stops only when all
\* three threads have ended.
THEOREM StopsOnlyAtEnd ==
  ASSUME NotifyAllAssumption
  PROVE  Spec => []NobodyStuck
<1>1. IInv => NobodyStuck
  <2> SUFFICES ASSUME IInv, \A t \in Threads : Blocked(t) PROVE Terminated
    BY DEF NobodyStuck
  <2> USE Pair, ChildrenAreThreads DEF IInv, TypeOK, SyncTypeOK, Blocked
  \* The owner of the mutex would not be blocked.
  <2>1. owner = Nobody
    BY DEF OwnerInv
  <2>2. \A c \in Printers : c \in sleeping \/ pc[c] = "done"
    BY <2>1 DEF PlaceInv
  <2>3. pc[Main] \in {"join", "done"}
    BY <2>1 DEF PlaceInv
  \* One asleep would have the other asleep too, and neither the turn.
  <2>4. \A c \in Printers : pc[c] = "done"
    <3>1. SUFFICES ASSUME NEW c \in Printers, c \in sleeping PROVE FALSE
      BY <2>2
    <3>2. ~MyTurn(c) /\ Other(c) \in sleeping
      BY <2>2, <2>3, <3>1 DEF NoChildStranded, PlaceInv
    <3>3. ~MyTurn(Other(c))
      BY <2>2, <2>3, <3>2 DEF NoChildStranded, PlaceInv
    <3>. QED
      BY <2>3, <3>2, <3>3 DEF MyTurn, PlaceInv
  <2>. QED
    BY <2>3, <2>4 DEF Terminated, Printers
<1>. QED
  BY <1>1, Invariance, PTL

\* Every step of the program is a turn of Alternation or leaves its log alone.
THEOREM Refinement ==
  ASSUME NotifyAllAssumption
  PROVE  Spec => Alternates
<1>1. Init => Turns!Init
  BY DEF Init, Turns!Init
<1>2. IInv /\ [Next]_vars => [Turns!Next]_result
  <2> SUFFICES ASSUME IInv, [Next]_vars, result' # result PROVE Turns!Next
    OBVIOUS
  <2>1. PICK c \in Printers : PrintNumber(c)
    BY DEF Next, ChildStep, Enter, Leave, BeginWait, Block, Wake, Unlock, Notify,
       MainStep, MainLock, MainUnlock, MainNotify, MainReturn, MainJoin, Spurious
  <2>2. /\ pc[c] = "test" /\ result' = Append(result, c)
        /\ current = c \/ current = Start
    BY <2>1 DEF PrintNumber, GoTo, MyTurn
  <2>3. Len(result) < Limit + 1
    BY <2>2, Pair DEF IInv, TypeOK, TurnInv, Waiting
  <2>4. result # <<>> => c # result[Len(result)]
    BY <2>2, Pair, ChildrenAreThreads DEF IInv, TurnInv
  <2>. QED
    BY <2>2, <2>3, <2>4 DEF Turns!Next, Turns!Write, Turns!MayWrite
<1>. QED
  BY <1>1, <1>2, Invariance, PTL DEF Spec, Alternates, Turns!Spec
=============================================================================
