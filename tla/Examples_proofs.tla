--------------------------- MODULE Examples_proofs ---------------------------
(***************************************************************************)
(* Proofs about the programs of Examples, for any finite set of children   *)
(* and every limit, number of meetings and number of items.  Each program  *)
(* has an inductive invariant of its own; the first lemma gives its steps. *)
(***************************************************************************)
EXTENDS Examples, Integers, FiniteSetTheorems, TLAPS

\* A step of the suite is a step of each program, or leaves it as it is.
LEMMA ProgramSteps ==
  ASSUME [Next]_vars
  PROVE  /\ [Mutex!Next]_mutexVars /\ [Atomic!Next]_atomicVars
         /\ [Semaphore!Next]_semaphoreVars /\ [Notify!Next]_notifyVars
         /\ [Barrier!Next]_barrierVars /\ [Latch!Next]_latchVars
         /\ [Detach!Next]_detachVars /\ [Future!Next]_futureVars
         /\ [Joined!Next]_joinedVars /\ [Strings!Next]_stringsVars
         /\ [WinMutex!Next]_winMutexVars /\ [WinEvent!Next]_winEventVars
         /\ [Sum!Next]_sumVars /\ [Turn!Next]_turnVars /\ [Ring!Next]_ringVars
         /\ UNCHANGED program
BY DEF Next, StepOf, vars

-----------------------------------------------------------------------------
(* MutexCounter *)

\* Who is inside holds the mutex; the counter never passes the limit, and who
\* has left has found it there.
MutexInv ==
  /\ Mutex!TypeOK
  /\ \A t \in Children \cup {Main} :
       /\ mOwner = t <=> mPc[t] \in {"test", "increment", "unlock"}
       /\ mPc[t] = "increment" => mI < Limit
       /\ mPc[t] \in {"require", "join", "done"} => mI >= Limit
  /\ mI <= Limit
  /\ Mutex!SumConserved

LEMMA TwiceSumNext == ASSUME NEW n \in Nat
  PROVE  Mutex!TwiceSum(n) + 2 * n = Mutex!TwiceSum(n + 1) /\ Mutex!TwiceSum(n) \in Int
<1>1. (n + 1) * n = n * (n - 1) + 2 * n /\ n * (n - 1) \in Int
  OBVIOUS
<1>. QED
  BY <1>1 DEF Mutex!TwiceSum

LEMMA MutexStep == MutexInv /\ [Mutex!Next]_mutexVars => MutexInv'
<1> SUFFICES ASSUME MutexInv, [Mutex!Next]_mutexVars PROVE MutexInv'
  OBVIOUS
<1> DEFINE Threads == Children \cup {Main}
<1> USE ExamplesAssumption DEF ExamplesAssumption, MutexInv, Mutex!TypeOK, Mutex!PC,
        Mutex!GoTo, Mutex!LockMutex, Mutex!UnlockMutex
<1>1. ASSUME NEW t \in Threads, Mutex!Lock(t) PROVE MutexInv'
  <2>1. \A u \in Threads : (mPc[u] = "increment")' <=> mPc[u] = "increment"
    BY <1>1 DEF Mutex!Lock
  <2>2. Mutex!SumConserved'
    BY <1>1, <2>1 DEF Mutex!Lock, Mutex!SumConserved
  <2>. QED
    BY <1>1, <2>2 DEF Mutex!Lock
<1>2. ASSUME NEW t \in Threads, Mutex!Leave(t) PROVE MutexInv'
  <2>1. \A u \in Threads : (mPc[u] = "increment")' <=> mPc[u] = "increment"
    BY <1>2 DEF Mutex!Leave, Mutex!AfterCall
  <2>2. Mutex!SumConserved'
    BY <1>2, <2>1 DEF Mutex!Leave, Mutex!SumConserved
  <2>. QED
    BY <1>2, <2>2 DEF Mutex!Leave, Mutex!AfterCall
<1>3. ASSUME NEW t \in Threads, Mutex!Add(t) PROVE MutexInv'
  <2>1. (\A u \in Threads : mPc[u] # "increment") /\ mPc'[t] = "increment"
    BY <1>3 DEF Mutex!Add
  <2>2. 2 * mResult = Mutex!TwiceSum(mI) /\ mI' = mI /\ mResult' = mResult + mI
    BY <1>3, <2>1 DEF Mutex!Add, Mutex!SumConserved
  <2>3. 2 * mResult' = Mutex!TwiceSum(mI) + 2 * mI
    BY <2>2, TwiceSumNext
  <2>4. Mutex!SumConserved'
    BY <2>1, <2>2, <2>3 DEF Mutex!SumConserved, Mutex!TwiceSum
  <2>. QED
    BY <1>3, <2>4 DEF Mutex!Add
<1>4. ASSUME NEW t \in Threads, Mutex!Increment(t) PROVE MutexInv'
  <2>1. \A u \in Threads : mPc'[u] # "increment"
    BY <1>4 DEF Mutex!Increment
  <2>2. 2 * mResult = Mutex!TwiceSum(mI) + 2 * mI /\ mI' = mI + 1 /\ mResult' = mResult
    BY <1>4 DEF Mutex!Increment, Mutex!SumConserved
  <2>3. 2 * mResult' = Mutex!TwiceSum(mI + 1)
    BY <2>2, TwiceSumNext
  <2>4. Mutex!SumConserved'
    BY <2>1, <2>2, <2>3 DEF Mutex!SumConserved, Mutex!TwiceSum
  <2>. QED
    BY <1>4, <2>4 DEF Mutex!Increment
<1>5. ASSUME NEW t \in Threads, Mutex!Unlock(t) PROVE MutexInv'
  <2>1. \A u \in Threads : (mPc[u] = "increment")' <=> mPc[u] = "increment"
    BY <1>5 DEF Mutex!Unlock
  <2>2. Mutex!SumConserved'
    BY <1>5, <2>1 DEF Mutex!Unlock, Mutex!SumConserved
  <2>. QED
    BY <1>5, <2>2 DEF Mutex!Unlock
<1>6. CASE Mutex!Require \/ Mutex!Join
  <2>1. \A u \in Threads : (mPc[u] = "increment")' <=> mPc[u] = "increment"
    BY <1>6 DEF Mutex!Require, Mutex!Join
  <2>2. Mutex!SumConserved'
    BY <1>6, <2>1 DEF Mutex!Require, Mutex!Join, Mutex!SumConserved
  <2>. QED
    BY <1>6, <2>2 DEF Mutex!Require, Mutex!Join
<1>7. CASE UNCHANGED mutexVars
  BY <1>7 DEF mutexVars, Mutex!SumConserved
<1>. QED
  BY <1>1, <1>2, <1>3, <1>4, <1>5, <1>6, <1>7
  DEF Mutex!Next, Mutex!Step, Mutex!vars, mutexVars

LEMMA MutexInvariance == Spec => []MutexInv
<1>1. Init => MutexInv
  <2> SUFFICES ASSUME Mutex!Init PROVE MutexInv
    BY DEF Init
  <2>1. Mutex!SumConserved
    BY DEF Mutex!Init, Mutex!SumConserved, Mutex!TwiceSum
  <2>. QED
    BY <2>1, ExamplesAssumption
    DEF ExamplesAssumption, MutexInv, Mutex!TypeOK, Mutex!PC, Mutex!Init
<1>2. MutexInv /\ [Next]_vars => MutexInv'
  BY MutexStep, ProgramSteps
<1>. QED
  BY <1>1, <1>2, PTL DEF Spec

\* For any threads and every limit, no update of the sum is lost.
THEOREM SumCorrect == Spec => []SumConserved
BY MutexInvariance, PTL DEF MutexInv, SumConserved

\* The assertion of mutex_example.cpp, made without the mutex and before the
\* join, holds and races with no write.
THEOREM RequireCorrect == Spec => []RequireHolds
<1>1. MutexInv => RequireHolds
  BY ExamplesAssumption
  DEF ExamplesAssumption, MutexInv, Mutex!TypeOK, RequireHolds, Mutex!RequireHolds,
      Mutex!SumConserved
<1>. QED
  BY <1>1, MutexInvariance, PTL

-----------------------------------------------------------------------------
(* AtomicSum, whose theorems are proved in AtomicSum_proofs: the suite is    *)
(* shown to run the program as it is there.                                  *)

SumProofs == INSTANCE AtomicSum_proofs
  WITH Sub <- Child, pc <- pPc, i <- pI, value <- pValue, result <- pResult,
       seen <- pSeen

LEMMA SumAssumed == SumProofs!AtomicSumAssumption
BY ExamplesAssumption DEF ExamplesAssumption, SumProofs!AtomicSumAssumption

LEMMA SumRuns == Spec => SumProofs!Spec
<1>1. Init => SumProofs!Init
  BY DEF Init, Sum!Init, SumProofs!Init, Sum!Threads, SumProofs!Threads
<1>2. [Next]_vars => [SumProofs!Next]_(SumProofs!vars)
  <2> SUFFICES ASSUME [Sum!Next]_sumVars PROVE [SumProofs!Next]_(SumProofs!vars)
    BY ProgramSteps
  <2>. QED
    BY DEF sumVars, Sum!vars, SumProofs!vars, Sum!Next, SumProofs!Next,
       Sum!Step, SumProofs!Step, Sum!MainStep, SumProofs!MainStep,
       Sum!Claim, SumProofs!Claim, Sum!Add, SumProofs!Add, Sum!Spin, SumProofs!Spin,
       Sum!Require, SumProofs!Require, Sum!Join, SumProofs!Join,
       Sum!AfterCall, SumProofs!AfterCall, Sum!GoTo, SumProofs!GoTo,
       Sum!Terminated, SumProofs!Terminated, Sum!Threads, SumProofs!Threads
<1>. QED
  BY <1>1, <1>2, PTL DEF Spec, SumProofs!Spec

LEMMA SumType == Spec => []Sum!TypeOK
<1>1. SumProofs!TypeOK => Sum!TypeOK
  BY DEF SumProofs!TypeOK, Sum!TypeOK, SumProofs!PC, Sum!PC, SumProofs!Threads, Sum!Threads
<1>2. SumProofs!Spec => []SumProofs!TypeOK
  BY SumAssumed, SumProofs!TypeCorrect
<1>. QED
  BY <1>1, <1>2, SumRuns, PTL

\* Every number claimed is added once, for every limit.
THEOREM ClaimsCorrect == Spec => []ClaimsConserved
<1>1. SumProofs!SumConserved => ClaimsConserved
  BY DEF ClaimsConserved, SumProofs!SumConserved, Sum!SumConserved, SumProofs!Pending,
         Sum!Pending, SumProofs!TwiceSum, Sum!TwiceSum, SumProofs!Claimed, Sum!Claimed
<1>2. SumProofs!Spec => []SumProofs!SumConserved
  BY SumAssumed, SumProofs!Conservation
<1>. QED
  BY <1>1, <1>2, SumRuns, PTL

\* The assertion before the join misses what the other thread has claimed and
\* not added yet, and nothing else.
THEOREM MissesCorrect == Spec => RequireMissesPending
<1>1. SumProofs!Spec => SumProofs!RequireMissesPending
  BY SumAssumed, SumProofs!RequireMissesOnlyPending
<1>2. [pPc[Main] = "require" /\ pPc'[Main] = "join"
         => 2 * (pSeen' + SumProofs!Pending(Child)) = SumProofs!TwiceSum(Limit)]_(SumProofs!vars)
      => [pPc[Main] = "require" /\ pPc'[Main] = "join"
         => 2 * (pSeen' + Sum!Pending(Child)) = Sum!TwiceSum(Limit)]_(Sum!vars)
  BY DEF SumProofs!Pending, Sum!Pending, SumProofs!TwiceSum, Sum!TwiceSum,
         SumProofs!vars, Sum!vars
<1>. QED
  BY <1>1, <1>2, SumRuns, PTL
  DEF RequireMissesPending, SumProofs!RequireMissesPending, Sum!RequireMissesPending

LEMMA SumNotStuck == Spec => []Sum!NobodyStuck
<1>1. SumProofs!StopsComplete => Sum!NobodyStuck
  BY DEF SumProofs!StopsComplete, Sum!NobodyStuck, SumProofs!Blocked, Sum!Blocked,
         SumProofs!Terminated, Sum!Terminated, SumProofs!Threads, Sum!Threads
<1>2. SumProofs!Spec => []SumProofs!StopsComplete
  BY SumAssumed, SumProofs!StopsOnlyComplete
<1>. QED
  BY <1>1, <1>2, SumRuns, PTL

-----------------------------------------------------------------------------
(* AtomicBound, whose steps are proved in AtomicBound_proofs *)

AtomicProofs == INSTANCE AtomicBound_proofs
  WITH Workers <- Children \cup {Main}, pc <- aPc, i <- aI, returned <- aReturned

AtomicInv == Atomic!TypeOK /\ Atomic!Overshoot

\* Every instance has operators of FiniteSets of its own.
LEMMA AtomicSets ==
  ASSUME NEW S
  PROVE  /\ Atomic!Cardinality(S) = Cardinality(S)
         /\ AtomicProofs!Cardinality(S) = Cardinality(S)
         /\ AtomicProofs!IsFiniteSet(S) <=> IsFiniteSet(S)
BY DEF Atomic!Cardinality, AtomicProofs!Cardinality, Cardinality,
       AtomicProofs!IsFiniteSet, IsFiniteSet

LEMMA AtomicStep == AtomicInv /\ [Atomic!Next]_atomicVars => AtomicInv'
<1> SUFFICES ASSUME AtomicInv, [Atomic!Next]_atomicVars PROVE AtomicInv'
  OBVIOUS
<1>1. AtomicProofs!AtomicBoundAssumption
  BY ExamplesAssumption, AtomicSets, FS_AddElement
  DEF ExamplesAssumption, AtomicProofs!AtomicBoundAssumption
<1>2. AtomicProofs!TypeOK /\ AtomicProofs!Overshoot
  BY AtomicSets
  DEF AtomicInv, Atomic!TypeOK, AtomicProofs!TypeOK, Atomic!PC, AtomicProofs!PC,
      Atomic!Overshoot, AtomicProofs!Overshoot, Atomic!Adding, AtomicProofs!Adding
<1>3. [AtomicProofs!Next]_(AtomicProofs!vars)
  BY DEF atomicVars, AtomicProofs!vars, Atomic!vars, Atomic!Next, AtomicProofs!Next,
         Atomic!Load, AtomicProofs!Load, Atomic!Add, AtomicProofs!Add,
         Atomic!Return, AtomicProofs!Return, Atomic!Terminated,
         AtomicProofs!Terminated, Atomic!GoTo, AtomicProofs!GoTo,
         Atomic!AfterCall, AtomicProofs!AfterCall
<1>4. AtomicProofs!TypeOK' /\ AtomicProofs!Overshoot'
  BY <1>1, <1>2, <1>3, AtomicProofs!TypeStep, AtomicProofs!OvershootStep
<1>. QED
  BY <1>4, AtomicSets
  DEF AtomicInv, Atomic!TypeOK, AtomicProofs!TypeOK, Atomic!PC, AtomicProofs!PC,
      Atomic!Overshoot, AtomicProofs!Overshoot, Atomic!Adding, AtomicProofs!Adding

LEMMA AtomicInvariance == Spec => []AtomicInv
<1>1. Init => AtomicInv
  <2> SUFFICES ASSUME Atomic!Init PROVE AtomicInv
    BY DEF Init
  <2>1. Atomic!Adding = {} /\ aI = 0
    BY DEF Atomic!Init, Atomic!Adding
  <2>2. Cardinality(Children \cup {Main}) \in Nat
    BY ExamplesAssumption, FS_AddElement, FS_CardinalityType DEF ExamplesAssumption
  <2>. QED
    BY <2>1, <2>2, AtomicSets, FS_EmptySet, ExamplesAssumption
    DEF AtomicInv, Atomic!Init, Atomic!TypeOK, Atomic!PC, Atomic!Overshoot,
        ExamplesAssumption
<1>2. AtomicInv /\ [Next]_vars => AtomicInv'
  BY AtomicStep, ProgramSteps
<1>. QED
  BY <1>1, <1>2, PTL DEF Spec

\* The counter passes the limit by fewer than there are threads, also in the
\* suite.
THEOREM OvershootCorrect == Spec => []Overshoot
BY AtomicInvariance, PTL DEF AtomicInv, Overshoot

-----------------------------------------------------------------------------
(* SemaphoreHandoff *)

SemaphoreHolders == {t \in Semaphore!Threads : Semaphore!HoldsToken(t)}

\* Main's places and those of the children differ.
SemaphoreInv ==
  /\ Semaphore!TypeOK
  /\ \A c \in Children : sPc[c] \notin {"finish", "join"}
  /\ sCount + Cardinality(SemaphoreHolders) = 1

LEMMA HoldersFinite ==
  /\ IsFiniteSet(SemaphoreHolders)
  /\ Cardinality(SemaphoreHolders) \in Nat
<1>1. IsFiniteSet(Semaphore!Threads) /\ SemaphoreHolders \subseteq Semaphore!Threads
  BY ExamplesAssumption, FS_AddElement
  DEF ExamplesAssumption, Semaphore!Threads, SemaphoreHolders
<1>. QED
  BY <1>1, FS_Subset, FS_CardinalityType

LEMMA SemaphoreStep == SemaphoreInv /\ [Semaphore!Next]_semaphoreVars => SemaphoreInv'
<1> SUFFICES ASSUME SemaphoreInv, [Semaphore!Next]_semaphoreVars PROVE SemaphoreInv'
  OBVIOUS
<1> USE ExamplesAssumption DEF ExamplesAssumption, SemaphoreInv, Semaphore!TypeOK,
        Semaphore!PC, Semaphore!GoTo, Semaphore!Threads
<1>1. ASSUME NEW t \in Semaphore!Threads, Semaphore!Write(t) PROVE SemaphoreInv'
  <2>1. SemaphoreHolders' = SemaphoreHolders
    BY <1>1 DEF Semaphore!Write, SemaphoreHolders, Semaphore!HoldsToken
  <2>. QED
    BY <1>1, <2>1 DEF Semaphore!Write
<1>2. ASSUME NEW t \in Semaphore!Threads, Semaphore!Release(t) PROVE SemaphoreInv'
  <2>1. t \in SemaphoreHolders /\ SemaphoreHolders' = SemaphoreHolders \ {t}
    BY <1>2 DEF Semaphore!Release, SemaphoreHolders, Semaphore!HoldsToken
  <2>2. Cardinality(SemaphoreHolders') = Cardinality(SemaphoreHolders) - 1
    BY <2>1, HoldersFinite, FS_RemoveElement
  <2>3. sCount' + Cardinality(SemaphoreHolders') = 1
    BY <1>2, <2>2, HoldersFinite DEF Semaphore!Release
  <2>. QED
    BY <1>2, <2>3 DEF Semaphore!Release
<1>3. ASSUME NEW t \in Semaphore!Threads, Semaphore!Acquire(t) PROVE SemaphoreInv'
  <2>1. t \notin SemaphoreHolders /\ SemaphoreHolders' = SemaphoreHolders \cup {t}
    BY <1>3 DEF Semaphore!Acquire, SemaphoreHolders, Semaphore!HoldsToken
  <2>2. Cardinality(SemaphoreHolders') = Cardinality(SemaphoreHolders) + 1
    BY <2>1, HoldersFinite, FS_AddElement
  <2>3. sCount' + Cardinality(SemaphoreHolders') = 1
    BY <1>3, <2>2, HoldersFinite DEF Semaphore!Acquire
  <2>. QED
    BY <1>3, <2>3 DEF Semaphore!Acquire
<1>4. CASE Semaphore!Finish \/ Semaphore!Join
  <2>1. SemaphoreHolders' = SemaphoreHolders
    BY <1>4 DEF Semaphore!Finish, Semaphore!Join, SemaphoreHolders, Semaphore!HoldsToken
  <2>2. sCount' = sCount
    BY <1>4 DEF Semaphore!Finish, Semaphore!Join
  <2>3. Semaphore!TypeOK'
    <3>0. sOutput' = sOutput \/ sOutput' = Append(sOutput, 3)
      BY <1>4 DEF Semaphore!Finish, Semaphore!Join
    <3>1. sOutput' \in Seq({1, 2, 3})
      BY <3>0 DEF SemaphoreInv, Semaphore!TypeOK
    <3>2. sPc' \in [Semaphore!Threads -> Semaphore!PC]
      BY <1>4 DEF Semaphore!Finish, Semaphore!Join
    <3>. QED
      BY <2>2, <3>1, <3>2
  <2>4. \A c \in Children : sPc'[c] \notin {"finish", "join"}
    BY <1>4 DEF Semaphore!Finish, Semaphore!Join
  <2>. QED
    BY <2>1, <2>2, <2>3, <2>4
<1>5. CASE UNCHANGED semaphoreVars
  BY <1>5 DEF semaphoreVars, SemaphoreHolders, Semaphore!HoldsToken
<1>. QED
  BY <1>1, <1>2, <1>3, <1>4, <1>5
  DEF Semaphore!Next, Semaphore!Step, Semaphore!vars, semaphoreVars

LEMMA SemaphoreInvariance == Spec => []SemaphoreInv
<1>1. Init => SemaphoreInv
  <2> SUFFICES ASSUME Semaphore!Init PROVE SemaphoreInv
    BY DEF Init
  <2>1. SemaphoreHolders = {Main}
    BY ExamplesAssumption
    DEF ExamplesAssumption, Semaphore!Init, SemaphoreHolders, Semaphore!HoldsToken,
        Semaphore!Threads
  <2>2. sCount + Cardinality(SemaphoreHolders) = 1
    <3>1. Cardinality({Main}) = 1
      BY FS_Singleton
    <3>. QED
      BY <2>1, <3>1 DEF Semaphore!Init
  <2>. QED
    BY <2>2, ExamplesAssumption
    DEF ExamplesAssumption, SemaphoreInv, Semaphore!Init, Semaphore!TypeOK,
        Semaphore!PC, Semaphore!Threads
<1>2. SemaphoreInv /\ [Next]_vars => SemaphoreInv'
  BY SemaphoreStep, ProgramSteps
<1>. QED
  BY <1>1, <1>2, PTL DEF Spec

\* For any finite set of children there is one token in all.
THEOREM OneTokenCorrect == Spec => []OneToken
<1>1. SemaphoreInv => OneToken
  BY DEF SemaphoreInv, SemaphoreHolders, OneToken, Semaphore!OneToken,
         Semaphore!Cardinality, Cardinality
<1>. QED
  BY <1>1, SemaphoreInvariance, PTL

-----------------------------------------------------------------------------
(* TurnTaking, whose theorems are proved in TurnTaking_proofs *)

TurnProofs == INSTANCE TurnTaking_proofs
  WITH Threads <- {Main, Child}, Sub <- Child, N <- Items, owner <- cOwner,
       sleeping <- cSleeping, pc <- cPc, item <- cItem, current <- cCurrent,
       output <- cOutput

LEMMA TurnAssumed == TurnProofs!TurnAssumption
BY ExamplesAssumption DEF ExamplesAssumption, TurnProofs!TurnAssumption

LEMMA TurnRuns == Spec => TurnProofs!Spec
<1>1. Init => TurnProofs!Init
  BY DEF Init, Turn!Init, TurnProofs!Init, Turn!SyncInit, TurnProofs!SyncInit
<1>2. [Next]_vars => [TurnProofs!Next]_(TurnProofs!vars)
  <2> SUFFICES ASSUME [Turn!Next]_turnVars PROVE [TurnProofs!Next]_(TurnProofs!vars)
    BY ProgramSteps
  <2>. QED
    BY DEF turnVars, Turn!vars, TurnProofs!vars, Turn!syncVars, TurnProofs!syncVars,
           Turn!Next, TurnProofs!Next, Turn!Step, TurnProofs!Step, Turn!Lock,
           TurnProofs!Lock, Turn!Block, TurnProofs!Block, Turn!Wake, TurnProofs!Wake,
           Turn!Write, TurnProofs!Write, Turn!Unlock, TurnProofs!Unlock, Turn!Notify,
           TurnProofs!Notify, Turn!Join, TurnProofs!Join, Turn!Spurious,
           TurnProofs!Spurious, Turn!Terminated, TurnProofs!Terminated, Turn!GoTo,
           TurnProofs!GoTo, Turn!Acquire, TurnProofs!Acquire, Turn!Release,
           TurnProofs!Release, Turn!Sleep, TurnProofs!Sleep, Turn!Reacquire,
           TurnProofs!Reacquire, Turn!NotifyOne, TurnProofs!NotifyOne,
           Turn!WakeSpuriously, TurnProofs!WakeSpuriously, Turn!LockMutex,
           TurnProofs!LockMutex, Turn!UnlockMutex, TurnProofs!UnlockMutex, Turn!Other,
           TurnProofs!Other
<1>. QED
  BY <1>1, <1>2, PTL DEF Spec, TurnProofs!Spec

LEMMA TurnType == Spec => []Turn!TypeOK
<1>1. TurnProofs!TypeOK => Turn!TypeOK
  BY DEF TurnProofs!TypeOK, Turn!TypeOK, TurnProofs!SyncTypeOK, Turn!SyncTypeOK,
         TurnProofs!PC, Turn!PC
<1>2. TurnProofs!Spec => []TurnProofs!TypeOK
  BY TurnAssumed, TurnProofs!TypeCorrect
<1>. QED
  BY <1>1, <1>2, TurnRuns, PTL

\* For every number of items the output is in order in every state.
THEOREM OrderCorrect == Spec => []OutputInOrder
<1>1. TurnProofs!OutputInOrder => OutputInOrder
  BY DEF OutputInOrder, TurnProofs!OutputInOrder, Turn!OutputInOrder
<1>2. TurnProofs!Spec => []TurnProofs!OutputInOrder
  BY TurnAssumed, TurnProofs!OrderCorrect
<1>. QED
  BY <1>1, <1>2, TurnRuns, PTL

\* No notification is lost: a thread that sleeps in its turn will be notified.
THEOREM NotifyCorrect == Spec => []NoLostNotify
<1>1. TurnProofs!NoLostNotify => NoLostNotify
  BY DEF NoLostNotify, TurnProofs!NoLostNotify, Turn!NoLostNotify, TurnProofs!Other,
         Turn!Other
<1>2. TurnProofs!Spec => []TurnProofs!NoLostNotify
  BY TurnAssumed, TurnProofs!NotifyCorrect
<1>. QED
  BY <1>1, <1>2, TurnRuns, PTL

LEMMA TurnNotStuck == Spec => []Turn!NobodyStuck
<1>1. TurnProofs!NobodyStuck => Turn!NobodyStuck
  BY DEF TurnProofs!NobodyStuck, Turn!NobodyStuck, TurnProofs!Blocked, Turn!Blocked,
         TurnProofs!Terminated, Turn!Terminated
<1>2. TurnProofs!Spec => []TurnProofs!NobodyStuck
  BY TurnAssumed, TurnProofs!StopsOnlyComplete
<1>. QED
  BY <1>1, <1>2, TurnRuns, PTL

-----------------------------------------------------------------------------
(* NotifyOne *)

\* Only who is at the wait sleeps, and main sets the flag before it notifies.
NotifyInv ==
  /\ Notify!TypeOK
  /\ \A t \in nSleeping : nPc[t] = "asleep"
  /\ ~nFlag => nPc[Main] \in {"begin", "set"}
  /\ Notify!ChildToBeNotified

LEMMA NotifyStep == NotifyInv /\ [Notify!Next]_notifyVars => NotifyInv'
<1> SUFFICES ASSUME NotifyInv, [Notify!Next]_notifyVars PROVE NotifyInv'
  OBVIOUS
<1>0. Main # Child /\ Nobody \notin {Main, Child}
  BY ExamplesAssumption DEF ExamplesAssumption
<1> USE <1>0 DEF NotifyInv, Notify!TypeOK, Notify!SyncTypeOK, Notify!PC, Notify!GoTo,
        Notify!Acquire, Notify!Release, Notify!LockMutex, Notify!UnlockMutex,
        Notify!ChildToBeNotified, Notify!syncVars
<1>1. CASE Notify!Begin
  BY <1>1 DEF Notify!Begin
<1>2. CASE Notify!SetFlag
  BY <1>2 DEF Notify!SetFlag
<1>3. ASSUME NEW t \in {Main, Child}, Notify!Unlock(t) PROVE NotifyInv'
  BY <1>3 DEF Notify!Unlock
<1>4. ASSUME NEW t \in {Main, Child}, Notify!Notify(t) PROVE NotifyInv'
  <2>1. nPc' = [nPc EXCEPT ![t] = IF t = Main THEN "lock" ELSE "done"]
    BY <1>4 DEF Notify!Notify
  <2>2. /\ nSleeping' \subseteq nSleeping /\ nPc[t] = "notify"
        /\ nSleeping # {} => \E u \in nSleeping : nSleeping' = nSleeping \ {u}
    BY <1>4 DEF Notify!Notify, Notify!NotifyOne
  <2>3. UNCHANGED <<nOwner, nVersion, nFlag, nResult>>
    BY <1>4 DEF Notify!Notify, Notify!NotifyOne
  <2>4. Notify!TypeOK'
    BY <2>1, <2>2, <2>3
  <2>5. (\A u \in nSleeping' : nPc'[u] = "asleep") /\ (~nFlag' => nPc'[Main] \in {"begin", "set"})
    BY <2>1, <2>2, <2>3
  <2>6. Notify!ChildToBeNotified'
    BY <2>1, <2>2
  <2>. QED
    BY <2>4, <2>5, <2>6
<1>5. ASSUME NEW t \in {Main, Child}, Notify!Lock(t) PROVE NotifyInv'
  BY <1>5 DEF Notify!Lock
<1>6. ASSUME NEW t \in {Main, Child}, Notify!Block(t) PROVE NotifyInv'
  BY <1>6 DEF Notify!Block, Notify!Sleep
<1>7. ASSUME NEW t \in {Main, Child}, Notify!Wake(t) PROVE NotifyInv'
  BY <1>7 DEF Notify!Wake, Notify!Reacquire
<1>8. ASSUME NEW t \in {Main, Child}, Notify!Proceed(t) PROVE NotifyInv'
  <2>1. nFlag /\ nFlag' /\ nFlag' \in BOOLEAN
    BY <1>8, Zenon DEF Notify!Proceed
  <2>2. nResult' \in Seq({1, 2, 3})
    BY <1>8 DEF Notify!Proceed
  <2>. QED
    BY <1>8, <2>1, <2>2 DEF Notify!Proceed
<1>9. CASE Notify!Leave \/ Notify!Join
  BY <1>9 DEF Notify!Leave, Notify!Join
<1>10. CASE Notify!Spurious
  BY <1>10 DEF Notify!Spurious, Notify!WakeSpuriously
<1>11. CASE UNCHANGED notifyVars
  BY <1>11 DEF notifyVars
<1>. QED
  BY <1>1, <1>2, <1>3, <1>4, <1>5, <1>6, <1>7, <1>8, <1>9, <1>10, <1>11
  DEF Notify!Next, Notify!MainStep, Notify!Step

LEMMA NotifyInvariance == Spec => []NotifyInv
<1>1. Init => NotifyInv
  <2> SUFFICES ASSUME Notify!Init PROVE NotifyInv
    BY DEF Init
  <2>1. nFlag \in BOOLEAN
    BY Zenon DEF Notify!Init
  <2>2. nSleeping = {} /\ nPc[Main] = "begin"
    BY DEF Notify!Init, Notify!SyncInit
  <2>3. Notify!TypeOK
    BY <2>1 DEF Notify!Init, Notify!SyncInit, Notify!TypeOK, Notify!SyncTypeOK, Notify!PC
  <2>. QED
    BY <2>2, <2>3 DEF NotifyInv, Notify!ChildToBeNotified
<1>2. NotifyInv /\ [Next]_vars => NotifyInv'
  BY NotifyStep, ProgramSteps
<1>. QED
  BY <1>1, <1>2, PTL DEF Spec

\* The child is never left asleep.
THEOREM NotificationComes == Spec => []ChildToBeNotified
BY NotifyInvariance, PTL DEF NotifyInv, ChildToBeNotified

-----------------------------------------------------------------------------
(* NotifyAll, whose theorems are proved in NotifyAll_proofs *)

RingProofs == INSTANCE NotifyAll_proofs
  WITH Threads <- {Main, Child, Sibling}, Builds <- {"nrvo", "move"},
       owner <- rOwner, sleeping <- rSleeping, pc <- rPc, i <- rI,
       current <- rCurrent, result <- rResult, build <- rBuild,
       returned <- rReturned

LEMMA RingAssumed == RingProofs!NotifyAllAssumption
<1>1. Child # Sibling /\ RingProofs!Printers = {Child, Sibling}
  BY ExamplesAssumption DEF ExamplesAssumption, RingProofs!Printers
<1>. QED
  BY <1>1, ExamplesAssumption DEF ExamplesAssumption, RingProofs!NotifyAllAssumption

LEMMA RingRuns == Spec => RingProofs!Spec
<1>1. Init => RingProofs!Init
  BY DEF Init, Ring!Init, RingProofs!Init, Ring!SyncInit, RingProofs!SyncInit
<1>2. [Next]_vars => [RingProofs!Next]_(RingProofs!vars)
  <2> SUFFICES ASSUME [Ring!Next]_ringVars PROVE [RingProofs!Next]_(RingProofs!vars)
    BY ProgramSteps
  <2>. QED
    BY DEF ringVars, Ring!vars, RingProofs!vars, Ring!syncVars, RingProofs!syncVars,
           Ring!Next, RingProofs!Next, Ring!ChildStep, RingProofs!ChildStep, Ring!MainStep,
           RingProofs!MainStep, Ring!Spurious, RingProofs!Spurious, Ring!Terminated,
           RingProofs!Terminated, Ring!Enter, RingProofs!Enter, Ring!Leave,
           RingProofs!Leave, Ring!BeginWait, RingProofs!BeginWait, Ring!Block,
           RingProofs!Block, Ring!Wake, RingProofs!Wake, Ring!PrintNumber,
           RingProofs!PrintNumber, Ring!Unlock, RingProofs!Unlock, Ring!Notify,
           RingProofs!Notify, Ring!MainLock, RingProofs!MainLock, Ring!MainUnlock,
           RingProofs!MainUnlock, Ring!MainNotify, RingProofs!MainNotify,
           Ring!MainReturn, RingProofs!MainReturn, Ring!MainJoin, RingProofs!MainJoin,
           Ring!Printers, RingProofs!Printers, Ring!MyTurn, RingProofs!MyTurn,
           Ring!Other, RingProofs!Other, Ring!GoTo, RingProofs!GoTo, Ring!Acquire,
           RingProofs!Acquire, Ring!Release, RingProofs!Release, Ring!Sleep,
           RingProofs!Sleep, Ring!Reacquire, RingProofs!Reacquire, Ring!NotifyOne,
           RingProofs!NotifyOne, Ring!NotifyAll, RingProofs!NotifyAll,
           Ring!WakeSpuriously, RingProofs!WakeSpuriously, Ring!LockMutex,
           RingProofs!LockMutex, Ring!UnlockMutex, RingProofs!UnlockMutex
<1>. QED
  BY <1>1, <1>2, PTL DEF Spec, RingProofs!Spec

LEMMA RingType == Spec => []Ring!TypeOK
<1>1. RingProofs!TypeOK => Ring!TypeOK
  BY DEF RingProofs!TypeOK, Ring!TypeOK, RingProofs!SyncTypeOK, Ring!SyncTypeOK,
         RingProofs!PC, Ring!PC, RingProofs!Printers, Ring!Printers
<1>2. RingProofs!Spec => []RingProofs!TypeOK
  BY RingAssumed, RingProofs!TypeCorrect
<1>. QED
  BY <1>1, <1>2, RingRuns, PTL

\* For every limit the children print one number too many at most, and main's
\* caller gets all of them, or those that were there when they were moved.
THEOREM CallerGetsCorrect == Spec => []CallerGets
<1>1. RingProofs!CallerGets => CallerGets
  BY DEF CallerGets, RingProofs!CallerGets, Ring!CallerGets
<1>2. RingProofs!Spec => []RingProofs!CallerGets
  BY RingAssumed, RingProofs!CallerGetsCorrect
<1>. QED
  BY <1>1, <1>2, RingRuns, PTL

\* No child sleeps with nobody left to wake it.
THEOREM NobodyStranded == Spec => []NoChildStranded
<1>1. RingProofs!NoChildStranded => NoChildStranded
  BY DEF NoChildStranded, RingProofs!NoChildStranded, Ring!NoChildStranded,
         RingProofs!MyTurn, Ring!MyTurn, RingProofs!Other, Ring!Other,
         RingProofs!Printers, Ring!Printers
<1>2. RingProofs!Spec => []RingProofs!NoChildStranded
  BY RingAssumed, RingProofs!NobodyStranded
<1>. QED
  BY <1>1, <1>2, RingRuns, PTL

LEMMA RingNotStuck == Spec => []Ring!NobodyStuck
<1>1. RingProofs!NobodyStuck => Ring!NobodyStuck
  BY DEF RingProofs!NobodyStuck, Ring!NobodyStuck, RingProofs!Blocked, Ring!Blocked,
         RingProofs!Terminated, Ring!Terminated, RingProofs!Printers, Ring!Printers
<1>2. RingProofs!Spec => []RingProofs!NobodyStuck
  BY RingAssumed, RingProofs!StopsOnlyAtEnd
<1>. QED
  BY <1>1, <1>2, RingRuns, PTL

\* Main and its child, and the two children, write in turns: every step of the
\* programs is a turn of Alternation or leaves the output alone.
THEOREM AlternatesCorrect == Spec => Alternates
<1>1. TurnProofs!Spec => TurnProofs!Turns!Spec
  BY TurnAssumed, TurnProofs!Refinement
<1>2. RingProofs!Spec => RingProofs!Alternates
  BY RingAssumed, RingProofs!Refinement
<1> DEFINE writers == [k \in 1 .. Len(cOutput) |-> cOutput[k][1]]
<1>3. /\ TurnProofs!Turns!Init => Turn!Turns!Init
      /\ [TurnProofs!Turns!Next]_writers => [Turn!Turns!Next]_writers
  BY DEF TurnProofs!Turns!Init, Turn!Turns!Init, TurnProofs!Turns!Next,
         Turn!Turns!Next, TurnProofs!Turns!Write, Turn!Turns!Write,
         TurnProofs!Turns!MayWrite, Turn!Turns!MayWrite
<1>4. /\ RingProofs!Turns!Init => Ring!Turns!Init
      /\ [RingProofs!Turns!Next]_rResult => [Ring!Turns!Next]_rResult
  BY DEF RingProofs!Turns!Init, Ring!Turns!Init, RingProofs!Turns!Next,
         Ring!Turns!Next, RingProofs!Turns!Write, Ring!Turns!Write,
         RingProofs!Turns!MayWrite, Ring!Turns!MayWrite, RingProofs!Printers,
         Ring!Printers
<1>. QED
  BY <1>1, <1>2, <1>3, <1>4, TurnRuns, RingRuns, PTL
  DEF Alternates, Ring!Alternates, RingProofs!Alternates, TurnProofs!Turns!Spec,
      Turn!Turns!Spec, RingProofs!Turns!Spec, Ring!Turns!Spec

-----------------------------------------------------------------------------
(* BarrierPhases *)

\* The children that have added in the current phase.
BarrierAdded == {c \in Children : bPc[c] = "arrive" \/ c \in bWaiting}

\* The meetings are those main has come back from; main counts its assertions
\* up to the number of meetings.
BarrierShape ==
  /\ Barrier!TypeOK
  /\ Barrier!Alive => \A t \in bWaiting : bPc[t] = "wait"
  /\ Main \in bWaiting => bPc[Main] = "wait"
  /\ bPc[Main] \in {"arrive", "wait", "require", "clear", "return", "done", "failed"}
  /\ bPc[Main] \in {"arrive", "wait", "require"} => bChecked < Phases
  /\ ~bFlag => bPc[Main] \in {"return", "done"}

\* As long as the children run, the sum is that of the meetings held, plus what
\* was added since.
BarrierInv ==
  /\ BarrierShape
  /\ Barrier!Alive =>
       bResult = Barrier!Held * Cardinality(Children) + Cardinality(BarrierAdded)
  /\ ~Barrier!Alive => Barrier!SumFollowsMeetings

LEMMA AddedFinite ==
  /\ IsFiniteSet(BarrierAdded)
  /\ Cardinality(BarrierAdded) \in Nat /\ Cardinality(Children) \in Nat
  /\ Cardinality(BarrierAdded) <= Cardinality(Children)
  /\ Barrier!Cardinality(Children) = Cardinality(Children)
<1>1. IsFiniteSet(Children) /\ BarrierAdded \subseteq Children
  BY ExamplesAssumption DEF ExamplesAssumption, BarrierAdded
<1>2. Barrier!Cardinality(Children) = Cardinality(Children)
  BY DEF Barrier!Cardinality, Cardinality
<1>. QED
  BY <1>1, <1>2, FS_Subset, FS_CardinalityType

LEMMA BarrierBounds == BarrierInv => Barrier!SumFollowsMeetings
<1> SUFFICES ASSUME BarrierInv, Barrier!Alive PROVE Barrier!SumFollowsMeetings
  BY DEF BarrierInv
<1> DEFINE n == Cardinality(Children)
           held == Barrier!Held
           added == Cardinality(BarrierAdded)
<1>1. held \in Nat
  BY DEF BarrierInv, BarrierShape, Barrier!TypeOK, Barrier!Held
<1>2. n \in Nat /\ added \in Nat /\ added <= n
  BY AddedFinite
<1>3. bResult = held * n + added
  BY DEF BarrierInv
<1> HIDE DEF n, held, added
<1>4. held * n \in Nat /\ (held + 1) * n = held * n + n
  BY <1>1, <1>2
<1>5. bResult >= held * n /\ bResult <= (held + 1) * n
  BY <1>2, <1>3, <1>4
<1>. QED
  BY <1>5, AddedFinite DEF Barrier!SumFollowsMeetings, held, n

LEMMA BarrierStep == BarrierInv /\ [Barrier!Next]_barrierVars => BarrierInv'
<1> SUFFICES ASSUME BarrierInv, [Barrier!Next]_barrierVars PROVE BarrierInv'
  OBVIOUS
<1> DEFINE Same == /\ Barrier!Held' = Barrier!Held /\ bResult' = bResult
                   /\ Barrier!Alive' => BarrierAdded' = BarrierAdded
<1>0. Main \notin Children
  BY ExamplesAssumption DEF ExamplesAssumption
<1>a. ASSUME BarrierShape', Same, ~Barrier!Alive => ~Barrier!Alive'
      PROVE  BarrierInv'
  BY <1>a, BarrierBounds DEF BarrierInv, Barrier!SumFollowsMeetings
<1>b. ASSUME BarrierShape', Barrier!Alive, Barrier!Alive',
             Barrier!Held \in Nat, Barrier!Held' = Barrier!Held, bResult' = bResult + 1,
             Cardinality(BarrierAdded') = Cardinality(BarrierAdded) + 1
      PROVE  BarrierInv'
  <2>1. Barrier!Held * Cardinality(Children) \in Nat
    BY <1>b, AddedFinite
  <2>. QED
    BY <1>b, <2>1, AddedFinite DEF BarrierInv
<1>c. ASSUME BarrierShape', Barrier!Alive, Barrier!Alive',
             Barrier!Held \in Nat, Barrier!Held' = Barrier!Held + 1, bResult' = bResult,
             BarrierAdded = Children, BarrierAdded' = {}
      PROVE  BarrierInv'
  <2>1. (Barrier!Held + 1) * Cardinality(Children)
          = Barrier!Held * Cardinality(Children) + Cardinality(Children)
        /\ Barrier!Held * Cardinality(Children) \in Nat
    BY <1>c, AddedFinite
  <2>2. Cardinality(BarrierAdded') = 0
    BY <1>c, FS_EmptySet
  <2>. QED
    BY <1>c, <2>1, <2>2, AddedFinite DEF BarrierInv
<1> USE <1>0 DEF BarrierShape, Barrier!TypeOK, Barrier!PC, Barrier!GoTo,
        Barrier!Threads, BarrierAdded, Barrier!Held, Barrier!Alive
<1>1. ASSUME NEW c \in Children, Barrier!Alive, Barrier!Test(c) PROVE BarrierInv'
  <2>1. BarrierShape'
    BY <1>1 DEF BarrierInv, Barrier!Test
  <2>2. Same
    BY <1>1 DEF BarrierInv, Barrier!Test
  <2>. QED
    BY <1>1, <2>1, <2>2, <1>a DEF Barrier!Alive
<1>2. ASSUME NEW c \in Children, Barrier!Alive, Barrier!Add(c) PROVE BarrierInv'
  <2>1. BarrierShape' /\ Barrier!Alive'
    BY <1>2 DEF BarrierInv, Barrier!Add, Barrier!Alive
  <2>2. c \notin BarrierAdded /\ BarrierAdded' = BarrierAdded \cup {c}
    BY <1>2 DEF BarrierInv, Barrier!Add, Barrier!Alive
  <2>3. Cardinality(BarrierAdded') = Cardinality(BarrierAdded) + 1
    BY <2>2, AddedFinite, FS_AddElement
  <2>4. Barrier!Held' = Barrier!Held /\ Barrier!Held \in Nat /\ bResult' = bResult + 1
    BY <1>2 DEF BarrierInv, Barrier!Add, Barrier!Alive
  <2>. QED
    BY <1>2, <2>1, <2>3, <2>4, <1>b DEF Barrier!Alive
<1>3. ASSUME NEW t \in Barrier!Threads, Barrier!Alive, Barrier!Arrive(t) PROVE BarrierInv'
  <2>1. BarrierShape' /\ Barrier!Alive'
    BY <1>3 DEF BarrierInv, Barrier!Arrive, Barrier!Alive
  <2>2. CASE bWaiting \cup {t} # Barrier!Threads
    <3>1. Same
      BY <1>3, <2>2 DEF BarrierInv, Barrier!Arrive, Barrier!Alive
    <3>. QED
      BY <1>3, <2>1, <3>1, <1>a DEF Barrier!Alive
  <2>3. CASE bWaiting \cup {t} = Barrier!Threads
    <3>1. BarrierAdded = Children
      BY <1>3, <2>3 DEF BarrierInv, Barrier!Arrive, Barrier!Alive
    <3>2. BarrierAdded' = {}
      BY <1>3, <2>3 DEF BarrierInv, Barrier!Arrive, Barrier!Alive
    <3>3. Barrier!Held' = Barrier!Held + 1 /\ Barrier!Held \in Nat /\ bResult' = bResult
      BY <1>3, <2>3 DEF BarrierInv, Barrier!Arrive, Barrier!Alive
    <3>. QED
      BY <1>3, <2>1, <3>1, <3>2, <3>3, <1>c DEF Barrier!Alive
  <2>. QED
    BY <2>2, <2>3
<1>4. ASSUME NEW t \in Barrier!Threads, Barrier!Alive, Barrier!Pass(t) PROVE BarrierInv'
  <2>1. BarrierShape'
    BY <1>4 DEF BarrierInv, Barrier!Pass
  <2>2. Same
    BY <1>4 DEF BarrierInv, Barrier!Pass
  <2>. QED
    BY <1>4, <2>1, <2>2, <1>a DEF Barrier!Alive
<1>5. CASE \/ Barrier!Require \/ Barrier!RequireThrows
          \/ Barrier!ClearFlag \/ Barrier!Return
  <2>0. Phases \in Nat
    BY ExamplesAssumption DEF ExamplesAssumption
  <2>1. Barrier!Require \/ Barrier!RequireThrows => BarrierShape'
    BY <2>0 DEF BarrierInv, Barrier!Require, Barrier!RequireThrows
  <2>2. bFlag' \in BOOLEAN
    BY <1>5, Zenon
    DEF BarrierInv, Barrier!Require, Barrier!RequireThrows, Barrier!ClearFlag,
        Barrier!Return
  <2>3. Barrier!ClearFlag \/ Barrier!Return => BarrierShape'
    BY <2>2 DEF BarrierInv, Barrier!ClearFlag, Barrier!Return
  <2>4. Same /\ Barrier!Alive
    BY <1>5
    DEF BarrierInv, Barrier!Require, Barrier!RequireThrows, Barrier!ClearFlag,
        Barrier!Return
  <2>. QED
    BY <1>5, <2>1, <2>3, <2>4, <1>a
<1>6. ASSUME NEW c \in Children, Barrier!Dangle(c) PROVE BarrierInv'
  <2>1. BarrierShape' /\ bPc'[Main] = bPc[Main]
    BY <1>6 DEF BarrierInv, Barrier!Dangle, Barrier!Alive
  <2>2. Same
    BY <1>6 DEF BarrierInv, Barrier!Dangle, Barrier!Alive
  <2>. QED
    BY <2>1, <2>2, <1>a
<1>7. CASE UNCHANGED barrierVars
  BY <1>7 DEF barrierVars, BarrierInv, Barrier!SumFollowsMeetings
<1>8. Barrier!Arrive(Main) \/ Barrier!Pass(Main) => Barrier!Alive
  BY DEF BarrierInv, Barrier!Arrive, Barrier!Pass, Barrier!Alive
<1>. QED
  BY <1>1, <1>2, <1>3, <1>4, <1>5, <1>6, <1>7, <1>8
  DEF Barrier!Next, Barrier!MainStep, Barrier!ChildStep

LEMMA BarrierInvariance == Spec => []BarrierInv
<1>1. Init => BarrierInv
  <2> SUFFICES ASSUME Barrier!Init PROVE BarrierInv
    BY DEF Init
  <2>0. Main \notin Children /\ Phases \in Nat \ {0}
    BY ExamplesAssumption DEF ExamplesAssumption
  <2>1. BarrierAdded = {}
    BY <2>0 DEF Barrier!Init, Barrier!Threads, BarrierAdded
  <2>2. Cardinality(BarrierAdded) = 0
    BY <2>1, FS_EmptySet
  <2>3. Barrier!Held = 0 /\ bResult = 0 /\ bPc[Main] = "arrive"
    BY <2>0 DEF Barrier!Init, Barrier!Threads, Barrier!Held
  <2>4. bFlag \in BOOLEAN
    BY Zenon DEF Barrier!Init
  <2>5. BarrierShape
    BY <2>0, <2>4
    DEF Barrier!Init, BarrierShape, Barrier!TypeOK, Barrier!Threads, Barrier!PC,
        Barrier!Alive
  <2>. QED
    BY <2>2, <2>3, <2>5, AddedFinite DEF BarrierInv, Barrier!Alive
<1>2. BarrierInv /\ [Next]_vars => BarrierInv'
  BY BarrierStep, ProgramSteps
<1>. QED
  BY <1>1, <1>2, PTL DEF Spec

\* For any finite set of children and any number of meetings, the sum follows
\* the meetings.
THEOREM SumFollows == Spec => []SumFollowsMeetings
BY BarrierInvariance, BarrierBounds, PTL DEF SumFollowsMeetings

\* A child that arrives once the flag is cleared has main to wait for, which does
\* not come any more.
THEOREM StragglersStayCorrect == Spec => StragglersStay
<1>1. BarrierInv /\ [Next]_vars
        => [~bFlag => bWaiting \subseteq bWaiting']_(Barrier!vars)
  <2> SUFFICES ASSUME BarrierInv, [Barrier!Next]_barrierVars, ~bFlag
               PROVE  bWaiting \subseteq bWaiting'
    BY ProgramSteps
  <2>1. Main \notin bWaiting /\ bPc[Main] \in {"return", "done"}
    BY DEF BarrierInv, BarrierShape
  <2>2. ASSUME NEW t \in Barrier!Threads, Barrier!Arrive(t)
        PROVE  bWaiting' = bWaiting \cup {t}
    <3>1. t # Main
      BY <2>1, <2>2 DEF Barrier!Arrive, Barrier!GoTo
    <3>2. bWaiting \cup {t} # Barrier!Threads
      BY <2>1, <3>1 DEF Barrier!Threads
    <3>. QED
      BY <2>2, <3>2 DEF Barrier!Arrive
  <2>. QED
    BY <2>2
    DEF Barrier!Next, Barrier!MainStep, Barrier!ChildStep, Barrier!Threads, Barrier!Test,
        Barrier!Add, Barrier!Pass, Barrier!Require, Barrier!RequireThrows,
        Barrier!ClearFlag, Barrier!Return, Barrier!Dangle, barrierVars
<1>. QED
  BY <1>1, BarrierInvariance, PTL DEF Spec, StragglersStay, Barrier!StragglersStay

-----------------------------------------------------------------------------
(* LatchCount *)

LatchAdded ==
  {c \in Children : IF lVersion = "detached" THEN lPc[c] # "add" ELSE lPc[c] = "done"}

LatchToArrive ==
  {t \in Latch!Threads :
     lPc[t] = "arrive" \/ (lVersion = "detached" /\ lPc[t] = "add")}

\* The sum and the counter count these threads; main reads when nobody is left
\* to arrive, or when everybody is done.
LatchInv ==
  /\ lVersion \in {"detached", "joined"}
  /\ lPc \in [Latch!Threads -> Latch!PC]
  /\ lValue = Cardinality(LatchAdded)
  /\ lCount = Cardinality(LatchToArrive)
  /\ \A c \in Children : lPc[c] \notin {"join", "require"}
  /\ IF lVersion = "detached"
     THEN /\ lPc[Main] \in {"arrive", "wait", "require", "done"}
          /\ lPc[Main] \in {"require", "done"} => lCount = 0
     ELSE /\ lPc[Main] \in {"join", "wait", "require", "done"}
          /\ lPc[Main] # "join" => \A c \in Children : lPc[c] = "done"

LEMMA LatchSets ==
  /\ IsFiniteSet(LatchAdded) /\ IsFiniteSet(LatchToArrive)
  /\ Cardinality(LatchAdded) \in 0 .. Latch!Cardinality(Children)
  /\ Cardinality(LatchToArrive) \in 0 .. Latch!Cardinality(Latch!Threads)
  /\ \A S : Latch!Cardinality(S) = Cardinality(S)
<1>1. \A S : Latch!Cardinality(S) = Cardinality(S)
  BY DEF Latch!Cardinality, Cardinality
<1>2. IsFiniteSet(Children) /\ IsFiniteSet(Latch!Threads)
  BY ExamplesAssumption, FS_AddElement DEF ExamplesAssumption, Latch!Threads
<1>3. LatchAdded \subseteq Children /\ LatchToArrive \subseteq Latch!Threads
  BY DEF LatchAdded, LatchToArrive
<1>. QED
  BY <1>1, <1>2, <1>3, FS_Subset, FS_CardinalityType

LEMMA LatchStep == LatchInv /\ [Latch!Next]_latchVars => LatchInv'
<1> SUFFICES ASSUME LatchInv, [Latch!Next]_latchVars PROVE LatchInv'
  OBVIOUS
<1>0. Main \notin Children
  BY ExamplesAssumption DEF ExamplesAssumption
<1> USE <1>0 DEF LatchInv, Latch!PC, Latch!GoTo, Latch!Threads
<1>1. ASSUME NEW c \in Children, Latch!Add(c) PROVE LatchInv'
  <2>1. c \notin LatchAdded /\ LatchAdded' = LatchAdded \cup {c}
    BY <1>1 DEF Latch!Add, LatchAdded
  <2>2. Cardinality(LatchAdded') = Cardinality(LatchAdded) + 1
    BY <2>1, LatchSets, FS_AddElement
  <2>3. LatchToArrive' = LatchToArrive
    BY <1>1 DEF Latch!Add, LatchToArrive
  <2>. QED
    BY <1>1, <2>2, <2>3 DEF Latch!Add
<1>2. ASSUME NEW t \in Latch!Threads, Latch!Arrive(t) PROVE LatchInv'
  <2>1. t \in LatchToArrive /\ LatchToArrive' = LatchToArrive \ {t}
    BY <1>2 DEF Latch!Arrive, LatchToArrive
  <2>2. Cardinality(LatchToArrive') = Cardinality(LatchToArrive) - 1
    BY <2>1, LatchSets, FS_RemoveElement
  <2>3. LatchAdded' = LatchAdded
    BY <1>2 DEF Latch!Arrive, LatchAdded
  <2>. QED
    BY <1>2, <2>2, <2>3 DEF Latch!Arrive
<1>3. ASSUME NEW t \in Latch!Threads, Latch!Wait(t) PROVE LatchInv'
  <2>1. LatchToArrive' = LatchToArrive
    BY <1>3 DEF Latch!Wait, LatchToArrive
  <2>2. LatchAdded' = LatchAdded
    BY <1>3 DEF Latch!Wait, LatchAdded
  <2>. QED
    BY <1>3, <2>1, <2>2 DEF Latch!Wait
<1>4. CASE Latch!Join \/ Latch!Return
  <2>1. LatchToArrive' = LatchToArrive
    BY <1>4 DEF Latch!Join, Latch!Return, LatchToArrive
  <2>2. LatchAdded' = LatchAdded
    BY <1>4 DEF Latch!Join, Latch!Return, LatchAdded
  <2>. QED
    BY <1>4, <2>1, <2>2 DEF Latch!Join, Latch!Return
<1>5. ASSUME NEW c \in Children, Latch!Dangle(c) PROVE LatchInv'
  <2>1. LatchToArrive' = LatchToArrive
    BY <1>5 DEF Latch!Dangle, LatchToArrive
  <2>2. LatchAdded' = LatchAdded
    BY <1>5 DEF Latch!Dangle, LatchAdded
  <2>. QED
    BY <1>5, <2>1, <2>2 DEF Latch!Dangle
<1>6. CASE UNCHANGED latchVars
  BY <1>6 DEF latchVars, LatchToArrive, LatchAdded
<1>. QED
  BY <1>1, <1>2, <1>3, <1>4, <1>5, <1>6
  DEF Latch!Next, Latch!MainStep, Latch!ChildStep

LEMMA LatchInvariance == Spec => []LatchInv
<1>1. Init => LatchInv
  <2> SUFFICES ASSUME Latch!Init PROVE LatchInv
    BY DEF Init
  <2>0. Main \notin Children
    BY ExamplesAssumption DEF ExamplesAssumption
  <2> USE <2>0 DEF Latch!Init, Latch!StartPlace, Latch!Threads
  <2>1. LatchAdded = {}
    BY DEF LatchAdded
  <2>2. LatchToArrive = IF lVersion = "detached" THEN Latch!Threads ELSE Children
    BY DEF LatchToArrive
  <2>3. lValue = Cardinality(LatchAdded) /\ lCount = Cardinality(LatchToArrive)
    BY <2>1, <2>2, FS_EmptySet, LatchSets DEF Latch!Expected
  <2>. QED
    BY <2>3 DEF LatchInv, Latch!PC
<1>2. LatchInv /\ [Next]_vars => LatchInv'
  BY LatchStep, ProgramSteps
<1>. QED
  BY <1>1, <1>2, PTL DEF Spec

\* For any finite set of children, what main reads behind the latch is the full
\* sum.
THEOREM LatchCorrect == Spec => []LatchCounts
<1>1. LatchInv => LatchCounts
  <2> SUFFICES ASSUME LatchInv, lPc[Main] \in {"require", "done"}
               PROVE  /\ LatchAdded = Children
                      /\ \A c \in Children : lPc[c] \notin {"add", "arrive"}
    BY LatchSets DEF LatchCounts, Latch!LatchCounts, LatchInv
  <2>1. CASE lVersion = "detached"
    <3>1. LatchToArrive = {}
      BY <2>1, LatchSets, FS_EmptySet DEF LatchInv
    <3>. QED
      BY <2>1, <3>1 DEF LatchToArrive, LatchAdded, LatchInv, Latch!Threads
  <2>2. CASE lVersion = "joined"
    BY <2>2 DEF LatchInv, LatchAdded
  <2>. QED
    BY <2>1, <2>2 DEF LatchInv
<1>. QED
  BY <1>1, LatchInvariance, PTL

-----------------------------------------------------------------------------
(* DetachedChild *)

\* A child that is not detached has ended before main's second append.
DetachInv ==
  /\ Detach!TypeOK
  /\ ~dDetached /\ dPc[Main] \in {"append again", "write again", "lock", "test",
                                  "require", "done"} =>
       dPc[Child] = "done"
  /\ Detach!JoinedKeepsLast

LEMMA AppendDigit ==
  ASSUME NEW s \in Seq(1 .. 4), NEW x \in 1 .. 4, NEW r, r = Append(s, x)
  PROVE  r \in Seq(1 .. 4) /\ r # <<>> /\ r[Len(r)] = x
<1>1. r \in Seq(1 .. 4) /\ Len(r) = Len(s) + 1 /\ r[Len(s) + 1] = x
  OBVIOUS
<1>. QED
  BY <1>1

LEMMA WriteDigit ==
  ASSUME Detach!TypeOK, NEW t \in {Main, Child}, Detach!WriteString(t)
  PROVE  /\ dResult' \in Seq(1 .. 4)
         /\ t = Main /\ dPc[t] = "write again" => dResult' # <<>> /\ dResult'[Len(dResult')] = 2
<1>1. dSeen[t] \in Seq(1 .. 4)
  BY DEF Detach!TypeOK
<1>2. 1 \in 1 .. 4 /\ 2 \in 1 .. 4 /\ 3 \in 1 .. 4 /\ 4 \in 1 .. 4
  OBVIOUS
<1>3. PICK x \in 1 .. 4 : /\ dResult' = Append(dSeen[t], x)
                          /\ t = Main /\ dPc[t] = "write again" => x = 2
  BY <1>2, Zenon DEF Detach!WriteString, Detach!GoTo
<1>4. x \in 1 .. 4
  OBVIOUS
<1>5. dResult' \in Seq(1 .. 4) /\ dResult' # <<>> /\ dResult'[Len(dResult')] = x
  BY <1>1, <1>3, <1>4, AppendDigit, Zenon
<1>. QED
  BY <1>3, <1>5

LEMMA DetachStep == DetachInv /\ [Detach!Next]_detachVars => DetachInv'
<1> SUFFICES ASSUME DetachInv, [Detach!Next]_detachVars PROVE DetachInv'
  OBVIOUS
<1>0. Main # Child /\ Nobody \notin {Main, Child}
  BY ExamplesAssumption DEF ExamplesAssumption
<1> USE <1>0 DEF DetachInv, Detach!TypeOK, Detach!PC, Detach!GoTo, Detach!LockMutex,
        Detach!UnlockMutex, Detach!JoinedKeepsLast
<1>1. ASSUME NEW t \in {Main, Child}, Detach!ReadString(t) PROVE DetachInv'
  BY <1>1 DEF Detach!ReadString
<1>2. ASSUME NEW t \in {Main, Child}, Detach!WriteString(t) PROVE DetachInv'
  <2>1. /\ dResult' \in Seq(1 .. 4)
        /\ t = Main /\ dPc[t] = "write again" => dResult' # <<>> /\ dResult'[Len(dResult')] = 2
    BY <1>2, WriteDigit
  <2>. QED
    BY <1>2, <2>1 DEF Detach!WriteString
<1>3. CASE Detach!Join
  BY <1>3 DEF Detach!Join
<1>4. CASE Detach!SetFlag
  <2>1. dFlag' \in BOOLEAN
    BY <1>4, Zenon DEF Detach!SetFlag
  <2>. QED
    BY <1>4, <2>1 DEF Detach!SetFlag
<1>5. CASE Detach!Lock \/ Detach!Test
  BY <1>5 DEF Detach!Lock, Detach!Test
<1>6. CASE Detach!Require
  BY <1>6 DEF Detach!Require
<1>7. CASE Detach!Dangle
  BY <1>7 DEF Detach!Dangle
<1>8. CASE UNCHANGED detachVars
  BY <1>8 DEF detachVars
<1>. QED
  BY <1>1, <1>2, <1>3, <1>4, <1>5, <1>6, <1>7, <1>8
  DEF Detach!Next, Detach!MainStep, Detach!ChildStep

LEMMA DetachInvariance == Spec => []DetachInv
<1>1. Init => DetachInv
  <2> SUFFICES ASSUME Detach!Init PROVE DetachInv
    BY DEF Init
  <2>1. dFlag \in BOOLEAN /\ dDetached \in BOOLEAN
    BY Zenon DEF Detach!Init
  <2>2. dPc[Main] = "append"
    BY DEF Detach!Init
  <2>. QED
    BY <2>1, <2>2
    DEF DetachInv, Detach!Init, Detach!TypeOK, Detach!PC, Detach!JoinedKeepsLast
<1>2. DetachInv /\ [Next]_vars => DetachInv'
  BY DetachStep, ProgramSteps
<1>. QED
  BY <1>1, <1>2, PTL DEF Spec

-----------------------------------------------------------------------------
(* StdFuture *)

\* Main gets after the join in the version that joins first.
FutureInv ==
  /\ Future!TypeOK
  /\ IF fVersion = "joined"
     THEN /\ fPc[Main] \in {"join", "get", "done"}
          /\ fPc[Main] # "join" => fPc[Child] = "done"
     ELSE fPc[Main] = "done" => fPc[Child] = "done"

LEMMA FutureStep == FutureInv /\ [Future!Next]_futureVars => FutureInv'
<1> SUFFICES ASSUME FutureInv, [Future!Next]_futureVars PROVE FutureInv'
  OBVIOUS
<1>0. Main # Child
  BY ExamplesAssumption DEF ExamplesAssumption
<1> USE <1>0 DEF FutureInv, Future!TypeOK, Future!PC, Future!GoTo
<1>1. CASE Future!SetValue
  <2>1. fReady' \in BOOLEAN
    BY <1>1, Zenon DEF Future!SetValue
  <2>. QED
    BY <1>1, <2>1 DEF Future!SetValue
<1>2. CASE Future!LeaveCall
  BY <1>2 DEF Future!LeaveCall
<1>3. CASE Future!Poll
  BY <1>3 DEF Future!Poll
<1>4. CASE Future!Look
  BY <1>4 DEF Future!Look
<1>5. CASE Future!Get
  BY <1>5 DEF Future!Get
<1>6. CASE Future!Join
  BY <1>6 DEF Future!Join
<1>7. CASE UNCHANGED futureVars
  BY <1>7 DEF futureVars
<1>. QED
  BY <1>1, <1>2, <1>3, <1>4, <1>5, <1>6, <1>7
  DEF Future!Next, Future!MainStep, Future!ChildStep

LEMMA FutureInvariance == Spec => []FutureInv
<1>1. Init => FutureInv
  <2> SUFFICES ASSUME Future!Init PROVE FutureInv
    BY DEF Init
  <2>1. fReady \in BOOLEAN
    BY Zenon DEF Future!Init
  <2>. QED
    BY <2>1, ExamplesAssumption
    DEF ExamplesAssumption, FutureInv, Future!Init, Future!TypeOK, Future!PC, Future!StartPlace
<1>2. FutureInv /\ [Next]_vars => FutureInv'
  BY FutureStep, ProgramSteps
<1>. QED
  BY <1>1, <1>2, PTL DEF Spec

\* Main's frame outlives the child's call in every version.
THEOREM FrameSafe == Spec => []FrameOutlivesChild
<1>1. FutureInv => FrameOutlivesChild
  BY DEF FutureInv, FrameOutlivesChild, Future!FrameOutlivesChild
<1>. QED
  BY <1>1, FutureInvariance, PTL

-----------------------------------------------------------------------------
(* JoinedThread *)

Wrote(t) ==
  IF t = Child THEN jPc[t] = "done"
  ELSE jVersion # "handle" /\ jPc[t] \notin {"append", "write"}

\* Where the threads of each version are.
JoinedPlaces ==
  /\ jPc[Child] \in {"append", "write", "done", "failed"}
  /\ jPc[Child] = "failed" => jVersion = "handle"
  /\ jPc[Main] \in IF jVersion = "handle" THEN {"check", "join", "return", "done"}
                   ELSE {"append", "write", "join", "return", "done"}
  /\ jPc[Main] = "return" /\ jVersion # "jthread" => jPc[Child] = "done"
  /\ jPc[Main] = "done" => jPc[Child] \in {"done", "failed"}

\* Where only the child writes, the object holds its value or nothing.
JoinedAlone ==
  /\ jSeen[Child] = <<>>
  /\ jResult = IF Wrote(Child) THEN <<Child>> ELSE <<>>
  /\ jPc[Main] = "done" /\ Wrote(Child) => jReturned = <<Child>>

\* Main has taken the string away: what its caller gets does not change any more.
JoinedGone ==
  IF Wrote(Child) /\ jResult = <<>> THEN jReturned \in Joined!Outcomes
  ELSE jReturned = <<Main>> /\ (~Wrote(Child) => jResult = <<>>)

\* The string holds what the appends that are over have left in it, and who has
\* still to write has read a part of that.
JoinedHeld ==
  IF Wrote(Main) /\ Wrote(Child) THEN jResult \in Joined!Outcomes
  ELSE \A t \in {Main, Child} :
    /\ Wrote(t) => jResult = <<t>> /\ jSeen[t] = <<>>
    /\ ~Wrote(t) => jSeen[t] = <<>> \/ jSeen[t] = jResult
    /\ ~Wrote(Main) /\ ~Wrote(Child) => jResult = <<>>

JoinedInv ==
  /\ Joined!TypeOK
  /\ JoinedPlaces
  /\ jVersion = "handle" => JoinedAlone
  /\ jVersion # "handle" =>
       IF Joined!Moved /\ jPc[Main] \in {"join", "done"} THEN JoinedGone ELSE JoinedHeld
  /\ jVersion = "thread" /\ jPc[Main] = "done" => jReturned = jResult

LEMMA AppendAny ==
  ASSUME NEW S, NEW s \in Seq(S), NEW x \in S
  PROVE  Append(s, x) \in Seq(S) /\ Append(s, x) # <<>>
<1>1. Append(s, x) \in Seq(S) /\ Len(Append(s, x)) = Len(s) + 1
  OBVIOUS
<1>2. Len(s) \in Nat /\ Len(<<>>) = 0
  OBVIOUS
<1>. QED
  BY <1>1, <1>2

LEMMA AppendSecond ==
  ASSUME NEW x, NEW y PROVE Append(<<x>>, y) = <<x, y>>
<1>1. Append(<<x>>, y) = [i \in 1 .. 2 |-> IF i = 1 THEN x ELSE y]
  OBVIOUS
<1>2. <<x, y>> = [i \in 1 .. 2 |-> IF i = 1 THEN x ELSE y]
  OBVIOUS
<1>. QED
  BY <1>1, <1>2

LEMMA AppendName ==
  ASSUME NEW t \in {Main, Child}
  PROVE  /\ \A u \in {Main, Child} : Append(<<u>>, t) = <<u, t>>
         /\ Append(<<>>, t) = <<t>> /\ <<t>> # <<>>
         /\ \A s \in Seq({Main, Child}) : /\ Append(s, t) \in Seq({Main, Child})
                                          /\ Append(s, t) # <<>>
<1>1. ASSUME NEW s \in Seq({Main, Child})
      PROVE  Append(s, t) \in Seq({Main, Child}) /\ Append(s, t) # <<>>
  BY AppendAny
<1>2. \A u \in {Main, Child} : Append(<<u>>, t) = <<u, t>>
  BY AppendSecond
<1>3. Append(<<>>, t) = <<t>> /\ <<t>> # <<>>
  OBVIOUS
<1>. QED
  BY <1>1, <1>2, <1>3

\* An append leaves one of the outcomes, or its own character alone.
LEMMA JoinedWrite ==
  ASSUME JoinedInv, NEW t \in {Main, Child}, Joined!Write(t)
  PROVE  JoinedInv'
<1>0. Main # Child
  BY ExamplesAssumption DEF ExamplesAssumption
<1>1. jSeen[t] \in Seq({Main, Child}) /\ jResult' = Append(jSeen[t], t)
  BY DEF JoinedInv, Joined!TypeOK, Joined!Write
<1>2. jResult' \in Seq({Main, Child}) /\ jResult' # <<>>
  BY <1>1, AppendName
<1>3. /\ jSeen[t] = <<>> => jResult' = <<t>>
      /\ \A u \in {Main, Child} : jSeen[t] = <<u>> => jResult' = <<u, t>>
  BY <1>1, AppendName
<1>4. \A u \in {Main, Child} : <<u>> # <<>>
  BY AppendName
<1>5. Joined!TypeOK' /\ JoinedPlaces'
  BY <1>0, <1>2 DEF JoinedInv, Joined!TypeOK, Joined!PC, JoinedPlaces, Joined!Write, Joined!GoTo
<1>6. jPc'[t] # jPc[t] /\ ~Wrote(t) /\ (jVersion # "handle" => Wrote(t)')
  BY <1>0 DEF JoinedInv, Joined!TypeOK, Joined!Write, Joined!GoTo, Wrote, JoinedPlaces
<1>7. \A u \in {Main, Child} : u # t => (Wrote(u)' <=> Wrote(u)) /\ jPc'[u] = jPc[u]
  BY DEF JoinedInv, Joined!TypeOK, Joined!Write, Joined!GoTo, Wrote
<1>8. UNCHANGED <<jVersion, jNrvo, jSeen, jReturned>>
  BY DEF Joined!Write
<1>9. CASE jVersion = "handle"
  <2>1. t = Child /\ jPc'[Child] = "done" /\ jPc'[Main] = jPc[Main] /\ jPc[Main] # "done"
    BY <1>0, <1>9 DEF JoinedInv, Joined!TypeOK, JoinedPlaces, Joined!Write, Joined!GoTo
  <2>. QED
    BY <1>3, <1>5, <1>8, <1>9, <2>1 DEF JoinedInv, JoinedAlone, Wrote
<1>10. CASE jVersion # "handle" /\ Joined!Moved /\ jPc[Main] \in {"join", "done"}
  <2>1. t = Child /\ jPc'[Main] = jPc[Main] /\ ~Wrote(Child)
    BY <1>0, <1>6, <1>7, <1>10 DEF Joined!Write, Joined!GoTo
  <2>2. JoinedGone'
    <3>1. JoinedGone /\ jReturned = <<Main>>
      BY <1>10, <2>1 DEF JoinedInv, JoinedGone
    <3>2. Wrote(Child)'
      BY <1>6, <1>10, <2>1
    <3>. QED
      BY <1>2, <1>8, <3>1, <3>2 DEF JoinedGone
  <2>. QED
    BY <1>5, <1>8, <1>10, <2>1, <2>2 DEF JoinedInv, Joined!Moved
<1>11. CASE jVersion # "handle" /\ ~(Joined!Moved /\ jPc[Main] \in {"join", "done"})
  <2>1. ~(Joined!Moved /\ jPc[Main] \in {"join", "done"})' /\ jVersion' = jVersion
    BY <1>0, <1>8, <1>11
    DEF JoinedInv, Joined!TypeOK, Joined!Moved, Joined!Write, Joined!GoTo
  <2>2. JoinedHeld
    BY <1>11 DEF JoinedInv
  <2>3. JoinedHeld'
    BY <1>0, <1>3, <1>4, <1>6, <1>7, <1>8, <1>11, <2>2
    DEF JoinedHeld, Joined!Outcomes
  <2>4. jVersion = "thread" => jPc'[Main] # "done"
    BY <1>0, <1>5, <1>6, <1>7
    DEF JoinedInv, JoinedPlaces, Joined!TypeOK, Joined!Write, Joined!GoTo
  <2>. QED
    BY <1>5, <1>11, <2>1, <2>3, <2>4 DEF JoinedInv
<1>. QED
  BY <1>9, <1>10, <1>11

LEMMA JoinedStep == JoinedInv /\ [Joined!Next]_joinedVars => JoinedInv'
<1> SUFFICES ASSUME JoinedInv, [Joined!Next]_joinedVars PROVE JoinedInv'
  OBVIOUS
<1>0. Main # Child
  BY ExamplesAssumption DEF ExamplesAssumption
<1>1. \A u \in {Main, Child} : <<u>> # <<>>
  BY AppendName
<1> USE <1>0, <1>1 DEF JoinedInv, JoinedPlaces, Joined!TypeOK, Joined!PC, Joined!GoTo,
        Wrote, Joined!Moved
<1>2. ASSUME NEW t \in {Main, Child}, Joined!Read(t) PROVE JoinedInv'
  <2>1. Joined!TypeOK' /\ JoinedPlaces'
    BY <1>2 DEF Joined!Read
  <2>2. /\ UNCHANGED <<jVersion, jNrvo, jResult, jReturned>>
        /\ ~Wrote(t) /\ \A u \in {Main, Child} : Wrote(u)' <=> Wrote(u)
        /\ jPc'[Main] = jPc[Main] \/ (jPc[Main] = "append" /\ jPc'[Main] = "write")
        /\ jSeen'[t] = jResult
        /\ \A u \in {Main, Child} : u # t => jSeen'[u] = jSeen[u]
    BY <1>2 DEF Joined!Read
  <2>3. jVersion = "handle" => JoinedAlone'
    BY <2>2, <1>2 DEF JoinedAlone, Joined!Read
  <2>4. JoinedGone /\ jVersion # "handle" => JoinedGone' \/ jPc[Main] \notin {"join", "done"}
    BY <2>2, <1>2 DEF JoinedGone, Joined!Outcomes, Joined!Read
  <2>5. JoinedHeld => JoinedHeld'
    BY <2>2 DEF JoinedHeld
  <2>. QED
    BY <2>1, <2>2, <2>3, <2>4, <2>5
<1>3. CASE Joined!Check \/ Joined!Join
  <2>1. Joined!TypeOK' /\ JoinedPlaces'
    BY <1>3 DEF Joined!Check, Joined!Join
  <2>2. /\ UNCHANGED <<jVersion, jNrvo, jResult, jSeen, jReturned>>
        /\ \A u \in {Main, Child} : Wrote(u)' <=> Wrote(u)
        /\ Joined!Outcomes' = Joined!Outcomes
    BY <1>3 DEF Joined!Check, Joined!Join, Joined!Outcomes
  <2>3. (JoinedHeld => JoinedHeld') /\ (JoinedGone => JoinedGone')
    BY <2>2 DEF JoinedHeld, JoinedGone
  <2>4. jVersion = "handle" => JoinedAlone'
    BY <1>3, <2>2 DEF JoinedAlone, Joined!Check, Joined!Join
  <2>. QED
    BY <1>3, <2>1, <2>2, <2>3, <2>4 DEF Joined!Check, Joined!Join
<1>4. CASE Joined!Return
  <2>1. Joined!TypeOK' /\ JoinedPlaces'
    BY <1>4 DEF Joined!Return
  <2>2. /\ UNCHANGED <<jVersion, jNrvo, jSeen>> /\ jReturned' = jResult
        /\ \A u \in {Main, Child} : Wrote(u)' <=> Wrote(u)
        /\ Joined!Outcomes' = Joined!Outcomes
        /\ jResult' = IF Joined!Moved THEN <<>> ELSE jResult
    BY <1>4 DEF Joined!Return, Joined!Outcomes
  <2>3. CASE jVersion = "handle"
    BY <1>4, <2>1, <2>2, <2>3 DEF JoinedAlone, Joined!Return
  <2>4. CASE jVersion # "handle"
    <3>1. JoinedHeld /\ Wrote(Main)
      BY <1>4, <2>4 DEF Joined!Return
    <3>2. Joined!Moved => JoinedGone'
      BY <2>2, <3>1 DEF JoinedGone, JoinedHeld
    <3>3. ~Joined!Moved => JoinedHeld'
      BY <2>2, <3>1 DEF JoinedHeld
    <3>. QED
      BY <1>4, <2>1, <2>2, <2>4, <3>2, <3>3 DEF Joined!Return
  <2>. QED
    BY <2>3, <2>4
<1>5. CASE UNCHANGED joinedVars
  BY <1>5 DEF joinedVars, JoinedAlone, JoinedGone, JoinedHeld, Joined!Outcomes
<1>. QED
  BY <1>2, <1>3, <1>4, <1>5, JoinedWrite DEF Joined!Next

LEMMA JoinedInvariance == Spec => []JoinedInv
<1>1. Init => JoinedInv
  <2> SUFFICES ASSUME Joined!Init PROVE JoinedInv
    BY DEF Init
  <2>0. Main # Child
    BY ExamplesAssumption DEF ExamplesAssumption
  <2>1. jNrvo \in BOOLEAN
    BY Zenon DEF Joined!Init
  <2>2. Joined!TypeOK /\ JoinedPlaces
    BY <2>0, <2>1 DEF JoinedPlaces, Joined!Init, Joined!TypeOK, Joined!PC
  <2>3. ~Wrote(Main) /\ ~Wrote(Child) /\ jPc[Main] \notin {"join", "done"}
    BY <2>0 DEF Joined!Init, Wrote
  <2>. QED
    BY <2>2, <2>3 DEF JoinedInv, Joined!Init, JoinedAlone, JoinedHeld
<1>2. JoinedInv /\ [Next]_vars => JoinedInv'
  BY JoinedStep, ProgramSteps
<1>. QED
  BY <1>1, <1>2, PTL DEF Spec

-----------------------------------------------------------------------------
(* TwoStrings *)

StringsInv ==
  /\ Strings!TypeOK
  /\ \A t \in {Main, Child} :
       /\ tOwner = t <=> tPc[t] \in {"write", "unlock"}
       /\ tPc[t] = "write" => tOutput[t] < Items
       /\ tPc[t] \in {"join", "done"} => tOutput[t] = Items
  /\ tPc[Main] = "done" => tPc[Child] = "done"
  /\ tPc[Child] # "join"

LEMMA StringsStep == StringsInv /\ [Strings!Next]_stringsVars => StringsInv'
<1> SUFFICES ASSUME StringsInv, [Strings!Next]_stringsVars PROVE StringsInv'
  OBVIOUS
<1>0. Main # Child /\ Nobody \notin {Main, Child} /\ Items \in Nat
  BY ExamplesAssumption DEF ExamplesAssumption
<1> USE <1>0 DEF StringsInv, Strings!TypeOK, Strings!GoTo, Strings!LockMutex,
        Strings!UnlockMutex
<1>1. ASSUME NEW t \in {Main, Child}, Strings!Lock(t) PROVE StringsInv'
  BY <1>1 DEF Strings!Lock
<1>2. ASSUME NEW t \in {Main, Child}, Strings!Write(t) PROVE StringsInv'
  BY <1>2 DEF Strings!Write
<1>3. ASSUME NEW t \in {Main, Child}, Strings!Unlock(t) PROVE StringsInv'
  BY <1>3 DEF Strings!Unlock
<1>4. ASSUME NEW t \in {Main, Child}, Strings!Leave(t) PROVE StringsInv'
  BY <1>4 DEF Strings!Leave
<1>5. CASE Strings!Join
  BY <1>5 DEF Strings!Join
<1>6. CASE UNCHANGED stringsVars
  BY <1>6 DEF stringsVars
<1>. QED
  BY <1>1, <1>2, <1>3, <1>4, <1>5, <1>6 DEF Strings!Next

LEMMA StringsInvariance == Spec => []StringsInv
<1>1. Init => StringsInv
  <2> SUFFICES ASSUME Strings!Init PROVE StringsInv
    BY DEF Init
  <2>. QED
    BY ExamplesAssumption
    DEF ExamplesAssumption, StringsInv, Strings!Init, Strings!TypeOK
<1>2. StringsInv /\ [Next]_vars => StringsInv'
  BY StringsStep, ProgramSteps
<1>. QED
  BY <1>1, <1>2, PTL DEF Spec

\* What main hands over after a join is final, and what the appends have left,
\* whatever their order; the two strings are complete for every number of items.
THEOREM WholeCorrect == Spec => []WholeOnReturn
<1>1. JoinedInv => Joined!WholeOnReturn
  <2> SUFFICES ASSUME JoinedInv, jPc[Main] = "done", jPc[Child] # "failed"
               PROVE  Joined!WholeOnReturn
    BY DEF Joined!WholeOnReturn
  <2>1. jPc[Child] = "done" /\ Wrote(Child) /\ (jVersion # "handle" => Wrote(Main))
    BY ExamplesAssumption DEF ExamplesAssumption, JoinedInv, JoinedPlaces, Wrote
  <2>2. CASE jVersion = "handle"
    BY <2>1, <2>2 DEF JoinedInv, JoinedAlone, Joined!WholeOnReturn
  <2>3. CASE Joined!Moved
    <3>1. JoinedGone /\ jVersion = "jthread" /\ ~jNrvo
      BY <2>3 DEF JoinedInv, Joined!Moved
    <3>. QED
      BY <2>1, <3>1 DEF JoinedGone, Joined!WholeOnReturn, Joined!CallerSees, Joined!Moved
  <2>4. CASE jVersion # "handle" /\ ~Joined!Moved
    <3>1. jResult \in Joined!Outcomes
      BY <2>1, <2>4 DEF JoinedInv, JoinedHeld
    <3>2. Joined!CallerSees = jResult
      BY <2>4 DEF JoinedInv, Joined!TypeOK, Joined!CallerSees, Joined!Moved
    <3>. QED
      BY <2>1, <2>4, <3>1, <3>2 DEF Joined!WholeOnReturn
  <2>. QED
    BY <2>2, <2>3, <2>4
<1>2. StringsInv => Strings!StringsComplete
  BY DEF StringsInv, Strings!TypeOK, Strings!StringsComplete
<1>3. DetachInv => Detach!JoinedKeepsLast
  BY DEF DetachInv
<1>. QED
  BY <1>1, <1>2, <1>3, JoinedInvariance, StringsInvariance, DetachInvariance, PTL
  DEF WholeOnReturn

-----------------------------------------------------------------------------
(* LiteMutex *)

\* Who touches the int owns the mutex, if there is one; main reads with a mutex
\* only.
WinMutexInv ==
  /\ WinMutex!TypeOK
  /\ wPc[Main] # "write"
  /\ wPc[Main] = "read" => wCreated /\ wOwner = Main
  /\ wPc[Child] = "write" => ~wCreated \/ wOwner = Child

LEMMA WinMutexStep == WinMutexInv /\ [WinMutex!Next]_winMutexVars => WinMutexInv'
<1> SUFFICES ASSUME WinMutexInv, [WinMutex!Next]_winMutexVars PROVE WinMutexInv'
  OBVIOUS
<1>0. Main # Child /\ Nobody \notin {Main, Child}
  BY ExamplesAssumption DEF ExamplesAssumption
<1> USE <1>0 DEF WinMutexInv, WinMutex!TypeOK, WinMutex!PC, WinMutex!GoTo,
        WinMutex!WaitObject, WinMutex!WaitInVain, WinMutex!ReleaseMutex
<1>1. CASE WinMutex!Check
  BY <1>1 DEF WinMutex!Check
<1>2. CASE WinMutex!MainLock
  BY <1>2 DEF WinMutex!MainLock
<1>3. CASE WinMutex!MainLockFails
  BY <1>3 DEF WinMutex!MainLockFails
<1>4. CASE WinMutex!MainRead
  BY <1>4 DEF WinMutex!MainRead
<1>5. CASE WinMutex!DropGuard
  BY <1>5 DEF WinMutex!DropGuard
<1>6. ASSUME NEW t \in {Main, Child}, WinMutex!Unlock(t) PROVE WinMutexInv'
  BY <1>6 DEF WinMutex!Unlock
<1>7. CASE WinMutex!Join
  BY <1>7 DEF WinMutex!Join
<1>8. CASE WinMutex!ChildLock
  BY <1>8 DEF WinMutex!ChildLock
<1>9. CASE WinMutex!ChildWrite
  BY <1>9 DEF WinMutex!ChildWrite
<1>10. CASE UNCHANGED winMutexVars
  BY <1>10 DEF winMutexVars
<1>. QED
  BY <1>1, <1>2, <1>3, <1>4, <1>5, <1>6, <1>7, <1>8, <1>9, <1>10
  DEF WinMutex!Next, WinMutex!MainStep, WinMutex!ChildStep

LEMMA WinMutexInvariance == Spec => []WinMutexInv
<1>1. Init => WinMutexInv
  <2> SUFFICES ASSUME WinMutex!Init PROVE WinMutexInv
    BY DEF Init
  <2>. QED
    BY ExamplesAssumption
    DEF ExamplesAssumption, WinMutexInv, WinMutex!Init, WinMutex!TypeOK, WinMutex!PC
<1>2. WinMutexInv /\ [Next]_vars => WinMutexInv'
  BY WinMutexStep, ProgramSteps
<1>. QED
  BY <1>1, <1>2, PTL DEF Spec

\* Main reads under the mutex only, never while the child writes, whatever has
\* timed out or failed.
THEOREM GuardsExclude == Spec => []GuardExcludes
<1>1. WinMutexInv => GuardExcludes
  BY ExamplesAssumption
  DEF ExamplesAssumption, WinMutexInv, GuardExcludes, WinMutex!GuardExcludes
<1>. QED
  BY <1>1, WinMutexInvariance, PTL

-----------------------------------------------------------------------------
(* LiteEvent, and the types of all programs *)

LEMMA EventStep ==
  ASSUME WinEvent!TypeOK, [WinEvent!Next]_winEventVars
  PROVE  WinEvent!TypeOK'
<1> USE DEF WinEvent!TypeOK, WinEvent!PC, WinEvent!GoTo
<1>1. ASSUME NEW c \in Children, WinEvent!Wait(c) PROVE WinEvent!TypeOK'
  <2>1. eSignalled' \in BOOLEAN
    BY <1>1, Zenon DEF WinEvent!Wait
  <2>. QED
    BY <1>1, <2>1 DEF WinEvent!Wait
<1>2. ASSUME NEW t \in Children \cup {Main}, WinEvent!Set(t) PROVE WinEvent!TypeOK'
  BY <1>2 DEF WinEvent!Set
<1>3. CASE WinEvent!Join
  BY <1>3 DEF WinEvent!Join
<1>4. CASE UNCHANGED winEventVars
  BY <1>4 DEF winEventVars
<1>. QED
  BY <1>1, <1>2, <1>3, <1>4
  DEF WinEvent!Next, WinEvent!MainStep, WinEvent!ChildStep

LEMMA EventInit == WinEvent!Init => WinEvent!TypeOK
<1> SUFFICES ASSUME WinEvent!Init PROVE WinEvent!TypeOK
  OBVIOUS
<1>1. eSignalled \in BOOLEAN
  BY Zenon DEF WinEvent!Init
<1>. QED
  BY <1>1 DEF WinEvent!Init, WinEvent!TypeOK, WinEvent!PC

LEMMA EventType == Spec => [](program \in Programs /\ WinEvent!TypeOK)
<1>1. Init => program \in Programs /\ WinEvent!TypeOK
  BY EventInit DEF Init
<1>2. program \in Programs /\ WinEvent!TypeOK /\ [Next]_vars
        => (program \in Programs /\ WinEvent!TypeOK)'
  BY EventStep, ProgramSteps
<1>. QED
  BY <1>1, <1>2, PTL DEF Spec

\* The variables of every program stay in their ranges: no counter of a latch,
\* a barrier or a semaphore becomes negative or too large.
THEOREM TypeCorrect == Spec => []TypeOK
<1>1. LatchInv => Latch!TypeOK
  BY LatchSets DEF LatchInv, Latch!TypeOK
<1>2. /\ MutexInv => Mutex!TypeOK
      /\ AtomicInv => Atomic!TypeOK
      /\ SemaphoreInv => Semaphore!TypeOK
      /\ NotifyInv => Notify!TypeOK
      /\ BarrierInv => Barrier!TypeOK
      /\ DetachInv => Detach!TypeOK
      /\ FutureInv => Future!TypeOK
      /\ JoinedInv => Joined!TypeOK
      /\ StringsInv => Strings!TypeOK
      /\ WinMutexInv => WinMutex!TypeOK
  BY DEF MutexInv, AtomicInv, SemaphoreInv, NotifyInv, BarrierInv, BarrierShape,
         DetachInv, FutureInv, JoinedInv, StringsInv, WinMutexInv
<1>. QED
  BY <1>1, <1>2, MutexInvariance, AtomicInvariance, SemaphoreInvariance,
     NotifyInvariance, BarrierInvariance, LatchInvariance, DetachInvariance,
     FutureInvariance, JoinedInvariance, StringsInvariance, WinMutexInvariance,
     EventType, SumType, TurnType, RingType, PTL
  DEF TypeOK

-----------------------------------------------------------------------------
(* Nobody is stuck: what is still missing for it is where the threads of     *)
(* each program can be, and who holds its mutex or has its signal.           *)

\* Only main joins.
MutexPlaces == \A c \in Children : mPc[c] \notin {"require", "join"}

LEMMA MutexPlacesStep ==
  MutexInv /\ MutexPlaces /\ [Mutex!Next]_mutexVars => MutexPlaces'
BY ExamplesAssumption
DEF ExamplesAssumption, MutexPlaces, MutexInv, Mutex!TypeOK, Mutex!Next, Mutex!Step,
    Mutex!Lock, Mutex!Leave, Mutex!AfterCall, Mutex!Add, Mutex!Increment, Mutex!Unlock,
    Mutex!Require, Mutex!Join, Mutex!GoTo, Mutex!vars, mutexVars

LEMMA MutexNotStuck == MutexInv /\ MutexPlaces => Mutex!NobodyStuck
<1> SUFFICES ASSUME MutexInv, MutexPlaces,
                    \A t \in Children \cup {Main} : Mutex!Blocked(t)
             PROVE  Mutex!Terminated
  BY DEF Mutex!NobodyStuck
<1> USE DEF Mutex!Blocked, MutexInv, MutexPlaces, Mutex!TypeOK
\* The holder is not at a place where a thread waits.
<1>1. mOwner = Nobody
  BY ExamplesAssumption DEF ExamplesAssumption
<1>2. \A c \in Children : mPc[c] = "done"
  BY <1>1
<1>3. mPc[Main] = "done"
  BY <1>1, <1>2
<1>. QED
  BY <1>2, <1>3 DEF Mutex!Terminated

AtomicPlaces == \A c \in Children : aPc[c] # "join"

LEMMA AtomicPlacesStep ==
  AtomicInv /\ AtomicPlaces /\ [Atomic!Next]_atomicVars => AtomicPlaces'
BY ExamplesAssumption
DEF ExamplesAssumption, AtomicPlaces, AtomicInv, Atomic!TypeOK, Atomic!Next,
    Atomic!Load, Atomic!AfterCall, Atomic!Add, Atomic!Return, Atomic!GoTo,
    Atomic!vars, atomicVars

LEMMA AtomicNotStuck == AtomicPlaces => Atomic!NobodyStuck
BY DEF AtomicPlaces, Atomic!NobodyStuck, Atomic!Blocked, Atomic!Terminated

LEMMA SemaphoreNotStuck == SemaphoreInv => Semaphore!NobodyStuck
<1> SUFFICES ASSUME SemaphoreInv, \A t \in Semaphore!Threads : Semaphore!Blocked(t)
             PROVE  Semaphore!Terminated \/ Semaphore!Stranded
  BY DEF Semaphore!NobodyStuck
<1> USE DEF SemaphoreInv, Semaphore!Threads, Semaphore!Blocked
<1>1. CASE sCount = 0
  \* Somebody has the token, and that can only be main.
  <2>1. SemaphoreHolders # {}
    BY <1>1, FS_EmptySet
  <2>2. PICK t \in Semaphore!Threads : Semaphore!HoldsToken(t)
    BY <2>1 DEF SemaphoreHolders
  <2>3. t = Main /\ sPc[Main] \in {"join", "done"}
    BY <2>2 DEF Semaphore!HoldsToken
  <2>4. sPc[Main] = "join" => \E c \in Children : sPc[c] = "acquire"
    BY <2>3
  <2>. QED
    BY <1>1, <2>3, <2>4 DEF Semaphore!Terminated, Semaphore!Stranded
<1>2. CASE sCount # 0
  \* Then nobody waits for it: the children have ended.
  <2>1. \A c \in Children : sPc[c] = "done"
    BY <1>2, ExamplesAssumption DEF ExamplesAssumption
  <2>. QED
    BY <1>2, <2>1 DEF Semaphore!Terminated
<1>. QED
  BY <1>1, <1>2

\* Who holds the mutex; main finds the flag set and does not sleep.
NotifyPlaces ==
  /\ nPc[Child] \notin {"begin", "set", "leave", "join"}
  /\ nPc[Main] # "asleep"
  /\ nOwner = Child <=> nPc[Child] \in {"test", "unlock"}
  /\ nOwner = Main <=>
       \/ nPc[Main] \in {"test", "unlock", "leave"}
       \/ nPc[Main] = "join" /\ nVersion = "thread"

LEMMA NotifyPlacesStep ==
  NotifyInv /\ NotifyPlaces /\ [Notify!Next]_notifyVars => NotifyPlaces'
<1> SUFFICES ASSUME NotifyInv, NotifyPlaces, [Notify!Next]_notifyVars
             PROVE  NotifyPlaces'
  OBVIOUS
<1>0. Main # Child /\ Nobody \notin {Main, Child}
  BY ExamplesAssumption DEF ExamplesAssumption
<1> USE <1>0 DEF NotifyPlaces, NotifyInv, Notify!TypeOK, Notify!SyncTypeOK, Notify!PC,
        Notify!GoTo, Notify!Acquire, Notify!Release, Notify!LockMutex,
        Notify!UnlockMutex, Notify!syncVars
<1>1. CASE Notify!Begin \/ Notify!SetFlag \/ Notify!Leave \/ Notify!Join
  BY <1>1 DEF Notify!Begin, Notify!SetFlag, Notify!Leave, Notify!Join
<1>2. ASSUME NEW t \in {Main, Child},
             Notify!Unlock(t) \/ Notify!Notify(t) \/ Notify!Lock(t)
      PROVE  NotifyPlaces'
  BY <1>2 DEF Notify!Unlock, Notify!Notify, Notify!NotifyOne, Notify!Lock
<1>3. ASSUME NEW t \in {Main, Child}, Notify!Block(t) \/ Notify!Wake(t)
      PROVE  NotifyPlaces'
  BY <1>3 DEF Notify!Block, Notify!Sleep, Notify!Wake, Notify!Reacquire
<1>4. ASSUME NEW t \in {Main, Child}, Notify!Proceed(t) PROVE NotifyPlaces'
  BY <1>4 DEF Notify!Proceed
<1>5. CASE Notify!Spurious \/ UNCHANGED notifyVars
  BY <1>5 DEF Notify!Spurious, Notify!WakeSpuriously, notifyVars
<1>. QED
  BY <1>1, <1>2, <1>3, <1>4, <1>5 DEF Notify!Next, Notify!MainStep, Notify!Step

LEMMA NotifyNotStuck == NotifyInv /\ NotifyPlaces => Notify!NobodyStuck
<1> SUFFICES ASSUME NotifyInv, NotifyPlaces, \A t \in {Main, Child} : Notify!Blocked(t)
             PROVE  Notify!Terminated \/ Notify!Deadlocked
  BY DEF Notify!NobodyStuck
<1> USE DEF NotifyInv, NotifyPlaces, Notify!TypeOK, Notify!SyncTypeOK, Notify!Blocked
<1>1. nOwner # Child
  OBVIOUS
<1>2. CASE nOwner = Main
  <2>1. nPc[Main] = "join" /\ nVersion = "thread" /\ nPc[Child] # "done"
    BY <1>2
  <2>. QED
    BY <1>2, <2>1 DEF Notify!Deadlocked
<1>3. CASE nOwner = Nobody
  <2>1. nPc[Child] \in {"asleep", "done"}
    BY <1>3
  <2>2. nPc[Main] \in {"join", "done"}
    BY <1>3
  <2>3. nPc[Child] = "done"
    BY <1>3, <2>1, <2>2 DEF Notify!ChildToBeNotified
  <2>. QED
    BY <2>2, <2>3 DEF Notify!Terminated
<1>. QED
  BY <1>1, <1>2, <1>3

\* The barrier is never full: the last to arrive opens it.  The flag is cleared
\* after main's last meeting, and a child leaves its loop only then.
BarrierPlaces ==
  /\ bWaiting # Barrier!Threads
  /\ \A c \in Children :
       /\ bPc[c] = "done" => ~bFlag
       /\ bPc[c] # "failed"
       /\ bPc[c] = "undefined" => ~Barrier!Alive

LEMMA BarrierPlacesStep ==
  BarrierInv /\ BarrierPlaces /\ [Barrier!Next]_barrierVars => BarrierPlaces'
<1> SUFFICES ASSUME BarrierShape, BarrierPlaces, [Barrier!Next]_barrierVars
             PROVE  BarrierPlaces'
  BY DEF BarrierInv
<1>0. Main \notin Children
  BY ExamplesAssumption DEF ExamplesAssumption
<1> USE <1>0 DEF BarrierShape, BarrierPlaces, Barrier!TypeOK, Barrier!PC,
        Barrier!GoTo, Barrier!Threads, Barrier!Alive
<1>1. ASSUME NEW c \in Children, Barrier!Test(c) PROVE BarrierPlaces'
  BY <1>1 DEF Barrier!Test
<1>2. ASSUME NEW c \in Children, Barrier!Add(c) PROVE BarrierPlaces'
  BY <1>2 DEF Barrier!Add
<1>3. ASSUME NEW t \in Barrier!Threads, Barrier!Arrive(t) PROVE BarrierPlaces'
  BY <1>3 DEF Barrier!Arrive
<1>4. ASSUME NEW t \in Barrier!Threads, Barrier!Pass(t) PROVE BarrierPlaces'
  BY <1>4 DEF Barrier!Pass
<1>5. CASE \/ Barrier!Require \/ Barrier!RequireThrows
          \/ Barrier!ClearFlag \/ Barrier!Return
  BY <1>5
  DEF Barrier!Require, Barrier!RequireThrows, Barrier!ClearFlag, Barrier!Return
<1>6. ASSUME NEW c \in Children, Barrier!Dangle(c) PROVE BarrierPlaces'
  BY <1>6 DEF Barrier!Dangle
<1>7. CASE UNCHANGED barrierVars
  BY <1>7 DEF barrierVars
<1>. QED
  BY <1>1, <1>2, <1>3, <1>4, <1>5, <1>6, <1>7
  DEF Barrier!Next, Barrier!MainStep, Barrier!ChildStep

LEMMA BarrierNotStuck == BarrierInv /\ BarrierPlaces => Barrier!NobodyStuck
<1> SUFFICES ASSUME BarrierShape, BarrierPlaces, Barrier!Alive,
                    \A t \in Barrier!Threads : Barrier!Blocked(t)
             PROVE  FALSE
  BY DEF BarrierInv, Barrier!NobodyStuck
<1>1. Main \in bWaiting /\ bPc[Main] = "wait"
  BY DEF Barrier!Blocked, Barrier!Threads, Barrier!Alive, BarrierShape
<1>2. \A c \in Children : c \in bWaiting
  BY <1>1
  DEF Barrier!Blocked, Barrier!Threads, Barrier!Alive, BarrierShape, BarrierPlaces
<1>. QED
  BY <1>1, <1>2 DEF BarrierPlaces, BarrierShape, Barrier!TypeOK, Barrier!Threads

LatchPlaces == \A c \in Children : lPc[c] = "undefined" => lPc[Main] = "done"

LEMMA LatchPlacesStep ==
  LatchInv /\ LatchPlaces /\ [Latch!Next]_latchVars => LatchPlaces'
BY ExamplesAssumption
DEF ExamplesAssumption, LatchPlaces, LatchInv, Latch!Threads, Latch!Next,
    Latch!MainStep, Latch!ChildStep, Latch!Add, Latch!Arrive, Latch!Wait, Latch!Join,
    Latch!Return, Latch!Dangle, Latch!GoTo, latchVars

LEMMA LatchNotStuck == LatchInv /\ LatchPlaces => Latch!NobodyStuck
<1> SUFFICES ASSUME LatchInv, LatchPlaces, lPc[Main] # "done",
                    \A t \in Latch!Threads : Latch!Blocked(t)
             PROVE  FALSE
  BY DEF Latch!NobodyStuck
<1>0. Main \notin Children
  BY ExamplesAssumption DEF ExamplesAssumption
<1> USE <1>0 DEF Latch!Threads, Latch!Blocked
<1>1. lCount \in Nat /\ (lCount = 0 <=> LatchToArrive = {})
  BY LatchSets, FS_EmptySet DEF LatchInv
<1>2. LatchToArrive = {}
  \* Who has still to arrive can: it waits neither for the latch nor for a join.
  <2>1. ASSUME NEW t \in LatchToArrive PROVE FALSE
    BY <1>1, <2>1 DEF LatchToArrive
  <2>. QED
    BY <2>1
<1>3. \A c \in Children : lPc[c] = "done"
  BY <1>1, <1>2 DEF LatchInv, LatchPlaces, LatchToArrive
<1>. QED
  BY <1>1, <1>2, <1>3 DEF LatchInv, LatchToArrive

\* Main alone holds the mutex over a step.
DetachPlaces ==
  /\ dOwner = IF dPc[Main] = "test" THEN Main ELSE Nobody
  /\ dPc[Main] \notin {"set", "undefined"}
  /\ dPc[Child] \notin {"join", "lock"}
  /\ dPc[Child] = "undefined" => dPc[Main] = "done"

LEMMA DetachPlacesStep ==
  DetachInv /\ DetachPlaces /\ [Detach!Next]_detachVars => DetachPlaces'
<1>0. Main # Child
  BY ExamplesAssumption DEF ExamplesAssumption
<1>. QED
  BY <1>0
  DEF DetachPlaces, DetachInv, Detach!TypeOK, Detach!Next, Detach!MainStep,
      Detach!ChildStep, Detach!ReadString, Detach!WriteString, Detach!Join, Detach!Lock,
      Detach!Test, Detach!SetFlag, Detach!Require, Detach!Dangle, Detach!GoTo,
      Detach!LockMutex, Detach!UnlockMutex, detachVars

LEMMA DetachNotStuck == DetachPlaces => Detach!NobodyStuck
<1>0. Main # Child /\ Nobody # Main
  BY ExamplesAssumption DEF ExamplesAssumption
<1>. QED
  BY <1>0 DEF DetachPlaces, Detach!NobodyStuck, Detach!Blocked

\* The child has made the future ready when it has ended.
FuturePlaces ==
  /\ fReady <=> fPc[Child] # "call"
  /\ fPc[Child] \in {"call", "leave", "done"}

LEMMA FuturePlacesStep ==
  FutureInv /\ FuturePlaces /\ [Future!Next]_futureVars => FuturePlaces'
<1> SUFFICES ASSUME Future!TypeOK, FuturePlaces, [Future!Next]_futureVars
             PROVE  FuturePlaces'
  BY DEF FutureInv
<1>0. Main # Child
  BY ExamplesAssumption DEF ExamplesAssumption
<1> USE <1>0 DEF FuturePlaces, Future!TypeOK, Future!GoTo
<1>1. CASE Future!SetValue \/ Future!LeaveCall
  BY <1>1 DEF Future!SetValue, Future!LeaveCall
<1>2. CASE Future!MainStep
  BY <1>2 DEF Future!MainStep, Future!Poll, Future!Look, Future!Get, Future!Join
<1>3. CASE UNCHANGED futureVars
  BY <1>3 DEF futureVars
<1>. QED
  BY <1>1, <1>2, <1>3 DEF Future!Next, Future!ChildStep

LEMMA FutureNotStuck == FutureInv /\ FuturePlaces => Future!NobodyStuck
BY DEF FuturePlaces, Future!NobodyStuck, Future!Blocked

\* Main joins only a thread that was created.
JoinedStarted == jPc[Child] = "failed" => jPc[Main] \in {"check", "done"}

LEMMA JoinedStartedStep ==
  JoinedInv /\ JoinedStarted /\ [Joined!Next]_joinedVars => JoinedStarted'
<1>0. Main # Child
  BY ExamplesAssumption DEF ExamplesAssumption
<1>. QED
  BY <1>0
  DEF JoinedStarted, JoinedInv, JoinedPlaces, Joined!TypeOK, Joined!Next, Joined!Read,
      Joined!Write, Joined!Check, Joined!Join, Joined!Return, Joined!GoTo, joinedVars

LEMMA JoinedNotStuck == JoinedInv /\ JoinedStarted => Joined!NobodyStuck
BY DEF JoinedInv, JoinedPlaces, JoinedStarted, Joined!NobodyStuck, Joined!Blocked

LEMMA StringsNotStuck == StringsInv => Strings!NobodyStuck
<1> SUFFICES ASSUME StringsInv, \A t \in {Main, Child} : Strings!Blocked(t)
             PROVE  tPc[Main] = "done"
  BY DEF Strings!NobodyStuck
<1> USE DEF StringsInv, Strings!TypeOK, Strings!Blocked
<1>1. tOwner = Nobody
  BY ExamplesAssumption DEF ExamplesAssumption
<1>2. tPc[Child] = "done"
  BY <1>1
<1>. QED
  BY <1>1, <1>2

\* Who owns the mutex is at a place where it does not wait.
WinMutexPlaces ==
  /\ wOwner = Main => wPc[Main] \in {"read", "unlock"}
  /\ wOwner = Child => wPc[Child] \in {"write", "unlock"}
  /\ wPc[Child] \in {"lock", "write", "unlock", "done", "failed"}
  /\ wPc[Main] # "failed"
  /\ wPc[Child] = "failed" => wPc[Main] \in {"check", "done"}

LEMMA WinMutexPlacesStep ==
  WinMutexInv /\ WinMutexPlaces /\ [WinMutex!Next]_winMutexVars => WinMutexPlaces'
<1> SUFFICES ASSUME WinMutexInv, WinMutexPlaces, [WinMutex!Next]_winMutexVars
             PROVE  WinMutexPlaces'
  OBVIOUS
<1>0. Main # Child /\ Nobody \notin {Main, Child}
  BY ExamplesAssumption DEF ExamplesAssumption
<1> USE <1>0 DEF WinMutexInv, WinMutexPlaces, WinMutex!TypeOK, WinMutex!PC,
        WinMutex!GoTo, WinMutex!WaitObject, WinMutex!WaitInVain, WinMutex!ReleaseMutex
<1>1. CASE WinMutex!ChildStep
  BY <1>1 DEF WinMutex!ChildStep, WinMutex!ChildLock, WinMutex!ChildWrite, WinMutex!Unlock
<1>2. CASE WinMutex!MainStep
  BY <1>2 DEF WinMutex!MainStep, WinMutex!Check, WinMutex!MainLock,
     WinMutex!MainLockFails, WinMutex!MainRead, WinMutex!DropGuard, WinMutex!Unlock,
     WinMutex!Join
<1>3. CASE UNCHANGED winMutexVars
  BY <1>3 DEF winMutexVars
<1>. QED
  BY <1>1, <1>2, <1>3 DEF WinMutex!Next

LEMMA WinMutexNotStuck == WinMutexInv /\ WinMutexPlaces => WinMutex!NobodyStuck
<1>0. Main # Child
  BY ExamplesAssumption DEF ExamplesAssumption
<1>. QED
  BY <1>0 DEF WinMutexInv, WinMutexPlaces, WinMutex!TypeOK, WinMutex!NobodyStuck,
              WinMutex!Blocked

\* Once main has set the event, a thread that waits will see a signal: it is
\* there, or a thread is about to set it.
EventInv ==
  /\ WinEvent!TypeOK
  /\ ePc[Main] \in {"set", "join", "done"}
  /\ \A c \in Children : ePc[c] # "join"
  /\ ePc[Main] # "set" /\ eCreated /\ (\E c \in Children : ePc[c] = "wait")
       => eSignalled \/ \E c \in Children : ePc[c] = "set"

LEMMA EventInvStep ==
  EventInv /\ [WinEvent!Next]_winEventVars => EventInv'
<1> SUFFICES ASSUME EventInv, [WinEvent!Next]_winEventVars PROVE EventInv'
  OBVIOUS
<1>0. Main \notin Children
  BY ExamplesAssumption DEF ExamplesAssumption
<1>1. WinEvent!TypeOK'
  BY EventStep DEF EventInv
<1> USE <1>0, <1>1 DEF EventInv, WinEvent!TypeOK, WinEvent!GoTo
<1>2. ASSUME NEW c \in Children, WinEvent!Wait(c) PROVE EventInv'
  <2>1. CASE eManual
    <3>1. eSignalled' <=> eSignalled
      BY <1>2, <2>1, Zenon DEF WinEvent!Wait
    <3>. QED
      BY <1>2, <2>1, <3>1 DEF WinEvent!Wait
  <2>2. CASE ~eManual
    <3>1. ePc'[c] = "set" /\ \A t \in (Children \cup {Main}) \ {c} : ePc'[t] = ePc[t]
      BY <1>2, <2>2 DEF WinEvent!Wait
    <3>. QED
      BY <1>0, <1>1, <1>2, <3>1 DEF WinEvent!Wait
  <2>. QED
    BY <2>1, <2>2
<1>3. ASSUME NEW t \in Children \cup {Main}, WinEvent!Set(t) PROVE EventInv'
  BY <1>3 DEF WinEvent!Set
<1>4. CASE WinEvent!Join
  BY <1>4 DEF WinEvent!Join
<1>5. CASE UNCHANGED winEventVars
  BY <1>5 DEF winEventVars
<1>. QED
  BY <1>2, <1>3, <1>4, <1>5 DEF WinEvent!Next, WinEvent!MainStep, WinEvent!ChildStep

LEMMA EventNotStuck == EventInv => WinEvent!NobodyStuck
<1> SUFFICES ASSUME EventInv, \A t \in Children \cup {Main} : WinEvent!Blocked(t)
             PROVE  ePc[Main] = "done"
  BY DEF WinEvent!NobodyStuck
<1> USE DEF EventInv, WinEvent!Blocked, WinEvent!TypeOK
<1>1. \A c \in Children : ePc[c] # "set"
  OBVIOUS
<1>2. \A c \in Children : ePc[c] = "wait" => FALSE
  BY <1>1
<1>3. \A c \in Children : ePc[c] \in {"done", "failed"}
  BY <1>2
<1>. QED
  BY <1>3

\* None of the example programs ends with all its threads waiting, for any number
\* of threads, other than in the two ways that Stranded and Deadlocked describe.
THEOREM NobodyStuckCorrect == Spec => []NobodyStuck
<1> DEFINE Places == /\ MutexPlaces /\ AtomicPlaces /\ NotifyPlaces /\ BarrierPlaces
                     /\ LatchPlaces /\ DetachPlaces /\ FuturePlaces /\ JoinedStarted
                     /\ WinMutexPlaces /\ EventInv
           Invs == /\ MutexInv /\ AtomicInv /\ SemaphoreInv /\ NotifyInv /\ BarrierInv
                   /\ LatchInv /\ DetachInv /\ FutureInv /\ JoinedInv /\ StringsInv
                   /\ WinMutexInv
<1>1. Spec => []Invs
  BY MutexInvariance, AtomicInvariance, SemaphoreInvariance, NotifyInvariance,
     BarrierInvariance, LatchInvariance, DetachInvariance, FutureInvariance,
     JoinedInvariance, StringsInvariance, WinMutexInvariance, PTL
<1>2. Init => Places
  <2>0. Main \notin Children /\ Child \in Children /\ Nobody \notin Children \cup {Main}
    BY ExamplesAssumption DEF ExamplesAssumption
  <2> SUFFICES ASSUME Init PROVE Places
    OBVIOUS
  <2>1. MutexPlaces /\ AtomicPlaces
    BY <2>0 DEF Init, Mutex!Init, MutexPlaces, Atomic!Init, AtomicPlaces
  <2>2. NotifyPlaces
    BY <2>0 DEF Init, Notify!Init, Notify!SyncInit, NotifyPlaces
  <2>3. BarrierPlaces /\ LatchPlaces
    BY <2>0 DEF Init, Barrier!Init, Barrier!Threads, BarrierPlaces, Latch!Init,
            Latch!StartPlace, Latch!Threads, LatchPlaces
  <2>4. DetachPlaces /\ FuturePlaces
    BY <2>0 DEF Init, Detach!Init, DetachPlaces, Future!Init, FuturePlaces
  <2>5. JoinedStarted /\ WinMutexPlaces
    BY <2>0 DEF Init, Joined!Init, JoinedStarted, WinMutex!Init, WinMutexPlaces
  <2>6. WinEvent!TypeOK
    BY EventInit DEF Init
  <2>7. EventInv
    BY <2>0, <2>6 DEF Init, WinEvent!Init, EventInv
  <2>. QED
    BY <2>1, <2>2, <2>3, <2>4, <2>5, <2>7
<1>3. Invs /\ Places /\ [Next]_vars => Places'
  BY ProgramSteps, MutexPlacesStep, AtomicPlacesStep, NotifyPlacesStep,
     BarrierPlacesStep, LatchPlacesStep, DetachPlacesStep, FuturePlacesStep,
     JoinedStartedStep, WinMutexPlacesStep, EventInvStep
<1>4. Invs /\ Places /\ Sum!NobodyStuck /\ Turn!NobodyStuck /\ Ring!NobodyStuck
        => NobodyStuck
  BY MutexNotStuck, AtomicNotStuck, SemaphoreNotStuck, NotifyNotStuck, BarrierNotStuck,
     LatchNotStuck, DetachNotStuck, FutureNotStuck, JoinedNotStuck, StringsNotStuck,
     WinMutexNotStuck, EventNotStuck
  DEF NobodyStuck
<1> HIDE DEF Places, Invs
<1>. QED
  BY <1>1, <1>2, <1>3, <1>4, SumNotStuck, TurnNotStuck, RingNotStuck, PTL DEF Spec

\* The two ways are final: no step leads out of them.
THEOREM StuckForGood ==
  Spec => [][/\ Semaphore!Stranded => Semaphore!Stranded'
             /\ Notify!Deadlocked => Notify!Deadlocked']_vars
<1>1. SemaphoreInv /\ Semaphore!Stranded /\ [Semaphore!Next]_semaphoreVars
        => Semaphore!Stranded'
  <2> SUFFICES ASSUME SemaphoreInv, Semaphore!Stranded,
                      [Semaphore!Next]_semaphoreVars
               PROVE  Semaphore!Stranded'
    OBVIOUS
  <2> USE ExamplesAssumption
      DEF ExamplesAssumption, SemaphoreInv, Semaphore!Stranded, Semaphore!Threads,
          Semaphore!TypeOK, Semaphore!GoTo
  \* Main has the token, so no child is about to release one.
  <2>1. \A c \in Children : sPc[c] \notin {"write", "release"}
    <3> SUFFICES ASSUME NEW c \in Children, sPc[c] \in {"write", "release"} PROVE FALSE
      OBVIOUS
    <3>1. Main \in SemaphoreHolders /\ c \in SemaphoreHolders /\ Main # c
      BY DEF SemaphoreHolders, Semaphore!HoldsToken
    <3>2. /\ IsFiniteSet(SemaphoreHolders \ {Main})
          /\ Cardinality(SemaphoreHolders \ {Main}) = Cardinality(SemaphoreHolders) - 1
      BY <3>1, HoldersFinite, FS_RemoveElement
    <3>3. Cardinality(SemaphoreHolders \ {Main}) = 0
      BY <3>2, HoldersFinite
    <3>4. SemaphoreHolders \ {Main} = {}
      BY <3>2, <3>3, FS_EmptySet
    <3>. QED
      BY <3>1, <3>4
  <2>2. ASSUME NEW t \in Semaphore!Threads, Semaphore!Step(t) PROVE FALSE
    BY <2>1, <2>2 DEF Semaphore!Step, Semaphore!Write, Semaphore!Release, Semaphore!Acquire
  <2>3. CASE Semaphore!Finish \/ Semaphore!Join
    BY <2>3 DEF Semaphore!Finish, Semaphore!Join
  <2>4. CASE UNCHANGED semaphoreVars
    BY <2>4 DEF semaphoreVars
  <2>. QED
    BY <2>2, <2>3, <2>4
    DEF Semaphore!Next, Semaphore!Terminated, Semaphore!vars, semaphoreVars
<1>2. NotifyInv /\ Notify!Deadlocked /\ [Notify!Next]_notifyVars => Notify!Deadlocked'
  <2>1. Main # Child /\ Nobody \notin {Main, Child}
    BY ExamplesAssumption DEF ExamplesAssumption
  <2>. QED
    BY <2>1
    DEF NotifyInv, Notify!TypeOK, Notify!Deadlocked, Notify!Next, Notify!MainStep,
        Notify!Step, Notify!Begin, Notify!SetFlag, Notify!Leave, Notify!Join,
        Notify!Unlock, Notify!Notify, Notify!Lock, Notify!Block, Notify!Wake,
        Notify!Proceed, Notify!Spurious, Notify!WakeSpuriously, Notify!Acquire,
        Notify!Release, Notify!Reacquire, Notify!Sleep, Notify!LockMutex,
        Notify!UnlockMutex, Notify!GoTo, notifyVars
<1>. QED
  BY <1>1, <1>2, SemaphoreInvariance, NotifyInvariance, ProgramSteps, PTL DEF Spec
=============================================================================
