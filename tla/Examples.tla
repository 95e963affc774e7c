------------------------------ MODULE Examples -------------------------------
(***************************************************************************)
(* The small example programs, of which a run of the executables starts    *)
(* one: each is a module of its own.  They share nothing; the variables of *)
(* the programs that were not started stay as they are.                    *)
(***************************************************************************)
EXTENDS Naturals, FiniteSets, Sequences

CONSTANTS
  Main,
  Children,  \* the other threads of the programs that may have several
  Child,     \* the other thread of those that have one
  Sibling,   \* the second child of NotifyAll
  Nobody,
  None, Start,  \* the other members of NotifyAll's enum State
  Limit,     \* of MutexCounter, AtomicSum, AtomicBound, NotifyAll; 10 in the code
  Phases,    \* of BarrierPhases; 3 in the code
  Items      \* of TurnTaking and TwoStrings; 3 in the code

ASSUME ExamplesAssumption ==
  /\ IsFiniteSet(Children)
  /\ Child \in Children /\ Main \notin Children
  /\ Sibling \notin {Main, Child}
  /\ Nobody \notin Children \cup {Main, Sibling}
  /\ {None, Start} \cap {Main, Child, Sibling} = {} /\ None # Start
  /\ Limit \in Nat \ {0} /\ Phases \in Nat \ {0} /\ Items \in Nat \ {0}

Programs == {"mutex", "atomic sum", "atomic", "semaphore", "turns", "notify_one",
             "notify_all", "barrier", "latch", "detach", "future", "thread",
             "strings", "windows mutex", "windows event"}

VARIABLES
  program,                                   \* the one that was started
  mOwner, mPc, mI, mResult,                  \* MutexCounter
  pPc, pI, pValue, pResult, pSeen,           \* AtomicSum
  aPc, aI, aReturned,                        \* AtomicBound
  sPc, sCount, sOutput,                      \* SemaphoreHandoff
  cOwner, cSleeping, cPc, cItem, cCurrent, cOutput,   \* TurnTaking
  nOwner, nSleeping, nVersion, nPc, nFlag, nResult,   \* NotifyOne
  rOwner, rSleeping, rPc, rI, rCurrent, rResult, rBuild, rReturned,  \* NotifyAll
  bPc, bWaiting, bFlag, bResult, bChecked,   \* BarrierPhases
  lVersion, lPc, lCount, lValue,             \* LatchCount
  dOwner, dDetached, dPc, dFlag, dResult, dSeen,      \* DetachedChild
  fVersion, fPc, fReady, fStatus, fResult,   \* StdFuture
  jVersion, jNrvo, jPc, jResult, jSeen, jReturned,  \* JoinedThread
  tOwner, tPc, tOutput,                      \* TwoStrings
  wCreated, wOwner, wPc,                     \* LiteMutex
  eManual, eCreated, eSignalled, ePc         \* LiteEvent

mutexVars == <<mOwner, mPc, mI, mResult>>
sumVars == <<pPc, pI, pValue, pResult, pSeen>>
atomicVars == <<aPc, aI, aReturned>>
semaphoreVars == <<sPc, sCount, sOutput>>
turnVars == <<cOwner, cSleeping, cPc, cItem, cCurrent, cOutput>>
notifyVars == <<nOwner, nSleeping, nVersion, nPc, nFlag, nResult>>
ringVars == <<rOwner, rSleeping, rPc, rI, rCurrent, rResult, rBuild, rReturned>>
barrierVars == <<bPc, bWaiting, bFlag, bResult, bChecked>>
latchVars == <<lVersion, lPc, lCount, lValue>>
detachVars == <<dOwner, dDetached, dPc, dFlag, dResult, dSeen>>
futureVars == <<fVersion, fPc, fReady, fStatus, fResult>>
joinedVars == <<jVersion, jNrvo, jPc, jResult, jSeen, jReturned>>
stringsVars == <<tOwner, tPc, tOutput>>
winMutexVars == <<wCreated, wOwner, wPc>>
winEventVars == <<eManual, eCreated, eSignalled, ePc>>

vars == <<program, mutexVars, sumVars, atomicVars, semaphoreVars, turnVars,
          notifyVars, ringVars, barrierVars, latchVars, detachVars, futureVars,
          joinedVars, stringsVars, winMutexVars, winEventVars>>

Mutex == INSTANCE MutexCounter
  WITH Threads <- Children \cup {Main}, owner <- mOwner, pc <- mPc, i <- mI,
       result <- mResult

Sum == INSTANCE AtomicSum
  WITH Sub <- Child, pc <- pPc, i <- pI, value <- pValue, result <- pResult,
       seen <- pSeen

Atomic == INSTANCE AtomicBound
  WITH Workers <- Children \cup {Main}, pc <- aPc, i <- aI, returned <- aReturned

Semaphore == INSTANCE SemaphoreHandoff
  WITH pc <- sPc, count <- sCount, output <- sOutput

Turn == INSTANCE TurnTaking
  WITH Threads <- {Main, Child}, Sub <- Child, N <- Items, owner <- cOwner,
       sleeping <- cSleeping, pc <- cPc, item <- cItem, current <- cCurrent,
       output <- cOutput

Notify == INSTANCE NotifyOne
  WITH Threads <- {Main, Child}, owner <- nOwner, sleeping <- nSleeping,
       version <- nVersion, pc <- nPc, flag <- nFlag, result <- nResult

Ring == INSTANCE NotifyAll
  WITH Threads <- {Main, Child, Sibling}, Builds <- {"nrvo", "move"},
       owner <- rOwner, sleeping <- rSleeping, pc <- rPc, i <- rI,
       current <- rCurrent, result <- rResult, build <- rBuild,
       returned <- rReturned

Barrier == INSTANCE BarrierPhases
  WITH pc <- bPc, waiting <- bWaiting, flag <- bFlag, result <- bResult,
       checked <- bChecked

Latch == INSTANCE LatchCount
  WITH version <- lVersion, pc <- lPc, count <- lCount, value <- lValue

Detach == INSTANCE DetachedChild
  WITH Threads <- {Main, Child}, owner <- dOwner, detached <- dDetached,
       pc <- dPc, flag <- dFlag, result <- dResult, seen <- dSeen

Future == INSTANCE StdFuture
  WITH version <- fVersion, pc <- fPc, ready <- fReady, status <- fStatus,
       result <- fResult

Joined == INSTANCE JoinedThread
  WITH version <- jVersion, nrvo <- jNrvo, pc <- jPc, result <- jResult,
       seen <- jSeen, returned <- jReturned

Strings == INSTANCE TwoStrings
  WITH Threads <- {Main, Child}, owner <- tOwner, pc <- tPc, output <- tOutput

WinMutex == INSTANCE LiteMutex
  WITH created <- wCreated, owner <- wOwner, pc <- wPc

WinEvent == INSTANCE LiteEvent
  WITH manual <- eManual, created <- eCreated, signalled <- eSignalled, pc <- ePc

\* Which variant of a program that was not started does not matter.
Init ==
  /\ program \in Programs
  /\ Mutex!Init /\ Sum!Init /\ Atomic!Init /\ Semaphore!Init /\ Turn!Init
  /\ Notify!Init /\ Ring!Init /\ Barrier!Init /\ Latch!Init /\ Detach!Init
  /\ Future!Init /\ Joined!Init /\ Strings!Init /\ WinMutex!Init /\ WinEvent!Init
  /\ program # "notify_one" => nVersion = "thread"
  /\ program # "notify_all" => rBuild = "nrvo"
  /\ program # "latch" => lVersion = "joined"
  /\ program # "detach" => ~dDetached
  /\ program # "future" => fVersion = "get"
  /\ program # "thread" => jVersion = "thread" /\ jNrvo
  /\ program # "windows mutex" => ~wCreated /\ wPc[Child] = "failed"
  /\ program # "windows event" =>
       ~eManual /\ ~eCreated /\ \A c \in Children : ePc[c] = "failed"

\* The program that was started takes a step, the others do not.
StepOf(name, step, own) == IF program = name THEN step ELSE UNCHANGED own

Next ==
  /\ UNCHANGED program
  /\ StepOf("mutex", Mutex!Next, mutexVars)
  /\ StepOf("atomic sum", Sum!Next, sumVars)
  /\ StepOf("atomic", Atomic!Next, atomicVars)
  /\ StepOf("semaphore", Semaphore!Next, semaphoreVars)
  /\ StepOf("turns", Turn!Next, turnVars)
  /\ StepOf("notify_one", Notify!Next, notifyVars)
  /\ StepOf("notify_all", Ring!Next, ringVars)
  /\ StepOf("barrier", Barrier!Next, barrierVars)
  /\ StepOf("latch", Latch!Next, latchVars)
  /\ StepOf("detach", Detach!Next, detachVars)
  /\ StepOf("future", Future!Next, futureVars)
  /\ StepOf("thread", Joined!Next, joinedVars)
  /\ StepOf("strings", Strings!Next, stringsVars)
  /\ StepOf("windows mutex", WinMutex!Next, winMutexVars)
  /\ StepOf("windows event", WinEvent!Next, winEventVars)

Spec == Init /\ [][Next]_vars

\* The operating system runs every thread of the program that was started, and
\* a wait ends for no reason finitely often.  The mutex need not be fair, as each
\* thread locks it finitely often; only in DetachedChild main polls under it, and
\* sleeps with it unlocked in between, so the child gets it in the end.
Fairness ==
  /\ \A t \in {Main, Child} : WF_turnVars(program = "turns" /\ Turn!Step(t))
  /\ WF_turnVars(program = "turns" /\ Turn!Join)
  /\ <>[][~Turn!Spurious]_turnVars
  /\ \A c \in Ring!Printers : WF_ringVars(program = "notify_all" /\ Ring!ChildStep(c))
  /\ WF_ringVars(program = "notify_all" /\ Ring!MainStep)
  /\ <>[][~Ring!Spurious]_ringVars
  /\ WF_semaphoreVars(program = "semaphore" /\ (Semaphore!Finish \/ Semaphore!Join))
  /\ \A t \in Semaphore!Threads :
       WF_semaphoreVars(program = "semaphore" /\ Semaphore!Step(t))
  /\ WF_notifyVars(program = "notify_one" /\ (Notify!MainStep \/ Notify!Step(Main)))
  /\ WF_notifyVars(program = "notify_one" /\ Notify!Step(Child))
  /\ <>[][~Notify!Spurious]_notifyVars
  /\ WF_barrierVars(program = "barrier" /\ Barrier!MainStep)
  /\ \A c \in Children : WF_barrierVars(program = "barrier" /\ Barrier!ChildStep(c))
  /\ WF_detachVars(program = "detach" /\ Detach!MainStep)
  /\ SF_detachVars(program = "detach" /\ Detach!ChildStep)
  /\ WF_futureVars(program = "future" /\ Future!MainStep)
  /\ WF_futureVars(program = "future" /\ Future!ChildStep)
  /\ WF_winMutexVars(program = "windows mutex" /\ WinMutex!MainStep)
  /\ WF_winMutexVars(program = "windows mutex" /\ WinMutex!ChildStep)
  /\ WF_winEventVars(program = "windows event" /\ WinEvent!MainStep)
  /\ \A c \in Children :
       WF_winEventVars(program = "windows event" /\ WinEvent!ChildStep(c))

FairSpec == Spec /\ Fairness

-----------------------------------------------------------------------------
TypeOK ==
  /\ program \in Programs
  /\ Mutex!TypeOK /\ Sum!TypeOK /\ Atomic!TypeOK /\ Semaphore!TypeOK /\ Turn!TypeOK
  /\ Notify!TypeOK /\ Ring!TypeOK /\ Barrier!TypeOK /\ Latch!TypeOK /\ Detach!TypeOK
  /\ Future!TypeOK /\ Joined!TypeOK /\ Strings!TypeOK /\ WinMutex!TypeOK
  /\ WinEvent!TypeOK

\* In no program does everybody wait for everybody while main's frame lives, but
\* for the two known ways of SemaphoreHandoff and NotifyOne.
NobodyStuck ==
  /\ Mutex!NobodyStuck /\ Sum!NobodyStuck /\ Atomic!NobodyStuck
  /\ Semaphore!NobodyStuck /\ Turn!NobodyStuck /\ Notify!NobodyStuck
  /\ Ring!NobodyStuck /\ Barrier!NobodyStuck /\ Latch!NobodyStuck
  /\ Detach!NobodyStuck /\ Future!NobodyStuck /\ Joined!NobodyStuck
  /\ Strings!NobodyStuck /\ WinMutex!NobodyStuck /\ WinEvent!NobodyStuck

\* No update of the sum is lost, and main's assertion, made without the mutex
\* and before the join, holds and races with no write (MutexCounter).
SumConserved == Mutex!SumConserved
RequireHolds == Mutex!RequireHolds

\* Every number claimed is added once, and the assertion before the join misses
\* what the other thread has pending and nothing else (AtomicSum).
ClaimsConserved == Sum!SumConserved
RequireMissesPending == Sum!RequireMissesPending

\* The counter passes the limit by fewer than there are threads (AtomicBound).
Overshoot == Atomic!Overshoot

\* One token goes round, and there is one way only in which the program does
\* not end (SemaphoreHandoff).
OneToken == Semaphore!OneToken
FinishesOrStrands == program = "semaphore" => Semaphore!FinishesOrStrands

\* The output comes in order, no notification is lost, and both threads end
\* (TurnTaking).
OutputInOrder == Turn!OutputInOrder
NoLostNotify == Turn!NoLostNotify
TurnsEnd == program = "turns" => Turn!Finishes

\* The caller gets what its build can give, no child is left asleep, and all
\* threads end (NotifyAll).
CallerGets == Ring!CallerGets
NoChildStranded == Ring!NoChildStranded
RingEnds == program = "notify_all" => Ring!Finishes

\* Both programs implement Alternation (TurnTaking, NotifyAll).
Alternates == Turn!Turns!Spec /\ Ring!Alternates

\* The child is not left asleep, and the only way not to end is main's join
\* under the lock (NotifyOne).
ChildToBeNotified == Notify!ChildToBeNotified
FinishesOrDeadlocks == program = "notify_one" => Notify!FinishesOrDeadlocks

\* The sum follows the meetings, main waits for none in vain, and a child that
\* comes to one too many stays (BarrierPhases).
SumFollowsMeetings == Barrier!SumFollowsMeetings
MainReturns == program = "barrier" => Barrier!MainReturns
StragglersStay == Barrier!StragglersStay

\* The sum main reads behind the latch is complete (LatchCount).
LatchCounts == Latch!LatchCounts

\* What main hands to its caller after the join is final, and complete as far as
\* the appends have left it so: the string of one thread and one join, the two
\* strings of two threads, and the end of the string of a child that was not
\* detached (JoinedThread, TwoStrings, DetachedChild).
WholeOnReturn ==
  Joined!WholeOnReturn /\ Strings!StringsComplete /\ Detach!JoinedKeepsLast

\* Main's frame outlives the call in which the child makes the future ready
\* (StdFuture).
FrameOutlivesChild == Future!FrameOutlivesChild

\* Main's polling loops end, with the child's value where there is one
\* (DetachedChild, StdFuture).
PollingEnds ==
  /\ program = "detach" => Detach!DetachReturns
  /\ program = "future" => Future!Delivers

\* Guards that time out do not break the exclusion (LiteMutex).
GuardExcludes == WinMutex!GuardExcludes

\* The assertions of the test cases that no wait of one thread for another makes
\* true, only the lengths of the sleeps (and in jthread_example.cpp the NRVO of the
\* build): two threads append to a string in the order required
\* (thread_example.cpp:33, jthread_example.cpp:31,
\* condition_variable_notify_one_example.cpp:52, detach_example.cpp:68 and :69), and
\* main reads the sum before the next round of the children has begun
\* (barrier_example.cpp:35, :38 and :41).
TestsRequire ==
  /\ Joined!StringRequired /\ Notify!StringRequired /\ Detach!StringRequired
  /\ Barrier!RequireHolds

\* The mutex and the event program of windows.cpp end: main gets the mutex, unless
\* there is none, and one signal reaches every thread (LiteMutex, LiteEvent).
WindowsEnds ==
  /\ program = "windows mutex" => WinMutex!EndsWithMutex
  /\ program = "windows event" => WinEvent!SignalReachesAll
=============================================================================
