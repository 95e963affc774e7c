-------------------------- MODULE LiteAsync_proofs --------------------------
(***************************************************************************)
(* Proofs about LiteAsync, for every finite set of future objects, every   *)
(* behaviour of the caller and both treatments of `return ft;`.            *)
(***************************************************************************)
EXTENDS LiteAsync, FiniteSetTheorems, TLAPS

USE DEF blockVars, asyncVars, vars

LEMMA FutsFinite ==
  ASSUME TypeOK
  PROVE  /\ IsFiniteSet(futs)
         /\ Cardinality(futs) \in Nat
         /\ Cardinality(futs) = 0 <=> futs = {}
<1>1. IsFiniteSet(Futures) /\ futs \in SUBSET Futures
  BY FuturesAssumption DEF TypeOK, BlockTypeOK
<1>2. IsFiniteSet(futs)
  BY <1>1, FS_Subset
<1>. QED
  BY <1>2, FS_CardinalityType, FS_EmptySet

-----------------------------------------------------------------------------
(* Type correctness. *)

LEMMA TypeInit == Init => TypeOK
  BY AsyncAssumption DEF Init, BlockInit, TypeOK, BlockTypeOK, CallerPC, WorkerPC

LEMMA TypeStep == TypeOK /\ [Next]_vars => TypeOK'
<1> SUFFICES ASSUME TypeOK, [Next]_vars PROVE TypeOK'
  OBVIOUS
<1> USE DEF TypeOK, BlockTypeOK, CallerPC, WorkerPC
<1>1. CASE NewTask
  BY <1>1 DEF NewTask, NewBlock
<1>2. CASE GetFuture
  BY <1>2 DEF GetFuture, Attach
<1>3. ASSUME NEW here, NEW next \in {"spawn", "user"}, ReturnFuture(here, next)
      PROVE TypeOK'
  <2>1. CASE UNCHANGED <<blockVars, cont, dying>> /\ pc' = next
    BY <1>3, <2>1 DEF ReturnFuture
  <2>2. CASE \E f \in futs, g \in Futures :
               Attach(g) /\ dying' = f /\ cont' = next /\ pc' = "dtor"
    BY <1>3, <2>2 DEF ReturnFuture, Attach
  <2>. QED
    BY <1>3, <2>1, <2>2 DEF ReturnFuture
<1>4. CASE Spawn
  BY <1>4 DEF Spawn
<1>5. CASE CopyFuture
  BY <1>5 DEF CopyFuture, Attach
<1>6. CASE BeginWait
  BY <1>6 DEF BeginWait
<1>7. CASE WaitReturns
  BY <1>7 DEF WaitReturns, TakeEvent
<1>8. CASE WaitFor
  BY <1>8 DEF WaitFor, TakeEvent
<1>9. CASE Get
  BY <1>9 DEF Get
<1>10. CASE DestroyFuture
  BY <1>10 DEF DestroyFuture
<1>11. CASE DtorDecrease
  BY <1>11 DEF DtorDecrease, Release, CountDown
<1>12. CASE DtorJoin
  BY <1>12 DEF DtorJoin
<1>13. CASE DtorTask
  BY <1>13 DEF DtorTask, DeleteIfUncounted, DeleteBlock
<1>14. CASE DtorBlock
  BY <1>14 DEF DtorBlock, DeleteBlock
<1>15. CASE WorkerCall
  BY <1>15 DEF WorkerCall
<1>16. CASE WorkerStore
  BY <1>16 DEF WorkerStore, StoreValue
<1>17. CASE WorkerRaise
  BY <1>17 DEF WorkerRaise, RaiseEvent
<1>18. CASE UNCHANGED vars
  BY <1>18
<1>. QED
  BY <1>1, <1>2, <1>3, <1>4, <1>5, <1>6, <1>7, <1>8, <1>9, <1>10, <1>11,
     <1>12, <1>13, <1>14, <1>15, <1>16, <1>17, <1>18
  DEF Next, Library, User, Worker, Finished, ReturnFromGetFuture,
      ReturnFromAsync

\* Every variable of the block, the caller and the worker stays in its range.
THEOREM TypeCorrect == Spec => []TypeOK
  BY TypeInit, TypeStep, PTL DEF Spec

-----------------------------------------------------------------------------
(* Counting: CountsFutures is inductive by itself, relative to TypeOK.     *)

LEMMA AttachCounts ==
  ASSUME TypeOK, CountsFutures, NEW f \in Futures, Attach(f)
  PROVE  CountsFutures'
  BY FutsFinite, FS_AddElement DEF Attach, CountsFutures

LEMMA ReleaseCounts ==
  ASSUME TypeOK, CountsFutures, NEW f, Release(f)
  PROVE  CountsFutures'
<1>1. Cardinality(futs \ {f}) = Cardinality(futs) - 1
  BY FutsFinite, FS_RemoveElement DEF Release, CountDown
<1>2. count > 0
  BY FutsFinite DEF Release, CountDown, CountsFutures
<1>. QED
  BY <1>1, <1>2 DEF Release, CountDown, CountsFutures

LEMMA CountStep == TypeOK /\ CountsFutures /\ [Next]_vars => CountsFutures'
<1> SUFFICES ASSUME TypeOK, CountsFutures, [Next]_vars PROVE CountsFutures'
  OBVIOUS
<1>1. CASE \E f \in Futures : Attach(f)
  BY <1>1, AttachCounts
<1>2. CASE \E f : Release(f)
  BY <1>2, ReleaseCounts
<1>3. CASE UNCHANGED <<count, futs>>
  BY <1>3 DEF CountsFutures
<1>. QED
  BY <1>1, <1>2, <1>3
  DEF Next, Library, User, Worker, Finished, NewTask, NewBlock, GetFuture,
      ReturnFromGetFuture, ReturnFromAsync, ReturnFuture, Spawn, CopyFuture,
      BeginWait, WaitReturns, WaitFor, TakeEvent, Get, DestroyFuture,
      DtorDecrease, DtorJoin, DtorTask, DeleteIfUncounted, DtorBlock,
      DeleteBlock, WorkerCall, WorkerStore, StoreValue, WorkerRaise, RaiseEvent

\* m_count equals the number of live future objects in every reachable state.
THEOREM CountingCorrect == Spec => []CountsFutures
<1>1. Init => CountsFutures
  BY FS_EmptySet DEF Init, BlockInit, CountsFutures
<1>. QED
  BY <1>1, CountStep, TypeCorrect, PTL DEF Spec

-----------------------------------------------------------------------------
(* The inductive invariant behind the lifetime and the hand-over of the     *)
(* result: what is known of the block at each place of the caller, and of   *)
(* the result at each place of the worker.                                  *)

BeforeSpawn ==
  \/ pc \in {"new_task", "get_future", "get_future_return", "spawn"}
  \/ pc = "dtor" /\ cont = "spawn"

CallerInv ==
  /\ alloc = "none" <=> pc = "new_task"
  /\ alloc = "freed" => pc \in {"delete_block", "done"}
  /\ pc \in {"new_task", "get_future", "join", "delete_task", "delete_block",
             "done"} => futs = {}
  /\ pc = "dtor" => dying \in futs
  /\ pc = "wait" => futs # {}
  /\ pc = "delete_task" => dying = carrier
  /\ pc \in {"delete_task", "delete_block", "done"} /\ dying = carrier
       => WorkerFinished
  /\ pc \notin {"delete_block", "done"} => deletes = 0
  /\ pc = "delete_block" => deletes = IF dying = carrier THEN 1 ELSE 0
  /\ pc = "done" => alloc = "freed"
  /\ worker = "none" <=> BeforeSpawn

\* The task and the thread object: not there yet, live, or freed by the carrier.
\* The temporary of get_future() is not the last future.
ObjectsInv ==
  /\ task = "none" <=> pc = "new_task"
  /\ thr = "none" <=> BeforeSpawn
  /\ pc = "dtor" /\ cont = "spawn" => futs # {dying}
  /\ task = "freed" <=> pc \in {"delete_block", "done"} /\ dying = carrier
  /\ thr = "freed" <=>
       pc \in {"delete_task", "delete_block", "done"} /\ dying = carrier
  /\ pc = "done" => deletes = IF dying = carrier THEN 2 ELSE 1

ResultInv ==
  /\ waits \in {0, 1}
  /\ waits = 1 => worker = "done" /\ event = "nonsignalled" /\ value = "result"
  /\ event = "signalled" => worker = "done" /\ value = "result"
  /\ worker = "raise" /\ alloc = "live" => value = "result"
  /\ worker = "done" /\ alloc = "live" => event \in {"signalled", "null"} \/ waits = 1

IInv ==
  /\ TypeOK
  /\ CountsFutures
  /\ CallerInv
  /\ ObjectsInv
  /\ ResultInv

LEMMA CallerStep == IInv /\ [Next]_vars => CallerInv' /\ ObjectsInv'
<1> SUFFICES ASSUME IInv, [Next]_vars
             PROVE  CallerInv' /\ ObjectsInv'
  OBVIOUS
<1> USE DEF IInv, CallerInv, ObjectsInv, BeforeSpawn, WorkerFinished
<1>1. CASE NewTask
  BY <1>1 DEF NewTask, NewBlock
<1>2. CASE GetFuture
  BY <1>2 DEF GetFuture, Attach
<1>3. ASSUME NEW here, NEW next, ReturnFuture(here, next),
             \/ here = "get_future_return" /\ next = "spawn"
             \/ here = "async_return" /\ next = "user"
      PROVE CallerInv' /\ ObjectsInv'
  <2>1. CASE UNCHANGED <<blockVars, cont, dying>> /\ pc' = next
    BY <1>3, <2>1 DEF ReturnFuture
  <2>2. CASE \E f \in futs, g \in Futures :
               Attach(g) /\ dying' = f /\ cont' = next /\ pc' = "dtor"
    BY <1>3, <2>2 DEF ReturnFuture, Attach
  <2>. QED
    BY <1>3, <2>1, <2>2 DEF ReturnFuture
<1>4. CASE Spawn
  BY <1>4 DEF Spawn
<1>5. CASE CopyFuture
  BY <1>5 DEF CopyFuture, Attach
<1>6. CASE BeginWait
  BY <1>6 DEF BeginWait
<1>7. CASE WaitReturns
  BY <1>7 DEF WaitReturns, TakeEvent
<1>8. CASE WaitFor
  BY <1>8 DEF WaitFor, TakeEvent
<1>9. CASE Get
  BY <1>9 DEF Get
<1>10. CASE DestroyFuture
  BY <1>10 DEF DestroyFuture
<1>11. CASE DtorDecrease
  \* Reaching zero means that no future object is left.
  <2>1. CountsFutures' /\ TypeOK'
    BY CountStep, TypeStep
  <2>2. count' = 0 => futs' = {}
    <3>1. IsFiniteSet(futs')
      BY FutsFinite, FS_RemoveElement, <1>11 DEF DtorDecrease, Release, CountDown
    <3>. QED
      BY <2>1, <3>1, FS_EmptySet DEF CountsFutures
  <2>3. cont \in {"spawn", "user"}
    BY DEF TypeOK
  <2>. QED
    BY <1>11, <2>2, <2>3 DEF DtorDecrease, Release, CountDown
<1>12. CASE DtorJoin
  BY <1>12 DEF DtorJoin
<1>13. CASE DtorTask
  <2>1. count = 0
    BY <1>13, FS_EmptySet DEF DtorTask, CountsFutures
  <2>. QED
    BY <1>13, <2>1 DEF DtorTask, DeleteIfUncounted, DeleteBlock, TypeOK, BlockTypeOK
<1>14. CASE DtorBlock
  BY <1>14 DEF DtorBlock, DeleteBlock, TypeOK, BlockTypeOK
<1>15. CASE WorkerCall
  BY <1>15 DEF WorkerCall
<1>16. CASE WorkerStore
  BY <1>16 DEF WorkerStore, StoreValue
<1>17. CASE WorkerRaise
  BY <1>17 DEF WorkerRaise, RaiseEvent
<1>18. CASE UNCHANGED vars
  BY <1>18
<1>. QED
  BY <1>1, <1>2, <1>3, <1>4, <1>5, <1>6, <1>7, <1>8, <1>9, <1>10, <1>11,
     <1>12, <1>13, <1>14, <1>15, <1>16, <1>17, <1>18
  DEF Next, Library, User, Worker, Finished, ReturnFromGetFuture,
      ReturnFromAsync

LEMMA ResultStep == IInv /\ [Next]_vars => ResultInv'
<1> SUFFICES ASSUME IInv, [Next]_vars PROVE ResultInv'
  OBVIOUS
<1> USE DEF IInv, ResultInv
<1>1. CASE UNCHANGED <<waits, event, value, worker>> /\ (alloc' = alloc \/ alloc' = "freed")
  BY <1>1
<1>2. CASE NewTask
  BY <1>2 DEF NewTask, NewBlock, CallerInv, BeforeSpawn
<1>3. CASE Spawn
  BY <1>3 DEF Spawn, CallerInv, BeforeSpawn
<1>4. CASE WaitReturns
  BY <1>4 DEF WaitReturns, TakeEvent
<1>5. CASE WaitFor
  BY <1>5 DEF WaitFor, TakeEvent
<1>6. CASE WorkerCall
  BY <1>6 DEF WorkerCall
<1>7. CASE WorkerStore
  BY <1>7 DEF WorkerStore, StoreValue
<1>8. CASE WorkerRaise
  BY <1>8 DEF WorkerRaise, RaiseEvent
<1>. QED
  BY <1>1, <1>2, <1>3, <1>4, <1>5, <1>6, <1>7, <1>8
  DEF Next, Library, User, Worker, Finished, GetFuture, ReturnFromGetFuture,
      ReturnFromAsync, ReturnFuture, Attach, CopyFuture, BeginWait, Get,
      DestroyFuture, DtorDecrease, Release, CountDown, DtorJoin, DtorTask,
      DeleteIfUncounted, DtorBlock, DeleteBlock

\* IInv holds in every reachable state.
THEOREM Invariance == Spec => []IInv
<1>1. Init => IInv
  <2>1. Init => TypeOK /\ CountsFutures
    BY TypeInit, FS_EmptySet DEF Init, BlockInit, CountsFutures
  <2>. QED
    BY <2>1 DEF Init, BlockInit, IInv, CallerInv, ObjectsInv, BeforeSpawn,
                ResultInv, WorkerFinished
<1>2. IInv /\ [Next]_vars => IInv'
  BY TypeStep, CountStep, CallerStep, ResultStep DEF IInv
<1>. QED
  BY <1>1, <1>2, PTL DEF Spec

-----------------------------------------------------------------------------
(* The safety properties of LiteAsync follow from IInv.                     *)

\* No sequence of copies, returns and destructions deletes the block while a
\* future object still holds it.
THEOREM BlockHeld == Spec => []HoldersKeepBlock
<1>1. IInv => HoldersKeepBlock
  BY DEF IInv, CallerInv, HoldersKeepBlock, TypeOK, BlockTypeOK
<1>. QED
  BY <1>1, Invariance, PTL

\* The worker never uses a freed task or thread object.  It writes to the block
\* after its deletion only if the last future was a copy (which joins no thread)
\* and no wait was ever satisfied.
THEOREM WorkerProtected == Spec => []OutliveWorker
<1>1. IInv => OutliveWorker
  BY DEF IInv, CallerInv, ObjectsInv, BeforeSpawn, ResultInv, OutliveWorker,
         WorkerFinished, TypeOK, BlockTypeOK, WorkerPC
<1>. QED
  BY <1>1, Invariance, PTL

\* A caller blocked for good in wait() has already taken the result, or its
\* thread was never created.
THEOREM WakeupNotLost == Spec => []NoLostWakeup
<1>1. IInv => NoLostWakeup
  BY DEF IInv, CallerInv, ResultInv, NoLostWakeup, WorkerFinished,
         TypeOK, BlockTypeOK
<1>. QED
  BY <1>1, Invariance, PTL

\* One set_value satisfies at most one wait.
THEOREM TakenOnce == Spec => []ResultTakenOnce
<1>1. IInv => ResultTakenOnce
  BY DEF IInv, ResultInv, ResultTakenOnce
<1>. QED
  BY <1>1, Invariance, PTL

\* The last future to die frees the block, and the task and the thread object
\* exactly if it is their carrier; a copy deletes the block once.
THEOREM ReleaseExact == Spec => []LastFutureReleases
<1>1. IInv => LastFutureReleases
  BY DEF IInv, CallerInv, ObjectsInv, BeforeSpawn, LastFutureReleases, TypeOK
<1>. QED
  BY <1>1, Invariance, PTL

-----------------------------------------------------------------------------
(* A build that copies at every `return ft;`.  async() returns a copy of the *)
(* carrier and destroys the carrier, so none is left for the caller to hold. *)

CopyingInv ==
  /\ pc \in {"get_future_return", "spawn"} => \E f \in Futures : futs = {f}
  /\ pc = "dtor" /\ cont = "spawn" =>
       \E g \in Futures : g # dying /\ futs = {dying, g}
  /\ pc = "async_return" => futs = {carrier}
  /\ pc = "dtor" /\ cont = "user" =>
       carrier = NoFuture \/ (carrier = dying /\ futs # {dying})
  /\ pc \in {"dtor", "join", "delete_block", "done"} => dying # NoFuture
  /\ pc \in {"user", "wait", "join", "delete_block", "done"} => carrier = NoFuture
  /\ pc # "delete_task"

LEMMA CopyingStep ==
  Elision = {FALSE} /\ IInv /\ CopyingInv /\ [Next]_vars => CopyingInv'
<1> SUFFICES ASSUME Elision = {FALSE}, IInv, CopyingInv, [Next]_vars
             PROVE  CopyingInv'
  OBVIOUS
<1> USE AsyncAssumption DEF CopyingInv
<1>1. CASE NewTask
  BY <1>1 DEF NewTask, NewBlock
<1>2. CASE GetFuture
  BY <1>2 DEF GetFuture, Attach, IInv, CallerInv
<1>3. CASE ReturnFromGetFuture
  BY <1>3 DEF ReturnFromGetFuture, ReturnFuture, Attach
<1>4. CASE Spawn
  BY <1>4 DEF Spawn
<1>5. CASE ReturnFromAsync
  <2>1. PICK f \in futs, g \in Futures : Attach(g) /\ dying' = f
    BY <1>5 DEF ReturnFromAsync, ReturnFuture
  <2>2. f = carrier /\ f \in Futures /\ g # f /\ futs' = {f, g}
    BY <1>5, <2>1 DEF ReturnFromAsync, ReturnFuture, Attach, IInv, TypeOK, BlockTypeOK
  <2>. QED
    BY <1>5, <2>1, <2>2 DEF ReturnFromAsync, ReturnFuture
<1>6. CASE CopyFuture
  BY <1>6 DEF CopyFuture, Attach
<1>7. CASE BeginWait \/ WaitReturns \/ WaitFor \/ Get
  BY <1>7 DEF BeginWait, WaitReturns, WaitFor, TakeEvent, Get
<1>8. CASE DestroyFuture
  BY <1>8 DEF DestroyFuture, IInv, TypeOK, BlockTypeOK
<1>9. CASE DtorDecrease
  \* A carrier that dies is not the last future.
  <2>1. CountsFutures' /\ TypeOK'
    BY CountStep, TypeStep DEF IInv
  <2>2. futs' = futs \ {dying}
    BY <1>9 DEF DtorDecrease, Release, CountDown
  <2>3. count' = 0 => futs' = {}
    <3>1. IsFiniteSet(futs')
      BY FutsFinite, FS_RemoveElement, <2>2 DEF IInv
    <3>. QED
      BY <2>1, <3>1, FS_EmptySet DEF CountsFutures
  <2>4. cont \in {"spawn", "user"} /\ dying \in futs
    BY <1>9 DEF DtorDecrease, Release, CountDown, IInv, TypeOK
  <2>. QED
    BY <1>9, <2>2, <2>3, <2>4 DEF DtorDecrease
<1>10. CASE DtorJoin \/ DtorTask \/ DtorBlock
  BY <1>10 DEF DtorJoin, DtorTask, DtorBlock, DeleteBlock, IInv, CallerInv
<1>11. CASE Worker
  BY <1>11 DEF Worker, WorkerCall, WorkerStore, StoreValue, WorkerRaise, RaiseEvent
<1>12. CASE UNCHANGED vars
  BY <1>12
<1>. QED
  BY <1>1, <1>2, <1>3, <1>4, <1>5, <1>6, <1>7, <1>8, <1>9, <1>10, <1>11, <1>12
  DEF Next, Library, User, Finished

\* The task and the thread object of a finished run: neither was released.
NothingReleased == pc = "done" => task = "live" /\ thr = "live" /\ deletes = 1

\* In a build that copies at `return ft;`, no caller can make async() release
\* what it allocated: whatever it does with its futures, task and thread leak.
THEOREM CopyingBuildLeaks ==
  ASSUME Elision = {FALSE}
  PROVE  Spec => []NothingReleased
<1>1. Init => CopyingInv
  BY DEF Init, CopyingInv
<1>2. IInv /\ CopyingInv /\ [Next]_vars => CopyingInv'
  BY CopyingStep
<1>3. IInv /\ CopyingInv => NothingReleased
  BY DEF IInv, CopyingInv, ObjectsInv, BeforeSpawn, NothingReleased, TypeOK
<1>. QED
  BY <1>1, <1>2, <1>3, Invariance, PTL DEF Spec

\* get() after a satisfied wait never returns the uninitialised member.
THEOREM GetAfterWaitCorrect == Spec => GetAfterWait
<1>1. IInv /\ [Next]_vars => [got' # got /\ waits > 0 => got' = "result"]_vars
  <2> SUFFICES ASSUME IInv, [Next]_vars, got' # got, waits > 0
               PROVE  got' = "result"
    OBVIOUS
  <2>1. Get
    BY DEF Next, Library, User, Worker, Finished, NewTask, GetFuture,
       ReturnFromGetFuture, ReturnFromAsync, ReturnFuture, Spawn, CopyFuture,
       BeginWait, WaitReturns, WaitFor, DestroyFuture, DtorDecrease, DtorJoin,
       DtorTask, DtorBlock, WorkerCall, WorkerStore, WorkerRaise
  <2>. QED
    BY <2>1 DEF Get, IInv, ResultInv
<1>. QED
  BY <1>1, Invariance, PTL DEF Spec, GetAfterWait

\* The worker and the futures implement OneShot: the result is produced once,
\* one wait takes it, and get() returns it from then on.
THEOREM HandOver == Spec => ImplementsOneShot
<1>1. Init => ResultHandOver!Init
  BY DEF Init, BlockInit, ResultHandOver!Init
<1>2. IInv /\ [Next]_vars => [ResultHandOver!Next]_ResultHandOver!vars
  <2> SUFFICES ASSUME IInv, [Next]_vars
               PROVE  [ResultHandOver!Next]_ResultHandOver!vars
    OBVIOUS
  <2> USE DEF ResultHandOver!vars, ResultHandOver!Next
  <2>1. CASE UNCHANGED <<event, waits, got>>
    BY <2>1
  <2>2. CASE TakeEvent /\ waits' = waits + 1 /\ UNCHANGED got
    BY <2>2 DEF TakeEvent, IInv, ResultInv, ResultHandOver!Take
  <2>3. CASE Get
    BY <2>3 DEF Get, IInv, ResultInv, TypeOK, BlockTypeOK, ResultHandOver!Get
  <2>4. CASE WorkerRaise
    BY <2>4 DEF WorkerRaise, RaiseEvent, IInv, ResultInv, ResultHandOver!Produce
  <2>5. CASE NewTask
    BY <2>5 DEF NewTask, NewBlock, IInv, ResultInv, CallerInv, BeforeSpawn
  <2>. QED
    BY <2>1, <2>2, <2>3, <2>4, <2>5
    DEF Next, Library, User, Worker, Finished, GetFuture,
        ReturnFromGetFuture, ReturnFromAsync, ReturnFuture, Attach, Spawn,
        CopyFuture, BeginWait, WaitReturns, WaitFor, DestroyFuture, DtorDecrease,
        Release, CountDown, DtorJoin, DtorTask, DeleteIfUncounted, DtorBlock,
        DeleteBlock, WorkerCall, WorkerStore, StoreValue
<1>. QED
  BY <1>1, <1>2, Invariance, PTL DEF Spec, ImplementsOneShot, ResultHandOver!Spec
=============================================================================
