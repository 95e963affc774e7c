------------------------- MODULE LitePromise_proofs --------------------------
(***************************************************************************)
(* Proofs about LitePromise, for every finite set of future objects and    *)
(* every client.                                                           *)
(***************************************************************************)
EXTENDS LitePromise, FiniteSetTheorems, TLAPS

USE DEF blockVars, clientVars, vars

\* The Boolean variables, apart from the rest, which is arithmetic and sets.
Booleans == obtained \in BOOLEAN /\ miscounted \in BOOLEAN

LEMMA BooleanStep == Booleans /\ Next => Booleans'
<1> SUFFICES ASSUME Booleans, Next PROVE Booleans'
  OBVIOUS
<1>1. CASE UNCHANGED <<obtained, miscounted>>
  BY <1>1 DEF Booleans
<1>2. CASE GetFuture
  BY <1>2, Zenon DEF GetFuture, Through, Booleans
<1>3. CASE AssignFuture
  BY <1>3, Zenon DEF AssignFuture, Booleans
<1>. QED
  BY <1>1, <1>2, <1>3
  DEF Next, Client, NewPromise, Spawn, DestroyPromise, CopyFuture, DefaultFuture,
      DestroyFuture, WaitReturns, Get, UseEmpty, WorkerStore, WorkerRaise, Through

LEMMA TypeStep == TypeOK /\ [Next]_vars => TypeOK'
<1> SUFFICES ASSUME TypeOK, Next PROVE TypeOK'
  BY DEF TypeOK, BlockTypeOK
<1>0. Booleans'
  BY BooleanStep DEF TypeOK, Booleans
<1> USE <1>0 DEF TypeOK, BlockTypeOK, Through, Booleans
<1>1. CASE NewPromise \/ Spawn \/ DefaultFuture \/ UseEmpty
  BY <1>1 DEF NewPromise, NewBlock, Spawn, DefaultFuture, UseEmpty, Unused
<1>2. CASE GetFuture \/ CopyFuture
  BY <1>2 DEF GetFuture, CopyFuture, Attach, Unused
<1>3. CASE DestroyPromise
  BY <1>3 DEF DestroyPromise, DeleteIfUncounted, DeleteBlock
<1>4. CASE AssignFuture
  BY <1>4 DEF AssignFuture
<1>5. CASE DestroyFuture
  BY <1>5 DEF DestroyFuture, CountDown
<1>6. CASE WaitReturns \/ Get
  BY <1>6 DEF WaitReturns, TakeEvent, Get
<1>7. CASE WorkerStore \/ WorkerRaise
  BY <1>7 DEF WorkerStore, WorkerRaise, StoreValue, RaiseEvent
<1>. QED
  BY <1>1, <1>2, <1>3, <1>4, <1>5, <1>6, <1>7 DEF Next, Client

LEMMA TypeInit == Init => TypeOK
<1>1. Init => Booleans
  BY Zenon DEF Init, Booleans
<1>. QED
  BY <1>1 DEF Init, BlockInit, TypeOK, BlockTypeOK, Booleans

\* Every variable stays in its range; no object is attached and empty.
THEOREM TypeCorrect == Spec => []TypeOK
  BY TypeInit, TypeStep, PTL DEF Spec

-----------------------------------------------------------------------------
(* The inductive invariant: what is known before the first get_future, that *)
(* the count is right while it was not upset, and how the result gets from  *)
(* the worker to the waits.                                                 *)

StartInv ==
  /\ promise = "none" <=> alloc = "none"
  /\ alloc = "none" => futs = {} /\ worker = "none" /\ ~obtained /\ count = 0
  /\ ~obtained => count = 0 \/ miscounted
  /\ futs # {} => obtained

CountInv == ~miscounted => count = Cardinality(futs)

ResultInv ==
  /\ waits \in {0, 1}
  /\ waits = 1 => worker = "done" /\ event = "nonsignalled" /\ value = "result"
  /\ event = "signalled" => worker = "done" /\ value = "result"
  /\ worker = "raise" => value = "result"

IInv == TypeOK /\ StartInv /\ CountInv /\ BlockKept /\ UseAfterFree /\ ResultInv

LEMMA FutsFinite ==
  ASSUME TypeOK
  PROVE  /\ IsFiniteSet(futs) /\ Cardinality(futs) \in Nat
         /\ Cardinality(futs) = 0 <=> futs = {}
<1>1. IsFiniteSet(futs)
  BY FuturesAssumption, FS_Subset DEF TypeOK, BlockTypeOK
<1>. QED
  BY <1>1, FS_CardinalityType, FS_EmptySet

\* A step that is undefined changes nothing else.
LEMMA UndefinedStep ==
  ASSUME IInv, NEW who \in {"promise", "future", "worker"}, ~Usable(who),
         undefined' = who, UNCHANGED <<blockVars, clientVars>>,
         who = "promise" => promise = "live",
         who = "future" => futs # {},
         who = "worker" => worker \in {"store", "raise"}
  PROVE  IInv'
<1>1. TypeOK' /\ StartInv' /\ CountInv' /\ BlockKept' /\ ResultInv'
  BY DEF IInv, TypeOK, BlockTypeOK, StartInv, CountInv, BlockKept, ResultInv
<1>2. UseAfterFree'
  BY DEF IInv, Usable, TypeOK, BlockTypeOK, StartInv, BlockKept, ResultInv, UseAfterFree
<1>. QED
  BY <1>1, <1>2 DEF IInv

LEMMA Attached ==
  ASSUME IInv, NEW f \in Unused, Attach(f), UNCHANGED undefined, alloc = "live",
         obtained', UNCHANGED <<promise, empty, miscounted, worker, waits, got>>
  PROVE  CountInv' /\ BlockKept' /\ StartInv'
<1>1. Cardinality(futs') = Cardinality(futs) + 1
  BY FutsFinite, FS_AddElement DEF Attach, IInv
<1>2. CountInv'
  BY <1>1 DEF IInv, CountInv, Attach
<1>. QED
  BY <1>2 DEF IInv, StartInv, BlockKept, Attach

LEMMA Detached ==
  ASSUME IInv, NEW f, CountDown(f), alloc = "live",
         IF count' = 0 THEN alloc' = "freed" ELSE UNCHANGED alloc,
         UNCHANGED <<promise, obtained, miscounted, worker>>
  PROVE  CountInv' /\ BlockKept' /\ StartInv'
<1>1. /\ IsFiniteSet(futs') /\ Cardinality(futs') = Cardinality(futs) - 1
      /\ Cardinality(futs') \in Nat
      /\ Cardinality(futs') = 0 <=> futs' = {}
      /\ f \in futs /\ futs' \subseteq futs
  <2>1. IsFiniteSet(futs') /\ Cardinality(futs') = Cardinality(futs) - 1
    BY FutsFinite, FS_RemoveElement DEF CountDown, IInv
  <2>. QED
    BY <2>1, FS_CardinalityType, FS_EmptySet DEF CountDown
<1>2. CountInv'
  BY <1>1, FutsFinite DEF IInv, CountInv, CountDown
<1>3. ~miscounted => (count' = 0 <=> futs' = {})
  BY <1>1, <1>2 DEF CountInv
<1>4. obtained
  BY <1>1 DEF IInv, StartInv
<1>. QED
  BY <1>1, <1>2, <1>3, <1>4 DEF IInv, StartInv, BlockKept

LEMMA InvStep == IInv /\ [Next]_vars => IInv'
<1> SUFFICES ASSUME IInv, Next PROVE IInv'
  BY DEF IInv, TypeOK, BlockTypeOK, StartInv, CountInv, BlockKept, UseAfterFree,
         ResultInv
<1>0. TypeOK' /\ undefined = "no"
  BY TypeStep DEF IInv, Next
<1> USE DEF Through
<1>1. CASE NewPromise
  <2>1. futs' = futs /\ Cardinality(futs) = 0 /\ count = 0
    BY <1>1, FutsFinite DEF NewPromise, NewBlock, IInv, StartInv
  <2>. QED
    BY <1>0, <1>1, <2>1 DEF NewPromise, NewBlock, IInv, StartInv, CountInv, BlockKept,
                       UseAfterFree, ResultInv
<1>2. CASE GetFuture
  <2>1. PICK f \in Unused :
          Through("promise", /\ Attach(f)
                             /\ obtained' = TRUE
                             /\ UNCHANGED <<promise, empty, miscounted, worker, waits, got>>)
    BY <1>2 DEF GetFuture
  <2>2. CASE Usable("promise")
    <3>1. CountInv' /\ BlockKept' /\ StartInv'
      BY <2>1, <2>2, Attached DEF Usable
    <3>. QED
      BY <1>0, <2>1, <2>2, <3>1 DEF IInv, Attach, UseAfterFree, ResultInv
  <2>3. CASE ~Usable("promise")
    BY <1>2, <2>1, <2>3, UndefinedStep DEF GetFuture
  <2>. QED
    BY <2>2, <2>3
<1>3. CASE CopyFuture
  <2>1. PICK f \in Unused : Through("future", Attach(f) /\ UNCHANGED clientVars)
    BY <1>3 DEF CopyFuture
  <2>2. CASE Usable("future")
    <3>1. obtained'
      BY <1>3, <2>1, <2>2 DEF CopyFuture, IInv, StartInv
    <3>2. CountInv' /\ BlockKept' /\ StartInv'
      BY <2>1, <2>2, <3>1, Attached DEF Usable
    <3>. QED
      BY <1>0, <2>1, <2>2, <3>2 DEF IInv, Attach, UseAfterFree, ResultInv
  <2>3. CASE ~Usable("future")
    BY <1>3, <2>1, <2>3, UndefinedStep DEF CopyFuture
  <2>. QED
    BY <2>2, <2>3
<1>4. CASE Spawn
  BY <1>0, <1>4 DEF Spawn, IInv, StartInv, CountInv, BlockKept, UseAfterFree, ResultInv
<1>5. CASE DestroyPromise
  <2>1. CASE Usable("promise")
    <3>1. ~miscounted => (count = 0 <=> futs = {})
      BY FutsFinite DEF IInv, CountInv
    <3>. QED
      BY <1>0, <1>5, <2>1, <3>1
      DEF DestroyPromise, DeleteIfUncounted, DeleteBlock, Usable, IInv, StartInv,
          CountInv, BlockKept, UseAfterFree, ResultInv
  <2>2. CASE ~Usable("promise")
    BY <1>5, <2>2, UndefinedStep DEF DestroyPromise
  <2>. QED
    BY <2>1, <2>2
<1>6. CASE DefaultFuture \/ UseEmpty
  BY <1>0, <1>6 DEF DefaultFuture, UseEmpty, IInv, StartInv, CountInv, BlockKept,
               UseAfterFree, ResultInv
<1>7. CASE AssignFuture
  \* Either the count is upset, or nobody changes sides.
  <2>1. miscounted' \/ (futs' = futs /\ miscounted' = miscounted)
    BY <1>7 DEF AssignFuture, IInv, TypeOK
  <2>. QED
    BY <1>0, <1>7, <2>1 DEF AssignFuture, IInv, StartInv, CountInv, BlockKept,
                            UseAfterFree, ResultInv
<1>8. CASE DestroyFuture
  <2>1. PICK f \in futs :
          Through("future",
            /\ CountDown(f)
            /\ IF count' = 0 THEN alloc' = "freed" /\ deletes' = deletes + 1
                             ELSE UNCHANGED <<alloc, deletes>>
            /\ UNCHANGED <<value, event, clientVars>>)
    BY <1>8 DEF DestroyFuture
  <2>2. CASE Usable("future")
    <3>1. CountInv' /\ BlockKept' /\ StartInv'
      BY <2>1, <2>2, Detached DEF Usable
    <3>. QED
      BY <1>0, <2>1, <2>2, <3>1 DEF IInv, CountDown, UseAfterFree, ResultInv
  <2>3. CASE ~Usable("future")
    BY <2>1, <2>3, UndefinedStep
  <2>. QED
    BY <2>2, <2>3
<1>9. CASE WaitReturns
  <2>1. CASE Usable("future")
    BY <1>0, <1>9, <2>1 DEF WaitReturns, TakeEvent, IInv, StartInv, CountInv, BlockKept,
                            UseAfterFree, ResultInv
  <2>2. CASE ~Usable("future")
    BY <1>9, <2>2, UndefinedStep DEF WaitReturns
  <2>. QED
    BY <2>1, <2>2
<1>10. CASE Get
  <2>1. CASE Usable("future")
    BY <1>0, <1>10, <2>1 DEF Get, IInv, StartInv, CountInv, BlockKept, UseAfterFree,
                             ResultInv
  <2>2. CASE ~Usable("future")
    BY <1>10, <2>2, UndefinedStep DEF Get
  <2>. QED
    BY <2>1, <2>2
<1>11. CASE WorkerStore \/ WorkerRaise
  <2>1. CASE Usable("worker")
    BY <1>0, <1>11, <2>1
    DEF WorkerStore, WorkerRaise, StoreValue, RaiseEvent, Usable, IInv, StartInv,
        CountInv, BlockKept, UseAfterFree, ResultInv
  <2>2. CASE ~Usable("worker")
    BY <1>11, <2>2, UndefinedStep DEF WorkerStore, WorkerRaise
  <2>. QED
    BY <2>1, <2>2
<1>. QED
  BY <1>1, <1>2, <1>3, <1>4, <1>5, <1>6, <1>7, <1>8, <1>9, <1>10, <1>11
  DEF Next, Client

\* IInv holds in every reachable state.
THEOREM Invariance == Spec => []IInv
<1>1. Init => IInv
  <2>1. Init => TypeOK
    BY TypeInit
  <2>. QED
    BY <2>1, FS_EmptySet DEF Init, BlockInit, IInv, StartInv, CountInv, BlockKept,
       UseAfterFree, ResultInv
<1>. QED
  BY <1>1, InvStep, PTL DEF Spec

-----------------------------------------------------------------------------
\* Whatever the client does, short of an operator= that upsets the count: the
\* block lives exactly as long as a future has it, or a promise that has not
\* given one away.
THEOREM BlockKeptCorrect == Spec => []BlockKept
  BY Invariance, PTL DEF IInv

\* Who may touch the block after its end, for every client.
THEOREM UseAfterFreeCorrect == Spec => []UseAfterFree
  BY Invariance, PTL DEF IInv

\* ~promise() is well defined only while a future obtained from it lives, or if
\* none was ever obtained: example_promise and example_packaged_task, whose
\* futures die first, have no good end.
THEOREM NoGoodEnd ==
  Spec => [][DestroyPromise /\ undefined' = "no"
               => futs # {} \/ ~obtained \/ miscounted]_vars
<1>1. ASSUME IInv, DestroyPromise, undefined' = "no"
      PROVE  futs # {} \/ ~obtained \/ miscounted
  <2>1. alloc = "live"
    BY <1>1 DEF DestroyPromise, Through, Usable
  <2>. QED
    BY <1>1, <2>1 DEF IInv, BlockKept
<1>. QED
  BY <1>1, Invariance, PTL

\* The promise and its futures implement OneShot.
THEOREM Refinement == Spec => ImplementsOneShot
<1>1. Init => ResultHandOver!Init
  BY DEF Init, BlockInit, ResultHandOver!Init
<1>2. IInv /\ [Next]_vars => [ResultHandOver!Next]_ResultHandOver!vars
  <2> SUFFICES ASSUME IInv, Next
               PROVE  [ResultHandOver!Next]_ResultHandOver!vars
    BY DEF ResultHandOver!vars
  <2> USE DEF ResultHandOver!vars, ResultHandOver!Next, Through
  <2>1. CASE UNCHANGED <<event, waits, got>>
    BY <2>1
  <2>2. CASE WaitReturns /\ Usable("future")
    BY <2>2 DEF WaitReturns, TakeEvent, IInv, ResultInv, ResultHandOver!Take
  <2>3. CASE Get /\ Usable("future")
    BY <2>3 DEF Get, IInv, ResultInv, TypeOK, BlockTypeOK, ResultHandOver!Get
  <2>4. CASE WorkerRaise /\ Usable("worker")
    BY <2>4 DEF WorkerRaise, RaiseEvent, Usable, IInv, ResultInv, ResultHandOver!Produce
  <2>5. CASE NewPromise
    BY <2>5 DEF NewPromise, NewBlock, IInv, StartInv, ResultInv
  <2>. QED
    BY <2>1, <2>2, <2>3, <2>4, <2>5
    DEF Next, Client, GetFuture, Attach, Spawn, DestroyPromise, DeleteIfUncounted,
        DeleteBlock, CopyFuture, DefaultFuture, AssignFuture,
        DestroyFuture, CountDown, WaitReturns, Get, UseEmpty, WorkerStore, StoreValue,
        WorkerRaise
<1>. QED
  BY <1>1, <1>2, Invariance, PTL DEF Spec, ImplementsOneShot, ResultHandOver!Spec
=============================================================================
