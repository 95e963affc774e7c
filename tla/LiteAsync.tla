------------------------------ MODULE LiteAsync ------------------------------
(***************************************************************************)
(* lite::async and the life of what it creates: the heap-allocated         *)
(* packaged_task, the thread object, the worker thread, and the future     *)
(* objects of the calling thread, up to the destruction of the last one.   *)
(*                                                                         *)
(* On the futures it holds the caller may copy, wait, poll with wait_for,  *)
(* get and destroy, in any order (example_async of windows.cpp is the      *)
(* behaviour wait, get, destroy).  It makes no default-constructed future  *)
(* and assigns none, which LitePromise has for futures without a thread.   *)
(*                                                                         *)
(* `return ft;` in get_future() and in async() copies the future or not,   *)
(* as the compiler elides the copy or not; Elision says what the builds    *)
(* considered do.  The copy constructor copies neither m_thread nor        *)
(* m_promise, so at most one future, the carrier, has them.                *)
(***************************************************************************)
EXTENDS LiteFuture

CONSTANTS
  NoFuture,   \* a value that is not a future
  Elision     \* may `return ft;` elide the copy (TRUE), make it (FALSE)?

ASSUME AsyncAssumption == NoFuture \notin Futures /\ Elision \subseteq BOOLEAN

VARIABLES
  pc,        \* where the calling thread is
  cont,      \* where it goes on after a destructor
  dying,     \* the future whose destructor ran last
  carrier,   \* the future alive, or dying last, with m_thread and m_promise set
  task,      \* the packaged_task: "none", "live" or "freed"
  thr,       \* the lite::thread object and its m_func: the same
  worker,    \* where the created thread is
  waits,     \* how many waits of the caller were satisfied
  status,    \* what the last wait_for returned
  got        \* what the last get() returned

asyncVars == <<pc, cont, dying, carrier, task, thr, worker,
               waits, status, got>>
vars == <<blockVars, asyncVars>>

CallerPC == {"new_task", "get_future", "get_future_return", "spawn",
             "async_return", "user", "wait", "dtor", "join", "delete_task",
             "delete_block", "done"}

\* "failed": CreateThread returned NULL.  The others name the next effect.
WorkerPC == {"none", "failed", "call", "store", "raise", "done"}
WorkerFinished == worker \in {"done", "failed"}

TypeOK ==
  /\ BlockTypeOK
  /\ pc \in CallerPC
  /\ cont \in {"spawn", "user"}
  /\ dying \in Futures \cup {NoFuture}
  /\ carrier \in Futures \cup {NoFuture}
  /\ task \in {"none", "live", "freed"}
  /\ thr \in {"none", "live", "freed"}
  /\ worker \in WorkerPC
  /\ waits \in Nat
  /\ status \in {"none", "ready", "timeout"}
  /\ got \in {"nothing", "garbage", "result"}

Init ==
  /\ BlockInit
  /\ pc = "new_task"
  /\ cont = "user"
  /\ dying = NoFuture
  /\ carrier = NoFuture
  /\ task = "none"
  /\ thr = "none"
  /\ worker = "none"
  /\ waits = 0
  /\ status = "none"
  /\ got = "nothing"

-----------------------------------------------------------------------------
\* async(): `new task_type(_f)`, whose promise allocates the block.
NewTask ==
  /\ pc = "new_task"
  /\ NewBlock
  /\ task' = "live"
  /\ pc' = "get_future"
  /\ UNCHANGED <<cont, dying, carrier, thr, worker, waits, status, got>>

\* get_future(): the local `future<R> ft(m_block)`.
GetFuture ==
  /\ pc = "get_future"
  /\ \E f \in Futures : Attach(f)
  /\ pc' = "get_future_return"
  /\ UNCHANGED <<cont, dying, carrier, task, thr, worker, waits,
                 status, got>>

\* `return ft;`: elided, or a copy is constructed and ft destroyed.
ReturnFuture(here, next) ==
  /\ pc = here
  /\ \/ /\ TRUE \in Elision
        /\ pc' = next
        /\ UNCHANGED <<blockVars, cont, dying>>
     \/ /\ FALSE \in Elision
        /\ \E f \in futs, g \in Futures : Attach(g) /\ dying' = f
        /\ cont' = next
        /\ pc' = "dtor"
  /\ UNCHANGED <<carrier, task, thr, worker, waits, status, got>>

ReturnFromGetFuture == ReturnFuture("get_future_return", "spawn")
ReturnFromAsync == ReturnFuture("async_return", "user")

\* ft.m_promise = task; new thread(func); ft.m_thread = t.  A thread that
\* cannot be created leaves a null handle, which async() does not test.
Spawn ==
  /\ pc = "spawn"
  /\ thr' = "live"
  /\ worker' \in {"call", "failed"}
  /\ \E f \in futs : carrier' = f
  /\ pc' = "async_return"
  /\ UNCHANGED <<blockVars, cont, dying, task, waits, status, got>>

-----------------------------------------------------------------------------
\* What the caller may do with the futures it holds.
CopyFuture ==
  /\ pc = "user"
  /\ futs # {}
  /\ \E g \in Futures : Attach(g)
  /\ UNCHANGED asyncVars

BeginWait ==
  /\ pc = "user"
  /\ futs # {}
  /\ pc' = "wait"
  /\ UNCHANGED <<blockVars, cont, dying, carrier, task, thr, worker,
                 waits, status, got>>

\* wait(): no timeout, returns when the event is signalled, and at once if the
\* handle is null, which satisfies nothing.
WaitReturns ==
  /\ pc = "wait"
  /\ \/ TakeEvent /\ waits' = waits + 1
     \/ event = "null" /\ UNCHANGED <<blockVars, waits>>
  /\ pc' = "user"
  /\ UNCHANGED <<cont, dying, carrier, task, thr, worker, status, got>>

\* wait_for(): ready when the event is signalled, timeout when it is not, and
\* when the wait fails.
WaitFor ==
  /\ pc = "user"
  /\ futs # {}
  /\ \/ TakeEvent /\ waits' = waits + 1 /\ status' = "ready"
     \/ event # "signalled" /\ status' = "timeout" /\ UNCHANGED <<blockVars, waits>>
  /\ UNCHANGED <<pc, cont, dying, carrier, task, thr, worker, got>>

\* get(): reads the value member; it does not wait.
Get ==
  /\ pc = "user"
  /\ futs # {}
  /\ got' = value
  /\ UNCHANGED <<blockVars, pc, cont, dying, carrier, task, thr,
                 worker, waits, status>>

DestroyFuture ==
  /\ pc = "user"
  /\ \E f \in futs : dying' = f
  /\ cont' = "user"
  /\ pc' = "dtor"
  /\ UNCHANGED <<blockVars, carrier, task, thr, worker, waits, status,
                 got>>

-----------------------------------------------------------------------------
\* ~future(): count down; only the future that reaches zero goes on.  The two
\* members of a carrier that does not are lost with it.
DtorDecrease ==
  /\ pc = "dtor"
  /\ Release(dying)
  /\ \/ count' = 0 /\ pc' = "join" /\ UNCHANGED carrier
     \/ /\ count' # 0
        /\ pc' = cont
        /\ carrier' = IF dying = carrier THEN NoFuture ELSE carrier
  /\ UNCHANGED <<cont, dying, task, thr, worker, waits, status, got>>

\* Faulty variant: the thread object is deleted without join().
DtorJoinMissing ==
  /\ pc = "join"
  /\ thr' = IF dying = carrier THEN "freed" ELSE thr
  /\ pc' = IF dying = carrier THEN "delete_task" ELSE "delete_block"
  /\ UNCHANGED <<blockVars, cont, dying, carrier, task, worker, waits,
                 status, got>>

\* Faulty variant: join() waits for a worker that was never created.
DtorJoinUnconditional ==
  /\ pc = "join"
  /\ dying = carrier => worker = "done"
  /\ thr' = IF dying = carrier THEN "freed" ELSE thr
  /\ pc' = IF dying = carrier THEN "delete_task" ELSE "delete_block"
  /\ UNCHANGED <<blockVars, cont, dying, carrier, task, worker, waits,
                 status, got>>

\* Faulty variant: the thread object is deleted only if there was a thread.
DtorJoinOrLeave ==
  /\ pc = "join"
  /\ IF dying = carrier
     THEN /\ WorkerFinished
          /\ thr' = IF worker = "done" THEN "freed" ELSE thr
          /\ pc' = "delete_task"
     ELSE pc' = "delete_block" /\ UNCHANGED thr
  /\ UNCHANGED <<blockVars, cont, dying, carrier, task, worker, waits,
                 status, got>>

\* m_thread is set on the carrier only: join, then delete the thread object.
\* Joining the null handle of a thread that was not created returns at once.
DtorJoin ==
  /\ pc = "join"
  /\ \/ /\ dying = carrier
        /\ WorkerFinished
        /\ thr' = "freed"
        /\ pc' = "delete_task"
     \/ /\ dying # carrier
        /\ pc' = "delete_block"
        /\ UNCHANGED thr
  /\ UNCHANGED <<blockVars, cont, dying, carrier, task, worker, waits,
                 status, got>>

\* delete_ptr(m_promise): ~packaged_task destroys the promise, which runs
\* delete_block on the same block.
DtorTask ==
  /\ pc = "delete_task"
  /\ DeleteIfUncounted
  /\ task' = "freed"
  /\ pc' = "delete_block"
  /\ UNCHANGED <<cont, dying, carrier, thr, worker, waits, status, got>>

\* delete_ptr(m_block): the future's own pointer is still set.
DtorBlock ==
  /\ pc = "delete_block"
  /\ DeleteBlock
  /\ pc' = IF futs = {} THEN "done" ELSE cont
  /\ UNCHANGED <<cont, dying, carrier, task, thr, worker, waits,
                 status, got>>

-----------------------------------------------------------------------------
\* The created thread: func() -> Func::call() -> (*task)() -> set_value(m_fn()).
WorkerCall ==
  /\ worker = "call"
  /\ worker' = "store"
  /\ UNCHANGED <<blockVars, pc, cont, dying, carrier, task, thr, waits,
                 status, got>>

\* Faulty variant: set_value() raises the event before it stores the value.
RaiseThenStore ==
  \/ /\ worker = "store"
     /\ RaiseEvent
     /\ worker' = "raise"
     /\ UNCHANGED <<pc, cont, dying, carrier, task, thr, waits, status, got>>
  \/ /\ worker = "raise"
     /\ StoreValue
     /\ worker' = "done"
     /\ UNCHANGED <<pc, cont, dying, carrier, task, thr, waits, status, got>>

WorkerStore ==
  /\ worker = "store"
  /\ StoreValue
  /\ worker' = "raise"
  /\ UNCHANGED <<pc, cont, dying, carrier, task, thr, waits, status, got>>

WorkerRaise ==
  /\ worker = "raise"
  /\ RaiseEvent
  /\ worker' = "done"
  /\ UNCHANGED <<pc, cont, dying, carrier, task, thr, waits, status, got>>

-----------------------------------------------------------------------------
\* Steps of the library in the calling thread: they take no decision.
Library ==
  \/ NewTask \/ GetFuture \/ ReturnFromGetFuture \/ Spawn \/ ReturnFromAsync
  \/ WaitReturns
  \/ DtorDecrease \/ DtorJoin \/ DtorTask \/ DtorBlock

\* Steps the caller chooses.
User == CopyFuture \/ BeginWait \/ WaitFor \/ Get \/ DestroyFuture

Worker == WorkerCall \/ WorkerStore \/ WorkerRaise

Finished ==
  /\ pc = "done"
  /\ WorkerFinished
  /\ UNCHANGED vars

Next == Library \/ User \/ Worker \/ Finished

Spec == Init /\ [][Next]_vars

\* Windows runs every ready thread: the worker goes on, and so does the
\* calling thread inside the library.  Nothing forces the caller's choices.
Fairness == WF_vars(Library) /\ WF_vars(Worker)

FairSpec == Spec /\ Fairness

-----------------------------------------------------------------------------
\* m_count, an int that future objects and temporaries move up and down, is
\* at every moment the number of future objects alive.
CountsFutures == count = Cardinality(futs)

\* While one future object is alive, the block is not deleted: no sequence of
\* copies, returns and destructions frees it under a holder.
HoldersKeepBlock == futs # {} => alloc = "live"

\* What the worker uses outlives it.  The task and the thread object always do.
\* The block may go before the worker has written to it only if the last future
\* to die was a copy, which does not join, and no wait on it was ever satisfied:
\* the original's join, or one satisfied wait, protects the worker.
OutliveWorker ==
  worker \in {"call", "store", "raise"} =>
    /\ task = "live" /\ thr = "live"
    /\ alloc = "freed" => dying # carrier /\ waits = 0

\* No lost wake-up: a caller blocked in wait() with nobody left to signal the
\* event has taken the result already (the event is auto-reset), or its
\* thread was never created.
NoLostWakeup ==
  pc = "wait" /\ WorkerFinished /\ event = "nonsignalled"
    => waits = 1 \/ worker = "failed"

\* The auto-reset event satisfies one wait per set_value.
ResultTakenOnce == waits <= 1

\* What the last future to die releases.  No block outlives its futures.  The
\* task and the thread object go together, with a carrier and only with one,
\* also if the thread was never created; and a copy deletes the block once,
\* however many copies, returns and destructions came before.  (What happens to
\* the block under a carrier, and to the task and the thread under a copy, is
\* what BlockDeletedOnce and AsyncReleases find.)
LastFutureReleases ==
  pc = "done" =>
    /\ alloc = "freed"
    /\ task = thr
    /\ task = "freed" <=> dying = carrier
    /\ deletes > 1 => dying = carrier

\* A get() after a satisfied wait returns the task's result.
GetAfterWait == [][got' # got /\ waits > 0 => got' = "result"]_vars

\* The worker and the futures implement a result that is produced once and
\* taken once.  It is there once the event was raised: it is signalled still,
\* or a wait has reset it.
ResultHandOver ==
  INSTANCE OneShot WITH produced <- event = "signalled" \/ waits > 0, taken <- waits
ImplementsOneShot == ResultHandOver!Spec

\* A first wait() returns if the thread exists, and a destructor that joins
\* ends, however long the task takes.
FirstWaitReturns ==
  (pc = "wait" /\ waits = 0 /\ worker # "failed") ~> (pc # "wait")
DestructorEnds == (pc = "dtor") ~> (pc \in {"spawn", "user", "done"})

\* future.hpp:401 and :416 say of the task and of the thread that async()
\* allocates that they need releasing: when no future is left, they are.
AsyncReleases == pc = "done" => task = "freed" /\ thr = "freed"

\* common.hpp:112-118: delete_ptr resets the pointer it has deleted through, so
\* that what it pointed to is not deleted again; and each "+1" of the block's
\* constructor (future.hpp:53) has its one "-1" (:57).
BlockDeletedOnce == deletes <= 1
=============================================================================
