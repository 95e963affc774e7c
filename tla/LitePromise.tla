---------------------------- MODULE LitePromise ------------------------------
(***************************************************************************)
(* A lite::promise on the stack, as in example_promise and                 *)
(* example_packaged_task of windows.cpp: main creates it, obtains futures, *)
(* starts a thread that sets the value through a pointer to the promise,   *)
(* and destroys what it has created.  Main is a general client: it copies, *)
(* default-constructs and assigns futures, waits, gets, joins and destroys *)
(* in any order.  (The two programs: get_future, thread, waits and gets,   *)
(* join, ~future, ~promise.)                                               *)
(*                                                                         *)
(* The first use of a dead object or of a null block is undefined          *)
(* behaviour: `undefined` says whose it was, and the model goes no         *)
(* further.  Between an object's first and last access to the block no     *)
(* other thread touches the count, so a constructor or destructor is one   *)
(* step; `return ft;` of get_future comes to the same, copied or elided.   *)
(***************************************************************************)
EXTENDS LiteFuture

VARIABLES
  promise,     \* "none", "live" or "dead"
  obtained,    \* get_future has been called
  empty,       \* future objects whose m_block is null
  miscounted,  \* an assignment has changed the number of holders
  worker,      \* "none", "failed" to start, or what it does next
  waits,       \* how many waits were satisfied
  got,         \* what the last get() returned
  undefined    \* "no", "promise", "future", "worker" or "null"

clientVars == <<promise, obtained, empty, miscounted, worker, waits, got>>
vars == <<blockVars, clientVars, undefined>>

TypeOK ==
  /\ BlockTypeOK
  /\ promise \in {"none", "live", "dead"}
  /\ obtained \in BOOLEAN /\ miscounted \in BOOLEAN
  /\ empty \subseteq Futures \ futs
  /\ worker \in {"none", "failed", "store", "raise", "done"}
  /\ waits \in Nat
  /\ got \in {"nothing", "garbage", "result"}
  /\ undefined \in {"no", "promise", "future", "worker", "null"}

Init ==
  /\ BlockInit
  /\ promise = "none" /\ worker = "none"
  /\ obtained = FALSE /\ miscounted = FALSE
  /\ empty = {}
  /\ waits = 0
  /\ got = "nothing"
  /\ undefined = "no"

-----------------------------------------------------------------------------
\* The worker reaches the block through the promise.
Usable(who) == alloc = "live" /\ (who = "worker" => promise = "live")

\* A step on the block, unless what it uses is gone.
Through(who, step) ==
  IF Usable(who)
  THEN step /\ UNCHANGED undefined
  ELSE undefined' = who /\ UNCHANGED <<blockVars, clientVars>>

Unused == Futures \ (futs \cup empty)

NewPromise ==
  /\ promise = "none"
  /\ NewBlock
  /\ promise' = "live"
  /\ UNCHANGED <<obtained, empty, miscounted, worker, waits, got, undefined>>

\* get_future(), also through packaged_task
GetFuture ==
  /\ promise = "live"
  /\ \E f \in Unused :
       Through("promise",
         /\ Attach(f)
         /\ obtained' = TRUE
         /\ UNCHANGED <<promise, empty, miscounted, worker, waits, got>>)

\* thread t(f, &pms); the thread may fail to start.
Spawn ==
  /\ promise = "live" /\ worker = "none"
  /\ worker' \in {"store", "failed"}
  /\ UNCHANGED <<blockVars, promise, obtained, empty, miscounted, waits, got, undefined>>

\* ~promise(): delete_block reads the count.
DestroyPromise ==
  /\ promise = "live"
  /\ Through("promise",
       /\ DeleteIfUncounted
       /\ promise' = "dead"
       /\ UNCHANGED <<obtained, empty, miscounted, worker, waits, got>>)

-----------------------------------------------------------------------------
CopyFuture ==
  /\ futs # {}
  /\ \E f \in Unused :
       Through("future", Attach(f) /\ UNCHANGED clientVars)

\* future(): m_block is null.
DefaultFuture ==
  /\ \E f \in Unused : empty' = empty \cup {f}
  /\ UNCHANGED <<blockVars, promise, obtained, miscounted, worker, waits, got, undefined>>

\* The implicit operator= copies m_block: the count is not touched, so it goes
\* wrong unless both, or neither, held the block before.
AssignFuture ==
  /\ \E f \in futs \cup empty, g \in futs \cup empty :
       IF f \in futs THEN /\ futs' = futs \cup {g}
                          /\ empty' = empty \ {g}
                          /\ miscounted' = (miscounted \/ g \in empty)
                     ELSE /\ futs' = futs \ {g}
                          /\ empty' = empty \cup {g}
                          /\ miscounted' = (miscounted \/ g \in futs)
  /\ UNCHANGED <<alloc, count, value, event, deletes, promise, obtained, worker,
                 waits, got, undefined>>

\* ~future(): counts down, and deletes the block at zero; the thread and the
\* task of such a future are null.
DestroyFuture ==
  \E f \in futs :
    Through("future",
      /\ CountDown(f)
      /\ IF count' = 0 THEN alloc' = "freed" /\ deletes' = deletes + 1
                       ELSE UNCHANGED <<alloc, deletes>>
      /\ UNCHANGED <<value, event, clientVars>>)

\* wait() and wait_for() that return because the event was signalled.  Those
\* that time out, or fail on a null handle, change nothing.
WaitReturns ==
  /\ futs # {}
  /\ event = "signalled" \/ alloc = "freed"
  /\ Through("future",
       /\ TakeEvent
       /\ waits' = waits + 1
       /\ UNCHANGED <<promise, obtained, empty, miscounted, worker, got>>)

Get ==
  /\ futs # {}
  /\ Through("future",
       /\ got' = value
       /\ UNCHANGED <<blockVars, promise, obtained, empty, miscounted, worker, waits>>)

\* Every operation but wait(), operator= and the constructor dereferences it.
UseEmpty ==
  /\ empty # {}
  /\ undefined' = "null"
  /\ UNCHANGED <<blockVars, clientVars>>

-----------------------------------------------------------------------------
\* param->set_value(1)
WorkerStore ==
  /\ worker = "store"
  /\ Through("worker",
       /\ StoreValue
       /\ worker' = "raise"
       /\ UNCHANGED <<promise, obtained, empty, miscounted, waits, got>>)

WorkerRaise ==
  /\ worker = "raise"
  /\ Through("worker",
       /\ RaiseEvent
       /\ worker' = "done"
       /\ UNCHANGED <<promise, obtained, empty, miscounted, waits, got>>)

Client ==
  \/ NewPromise \/ GetFuture \/ Spawn \/ DestroyPromise
  \/ CopyFuture \/ DefaultFuture \/ AssignFuture \/ DestroyFuture
  \/ WaitReturns \/ Get \/ UseEmpty

Next == undefined = "no" /\ (Client \/ WorkerStore \/ WorkerRaise)

Spec == Init /\ [][Next]_vars

-----------------------------------------------------------------------------
\* Who keeps the block: a future that has it, and a promise from which none was
\* obtained yet; nobody else, not even the promise or the worker, and it does
\* not leak.  So ~promise() is good only while a future lives or if there never
\* was one: example_promise and example_packaged_task, where the future dies
\* first, read freed memory.
BlockKept ==
  ~miscounted =>
    (alloc = "live" <=> futs # {} \/ (promise = "live" /\ ~obtained))

\* No order of copies and destructions lets a future touch a freed block, short
\* of an operator= that upsets the count; the promise touches one only when all
\* the futures obtained from it are gone, and the worker only if no wait for
\* its value has ended.
UseAfterFree ==
  /\ undefined = "future" => miscounted
  /\ undefined = "promise" => miscounted \/ (obtained /\ futs = {})
  /\ undefined = "worker" => waits = 0

\* As long as nothing undefined happens, the promise and its futures implement
\* a result that is produced once and taken once.
ResultHandOver ==
  INSTANCE OneShot WITH produced <- event = "signalled" \/ waits > 0, taken <- waits
ImplementsOneShot == ResultHandOver!Spec
=============================================================================
