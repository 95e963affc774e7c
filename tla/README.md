# A TLA+ verification of thread_example

The repository is a collection of small C++ programs about threads, in two
parts. The first is a library for Windows, `src/include/lite/`, that
re-implements `thread`, `mutex`, `promise`, `future`, `packaged_task`, `async`
and `shared_ptr` on top of the Windows API for compilers older than C++11. The
second is one example program per facility of the C++ standard library, each
with an assertion about its result (`src/src/*_example.cpp`, `test.cpp`,
`main.cpp`). This directory models what is concurrent or stateful in both, checks
it with TLC and proves the most important results with TLAPS.

Paths below are relative to `src/`.

## 1. Inventory

| part | state | operations | interacts through |
|---|---|---|---|
| `lite::future`, `promise`, `packaged_task`, `async` (`include/lite/future.hpp`) | a heap block with the result, an auto-reset event and the count of its futures; the task and the thread object hang on one future | constructors, copy, destructor, `wait`, `wait_for`, `get`, `set_value`, `get_future`, `operator()` | the block, shared between the worker and all futures |
| `lite::shared_ptr` (`include/lite/memory.hpp`) | a control block with a count, the object | constructors, copies, cast, `operator=`, `use_count`, destructor | the block, one thread |
| `lite::mutex`, `lock_guard` (`include/lite/mutex.hpp`) | a Windows mutex | lock, lock with timeout, unlock, guard | `example_CreateMutex` |
| `lite::Event` (`include/lite/event.hpp`) | a Windows event, manual or automatic | set, reset, wait | `example_event`, and inside the block of the futures |
| `lite::thread` (`include/lite/thread.hpp`) | a thread handle and the function object | create, join, destroy | `async`, the programs of `windows.cpp` |
| turn taking (`src/test.cpp` 54-98) | mutex, condition variable, whose turn, the output | lock, wait with predicate, write, notify_one | two threads |
| `print_notify` (`condition_variable_notify_all_example.cpp`, `main.cpp`) | the same, with a counter and a start signal | the same, and notify_all by main | two children and main |
| `notify_one` example (two copies) | mutex, condition variable, a flag that is never reset | lock, wait, notify_one, join | main and one child |
| atomic counters (`atomic_example.cpp`, `test.cpp`) | atomics | fetch_add; load and then increment | two threads |
| `print_mutex` (`mutex_example.cpp`, `main.cpp`) | mutex, counter, sum | lock_guard, test, add, increment | two threads |
| binary semaphore (three copies) | one token, a string | release, acquire | main and one child, in both directions |
| barrier and latch (`barrier_example.cpp`, `latch_example.cpp`, `test.cpp`) | a barrier or a latch, an atomic sum, a flag | arrive, wait, count_down | main and three to five threads |
| `example_detach` (`detach_example.cpp`) | mutex, flag, a string without a lock | append, set and poll the flag, detach or join | main and one child |
| std `promise`, `packaged_task`, `async` examples (`promise_example.cpp`, `packaged_task_example.cpp`, `async_example.cpp`, `main.cpp`, `test.cpp`) | the shared state of a `std::future`, the promise or task in main's frame | `set_value`, polling with `wait_for`, `get`, join | main and one child |
| one thread and one join (`thread_example.cpp`, `jthread_example.cpp`, `test.cpp`, `main.cpp`, `example_CreateThread` of `windows.cpp`) | an object both threads write to | append, join, return | main and one child |
| `example_mutex` of `test.cpp` | a mutex, two strings | lock, append, unlock, join | main and one child |

What is hard: the orders in which two threads reach a wait and a notification;
what is read before a wait and used after it; two atomic operations that are
meant as one; who frees the block, the task and the thread object of a future
and when the worker is done with them; what lives on the stack of a function
whose detached threads run on; API calls whose failure nobody looks at.
`PROJECT.json` lists these hazards at their lines, with the properties that
cover them or the reason why none does.

What makes each part correct:

* futures: the count is the number of futures, the block is not freed under a
  holder or under the worker, no wake-up is lost, `get` after `wait` gives the
  result, everything allocated is released;
* `shared_ptr`: no object is deleted while a pointer can reach it, and none is
  deleted twice;
* turn taking: the order of the output, no lost notification, termination;
* counters and sums: no update is lost or doubled, and what main asserts is true
  when it reads it;
* hand-overs (semaphore, flag, event, latch, barrier): a wait ends only when what
  it stands for has happened, and it does end.

## 2. Modules

```
LiteFuture <- LiteAsync   <- MCLiteAsync, LiteAsync_proofs
           <- LitePromise <- MCLitePromise, LitePromise_proofs
OneShot      (abstract; implemented by LiteAsync and LitePromise)
StdMutex <- StdSync <- TurnTaking <- TurnTaking_proofs
                    <- NotifyAll  <- MCNotifyAll, NotifyAll_proofs
Alternation  (abstract; implemented by TurnTaking and NotifyAll)
LiteSharedPtr <- MCLiteSharedPtr, LiteSharedPtr_proofs
Ownership    (abstract; implemented by LiteSharedPtr)
AtomicSum <- AtomicSum_proofs
Examples  = one of MutexCounter, AtomicSum, AtomicBound, SemaphoreHandoff,
            TurnTaking, NotifyOne, NotifyAll, BarrierPhases, LatchCount,
            DetachedChild, StdFuture, JoinedThread, TwoStrings, LiteMutex,
            LiteEvent
          <- MCExamples, Examples_proofs (with the proofs of AtomicSum,
             AtomicBound, TurnTaking and NotifyAll)
DetachedChild <- MCDetachedChild      SemaphoreHandoff <- MCSemaphoreHandoff
Control   (a thread goes from one place to the next; used by all the programs)
```

`StdMutex` and `StdSync` stand for the standard library (marked external in the
map): a mutex that is not fair, and a condition variable whose waiters may wake
for no reason, compete for the mutex after a notification, and miss one that
comes while nobody sleeps.

Conventions. A variable `pc` says what each thread does next. A step is the
longest piece of code in which one thread touches shared state once, or touches
it under a mutex it holds. `sleep_for` and `Sleep` are arbitrary delays, hence
no step at all: no program may rely on them. Log output is left out. Strings are
sequences of who wrote or what was written. An operator marked "Faulty variant"
is a plausible bug in the operator below it, which TLC must find when it is put
in its place; no specification uses it.

### LiteFuture, LiteAsync

`LiteFuture` is the block: its storage, `m_count`, the value, the auto-reset
event, and the operations of `promise` and `future` on it. The event is null if
`CreateEvent` has failed, which nobody tests: setting it does nothing, and a wait
on it returns at once without a result. `LiteAsync` composes
them into the life of one `async()` call: allocation of the task, `get_future`,
creation of the thread, then what the caller does with its futures (copy,
`wait`, `wait_for`, `get`, destroy, in any order), the steps of `~future` one by
one, and the worker. The caller neither default-constructs nor assigns a future
here: the implicit `operator=` is modelled in `LitePromise`, for futures whose
`m_thread` and `m_promise` are null. `return ft;` copies or elides, as the build does
(`Elision`). `carrier` is the one future that has `m_thread` and `m_promise`,
which the copy constructor does not copy. `CreateThread` may fail, which `async`
does not look at. A write to the freed block and a second `delete` of it are
undefined: the model lets them pass without effect and states exactly when they
happen (`OutliveWorker`, `BlockDeletedOnce`, `LastFutureReleases`). The name of a future that is gone
may be used again: a carrier that died before the last future has no successor.

### LitePromise

The same block, reached from a promise on main's stack, as in `example_promise`
and `example_packaged_task` of `windows.cpp`, whose client is generalised: it
obtains, copies, default-constructs, assigns and destroys futures, waits, gets,
and destroys the promise, in any order. The worker sets the value through a
pointer to the promise. The implicit `operator=` copies the pointer to the block
and not the count (`miscounted` remembers that this has upset it). Here the first
use of freed storage ends the behaviour, and `undefined` says who made it.

### OneShot

What a future is for: a result produced once, for which one wait is satisfied
and which every `get` after that wait returns; a `get` nobody has waited for may
return anything. `LiteAsync` and `LitePromise` both implement it, with
`produced` being "the event is signalled, or a wait has reset it".

### LiteSharedPtr, Ownership

Every operation of `memory.hpp` on a general client. `Ownership` says what it
should amount to. `operator=` neither gives up the old block nor assigns
`m_value`: the count of the old block stays one too high for ever, which is both
the leak and the reason why the stale `m_value` never dangles. `Lost(b)` is the
number of references so lost. Assigning a pointer to itself is not among the
inputs: the code returns at once. Asking an empty pointer for its count, copying
or assigning from it dereferences null: the behaviour ends there.

### TurnTaking, NotifyAll, Alternation

The two programs with a condition variable and turns. `Lock`, `Block` (the
predicate is false: unlock and sleep, in one step), `Wake`, the body, `Unlock`,
`Notify` follow the code line by line. `Spurious` is a spurious wake-up.
`NotifyAll` has both builds of `return result;`: constructed in the caller
(NRVO), or moved out before the jthreads are joined; `build` is chosen in `Init`,
and `returned` is how many numbers the caller gets. `Alternation` is what both
promise: the writers take turns.

### AtomicSum, AtomicBound

`fetch_add` on the counter and on the sum are two steps of each thread; in
`AtomicBound`, so are `load` and `++`.

### BarrierPhases

An assertion of the test case that fails throws main out of it (`RequireThrows`):
no further meeting, the flag stays set, and the barrier is destroyed with the
children still using it. Main's frame is there while it is `Alive`.

### Examples

The small programs share no state and need no run of their own: `program` says
which of them was started, and only its steps are possible.
`LiteMutex`, `LiteEvent` and one version of `JoinedThread` are programs of
`windows.cpp`, all others use the standard library. Where the copies of a program differ, a
variable chosen in `Init` says which it is (`version`, `detached`, `nrvo`, `manual`).
`LiteMutex` and `LiteEvent` let `CreateMutex`, `CreateEvent` and `CreateThread`
fail. In `LiteMutex` the guard that has timed out calls `ReleaseMutex` too, as
the code does, and Windows refuses, as it does for every thread but the owner.
What a detached thread does with objects of a frame that is gone is undefined:
the child goes to "undefined" (`Dangle`) and nothing is said of what follows.
`DetachedChild` and `JoinedThread` append to a string that two threads share
without a lock: an append reads the whole string and then writes it with its
character at the end, so the string says in which order the appends came, and of
two that overlap one is lost. In `StdFuture` the state becomes ready while the child is still inside
`set_value`, or inside the task; what keeps the promise alive is the join.

## 3. Runs

| run | checks | bounds |
|---|---|---|
| async_life | counting, lifetime of the block, of the task and of the thread, no lost wake-up, what the last future releases, refinement of OneShot, first `wait` and destructors end | three futures: a carrier, a copy, and the temporary of a return; more add only further copies. Both elisions, both outcomes of CreateThread and of CreateEvent |
| async_leak | a build that copies at `return ft;` leaks task and thread object (violation) | the same, copies only |
| async_double_delete | a build that elides the copy deletes the block twice (violation) | the same, elided only |
| lite_promise | who keeps the block, who can use it after its end and when, refinement of OneShot | three futures: one obtained, a copy or an empty one to assign, a third party; the thread starts or not, the event is created or not |
| shared_ptr | counts, no dangling value, refinement of Ownership | three pointers, two objects, two lost references per object: enough for a holder, a former holder with a stale `m_value` and a third party |
| examples | see below | three children (one in the code for the semaphore, three or five behind the latch), two for `NotifyAll` as in the code, four threads for two in `AtomicBound`, limit 10, three phases, three items |
| notify_all_overshoot | the caller does not always get "0123456789" (violation) | limit 10 |
| atomic_sum_require | the assertion `result == 45` may fail (violation) | the limit of the code |
| atomic_bound_require | the assertion `example_atomic() == 10` may fail (violation) | the limit and the two threads of the code |
| semaphore_wait | main's acquire may take main's own token (violation) | one child, as in the code |
| detached_end | the flag does not mark the end of the child (violation) | as in the code |
| tests_require | assertions that only the lengths of the sleeps make true (violation) | those of `examples` |

`MaxLost` is the only bound in a guard of a passing run; every other model is
finite by its code.

The run `examples` shows: the threads of a program never all wait, but for two
ways to hang that are described (`NobodyStuck`, the combination of the operators
of that name in each module: `Blocked(t)` says when the next step of a thread is
not enabled); the sum under the mutex is complete when main reads it
without the mutex and before the join (`SumConserved`, `RequireHolds`); one token
goes round, and the semaphore program ends or strands in exactly one way
(`OneToken`, `FinishesOrStrands`); the notify_one program ends, or deadlocks in
exactly one way, the join under the lock of `main.cpp:127` (`ChildToBeNotified`,
`FinishesOrDeadlocks`); at the barrier the sum lies between what k and k+1 rounds
add, so `barrier_example.cpp:35` may read more than it requires; main waits for no
meeting in vain, it gets through all of them or is thrown out by an assertion;
and a child that has read the flag before main cleared it stays at the barrier
for good (`SumFollowsMeetings`, `MainReturns`, `StragglersStay`); behind the latch the sum is
complete and nobody has still to add (`LatchCounts`); load-and-increment passes
the limit by fewer than there are threads (`Overshoot`); after the join the caller
gets what the two appends have left, that is both in either order, or one of them
if they have overlapped, and main's alone if a string that was moved out before
the join came too early for the child (`WholeOnReturn`: the join makes the string
final, not right); main's frame
outlives the call in which the child makes the future ready
(`FrameOutlivesChild`); the polling loops of `example_detach` and of the futures
end, the latter with the value (`PollingEnds`); timed-out guards do not break exclusion (`GuardExcludes`);
of the Windows programs, the one with the mutex and the one with the event end
although nobody looks at failures, except that without a mutex main polls for
ever (`WindowsEnds`; of `example_promise` nothing of the kind is claimed, its
loop on `wait_for` never ends if the thread was not created).

The three programs that have a proof module of their own are in the same run.
Turn taking: the order a1b2c3, no lost notification, both threads end
(`OutputInOrder`, `NoLostNotify`, `TurnsEnd`). `NotifyAll`: what the caller gets
in both builds, at most one number too many, nobody stranded, all end
(`CallerGets`, `NoChildStranded`, `RingEnds`); both programs alternate
(`Alternates`). `AtomicSum`: no number is lost, and the assertion misses exactly
what the other thread has pending (`ClaimsConserved`, `RequireMissesPending`).

Deadlock checking is off where the program really may stop: a second `wait()`,
a stranded semaphore, the join under the lock, a crash, an undefined step, the
end of a client.

The run `lite_promise` shows: the block lives exactly as long as a future has it,
or as long as the promise has given none out; the promise and the worker do not
keep it (`BlockKept`). So `~promise` reads freed memory whenever the futures died
first (`UseAfterFree`). That is the order in both programs of `windows.cpp`: `ft`
is declared after `pms` or `task` and dies before it. No order of copies and
destructions lets a *future* touch freed memory; one assignment between a future
that has the block and one that has not is enough.

## 4. What the violations show

* async_leak: `future.hpp:401` and `:416` say that task and thread need
  releasing. The copy constructor copies neither pointer, so in a build without
  copy elision the future that `async()` returns is not the carrier, the carrier
  dies first and is not the last, and nothing is ever released or joined.
* async_double_delete: with the copy elided the carrier dies last, deletes the
  task (`future.hpp:149`), whose promise finds the count at zero and deletes the
  block, and then deletes the block itself (`:150`). `delete_ptr` resets the
  pointer it has deleted through, but the promise and the future have one each.
* notify_all_overshoot: `i` is tested before `cv.wait` and not after it. A child
  that waits with `i = 9` while the other prints 9 prints 10.
* atomic_bound_require: the same at `test.cpp:150`: both threads load 9 before
  either adds, and `example_atomic` returns 11 where `:297` requires 10
  (`Overshoot` is the exact bound).
* atomic_sum_require: main's spin loop waits until the numbers are claimed, not
  until they are added.
* semaphore_wait: one semaphore serves both directions.
* detached_end: the flag is set before the child's last append.
* tests_require: the conjunction of the assertions that no wait between the
  threads makes true. TLC stops at the first trace; each of the conjuncts
  `Joined!StringRequired` ("12" of `thread_example.cpp` and of
  `jthread_example.cpp`, the latter both with and without NRVO),
  `Notify!StringRequired` ("123"), `Detach!StringRequired` ("1234" and "1342") and
  `Barrier!RequireHolds` (3, 6 and 9) is violated also by itself, as one sees by
  giving the run that conjunct alone. With the sleeps of the code these schedules
  need a thread to be delayed for 100 ms or a second, except for the build of
  `jthread_example.cpp` without NRVO, which returns "1" under the intended
  schedule.

## 5. Fairness

Weak fairness on the steps of each thread: the operating system runs every thread
that can go on. The mutex is not assumed fair; where each thread locks it
finitely often, weak fairness is enough, because nobody can overtake for ever.
Spurious wake-ups are finitely many (`<>[][~Spurious]_vars`): without that, a
loop around a wait need not end on any platform. In `DetachedChild` main polls
under the mutex the child needs; the child has strong fairness, as main sleeps
100 ms with the mutex unlocked between two polls. In `StdFuture` each thread has
weak fairness: main polls without a lock and hinders nobody. In `LiteAsync` nothing forces
the choices of the caller, only the library and the worker go on.

## 6. Proofs

All results below hold for every value of the constants, from the assumptions
named in the modules (finite sets of futures, pointers or threads; distinct
special values; positive limits).

* `LiteAsync_proofs`: type correctness, `CountsFutures`, `HoldersKeepBlock`,
  `OutliveWorker`, `NoLostWakeup`, `LastFutureReleases`, `GetAfterWait`,
  `ResultTakenOnce` and the refinement of `OneShot`. The count alone is not enough
  to see when the block dies: `CallerInv` relates the caller's place to the
  storage, to the set of futures and to how often the block was deleted,
  `ObjectsInv` who still has to release the task and the thread object, and
  `ResultInv` event, worker, value and satisfied waits. Their conjunction with
  `TypeOK` and `CountsFutures` is inductive. `CopyingBuildLeaks` is the general form
  of the run async_leak: in a build that never elides the copy of `return ft;`, the
  carrier is the local `ft` of `async`, which dies while the copy it has returned
  lives; so task and thread object are released in no use of the futures.
* `LitePromise_proofs`: type correctness, `BlockKept`, `UseAfterFree` and the
  refinement of `OneShot`. `NoGoodEnd` draws the conclusion for the two programs of
  `windows.cpp`: a well-defined `~promise` needs a future that is still alive.
  `StartInv` says what the promise and the futures are before the first
  `get_future`, `CountInv` that the count is right until an assignment upsets it,
  `ResultInv` relates event, worker, value and waits; together with both
  properties they are inductive.
* `TurnTaking_proofs`: `OutputInOrder`, `NoLostNotify` and the safety part of the
  refinement. The order follows from `CountInv`, which says by how much main is
  ahead; that no notification is lost needs `LockInv`, who is inside the mutex.
  `StopsOnlyComplete`: both threads wait only when both have ended, and then all is
  written.
* `NotifyAll_proofs`: `CallerGets`, `NoChildStranded`, the refinement and
  `StopsOnlyAtEnd`, for any limit and both builds. `ReturnInv` relates what was
  returned to `i`, `OwnerInv` says from where to where the mutex is held.
  `TurnInv` bounds `i` by where the children are: while a child is past the test,
  `i` may still grow by one through the other child and by one through itself.
* `AtomicSum_proofs`: `SumConserved`, `RequireMissesPending`, `CounterBounded`,
  `SumComplete` and `StopsOnlyComplete`: the loop `while (i.load() < 10)` of the test
  case never iterates, since `print_atomic` returns only at the limit.
* `AtomicBound_proofs`: `Overshoot` (by the cardinality of the set of threads
  between load and increment) and `ReturnedFinal`.

  The assumptions of these four modules are hypotheses of their theorems, and
  `Examples_proofs` discharges them from `ExamplesAssumption`.
* `LiteSharedPtr_proofs`: type correctness, `CountCoversHolders`, `ValueAlive` and
  the refinement of `Ownership`. `ValueAlive` is not inductive: a stale `m_value`
  survives only because its reference was lost, which is `StaleCovered`; and a
  name that is not in use must hold nothing (`MembersNull`). Every operation
  changes the block of one pointer, so one lemma about the number of holders
  (`HolderMoves`) serves all. `LeakForGood`: what `operator=` has overwritten is
  never deleted. `ExactWithoutOverwrite`: without such an assignment an object lives
  exactly as long as a pointer has it.
* `Examples_proofs`: every invariant of the suite, its type invariant included,
  for any finite set of children, any limit, any number of meetings and of items.
  A step of the suite is a step of each program or leaves it alone
  (`ProgramSteps`), so each program has an inductive invariant of its own.
  `MutexInv`: who is inside holds the mutex, and who has left found the counter
  at the limit. `SemaphoreInv`: the token is in the semaphore or in exactly one
  thread. `BarrierInv`: the sum is that of the meetings held plus the cardinality
  of `BarrierAdded`, which `SumFollowsMeetings` bounds. `LatchInv`: the counter is
  the number of threads that have still to arrive, the sum the number of those
  that have added. `NotifyInv`: main sets the flag before it notifies. `JoinedInv`:
  what an append has seen, and what the object and the caller's copy then hold, at
  each pair of places of the two threads. `FutureInv`, `DetachInv`,
  `StringsInv`, `WinMutexInv`: where main may be while the child is still busy.
  `NobodyStuck` needs, besides, for each program which thread can be at which place
  and who owns its mutex there (`MutexPlaces`, ..., `EventInv`). `StuckForGood`: no
  step leads out of the two ways to hang.

So every invariant and every action property of every passing run is also a
theorem, and so are the refinements. Only model-checked: the eight violations, and
liveness, which needs fairness and is outside the prover's reach
(`FirstWaitReturns`, `DestructorEnds`, `TurnsEnd`, `RingEnds`, `FinishesOrStrands`, `FinishesOrDeadlocks`, `MainReturns`, `PollingEnds`,
`WindowsEnds`). What is proved of these is the part without fairness: there is no
state, for any value of the constants, in which all threads wait and the program
has neither ended nor hung in the way stated (`NobodyStuck`, `StopsOnlyAtEnd`,
`StopsOnlyComplete`); a caller of `wait` that waits for good is described by
`NoLostWakeup`. What is left to TLC is that no program runs on for ever.

## 7. Not modelled

* `packaged_task::swap` and the general `packaged_task` template, which nothing
  instantiates; `m_owned` of `promise`, which is written and never read; `reset()`
  of `Event`, which is never called; the `wait_for` on a condition variable of
  `include/common.hpp`, which no program uses.
* In `LiteAsync`, the default constructor and the implicit `operator=` of `future`,
  which would give two futures the same thread and task; no program of the
  repository assigns a future that `async()` returned.
* What follows undefined behaviour: a detached thread on a dead frame, a use of
  the freed block, a null block. The models say when it can happen.
* Logging, command lines, build files: no state depends on them.

## 8. State of the work

Order of work: the library's futures, the part where lifetime and concurrency
meet; the programs with condition variables, whose waits and notifications are
the classical hazard; atomics; `shared_ptr`; the suite of small programs; the
promise on the stack; the programs with `std::future` and with a single join; the
abstract result `OneShot`; the proofs about the suite; the proofs that no program
stops half-way, and what exactly leaks or dangles. All of it is done.
