----------------------------- MODULE LiteFuture -----------------------------
(***************************************************************************)
(* The shared block of include/lite/future.hpp: one future_block, the      *)
(* future objects that count themselves on it, and the operations that     *)
(* promise and future perform on it.  The operations are actions on the    *)
(* block only; LiteAsync conjoins them with the control of the callers.    *)
(*                                                                         *)
(* The payload R is abstracted to "garbage" (the block's value member is   *)
(* never initialised) and "result" (what the task returned).               *)
(***************************************************************************)
EXTENDS Naturals, FiniteSets

CONSTANT Futures    \* names for the lite::future objects that may exist

\* Returning a future without copy elision needs a second object.
ASSUME FuturesAssumption == IsFiniteSet(Futures) /\ Cardinality(Futures) >= 2

VARIABLES
  alloc,     \* storage of the block: "none", "live" or "freed"
  count,     \* m_count
  value,     \* the value member
  event,     \* the block's Event: "nonsignalled", "signalled", or "null" if
             \* CreateEvent has failed
  deletes,   \* how often `delete` ran on the block's address
  futs       \* the future objects constructed on the block and not destroyed

blockVars == <<alloc, count, value, event, deletes, futs>>

BlockTypeOK ==
  /\ alloc \in {"none", "live", "freed"}
  /\ count \in Nat
  /\ value \in {"garbage", "result"}
  /\ event \in {"nonsignalled", "signalled", "null"}
  /\ deletes \in Nat
  /\ futs \subseteq Futures

BlockInit ==
  /\ alloc = "none"
  /\ count = 0
  /\ value = "garbage"
  /\ event = "nonsignalled"
  /\ deletes = 0
  /\ futs = {}

-----------------------------------------------------------------------------
\* promise(): allocates the block; its event is auto-reset, not signalled, or
\* a null handle, which nobody tests.
NewBlock ==
  /\ alloc = "none"
  /\ alloc' = "live"
  /\ event' \in {"nonsignalled", "null"}
  /\ UNCHANGED <<count, value, deletes, futs>>

\* Faulty variant: the copy constructor forgets increase().
AttachUncounted(f) ==
  /\ f \notin futs
  /\ futs' = futs \cup {f}
  /\ UNCHANGED <<alloc, count, value, event, deletes>>

\* future(future_block*) and the copy constructor: share the block, count up.
Attach(f) ==
  /\ f \notin futs
  /\ futs' = futs \cup {f}
  /\ count' = count + 1
  /\ UNCHANGED <<alloc, value, event, deletes>>

\* The first statement of ~future(): decrease(), which stops at zero.
CountDown(f) ==
  /\ f \in futs
  /\ futs' = futs \ {f}
  /\ count' = IF count > 0 THEN count - 1 ELSE count

Release(f) ==
  /\ CountDown(f)
  /\ UNCHANGED <<alloc, value, event, deletes>>

\* delete_ptr on a pointer to the block that is not null.  The pointer of
\* another owner is not reset, so nothing here stops a second delete.
DeleteBlock ==
  /\ alloc' = "freed"
  /\ deletes' = deletes + 1
  /\ UNCHANGED <<count, value, event, futs>>

\* Faulty variant, of the three operations below: nothing happens.
DoNothing ==
  UNCHANGED blockVars

\* delete_block(), called by ~promise(): deletes the block no future counts.
DeleteIfUncounted ==
  IF count = 0 THEN DeleteBlock ELSE UNCHANGED blockVars

\* set_value(): the store and the SetEvent are two separate effects.  On freed
\* storage they are undefined behaviour, modelled as having no effect here:
\* OutliveWorker of LiteAsync says when they can happen.  SetEvent on a null
\* handle fails, which nobody looks at.
StoreValue ==
  /\ value' = IF alloc = "live" THEN "result" ELSE value
  /\ UNCHANGED <<alloc, count, event, deletes, futs>>

RaiseEvent ==
  /\ event' = IF alloc = "live" /\ event # "null" THEN "signalled" ELSE event
  /\ UNCHANGED <<alloc, count, value, deletes, futs>>

\* A wait on the auto-reset event that is satisfied resets it.
TakeEvent ==
  /\ event = "signalled"
  /\ event' = "nonsignalled"
  /\ UNCHANGED <<alloc, count, value, deletes, futs>>
=============================================================================
