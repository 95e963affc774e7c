---------------------------- MODULE LiteSharedPtr ----------------------------
(***************************************************************************)
(* lite::shared_ptr of include/lite/memory.hpp: pointer objects that share *)
(* control blocks.  A block and the object it was made for are one member  *)
(* of Blocks: the code frees both in the same destructor.  The client is   *)
(* general: it may apply every constructor, operator=, the cast and the    *)
(* destructor to the pointers it has (example_shared_ptr of windows.cpp is *)
(* one client), in one thread: the count is a plain int.                   *)
(***************************************************************************)
EXTENDS Integers, FiniteSets

CONSTANTS
  Ptrs,       \* names for the shared_ptr objects that may exist
  Blocks,     \* control blocks, each with its object
  NullPtr,
  MaxLost     \* how many references to one object operator= may overwrite

ASSUME SharedPtrAssumption ==
  /\ IsFiniteSet(Ptrs)
  /\ NullPtr \notin Blocks
  /\ MaxLost \in Nat

VARIABLES
  ptrs,      \* the pointer objects constructed and not destroyed
  value,     \* m_value: the block whose object it points to, or NullPtr
  block,     \* m_block, or NullPtr
  count,     \* shared_count of each block
  storage,   \* each block and its object: "none", "live" or "freed"
  crashed    \* a null m_block was dereferenced

vars == <<ptrs, value, block, count, storage, crashed>>

TypeOK ==
  /\ ptrs \subseteq Ptrs
  /\ value \in [Ptrs -> Blocks \cup {NullPtr}]
  /\ block \in [Ptrs -> Blocks \cup {NullPtr}]
  /\ count \in [Blocks -> Nat]
  /\ storage \in [Blocks -> {"none", "live", "freed"}]
  /\ crashed \in BOOLEAN

Init ==
  /\ ptrs = {}
  /\ value = [p \in Ptrs |-> NullPtr]
  /\ block = [p \in Ptrs |-> NullPtr]
  /\ count = [b \in Blocks |-> 0]
  /\ storage = [b \in Blocks |-> "none"]
  /\ crashed = FALSE

-----------------------------------------------------------------------------
Holders(b) == {p \in Ptrs : block[p] = b}

\* The references operator= has overwritten without giving them up.
Lost(b) == count[b] - Cardinality(Holders(b))

\* A new pointer object p with these two members.
NewPtr(p, v, b) ==
  /\ p \notin ptrs
  /\ ptrs' = ptrs \cup {p}
  /\ value' = [value EXCEPT ![p] = v]
  /\ block' = [block EXCEPT ![p] = b]

Increase(b) == count' = [count EXCEPT ![b] = @ + 1]

Default(p) ==
  /\ NewPtr(p, NullPtr, NullPtr)
  /\ UNCHANGED <<count, storage>>

\* shared_ptr(Y*), on the result of a new expression.
Construct(p, b) ==
  /\ storage[b] = "none"
  /\ NewPtr(p, b, b)
  /\ storage' = [storage EXCEPT ![b] = "live"]
  /\ Increase(b)

\* Faulty variant: the copy constructor forgets increase().
CopyUncounted(p, q) ==
  /\ q \in ptrs /\ block[q] # NullPtr
  /\ NewPtr(p, value[q], block[q])
  /\ UNCHANGED <<count, storage>>

\* Both copy constructors.
Copy(p, q) ==
  /\ q \in ptrs /\ block[q] # NullPtr
  /\ NewPtr(p, value[q], block[q])
  /\ Increase(block[q])
  /\ UNCHANGED storage

\* dynamic_pointer_cast: counts also when the cast itself gives null.
Cast(p, q) ==
  /\ q \in ptrs /\ block[q] # NullPtr
  /\ \E v \in {value[q], NullPtr} : NewPtr(p, v, block[q])
  /\ Increase(block[q])
  /\ UNCHANGED storage

\* Faulty variant: operator= does not count either.
AssignUncounted(p, q) ==
  /\ p \in ptrs /\ q \in ptrs /\ p # q
  /\ block[q] # NullPtr
  /\ block[p] # NullPtr => Lost(block[p]) < MaxLost
  /\ block' = [block EXCEPT ![p] = block[q]]
  /\ UNCHANGED <<ptrs, value, count, storage>>

\* operator=: the old block is not decreased and m_value not assigned.
Assign(p, q) ==
  /\ p \in ptrs /\ q \in ptrs /\ p # q
  /\ block[q] # NullPtr
  /\ block[p] # NullPtr => Lost(block[p]) < MaxLost
  /\ block' = [block EXCEPT ![p] = block[q]]
  /\ Increase(block[q])
  /\ UNCHANGED <<ptrs, value, storage>>

\* Faulty variant: the test of use_count() comes before decrease().
DestroyEarly(p) ==
  /\ p \in ptrs
  /\ ptrs' = ptrs \ {p}
  /\ value' = [value EXCEPT ![p] = NullPtr]
  /\ block' = [block EXCEPT ![p] = NullPtr]
  /\ LET b == block[p]
     IN  IF b = NullPtr THEN UNCHANGED <<count, storage>>
         ELSE /\ count' = [count EXCEPT ![b] = @ - 1]
              /\ storage' = [storage EXCEPT ![b] = IF count[b] = 0 THEN "freed" ELSE @]

\* ~shared_ptr: decrease() and, at zero, release() and delete of the block.
\* The members of a pointer that does not exist count as null.
Destroy(p) ==
  /\ p \in ptrs
  /\ ptrs' = ptrs \ {p}
  /\ value' = [value EXCEPT ![p] = NullPtr]
  /\ block' = [block EXCEPT ![p] = NullPtr]
  /\ LET b == block[p]
         left == IF count[b] > 0 THEN count[b] - 1 ELSE count[b]
     IN  IF b = NullPtr THEN UNCHANGED <<count, storage>>
         ELSE /\ count' = [count EXCEPT ![b] = left]
              /\ storage' = [storage EXCEPT ![b] = IF left = 0 THEN "freed" ELSE @]

\* Copy, cast, assignment from and use_count() of an empty pointer.
UseEmpty(p) ==
  /\ p \in ptrs /\ block[p] = NullPtr
  /\ crashed' = TRUE
  /\ UNCHANGED <<ptrs, value, block, count, storage>>

Operate ==
  \/ \E p \in Ptrs : Default(p) \/ Destroy(p)
  \/ \E p \in Ptrs, b \in Blocks : Construct(p, b)
  \/ \E p, q \in Ptrs : Copy(p, q) \/ Cast(p, q) \/ Assign(p, q)

Next ==
  /\ ~crashed
  /\ \/ Operate /\ UNCHANGED crashed
     \/ \E p \in Ptrs : UseEmpty(p)

Spec == Init /\ [][Next]_vars

-----------------------------------------------------------------------------
\* A block is alive as long as it is counted, and the count is never less
\* than the number of its holders, whatever operator= does to it.
CountCoversHolders ==
  \A b \in Blocks :
    /\ (storage[b] = "live") <=> (count[b] > 0)
    /\ Lost(b) >= 0

\* What get() returns is null or an object not yet deleted, although operator=
\* leaves m_value pointing to an object that m_block no longer counts.
ValueAlive ==
  \A p \in ptrs : value[p] # NullPtr => storage[value[p]] = "live"

\* operator= costs a leak and nothing else: pointers and objects behave as
\* owners and what they own, and an object outlives its last owner only if an
\* assignment has overwritten a reference to it.
Own == INSTANCE Ownership
  WITH Owners <- Ptrs, Objects <- Blocks, Nothing <- NullPtr, owns <- block,
       living <- {b \in Blocks : storage[b] = "live"},
       created <- {b \in Blocks : storage[b] # "none"},
       immortal <- {b \in Blocks : Lost(b) > 0}

ImplementsOwnership == Own!Spec
=============================================================================
