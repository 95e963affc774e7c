------------------------ MODULE LiteSharedPtr_proofs -------------------------
(***************************************************************************)
(* Proofs about LiteSharedPtr, for every finite set of pointers, every set *)
(* of objects and every bound on the references operator= may overwrite:   *)
(* no block is freed under a holder, get() never dangles, and the pointers *)
(* implement Ownership.                                                    *)
(***************************************************************************)
EXTENDS LiteSharedPtr, FiniteSetTheorems, TLAPS

USE SharedPtrAssumption

\* A pointer that does not exist holds nothing.
MembersNull == \A p \in Ptrs \ ptrs : value[p] = NullPtr /\ block[p] = NullPtr

\* An m_value that m_block does not count is covered by a lost reference.
StaleCovered ==
  \A p \in Ptrs, b \in Blocks : value[p] = b /\ block[p] # b => Lost(b) > 0

IInv == TypeOK /\ MembersNull /\ CountCoversHolders /\ StaleCovered

-----------------------------------------------------------------------------
(* Holders and their number. *)

LEMMA HoldersFinite ==
  ASSUME NEW b
  PROVE  IsFiniteSet(Holders(b)) /\ Cardinality(Holders(b)) \in Nat
<1>1. Holders(b) \subseteq Ptrs
  BY DEF Holders
<1>. QED
  BY <1>1, FS_Subset, FS_CardinalityType

LEMMA HoldersCounted ==
  ASSUME NEW b, NEW p \in Ptrs, block[p] = b
  PROVE  Cardinality(Holders(b)) >= 1
<1>1. p \in Holders(b)
  BY DEF Holders
<1>2. Cardinality(Holders(b)) # 0
  BY <1>1, HoldersFinite, FS_EmptySet
<1>. QED
  BY <1>2, HoldersFinite

\* When one pointer changes its block, the holders of its old block lose it
\* and those of its new one gain it.
LEMMA HolderMoves ==
  ASSUME NEW p \in Ptrs, \A q \in Ptrs \ {p} : block'[q] = block[q],
         NEW b
  PROVE  Cardinality(Holders(b)') =
           IF block[p] # b /\ block'[p] = b THEN Cardinality(Holders(b)) + 1
           ELSE IF block[p] = b /\ block'[p] # b THEN Cardinality(Holders(b)) - 1
           ELSE Cardinality(Holders(b))
<1>1. CASE block[p] # b /\ block'[p] = b
  <2>1. Holders(b)' = Holders(b) \cup {p} /\ p \notin Holders(b)
    BY <1>1 DEF Holders
  <2>. QED
    BY <1>1, <2>1, HoldersFinite, FS_AddElement
<1>2. CASE block[p] = b /\ block'[p] # b
  <2>1. Holders(b)' = Holders(b) \ {p} /\ p \in Holders(b)
    BY <1>2 DEF Holders
  <2>. QED
    BY <1>2, <2>1, HoldersFinite, FS_RemoveElement
<1>3. CASE (block[p] = b) <=> (block'[p] = b)
  <2>1. Holders(b)' = Holders(b)
    BY <1>3 DEF Holders
  <2>. QED
    BY <1>3, <2>1
<1>. QED
  BY <1>1, <1>2, <1>3

LEMMA LostIsInt ==
  ASSUME TypeOK, NEW b \in Blocks
  PROVE  Lost(b) \in Int
  BY HoldersFinite DEF TypeOK, Lost

-----------------------------------------------------------------------------
(* What the operations do to the lost references. *)

LEMMA CountedPtrLosesNothing ==
  ASSUME IInv, NEW p \in Ptrs, NEW v, NEW b \in Blocks, NewPtr(p, v, b),
         Increase(b), NEW x \in Blocks
  PROVE  Lost(x)' = Lost(x)
<1>1. block[p] = NullPtr /\ TypeOK
  BY DEF IInv, MembersNull, NewPtr
<1>2. count'[x] = IF x = b THEN count[x] + 1 ELSE count[x]
  BY <1>1 DEF Increase, TypeOK
<1>3. Cardinality(Holders(x)') = IF x = b THEN Cardinality(Holders(x)) + 1
                                 ELSE Cardinality(Holders(x))
  <2>1. block'[p] = b /\ \A q \in Ptrs \ {p} : block'[q] = block[q]
    BY <1>1 DEF NewPtr, TypeOK
  <2>. QED
    BY <1>1, <2>1, HolderMoves
<1>4. count[x] \in Nat /\ Cardinality(Holders(x)) \in Nat
  BY <1>1, HoldersFinite DEF TypeOK
<1>. QED
  BY <1>2, <1>3, <1>4 DEF Lost

\* A holder's block is counted, so decrease() does not meet its test for zero.
LEMMA HeldIsCounted ==
  ASSUME IInv, NEW p \in Ptrs, block[p] # NullPtr
  PROVE  block[p] \in Blocks /\ count[block[p]] > 0 /\ storage[block[p]] = "live"
<1>1. block[p] \in Blocks /\ count[block[p]] \in Nat
  BY DEF IInv, TypeOK
<1>2. Cardinality(Holders(block[p])) >= 1
  BY HoldersCounted
<1>3. Lost(block[p]) >= 0
  BY <1>1 DEF IInv, CountCoversHolders
<1>4. count[block[p]] > 0
  BY <1>1, <1>2, <1>3, HoldersFinite DEF Lost
<1>. QED
  BY <1>1, <1>4 DEF IInv, CountCoversHolders

LEMMA DestroyLosesNothing ==
  ASSUME IInv, NEW p \in Ptrs, Destroy(p), NEW x \in Blocks
  PROVE  /\ Lost(x)' = Lost(x)
         /\ count'[x] = IF x = block[p] THEN count[x] - 1 ELSE count[x]
         /\ storage'[x] = IF x = block[p] /\ count'[x] = 0 THEN "freed"
                          ELSE storage[x]
<1>1. TypeOK /\ block' = [block EXCEPT ![p] = NullPtr] /\ x # NullPtr
  BY DEF IInv, Destroy
<1>2. count[x] \in Nat /\ Cardinality(Holders(x)) \in Nat
  BY <1>1, HoldersFinite DEF TypeOK
<1>3. /\ count'[x] = IF x = block[p] THEN count[x] - 1 ELSE count[x]
      /\ storage'[x] = IF x = block[p] /\ count'[x] = 0 THEN "freed"
                       ELSE storage[x]
  <2>1. CASE block[p] = NullPtr
    BY <1>1, <2>1 DEF Destroy
  <2>2. CASE block[p] # NullPtr
    <3>1. block[p] \in Blocks /\ count[block[p]] > 0
      BY <2>2, HeldIsCounted
    <3>. QED
      BY <1>1, <2>2, <3>1 DEF Destroy, TypeOK
  <2>. QED
    BY <2>1, <2>2
<1>4. Cardinality(Holders(x)') = IF x = block[p] THEN Cardinality(Holders(x)) - 1
                                 ELSE Cardinality(Holders(x))
  <2>1. block'[p] = NullPtr /\ \A q \in Ptrs \ {p} : block'[q] = block[q]
    BY <1>1 DEF TypeOK
  <2>. QED
    BY <1>1, <2>1, HolderMoves
<1>5. Lost(x)' = Lost(x)
  BY <1>2, <1>3, <1>4 DEF Lost
<1>. QED
  BY <1>3, <1>5

LEMMA AssignLosesOne ==
  ASSUME IInv, NEW p \in Ptrs, NEW q \in Ptrs, Assign(p, q), NEW x \in Blocks
  PROVE  /\ Lost(x)' = IF x = block[p] THEN Lost(x) + 1 ELSE Lost(x)
         /\ count'[x] = IF x = block[q] THEN count[x] + 1 ELSE count[x]
<1>1. TypeOK /\ block' = [block EXCEPT ![p] = block[q]] /\ block[q] \in Blocks
  BY DEF IInv, Assign, TypeOK
<1>2. count'[x] = IF x = block[q] THEN count[x] + 1 ELSE count[x]
  BY <1>1 DEF Assign, Increase, TypeOK
<1>3. count[x] \in Nat /\ Cardinality(Holders(x)) \in Nat
  BY <1>1, HoldersFinite DEF TypeOK
<1>4. Cardinality(Holders(x)') =
        IF block[p] # x /\ block[q] = x THEN Cardinality(Holders(x)) + 1
        ELSE IF block[p] = x /\ block[q] # x THEN Cardinality(Holders(x)) - 1
        ELSE Cardinality(Holders(x))
  <2>1. block'[p] = block[q] /\ \A r \in Ptrs \ {p} : block'[r] = block[r]
    BY <1>1 DEF TypeOK
  <2>. QED
    BY <2>1, HolderMoves
<1>5. Lost(x)' = IF x = block[p] THEN Lost(x) + 1 ELSE Lost(x)
  BY <1>2, <1>3, <1>4 DEF Lost
<1>. QED
  BY <1>2, <1>5

-----------------------------------------------------------------------------
(* The invariant is inductive. *)

LEMMA Initially == Init => IInv
<1> SUFFICES ASSUME Init PROVE IInv
  OBVIOUS
<1>1. TypeOK /\ MembersNull /\ StaleCovered
  BY DEF Init, TypeOK, MembersNull, StaleCovered
<1>2. ASSUME NEW b \in Blocks
      PROVE  ((storage[b] = "live") <=> (count[b] > 0)) /\ Lost(b) >= 0
  <2>1. Holders(b) = {}
    BY DEF Init, Holders
  <2>2. Lost(b) = 0
    BY <2>1, FS_EmptySet DEF Lost, Init
  <2>. QED
    BY <2>2 DEF Init
<1>. QED
  BY <1>1, <1>2 DEF IInv, CountCoversHolders

\* A pointer that is counted on the block whose object it points to, or whose
\* object is null, needs no lost reference.
LEMMA CountedPtrStep ==
  ASSUME IInv, NEW p \in Ptrs, NEW v \in Blocks \cup {NullPtr}, NEW b \in Blocks,
         NewPtr(p, v, b), Increase(b),
         \/ v = NullPtr \/ v = b
         \/ \E q \in Ptrs : v = value[q] /\ b = block[q],
         \/ storage' = [storage EXCEPT ![b] = "live"]
         \/ storage' = storage /\ storage[b] = "live",
         crashed' \in BOOLEAN
  PROVE  IInv'
<1> USE DEF IInv
<1>1. TypeOK'
  BY DEF TypeOK, NewPtr, Increase
<1>2. /\ ptrs' = ptrs \cup {p}
      /\ value'[p] = v /\ block'[p] = b
      /\ \A q \in Ptrs \ {p} : value'[q] = value[q] /\ block'[q] = block[q]
  BY DEF NewPtr, TypeOK
<1>3. MembersNull'
  BY <1>2 DEF MembersNull
<1>4. \A x \in Blocks : Lost(x)' = Lost(x) /\ Lost(x) \in Int
  BY CountedPtrLosesNothing, LostIsInt
<1>5. ASSUME NEW x \in Blocks
      PROVE  ((storage'[x] = "live") <=> (count'[x] > 0)) /\ Lost(x)' >= 0
  <2>1. count[x] \in Nat /\ count'[x] = IF x = b THEN count[x] + 1 ELSE count[x]
    BY DEF TypeOK, Increase
  <2>2. storage'[x] = IF x = b THEN "live" ELSE storage[x]
    BY DEF TypeOK
  <2>. QED
    BY <1>4, <2>1, <2>2 DEF CountCoversHolders
<1>6. StaleCovered'
  <2> SUFFICES ASSUME NEW q \in Ptrs, NEW x \in Blocks,
                      value'[q] = x, block'[q] # x
               PROVE  Lost(x)' > 0
    BY DEF StaleCovered
  <2>1. PICK r \in Ptrs : value[r] = x /\ block[r] # x
    BY <1>2
  <2>2. Lost(x) > 0
    BY <2>1 DEF StaleCovered
  <2>. QED
    BY <1>4, <2>2
<1>. QED
  BY <1>1, <1>3, <1>5, <1>6 DEF CountCoversHolders

LEMMA DestroyStep ==
  ASSUME IInv, NEW p \in Ptrs, Destroy(p), crashed' = crashed
  PROVE  IInv'
<1>1. /\ ptrs' = ptrs \ {p}
      /\ value'[p] = NullPtr /\ block'[p] = NullPtr
      /\ \A q \in Ptrs \ {p} : value'[q] = value[q] /\ block'[q] = block[q]
  BY DEF IInv, Destroy, TypeOK
<1>2. \A x \in Blocks :
        /\ Lost(x)' = Lost(x) /\ Lost(x) \in Int /\ count[x] \in Nat
        /\ count'[x] = IF x = block[p] THEN count[x] - 1 ELSE count[x]
        /\ storage'[x] = IF x = block[p] /\ count'[x] = 0 THEN "freed"
                         ELSE storage[x]
        /\ x = block[p] => count[x] > 0
  <2>1. ASSUME NEW x \in Blocks, x = block[p] PROVE count[x] > 0
    BY <2>1, HeldIsCounted
  <2>. QED
    BY <2>1, DestroyLosesNothing, LostIsInt DEF IInv, TypeOK
<1>3. TypeOK'
  <2>1. count' \in [Blocks -> Int] /\ storage' \in [Blocks -> {"none", "live", "freed"}]
    BY DEF IInv, Destroy, TypeOK
  <2>2. \A x \in Blocks : count'[x] \in Nat
    BY <1>2
  <2>3. count' \in [Blocks -> Nat]
    BY <2>1, <2>2
  <2>. QED
    BY <2>1, <2>3 DEF IInv, Destroy, TypeOK
<1>4. MembersNull'
  BY <1>1 DEF IInv, MembersNull
<1>5. CountCoversHolders'
  BY <1>2 DEF IInv, CountCoversHolders
<1>6. StaleCovered'
  <2> SUFFICES ASSUME NEW q \in Ptrs, NEW x \in Blocks,
                      value'[q] = x, block'[q] # x
               PROVE  Lost(x)' > 0
    BY DEF StaleCovered
  <2>1. value[q] = x /\ block[q] # x
    BY <1>1
  <2>. QED
    BY <1>2, <2>1 DEF IInv, StaleCovered
<1>. QED
  BY <1>3, <1>4, <1>5, <1>6 DEF IInv

LEMMA AssignStep ==
  ASSUME IInv, NEW p \in Ptrs, NEW q \in Ptrs, Assign(p, q), crashed' = crashed
  PROVE  IInv'
<1>1. /\ block'[p] = block[q] /\ block[q] \in Blocks
      /\ \A r \in Ptrs \ {p} : block'[r] = block[r]
  BY DEF IInv, Assign, TypeOK
<1>2. \A x \in Blocks :
        /\ Lost(x)' = IF x = block[p] THEN Lost(x) + 1 ELSE Lost(x)
        /\ Lost(x) \in Int /\ count[x] \in Nat
        /\ count'[x] = IF x = block[q] THEN count[x] + 1 ELSE count[x]
        /\ x = block[q] => count[x] > 0
  <2>1. ASSUME NEW x \in Blocks, x = block[q] PROVE count[x] > 0
    BY <1>1, <2>1, HeldIsCounted
  <2>. QED
    BY <2>1, AssignLosesOne, LostIsInt DEF IInv, TypeOK
<1>3. TypeOK'
  BY DEF IInv, Assign, Increase, TypeOK
<1>4. MembersNull'
  BY <1>1 DEF IInv, MembersNull, Assign
<1>5. CountCoversHolders'
  BY <1>2 DEF IInv, CountCoversHolders, Assign
<1>6. StaleCovered'
  <2> SUFFICES ASSUME NEW r \in Ptrs, NEW x \in Blocks,
                      value'[r] = x, block'[r] # x
               PROVE  Lost(x)' > 0
    BY DEF StaleCovered
  <2>1. value[r] = x
    BY DEF Assign
  <2>2. CASE block[r] = x
    <3>1. r = p /\ Lost(x) >= 0
      BY <1>1, <2>2 DEF IInv, CountCoversHolders
    <3>. QED
      BY <1>2, <2>2, <3>1
  <2>3. CASE block[r] # x
    <3>1. Lost(x) > 0
      BY <2>1, <2>3 DEF IInv, StaleCovered
    <3>. QED
      BY <1>2, <3>1
  <2>. QED
    BY <2>2, <2>3
<1>. QED
  BY <1>3, <1>4, <1>5, <1>6 DEF IInv

\* Default constructor, a crash, and stuttering: nothing counted changes.
LEMMA UncountedStep ==
  ASSUME IInv, UNCHANGED <<block, count, storage, value>>,
         ptrs' \subseteq Ptrs, ptrs \subseteq ptrs', crashed' \in BOOLEAN
  PROVE  IInv'
<1>1. \A x \in Blocks : Lost(x)' = Lost(x)
  BY DEF Lost, Holders
<1>. QED
  BY <1>1 DEF IInv, TypeOK, MembersNull, CountCoversHolders, StaleCovered

\* What each operation does, as the lemmas above need it.
LEMMA DefaultKeeps ==
  ASSUME IInv, NEW p \in Ptrs, Default(p)
  PROVE  UNCHANGED <<block, count, storage, value>> /\ ptrs' = ptrs \cup {p}
  BY DEF IInv, TypeOK, MembersNull, Default, NewPtr

LEMMA CountedPtr ==
  ASSUME IInv, NEW p \in Ptrs, NEW q \in Ptrs, Copy(p, q) \/ Cast(p, q)
  PROVE  /\ block[q] \in Blocks /\ storage[block[q]] = "live"
         /\ Increase(block[q]) /\ UNCHANGED storage
         /\ \E v \in {value[q], NullPtr} : NewPtr(p, v, block[q])
<1>1. block[q] # NullPtr
  BY DEF Copy, Cast
<1>. QED
  BY <1>1, HeldIsCounted DEF Copy, Cast

LEMMA Inductive == IInv /\ [Next]_vars => IInv'
<1> SUFFICES ASSUME IInv, [Next]_vars PROVE IInv'
  OBVIOUS
<1>1. TypeOK
  BY DEF IInv
<1>2. ASSUME NEW p \in Ptrs, Default(p), UNCHANGED crashed PROVE IInv'
  BY <1>1, <1>2, DefaultKeeps, UncountedStep DEF TypeOK
<1>3. ASSUME NEW p \in Ptrs, NEW b \in Blocks, Construct(p, b), UNCHANGED crashed
      PROVE  IInv'
  BY <1>1, <1>3, CountedPtrStep DEF Construct, TypeOK
<1>4. ASSUME NEW p \in Ptrs, NEW q \in Ptrs, Copy(p, q) \/ Cast(p, q),
             UNCHANGED crashed
      PROVE  IInv'
  <2>1. PICK v \in {value[q], NullPtr} : NewPtr(p, v, block[q])
    BY <1>4, CountedPtr
  <2>2. v \in Blocks \cup {NullPtr}
    BY <1>1 DEF TypeOK
  <2>3. block[q] \in Blocks /\ storage[block[q]] = "live" /\ Increase(block[q])
        /\ storage' = storage
    BY <1>4, CountedPtr
  <2>4. PICK b \in Blocks : b = block[q]
    BY <2>3
  <2>5. v = NullPtr \/ \E r \in Ptrs : v = value[r] /\ b = block[r]
    BY <2>4
  <2>. QED
    BY <1>1, <1>4, <2>1, <2>2, <2>3, <2>4, <2>5, CountedPtrStep DEF TypeOK
<1>5. ASSUME NEW p \in Ptrs, NEW q \in Ptrs, Assign(p, q), UNCHANGED crashed
      PROVE  IInv'
  BY <1>5, AssignStep
<1>6. ASSUME NEW p \in Ptrs, Destroy(p), UNCHANGED crashed PROVE IInv'
  BY <1>6, DestroyStep
<1>7. ASSUME NEW p \in Ptrs, UseEmpty(p) PROVE IInv'
  BY <1>1, <1>7, UncountedStep DEF UseEmpty, TypeOK
<1>8. CASE UNCHANGED vars
  BY <1>1, <1>8, UncountedStep DEF vars, TypeOK
<1>. QED
  BY <1>2, <1>3, <1>4, <1>5, <1>6, <1>7, <1>8 DEF Next, Operate

THEOREM Invariance == Spec => []IInv
  BY Initially, Inductive, PTL DEF Spec

\* Every member of every pointer and block has its type, in every behaviour of
\* every client.
THEOREM TypeCorrect == Spec => []TypeOK
<1>1. IInv => TypeOK
  BY DEF IInv
<1>. QED
  BY Invariance, <1>1, PTL

\* No sequence of constructions, copies, casts, assignments and destructions
\* makes a count smaller than the number of the pointers it stands for.
THEOREM CountsCover == Spec => []CountCoversHolders
<1>1. IInv => CountCoversHolders
  BY DEF IInv
<1>. QED
  BY Invariance, <1>1, PTL

\* get() and operator* never give an object that has been deleted, also after
\* operator=, which leaves m_value where it was.
THEOREM NeverDangles == Spec => []ValueAlive
<1>1. IInv => ValueAlive
  <2> SUFFICES ASSUME IInv, NEW p \in ptrs, value[p] # NullPtr
               PROVE  storage[value[p]] = "live"
    BY DEF ValueAlive
  <2>1. p \in Ptrs /\ value[p] \in Blocks
    BY DEF IInv, TypeOK
  <2>2. CASE block[p] = value[p]
    BY <2>1, <2>2, HeldIsCounted
  <2>3. CASE block[p] # value[p]
    <3>1. Lost(value[p]) > 0
      BY <2>1, <2>3 DEF IInv, StaleCovered
    <3>2. count[value[p]] \in Nat /\ Cardinality(Holders(value[p])) \in Nat
      BY <2>1, HoldersFinite DEF IInv, TypeOK
    <3>3. count[value[p]] > 0
      BY <3>1, <3>2 DEF Lost
    <3>. QED
      BY <2>1, <3>3 DEF IInv, CountCoversHolders
  <2>. QED
    BY <2>2, <2>3
<1>. QED
  BY Invariance, <1>1, PTL

-----------------------------------------------------------------------------
(* What operator= costs. *)

\* Only an assignment to a pointer that holds the block loses a reference to it.
LEMMA LostStep ==
  ASSUME IInv, [Next]_vars, NEW b \in Blocks
  PROVE  \/ Lost(b)' = Lost(b)
         \/ Lost(b) < MaxLost /\ Lost(b)' = Lost(b) + 1
<1>1. ASSUME UNCHANGED <<block, count>> PROVE Lost(b)' = Lost(b)
  BY <1>1 DEF Lost, Holders
<1>2. ASSUME NEW p \in Ptrs, Default(p) PROVE Lost(b)' = Lost(b)
  BY <1>1, <1>2, DefaultKeeps
<1>3. ASSUME NEW p \in Ptrs, NEW x \in Blocks, Construct(p, x) PROVE Lost(b)' = Lost(b)
  BY <1>3, CountedPtrLosesNothing DEF Construct
<1>4. ASSUME NEW p \in Ptrs, NEW q \in Ptrs, Copy(p, q) \/ Cast(p, q)
      PROVE  Lost(b)' = Lost(b)
  <2>1. PICK x \in Blocks : x = block[q]
    BY <1>4, CountedPtr
  <2>2. PICK v \in {value[q], NullPtr} : NewPtr(p, v, block[q])
    BY <1>4, CountedPtr
  <2>. QED
    BY <1>4, <2>1, <2>2, CountedPtr, CountedPtrLosesNothing
<1>5. ASSUME NEW p \in Ptrs, NEW q \in Ptrs, Assign(p, q)
      PROVE  \/ Lost(b)' = Lost(b)
             \/ Lost(b) < MaxLost /\ Lost(b)' = Lost(b) + 1
  <2>1. Lost(b)' = IF b = block[p] THEN Lost(b) + 1 ELSE Lost(b)
    BY <1>5, AssignLosesOne
  <2>2. b = block[p] => Lost(b) < MaxLost
    BY <1>5 DEF Assign
  <2>. QED
    BY <2>1, <2>2
<1>6. ASSUME NEW p \in Ptrs, Destroy(p) PROVE Lost(b)' = Lost(b)
  BY <1>6, DestroyLosesNothing
<1>7. ASSUME NEW p \in Ptrs, UseEmpty(p) PROVE Lost(b)' = Lost(b)
  BY <1>1, <1>7 DEF UseEmpty
<1>8. CASE UNCHANGED vars
  BY <1>1, <1>8 DEF vars
<1>. QED
  BY <1>2, <1>3, <1>4, <1>5, <1>6, <1>7, <1>8 DEF Next, Operate

LEMMA AliveIfHeldOrLost ==
  ASSUME IInv, NEW b \in Blocks
  PROVE  storage[b] = "live" <=> Holders(b) # {} \/ Lost(b) > 0
<1>1. /\ count[b] \in Nat /\ Lost(b) = count[b] - Cardinality(Holders(b))
      /\ Lost(b) >= 0 /\ (storage[b] = "live" <=> count[b] > 0)
  BY DEF IInv, TypeOK, CountCoversHolders, Lost
<1>2. Cardinality(Holders(b)) \in Nat /\ (Cardinality(Holders(b)) = 0 <=> Holders(b) = {})
  BY HoldersFinite, FS_EmptySet
<1>. QED
  BY <1>1, <1>2

\* An object whose reference operator= has overwritten is never deleted: no
\* destructor of the pointers that are left brings the count to zero.
THEOREM LeakForGood ==
  Spec => [][\A b \in Blocks :
               Lost(b) > 0 => Lost(b)' >= Lost(b) /\ storage'[b] = "live"]_vars
<1>1. ASSUME IInv, [Next]_vars, IInv', NEW b \in Blocks, Lost(b) > 0
      PROVE  Lost(b)' >= Lost(b) /\ storage'[b] = "live"
  <2>1. Lost(b) \in Int
    BY <1>1, LostIsInt DEF IInv
  <2>2. Lost(b)' >= Lost(b) /\ Lost(b)' > 0
    BY <1>1, <2>1, LostStep
  <2>3. /\ count'[b] \in Nat /\ Lost(b)' = count'[b] - Cardinality(Holders(b)')
        /\ (storage'[b] = "live" <=> count'[b] > 0)
    BY <1>1 DEF IInv, TypeOK, CountCoversHolders, Lost
  <2>4. Cardinality(Holders(b)') \in Nat
    <3>1. Holders(b)' \subseteq Ptrs
      BY DEF Holders
    <3>. QED
      BY <3>1, FS_Subset, FS_CardinalityType
  <2>. QED
    BY <2>2, <2>3, <2>4
<1>2. IInv /\ IInv' /\ [Next]_vars
        => [\A b \in Blocks :
              Lost(b) > 0 => Lost(b)' >= Lost(b) /\ storage'[b] = "live"]_vars
  BY <1>1
<1>. QED
  BY <1>2, Invariance, PTL DEF Spec

\* A client that assigns to empty pointers only, whatever else it does: an object
\* lives exactly as long as a pointer has it.
THEOREM ExactWithoutOverwrite ==
  ASSUME MaxLost = 0
  PROVE  Spec => [](\A b \in Blocks : storage[b] = "live" <=> Holders(b) # {})
<1> DEFINE NothingLost == \A b \in Blocks : Lost(b) = 0
<1>1. Init => NothingLost
  <2> SUFFICES ASSUME Init, NEW b \in Blocks PROVE Lost(b) = 0
    OBVIOUS
  <2>1. Holders(b) = {}
    BY DEF Init, Holders
  <2>. QED
    BY <2>1, FS_EmptySet DEF Lost, Init
<1>2. IInv /\ NothingLost /\ [Next]_vars => NothingLost'
  <2> SUFFICES ASSUME IInv, NothingLost, [Next]_vars, NEW b \in Blocks
               PROVE  Lost(b)' = 0
    OBVIOUS
  <2>1. \/ Lost(b)' = Lost(b)
        \/ Lost(b) < MaxLost /\ Lost(b)' = Lost(b) + 1
    BY LostStep
  <2>. QED
    BY <2>1
<1>3. IInv /\ NothingLost
        => \A b \in Blocks : storage[b] = "live" <=> Holders(b) # {}
  BY AliveIfHeldOrLost
<1>. QED
  BY <1>1, <1>2, <1>3, Invariance, PTL DEF Spec

-----------------------------------------------------------------------------
(* The pointers implement Ownership. *)

LEMMA OwnInit == Init => Own!Init
<1> SUFFICES ASSUME Init PROVE Own!Init
  OBVIOUS
<1>1. ASSUME NEW b \in Blocks PROVE Lost(b) = 0
  <2>1. Holders(b) = {}
    BY DEF Init, Holders
  <2>. QED
    BY <2>1, FS_EmptySet DEF Lost, Init
<1>. QED
  BY <1>1 DEF Init, Own!Init

LEMMA OwnShare ==
  ASSUME IInv, NEW p \in Ptrs, NEW q \in Ptrs, NEW v, block[p] = NullPtr,
         block[q] # NullPtr, block' = [block EXCEPT ![p] = block[q]],
         storage' = storage, \A x \in Blocks : Lost(x)' = Lost(x)
  PROVE  Own!Share(p, q)
  BY DEF Own!Share

\* The last holder of a block without lost references finds its count at one.
LEMMA OwnDrop ==
  ASSUME IInv, NEW p \in Ptrs, Destroy(p), block[p] # NullPtr
  PROVE  Own!Drop(p)
<1> DEFINE b == block[p]
           Alone == Own!OtherOwners(p, b) = {} /\ ~(Lost(b) > 0)
<1>1. b \in Blocks /\ count[b] \in Nat /\ count[b] > 0 /\ storage[b] = "live"
  BY HeldIsCounted DEF IInv, TypeOK
<1>2. /\ block' = [block EXCEPT ![p] = NullPtr]
      /\ \A x \in Blocks :
           /\ Lost(x)' = Lost(x)
           /\ count'[x] = IF x = b THEN count[x] - 1 ELSE count[x]
           /\ storage'[x] = IF x = b /\ count'[x] = 0 THEN "freed" ELSE storage[x]
  BY DestroyLosesNothing DEF Destroy
<1>3. Own!OtherOwners(p, b) = Holders(b) \ {p} /\ p \in Holders(b)
  BY DEF Own!OtherOwners, Holders
<1>4. Cardinality(Holders(b) \ {p}) = Cardinality(Holders(b)) - 1
      /\ IsFiniteSet(Holders(b) \ {p})
  BY <1>3, HoldersFinite, FS_RemoveElement
<1>5. Holders(b) \ {p} = {} <=> Cardinality(Holders(b)) = 1
  BY <1>4, HoldersFinite, FS_EmptySet
<1>6. Lost(b) >= 0 /\ Lost(b) = count[b] - Cardinality(Holders(b))
  BY <1>1 DEF IInv, CountCoversHolders, Lost
<1>7. Cardinality(Holders(b)) >= 1 /\ Cardinality(Holders(b)) \in Nat
  BY HoldersCounted, HoldersFinite
<1>8. Alone <=> count[b] = 1
  BY <1>1, <1>3, <1>5, <1>6, <1>7
<1>9. \A x \in Blocks :
        storage'[x] = "live" <=> storage[x] = "live" /\ ~(x = b /\ Alone)
  BY <1>1, <1>2, <1>8
<1>10. {x \in Blocks : storage'[x] = "live"} =
         IF Alone THEN {x \in Blocks : storage[x] = "live"} \ {b}
         ELSE {x \in Blocks : storage[x] = "live"}
  BY <1>9
<1>11. \A x \in Blocks : storage'[x] # "none" <=> storage[x] # "none"
  BY <1>1, <1>2
<1>12. b \notin {x \in Blocks : Lost(x) > 0} <=> ~(Lost(b) > 0)
  BY <1>1
<1>. QED
  BY <1>2, <1>10, <1>11, <1>12 DEF Own!Drop

LEMMA OwnStep == IInv /\ [Next]_vars => [Own!Next]_(Own!ownershipVars)
<1> SUFFICES ASSUME IInv, [Next]_vars PROVE Own!Next \/ UNCHANGED Own!ownershipVars
  OBVIOUS
<1>1. TypeOK
  BY DEF IInv
<1>2. ASSUME UNCHANGED <<block, count, storage>> PROVE UNCHANGED Own!ownershipVars
  BY <1>2 DEF Own!ownershipVars, Lost, Holders
<1>3. ASSUME NEW p \in Ptrs, Default(p) PROVE UNCHANGED Own!ownershipVars
  BY <1>2, <1>3, DefaultKeeps
<1>4. ASSUME NEW p \in Ptrs, NEW b \in Blocks, Construct(p, b) PROVE Own!Create(p, b)
  <2>1. block[p] = NullPtr /\ block' = [block EXCEPT ![p] = b] /\ storage[b] = "none"
    BY <1>4 DEF IInv, MembersNull, Construct, NewPtr
  <2>2. \A x \in Blocks : Lost(x)' = Lost(x)
    BY <1>4, CountedPtrLosesNothing DEF Construct
  <2>3. \A x \in Blocks : storage'[x] = IF x = b THEN "live" ELSE storage[x]
    BY <1>1, <1>4 DEF Construct, TypeOK
  <2>4. /\ {x \in Blocks : storage'[x] = "live"}
             = {x \in Blocks : storage[x] = "live"} \cup {b}
        /\ {x \in Blocks : storage'[x] # "none"}
             = {x \in Blocks : storage[x] # "none"} \cup {b}
    BY <2>3
  <2>. QED
    BY <2>1, <2>2, <2>4 DEF Own!Create
<1>5. ASSUME NEW p \in Ptrs, NEW q \in Ptrs, Copy(p, q) \/ Cast(p, q)
      PROVE  Own!Share(p, q)
  <2>1. PICK b \in Blocks : b = block[q]
    BY <1>5, CountedPtr
  <2>2. PICK v \in {value[q], NullPtr} : NewPtr(p, v, block[q])
    BY <1>5, CountedPtr
  <2>3. \A x \in Blocks : Lost(x)' = Lost(x)
    BY <1>5, <2>1, <2>2, CountedPtr, CountedPtrLosesNothing
  <2>4. block[p] = NullPtr /\ block[q] # NullPtr
        /\ block' = [block EXCEPT ![p] = block[q]] /\ storage' = storage
    BY <1>5, <2>1, <2>2, CountedPtr DEF IInv, MembersNull, NewPtr
  <2>. QED
    BY <2>3, <2>4, OwnShare
<1>6. ASSUME NEW p \in Ptrs, NEW q \in Ptrs, Assign(p, q)
      PROVE  Own!Share(p, q) \/ Own!Overwrite(p, q)
  <2>1. /\ block[q] # NullPtr /\ p # q /\ storage' = storage
        /\ block' = [block EXCEPT ![p] = block[q]]
    BY <1>6 DEF Assign
  <2>2. \A x \in Blocks :
          /\ Lost(x)' = IF x = block[p] THEN Lost(x) + 1 ELSE Lost(x)
          /\ Lost(x) \in Int /\ Lost(x) >= 0
    BY <1>1, <1>6, AssignLosesOne, LostIsInt DEF IInv, CountCoversHolders
  <2>3. CASE block[p] = NullPtr
    <3>1. \A x \in Blocks : Lost(x)' = Lost(x)
      BY <2>2, <2>3
    <3>. QED
      BY <2>1, <2>3, <3>1, OwnShare
  <2>4. CASE block[p] # NullPtr
    <3>1. block[p] \in Blocks
      BY <1>1, <2>4 DEF TypeOK
    <3>2. \A x \in Blocks : Lost(x)' > 0 <=> Lost(x) > 0 \/ x = block[p]
      BY <2>2
    <3>3. {x \in Blocks : Lost(x)' > 0} = {x \in Blocks : Lost(x) > 0} \cup {block[p]}
      BY <3>1, <3>2
    <3>. QED
      BY <2>1, <2>4, <3>3 DEF Own!Overwrite
  <2>. QED
    BY <2>3, <2>4
<1>7. ASSUME NEW p \in Ptrs, Destroy(p)
      PROVE  Own!Drop(p) \/ UNCHANGED Own!ownershipVars
  <2>1. CASE block[p] = NullPtr
    <3>1. UNCHANGED <<block, count, storage>>
      BY <1>1, <1>7, <2>1 DEF Destroy, TypeOK
    <3>. QED
      BY <1>2, <3>1
  <2>. QED
    BY <1>7, <2>1, OwnDrop
<1>8. ASSUME NEW p \in Ptrs, UseEmpty(p) PROVE UNCHANGED Own!ownershipVars
  BY <1>2, <1>8 DEF UseEmpty
<1>9. CASE UNCHANGED vars
  BY <1>2, <1>9 DEF vars
<1>. QED
  BY <1>3, <1>4, <1>5, <1>6, <1>7, <1>8, <1>9 DEF Next, Operate, Own!Next

\* Whatever the client does, an object lives until its last owner goes, and
\* outlives it only if operator= has overwritten a reference to it.
THEOREM Refinement == Spec => ImplementsOwnership
  BY OwnInit, OwnStep, Invariance, PTL DEF Spec, ImplementsOwnership, Own!Spec
=============================================================================
