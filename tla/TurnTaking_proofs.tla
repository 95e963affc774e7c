-------------------------- MODULE TurnTaking_proofs --------------------------
(***************************************************************************)
(* Proofs about TurnTaking for every number of items N: the order of the   *)
(* output, that no notification is lost, and that the program implements   *)
(* Alternation.                                                            *)
(***************************************************************************)
EXTENDS TurnTaking, Integers, TLAPS

USE DEF TurnAssumption, vars, syncVars

\* How many items a thread has written.
Written(t) ==
  IF pc[t] \in {"unlock", "notify", "join", "done"} THEN item[t] ELSE item[t] - 1

\* The mutex is held exactly between lock and unlock, and only a thread
\* inside cv.wait sleeps; only main joins.
LockInv ==
  /\ \A t \in Threads : pc[t] \in {"test", "unlock"} <=> owner = t
  /\ \A t \in sleeping : pc[t] = "asleep"
  /\ \A t \in Threads : pc[t] \in {"join", "done"} => item[t] = N
  /\ pc[Sub] # "join"

\* The output holds what both have written; `current` says who is behind.
CountInv ==
  /\ Len(output) = Written(Main) + Written(Sub)
  /\ Written(Main) = Written(Sub) + (IF current = Main THEN 0 ELSE 1)

IInv == TypeOK /\ LockInv /\ CountInv /\ OutputInOrder /\ NoLostNotify

LEMMA InitInv ==
  ASSUME TurnAssumption
  PROVE  Init => IInv
<1> SUFFICES ASSUME Init PROVE IInv
  OBVIOUS
<1>1. TypeOK
  BY DEF Init, SyncInit, TypeOK, SyncTypeOK, PC
<1>2. LockInv /\ CountInv /\ OutputInOrder /\ NoLostNotify
  BY DEF Init, SyncInit, LockInv, CountInv, Written, OutputInOrder,
         NoLostNotify
<1>. QED
  BY <1>1, <1>2 DEF IInv

LEMMA TypeStep ==
  ASSUME TurnAssumption
  PROVE  TypeOK /\ [Next]_vars => TypeOK'
<1> SUFFICES ASSUME TypeOK, [Next]_vars PROVE TypeOK'
  OBVIOUS
<1> USE DEF TypeOK, SyncTypeOK, PC, GoTo
<1>1. ASSUME NEW t \in Threads, Step(t) PROVE TypeOK'
  <2>1. CASE Lock(t)
    BY <2>1 DEF Lock, Acquire, LockMutex
  <2>2. CASE Block(t)
    BY <2>2 DEF Block, Sleep, UnlockMutex
  <2>3. CASE Wake(t)
    BY <2>3 DEF Wake, Reacquire, Acquire, LockMutex
  <2>4. CASE Write(t)
    <3>1. output' \in Seq(Threads \X (1 .. N))
      BY <2>4 DEF Write
    <3>. QED
      BY <2>4, <3>1 DEF Write, Other
  <2>5. CASE Unlock(t)
    BY <2>5 DEF Unlock, Release, UnlockMutex
  <2>6. CASE Notify(t)
    <3>1. item' \in [Threads -> 1 .. N]
      BY <2>6 DEF Notify
    <3>. QED
      BY <2>6, <3>1 DEF Notify, NotifyOne
  <2>. QED
    BY <1>1, <2>1, <2>2, <2>3, <2>4, <2>5, <2>6 DEF Step
<1>2. CASE Join
  BY <1>2 DEF Join
<1>3. CASE Spurious
  BY <1>3 DEF Spurious, WakeSpuriously
<1>4. CASE UNCHANGED vars
  BY <1>4
<1>. QED
  BY <1>1, <1>2, <1>3, <1>4 DEF Next

LEMMA LockStep ==
  ASSUME TurnAssumption
  PROVE  IInv /\ [Next]_vars => LockInv' /\ NoLostNotify'
<1> SUFFICES ASSUME IInv, [Next]_vars PROVE LockInv' /\ NoLostNotify'
  OBVIOUS
<1> USE DEF IInv, TypeOK, SyncTypeOK, LockInv, NoLostNotify, Other, GoTo
<1>1. ASSUME NEW t \in Threads, Step(t) PROVE LockInv' /\ NoLostNotify'
  <2>1. CASE Lock(t)
    BY <2>1 DEF Lock, Acquire, LockMutex
  <2>2. CASE Block(t)
    BY <2>2 DEF Block, Sleep, UnlockMutex
  <2>3. CASE Wake(t)
    BY <2>3 DEF Wake, Reacquire, Acquire, LockMutex
  <2>4. CASE Write(t)
    BY <2>4 DEF Write
  <2>5. CASE Unlock(t)
    BY <2>5 DEF Unlock, Release, UnlockMutex
  <2>6. CASE Notify(t)
    BY <2>6 DEF Notify, NotifyOne
  <2>. QED
    BY <1>1, <2>1, <2>2, <2>3, <2>4, <2>5, <2>6 DEF Step
<1>2. CASE Join
  BY <1>2 DEF Join
<1>3. CASE Spurious
  BY <1>3 DEF Spurious, WakeSpuriously
<1>4. CASE UNCHANGED vars
  BY <1>4
<1>. QED
  BY <1>1, <1>2, <1>3, <1>4 DEF Next

\* The thread that may write is not ahead, so its item fixes the place.
LEMMA PlaceOfWrite ==
  ASSUME TurnAssumption, IInv, NEW t \in Threads, Write(t)
  PROVE  /\ Len(output) = IF t = Main THEN 2 * item[t] - 2 ELSE 2 * item[t] - 1
         /\ CountInv'
<1>1. /\ current = t
      /\ pc[t] = "test"
      /\ current' = Other(t)
      /\ pc' = [pc EXCEPT ![t] = "unlock"]
      /\ item' = item
      /\ output' = Append(output, <<t, item[t]>>)
      /\ output \in Seq(Threads \X (1 .. N))
      /\ pc \in [Threads -> PC] /\ item[Main] \in Int /\ item[Sub] \in Int
  BY DEF Write, GoTo, IInv, TypeOK
<1>2. Len(output) \in Nat /\ Len(output') = Len(output) + 1
  BY <1>1
<1>3. /\ Len(output) = Written(Main) + Written(Sub)
      /\ Written(Main) = Written(Sub) + (IF current = Main THEN 0 ELSE 1)
  BY DEF IInv, CountInv
<1>4. Written(t) = item[t] - 1 /\ Written(t)' = item[t]
  BY <1>1 DEF Written
<1>5. Written(Other(t))' = Written(Other(t)) /\ Written(Other(t)) \in Int
  BY <1>1 DEF Written, Other
<1>6. CASE t = Main
  BY <1>1, <1>2, <1>3, <1>4, <1>5, <1>6 DEF Other, CountInv
<1>7. CASE t = Sub
  BY <1>1, <1>2, <1>3, <1>4, <1>5, <1>7 DEF Other, CountInv
<1>. QED
  BY <1>6, <1>7

LEMMA CountStep ==
  ASSUME TurnAssumption
  PROVE  IInv /\ [Next]_vars => CountInv' /\ OutputInOrder'
<1> SUFFICES ASSUME IInv, [Next]_vars PROVE CountInv' /\ OutputInOrder'
  OBVIOUS
<1>1. ASSUME NEW t \in Threads, Write(t) PROVE OutputInOrder'
  <2>1. /\ output' = Append(output, <<t, item[t]>>)
        /\ output \in Seq(Threads \X (1 .. N))
        /\ item[t] \in Int
    BY <1>1 DEF Write, IInv, TypeOK
  <2>2. /\ Len(output) \in Nat
        /\ Len(output') = Len(output) + 1
        /\ output'[Len(output) + 1] = <<t, item[t]>>
        /\ \A k \in 1 .. Len(output) : output'[k] = output[k]
    BY <2>1
  <2>. QED
    BY <1>1, <2>1, <2>2, PlaceOfWrite DEF IInv, OutputInOrder
<1>2. ASSUME UNCHANGED <<current, output>>,
             Written(Main)' = Written(Main), Written(Sub)' = Written(Sub)
      PROVE  CountInv' /\ OutputInOrder'
  BY <1>2 DEF IInv, CountInv, OutputInOrder
<1>3. ASSUME NEW t \in Threads, NEW s \in Threads,
             Lock(t) \/ Block(t) \/ Wake(t) \/ Unlock(t) \/ Notify(t) \/ Join
      PROVE  UNCHANGED <<current, output>> /\ Written(s)' = Written(s)
  <2>1. CASE Lock(t) \/ Block(t) \/ Wake(t)
    BY <2>1 DEF Lock, Block, Wake, GoTo, Written, IInv, TypeOK
  <2>2. CASE Unlock(t) \/ Join
    BY <2>2 DEF Unlock, Join, GoTo, Written, IInv, TypeOK
  <2>3. CASE Notify(t)
    BY <2>3 DEF Notify, GoTo, Written, IInv, TypeOK
  <2>. QED
    BY <1>3, <2>1, <2>2, <2>3
<1>4. CASE Spurious \/ UNCHANGED vars
  BY <1>2, <1>4 DEF Spurious, Written
<1>. QED
  BY <1>1, <1>2, <1>3, <1>4, PlaceOfWrite DEF Next, Step

\* IInv holds in every reachable state.
THEOREM Invariance ==
  ASSUME TurnAssumption
  PROVE  Spec => []IInv
<1>1. IInv /\ [Next]_vars => IInv'
  BY TypeStep, LockStep, CountStep DEF IInv
<1>. QED
  BY InitInv, <1>1, PTL DEF Spec

-----------------------------------------------------------------------------
\* Every variable stays in its range.
THEOREM TypeCorrect ==
  ASSUME TurnAssumption
  PROVE  Spec => []TypeOK
  BY Invariance, PTL DEF IInv

\* For every N, what has been written is at every moment a prefix of
\* a 1 b 2 c 3 ...
THEOREM OrderCorrect ==
  ASSUME TurnAssumption
  PROVE  Spec => []OutputInOrder
  BY Invariance, PTL DEF IInv

\* The thread whose turn it is never sleeps with nobody about to notify it.
THEOREM NotifyCorrect ==
  ASSUME TurnAssumption
  PROVE  Spec => []NoLostNotify
  BY Invariance, PTL DEF IInv

-----------------------------------------------------------------------------
\* For every N, without a spurious wake-up: the program stops only when both
\* threads have ended, and all the items of both are then in the output.
THEOREM StopsOnlyComplete ==
  ASSUME TurnAssumption
  PROVE  Spec => []NobodyStuck
<1>1. IInv => NobodyStuck
  <2> SUFFICES ASSUME IInv, \A t \in Threads : Blocked(t)
               PROVE  Terminated /\ Len(output) = 2 * N
    BY DEF NobodyStuck
  <2> USE DEF IInv, TypeOK, SyncTypeOK, Blocked
  \* The owner of the mutex would not be blocked.
  <2>1. owner = Nobody
    BY DEF LockInv
  <2>2. \A t \in Threads : t \in sleeping \/ pc[t] \in {"join", "done"}
    BY <2>1
  \* The thread whose turn it is does not sleep, as the other is not about to
  \* notify it; so it has written its last item, and the other is not behind.
  <2>3. pc[current] \in {"join", "done"} /\ item[current] = N
    BY <2>2 DEF NoLostNotify, LockInv, Other
  <2>4. pc[Other(current)] \in {"join", "done"}
    <3>1. SUFFICES ASSUME Other(current) \in sleeping PROVE FALSE
      BY <2>2 DEF Other
    <3>2. pc[Other(current)] = "asleep"
      BY <3>1 DEF LockInv
    <3>3. Written(current) = N /\ Written(Other(current)) = item[Other(current)] - 1
      BY <2>3, <3>2 DEF Written
    <3>4. item[Other(current)] \in 1 .. N
      BY DEF Other
    <3>. QED
      BY <3>3, <3>4 DEF CountInv, Other
  <2>5. pc[Main] \in {"join", "done"} /\ pc[Sub] = "done"
    BY <2>3, <2>4 DEF Other, LockInv
  <2>. QED
    BY <2>5 DEF Terminated, LockInv, CountInv, Written
<1>. QED
  BY <1>1, Invariance, PTL

-----------------------------------------------------------------------------
log == [k \in 1 .. Len(output) |-> output[k][1]]

\* Every step of the program is a turn of Alternation or leaves its log alone.
THEOREM Refinement ==
  ASSUME TurnAssumption
  PROVE  Spec => Turns!Spec
<1>1. Init => Turns!Init
  BY DEF Init, Turns!Init
<1>2. IInv /\ [Next]_vars => [Turns!Next]_log
  <2> SUFFICES ASSUME IInv, [Next]_vars, log' # log PROVE Turns!Next
    BY DEF log
  <2>1. PICK t \in Threads : Write(t)
    BY DEF log, Next, Step, Lock, Block, Wake, Unlock, Notify, Join, Spurious
  <2>2. Len(output) = IF t = Main THEN 2 * item[t] - 2 ELSE 2 * item[t] - 1
    BY <2>1, PlaceOfWrite
  <2>3. /\ output \in Seq(Threads \X (1 .. N))
        /\ output' = Append(output, <<t, item[t]>>)
        /\ Len(output) \in Nat
        /\ item[t] \in 1 .. N
    BY <2>1 DEF Write, IInv, TypeOK
  <2>4. /\ log \in Seq(Threads) /\ Len(log) = Len(output)
        /\ \A k \in 1 .. Len(output) : log[k] = output[k][1]
    BY <2>3 DEF log
  <2>5. log' = Append(log, t)
    <3>1. /\ Len(output') = Len(output) + 1
          /\ output'[Len(output) + 1] = <<t, item[t]>>
          /\ \A k \in 1 .. Len(output) : output'[k] = output[k]
      BY <2>3
    <3>2. /\ log' \in Seq(Threads) /\ Len(log') = Len(output) + 1
          /\ \A k \in 1 .. Len(output) + 1 : log'[k] = output'[k][1]
      BY <2>3, <3>1 DEF log
    <3>3. \A k \in 1 .. Len(log') : log'[k] = Append(log, t)[k]
      BY <2>3, <2>4, <3>1, <3>2
    <3>. QED
      BY <2>4, <3>2, <3>3
  <2>6. Turns!MayWrite(t)
    <3>0. Turns!MayWrite(t)
            <=> IF log = <<>> THEN t \in {Main} ELSE t # log[Len(log)]
      BY DEF log, Turns!MayWrite
    <3>1. CASE output = <<>>
      BY <2>2, <2>3, <3>1 DEF Turns!MayWrite
    <3>2. CASE output # <<>>
      <4>1. Len(output) \in 1 .. Len(output)
        BY <2>3, <3>2
      <4>2. /\ output[Len(output)][2] \in Int
            /\ Len(output) = IF output[Len(output)][1] = Main
                               THEN 2 * output[Len(output)][2] - 1
                               ELSE 2 * output[Len(output)][2]
        BY <2>3, <4>1 DEF IInv, OutputInOrder
      <4>3. output[Len(output)][1] # t
        BY <2>2, <2>3, <4>2
      <4>. QED
        BY <2>3, <2>4, <3>0, <3>2, <4>1, <4>3
    <3>. QED
      BY <3>1, <3>2
  <2>7. Len(output) < 2 * N
    BY <2>2, <2>3
  <2>. QED
    BY <2>4, <2>5, <2>6, <2>7 DEF Turns!Next, Turns!Write, log
<1>. QED
  BY <1>1, <1>2, Invariance, PTL DEF Spec, Turns!Spec, log
=============================================================================
