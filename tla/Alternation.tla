----------------------------- MODULE Alternation -----------------------------
(***************************************************************************)
(* What the condition-variable examples promise: the threads that write to *)
(* the output take turns, one item each, starting with a given thread.     *)
(***************************************************************************)
EXTENDS Naturals, Sequences

CONSTANTS
  Players,    \* the threads that write
  Starters,   \* those that may write first
  MaxLength   \* how many items are written at most

VARIABLE log  \* who wrote the items so far, in order

Init == log = <<>>

MayWrite(p) ==
  IF log = <<>> THEN p \in Starters ELSE p # log[Len(log)]

Write(p) ==
  /\ Len(log) < MaxLength
  /\ MayWrite(p)
  /\ log' = Append(log, p)

Next == \E p \in Players : Write(p)

Spec == Init /\ [][Next]_log

\* Writing goes on until the output is full.
FairSpec == Spec /\ WF_log(Next)
=============================================================================
