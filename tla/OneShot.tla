------------------------------- MODULE OneShot -------------------------------
(***************************************************************************)
(* What a future promises: a result that is produced once, for which one   *)
(* wait is satisfied, and that every get() after that wait returns.  A     *)
(* get() that nobody has waited for may return anything.                   *)
(***************************************************************************)
EXTENDS Naturals

VARIABLES
  produced,   \* the producer has said that the result is there
  taken,      \* how many waits were satisfied
  got         \* what get() has returned last

vars == <<produced, taken, got>>

Init ==
  /\ produced = FALSE
  /\ taken = 0
  /\ got = "nothing"

Produce ==
  /\ ~produced
  /\ produced' = TRUE
  /\ UNCHANGED <<taken, got>>

Take ==
  /\ produced /\ taken = 0
  /\ taken' = 1
  /\ UNCHANGED <<produced, got>>

Get ==
  /\ got' = "result" \/ (taken = 0 /\ got' = "garbage")
  /\ UNCHANGED <<produced, taken>>

Next == Produce \/ Take \/ Get

Spec == Init /\ [][Next]_vars
=============================================================================
