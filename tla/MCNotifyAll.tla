----------------------------- MODULE MCNotifyAll -----------------------------
(* NotifyAll with main and the two children. *)
EXTENDS NotifyAll, TLC

CONSTANTS c1, c2

MCThreads == {Main, c1, c2}
=============================================================================
