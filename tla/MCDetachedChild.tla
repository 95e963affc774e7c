-------------------------- MODULE MCDetachedChild ----------------------------
(* DetachedChild with its two threads. *)
EXTENDS DetachedChild

MCThreads == {Main, Child}
=============================================================================
