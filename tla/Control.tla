------------------------------- MODULE Control -------------------------------
(* The threads of a program, each at its place. *)

VARIABLE pc   \* where each thread is

\* Thread t goes on from one place to the next.
GoTo(t, here, next) ==
  /\ pc[t] = here
  /\ pc' = [pc EXCEPT ![t] = next]
=============================================================================
