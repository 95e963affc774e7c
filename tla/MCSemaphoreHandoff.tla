------------------------- MODULE MCSemaphoreHandoff --------------------------
(* SemaphoreHandoff with one child, as in the code. *)
EXTENDS SemaphoreHandoff

CONSTANT c1

MCOne == {c1}
=============================================================================
