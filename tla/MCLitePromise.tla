--------------------------- MODULE MCLitePromise -----------------------------
(* LitePromise with three future objects. *)
EXTENDS LitePromise

CONSTANTS f1, f2, f3

MCFutures == {f1, f2, f3}
=============================================================================
