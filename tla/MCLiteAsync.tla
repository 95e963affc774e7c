----------------------------- MODULE MCLiteAsync -----------------------------
(* LiteAsync on three future objects. *)
EXTENDS LiteAsync, TLC

CONSTANTS f1, f2, f3

MCFutures == {f1, f2, f3}
=============================================================================
