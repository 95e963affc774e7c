--------------------------- MODULE MCLiteSharedPtr ---------------------------
(* LiteSharedPtr with three pointers and two objects. *)
EXTENDS LiteSharedPtr

CONSTANTS p1, p2, p3, b1, b2

MCPtrs == {p1, p2, p3}
MCBlocks == {b1, b2}
=============================================================================
