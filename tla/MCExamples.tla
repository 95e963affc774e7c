----------------------------- MODULE MCExamples ------------------------------
(* Examples with three children, as barrier_example.cpp starts; two of *)
(* them are those of print_notify.                                      *)
EXTENDS Examples

CONSTANTS c1, c2, c3

MCChildren == {c1, c2, c3}
=============================================================================
