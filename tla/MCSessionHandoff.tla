--------------------------- MODULE MCSessionHandoff ---------------------------
(* Small instances of SessionHandoff for TLC.                              *)
EXTENDS SessionHandoff

CONSTANTS a, b

TwoInstances == {a, b}
===============================================================================
