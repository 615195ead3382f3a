----------------------------- MODULE MCSendQueue -----------------------------
(* Instances of SendQueue for TLC.                                         *)
EXTENDS SendQueue, TLC

CONSTANTS m1, m2, c1, c2

TwoLanes == m1 :> c1 @@ m2 :> c2
===============================================================================
