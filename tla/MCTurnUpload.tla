---------------------------- MODULE MCTurnUpload ----------------------------
(***************************************************************************)
(* Instances of TurnUpload for TLC.                                        *)
(***************************************************************************)
EXTENDS TurnUpload, TLC

CONSTANTS t1, t2, s1, s2

OneSession == [t \in Turns |-> s1]
TwoSessions == [t \in Turns |-> IF t = t1 THEN s1 ELSE s2]
\* Turns of one session are alike: NextReady is unique, by the order of their rows.
Alike == Permutations(Turns)

=============================================================================
