-------------------------- MODULE MCLiveEventBatcher --------------------------
(* Instances of LiveEventBatcher for TLC. *)
EXTENDS LiveEventBatcher, TLC
CONSTANTS s1, s2

\* One session that outgrows the buffer, and one that comes between its batches.
Overflowing == s1 :> 2 @@ s2 :> 1
Single == s1 :> 1
=============================================================================
