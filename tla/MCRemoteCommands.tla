--------------------------- MODULE MCRemoteCommands ---------------------------
(* Instances of RemoteCommands for TLC.                                    *)
EXTENDS RemoteCommands, TLC

CONSTANTS a, b, c1, c2

Alike == Permutations({a, b}) \cup Permutations({c1, c2})
===============================================================================
