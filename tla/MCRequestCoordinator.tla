------------------------ MODULE MCRequestCoordinator ------------------------
(***************************************************************************)
(* Instances of RequestCoordinator for TLC.  Each run gives its calls a    *)
(* request profile below; names missing from a table of limits get the     *)
(* generous default.                                                       *)
(***************************************************************************)
EXTENDS RequestCoordinator, TLC

CONSTANTS c1, c2, c3, k1, s1

MCPriority == [l \in Lanes |->
    CASE l = "auth" -> 0 [] l = "write" -> 1 [] l = "interactive-read" -> 2
      [] l = "background-read" -> 3 [] l = "image" -> 4]
MCKeyScope == [k \in Keys |-> s1]

Names == {"pool"} \cup Lanes \cup Services \cup Routes
Table(t) == [n \in Names |-> IF n \in DOMAIN t THEN t[n] ELSE 9]

Plain == [scope |-> s1, lane |-> "interactive-read", service |-> "chat", route |-> NoRoute,
          routeOnly |-> FALSE, key |-> NoKey, stream |-> FALSE, cancelWhenUnobserved |-> FALSE,
          maxAttempts |-> 0, cacheable |-> FALSE, cooldown |-> FALSE, bypassCache |-> FALSE,
          signal |-> FALSE]
Write == [Plain EXCEPT !.lane = "write"]
Keyed1 == [Plain EXCEPT !.key = k1]
SharedRead == [Keyed1 EXCEPT !.cancelWhenUnobserved = TRUE, !.signal = TRUE]

OneTransport == Table("pool" :> 1)
Generous == Table("pool" :> 9)

\* Reads of one key that a composite owner makes over its account route: stored
\* and put on cooldown, one of them a refresh and one that recovers once, around
\* invalidations of the key, of the account generation and of the coordinator.
StoredRead == [Keyed1 EXCEPT !.cacheable = TRUE, !.cooldown = TRUE, !.route = "list",
                             !.routeOnly = TRUE]
StoredReq == [c \in Flights |-> [StoredRead EXCEPT !.bypassCache = (c = c2),
                                                   !.maxAttempts = IF c = c1 THEN 1 ELSE 0]]
OneRoute == Table("list" :> 1)
KeyPrefixes == {{k1}}

\* Two writes to one service that takes one call at a time.
BusyReq == [c \in Flights |-> Write]
BusyMax == Table("chat" :> 1)

\* What can hold a caller up: one transport, a low rate, retries, a queue of
\* one, a shared read whose first subscriber leaves, a streamed write.
WaitingReq == c1 :> [SharedRead EXCEPT !.cooldown = TRUE, !.maxAttempts = 2]
              @@ c2 :> [Keyed1 EXCEPT !.lane = "background-read"]
              @@ c3 :> [Write EXCEPT !.stream = TRUE]
WaitingBurst == Table("chat" :> 1)
WaitingQueued == Table("pool" :> 1)
=============================================================================
