-------------------------- MODULE RequestAdmission --------------------------
(***************************************************************************)
(* Admission control of ArkmeRequestCoordinator: the queue of permits, the *)
(* limits (aggregate transport pool, lane, service, account route) and the *)
(* drain that hands permits out.  A flight is one call of execute(); while *)
(* its permit is queued its phase is "queued", and when drain resolves the *)
(* permit its phase becomes "granted".                                     *)
(*                                                                         *)
(* The queue is kept sorted by the code after every push and every lane    *)
(* change, so it is the set of queued flights under the order Before.      *)
(* Token fractions are abstracted to whole starts, and the clock to the    *)
(* actions Refill, CooldownEnds and TimerFires.                            *)
(***************************************************************************)
EXTENDS Naturals, FiniteSets

CONSTANTS
    Flights,        \* calls of run(); a call that starts a flight names it
    Scopes, Lanes, Services, Routes,
    Priority,       \* LANE_PRIORITY
    Req,            \* the request each call carries
    NoRoute,
    MaxConcurrent, MaxQueued, Burst,  \* by kind and name: Config below
    RatedNames,     \* the names whose rate can run out: the rate of the others
                    \* is taken to be high enough never to bind
    MaxGen          \* bound on route generations: each account invalidation
                    \* and each dispose() starts one

Pool == <<"pool">>
LaneLimit(l) == <<"lane", l>>
ServiceLimit(s) == <<"service", s>>
RouteLimit(s, r, g) == <<"route", s, r, g>>

\* Every ResolvedLimit object that can exist.  Invalidation drops the route
\* objects of a scope, and the next execute() makes a new generation of them.
Limits == {Pool} \cup {LaneLimit(l) : l \in Lanes}
                 \cup {ServiceLimit(s) : s \in Services}
                 \cup {RouteLimit(s, r, g) : s \in Scopes, r \in Routes, g \in 0..MaxGen}

\* Options are given per pool, lane, service or route name: the generation of
\* a route object does not change its configuration.
Config(l) == IF l[1] = "pool" THEN "pool" ELSE IF l[1] = "route" THEN l[3] ELSE l[2]

\* resolveLimit() makes every bound a positive integer.
ASSUME AdmissionAssumption ==
    /\ IsFiniteSet(Flights)
    /\ Priority \in [Lanes -> Nat]
    /\ \A f \in Flights : /\ Req[f].scope \in Scopes /\ Req[f].service \in Services
                          /\ Req[f].route \in Routes \cup {NoRoute}
    /\ \A l \in Limits : MaxConcurrent[Config(l)] \in Nat \ {0} /\ MaxQueued[Config(l)] \in Nat \ {0}
                          /\ Burst[Config(l)] \in Nat
    /\ MaxGen \in Nat

Rated(l) == Config(l) \in RatedNames

VARIABLES
    phase,      \* where execute() stands for each flight
    lane,       \* request.lane, shared with the queued permit
    born,       \* epoch and route generation a flight started under
    ticket,     \* QueuedPermit.sequence
    sequence,
    held,       \* limits an admitted flight was counted against
    active, tokens, cooling,
    timer

Phases == {"none", "queued", "granted", "running", "backoff", "settled", "published", "done"}

admissionVars == <<phase, lane, born, ticket, sequence, held, active, tokens, cooling, timer>>

Transport(f) == ~Req[f].routeOnly

\* The limits a permit is counted against: composite owners keep only their route.
LimitsOf(f, l, gen) ==
    (IF Transport(f) THEN {Pool, LaneLimit(l), ServiceLimit(Req[f].service)} ELSE {})
    \cup (IF Req[f].route = NoRoute THEN {} ELSE {RouteLimit(Req[f].scope, Req[f].route, gen)})

Needs(f) == LimitsOf(f, lane[f], born[f].gen)

Queued(ph) == {f \in Flights : ph[f] = "queued"}

\* None of its limits is at its concurrency maximum.
ConcurrencyFree(f) == \A l \in Needs(f) : active[l] < MaxConcurrent[Config(l)]

\* How many of the flights in S the limit l counts, need giving their limits.
Load(need, S, l) == Cardinality({f \in S : l \in need[f]})

\* acquire() refuses a permit when a queue it would join is full.  Only a
\* composite owner is bounded by its route's queue.
QueueIsFullOffByOne(f, gen) ==  \* mutant
    \E l \in LimitsOf(f, lane[f], gen) :
        Cardinality({g \in Queued(phase) : l \in Needs(g)}) > MaxQueued[Config(l)]
QueueIsFull(f, gen) ==
    \E l \in IF Transport(f) THEN {Pool, LaneLimit(lane[f]), ServiceLimit(Req[f].service)}
                             ELSE LimitsOf(f, lane[f], gen) :
        Cardinality({g \in Queued(phase) : l \in Needs(g)}) >= MaxQueued[Config(l)]

\* blocked(), negated: the limit takes one more start after n in this pass.
OpenWithoutTokens(l, n, act, cool) ==  \* mutant
    act[l] + n < MaxConcurrent[Config(l)] /\ l \notin cool
Open(l, n, act, cool) ==
    /\ act[l] + n < MaxConcurrent[Config(l)]
    /\ Rated(l) => tokens[l] > n
    /\ l \notin cool

\* What the release closures of R give back: the limits counted at admission.
GivenBackByLane(R, l) == Cardinality({f \in R : l \in Needs(f)})  \* mutant
GivenBack(R, l) == Cardinality({f \in R : l \in held[f]})

\* scheduleNextDrain() arms the timer for waiters that no release will admit.
NeedsTimer(q, need, act) ==
    \E f \in q : \A l \in need[f] : act[l] < MaxConcurrent[Config(l)]

\* drain(): one pass admits, in queue order, every permit that is still
\* runnable after the permits admitted before it, then re-arms the timer.
\* ph is the phase of every flight before the pass, R the flights whose
\* permits release() gives back first, cool the limits cooling down at that
\* moment.  It runs under the lanes and tickets that the same step has set.
Drain(ph, R, cool) ==
    LET need == [f \in Flights |-> LimitsOf(f, lane'[f], born'[f].gen)]
        act == [l \in Limits |-> active[l] - GivenBack(R, l)]
        Before(g, f) == \/ Priority[lane'[g]] < Priority[lane'[f]]
                        \/ Priority[lane'[g]] = Priority[lane'[f]] /\ ticket'[g] < ticket'[f]
    IN \E A \in SUBSET Queued(ph) :
        /\ \A f \in Queued(ph) :
            f \in A <=> \A l \in need[f] : Open(l, Load(need, {g \in A : Before(g, f)}, l), act, cool)
        /\ phase' = [f \in Flights |-> IF f \in A THEN "granted" ELSE ph[f]]
        /\ held' = [f \in Flights |-> IF f \in A THEN need[f] ELSE IF f \in R THEN {} ELSE held[f]]
        /\ active' = [l \in Limits |-> act[l] + Load(need, A, l)]
        /\ tokens' = [l \in Limits |-> IF Rated(l) THEN tokens[l] - Load(need, A, l) ELSE tokens[l]]
        /\ timer' = NeedsTimer(Queued(ph) \ A, need, active')

\* Time passes: refill() gives a limit one more start, up to its burst, a
\* cooldownUntil lies in the past.
Refill ==
    \E l \in Limits :
        /\ Rated(l) /\ tokens[l] < Burst[Config(l)]
        /\ tokens' = [tokens EXCEPT ![l] = @ + 1]
        /\ UNCHANGED <<phase, lane, born, ticket, sequence, held, active, cooling, timer>>

CooldownEnds ==
    \E l \in cooling :
        /\ cooling' = cooling \ {l}
        /\ UNCHANGED <<phase, lane, born, ticket, sequence, held, active, tokens, timer>>

\* The timer that scheduleNextDrain() armed goes off.
TimerFires ==
    /\ timer
    /\ UNCHANGED <<lane, born, ticket, sequence, cooling>>
    /\ Drain(phase, {}, cooling)

-----------------------------------------------------------------------------
\* The types of the admission variables.
AdmissionTypeOK ==
    /\ phase \in [Flights -> Phases]
    /\ lane \in [Flights -> Lanes]
    /\ born \in [Flights -> [epoch : Nat, gen : 0..MaxGen]]
    /\ ticket \in [Flights -> Nat] /\ sequence \in Nat
    /\ held \in [Flights -> SUBSET Limits]
    /\ active \in [Limits -> Nat] /\ tokens \in [Limits -> Nat]
    /\ cooling \in SUBSET Limits /\ timer \in BOOLEAN

\* The counters never drift from the permits that are out, whatever lane a
\* shared read has moved to since it was admitted (the closure of drain()
\* releases the limits it counted), and no limit is ever exceeded.
BudgetKept ==
    \A l \in Limits :
        /\ active[l] = Cardinality({f \in Flights : l \in held[f]})
        /\ active[l] <= MaxConcurrent[Config(l)]

\* scheduleNextDrain(): a waiter that no release will look at again, because
\* none of its limits is at its concurrency maximum, is covered by the timer.
NoStrandedWaiter ==
    \A f \in Queued(phase) : ConcurrencyFree(f) => timer
=============================================================================
