------------------------- MODULE RequestCoordinator -------------------------
(***************************************************************************)
(* ArkmeRequestCoordinator: coalescing of keyed reads, the result cache,   *)
(* failure cooldowns, account generations and recovery, on top of the      *)
(* admission control of RequestAdmission.                                  *)
(*                                                                         *)
(* Each call in Flights makes one run().  A call that is neither answered  *)
(* from the cache nor refused nor joined to a flight starts a flight of    *)
(* its own name.  JavaScript runs a handler to its next await without      *)
(* interruption, so an action is the code between two awaits.              *)
(***************************************************************************)
EXTENDS RequestAdmission

CONSTANTS
    Keys,       \* full keys: scope and semantic key
    KeyScope,   \* the scope each full key belongs to
    NoKey,
    None,
    Prefixes,   \* the sets of keys that calls of invalidateKey() name
    MaxEpoch,   \* bound on account invalidations
    MaxDisposals

RequestType ==
    [scope : Scopes, lane : Lanes, service : Services, route : Routes \cup {NoRoute},
     routeOnly : BOOLEAN, key : Keys \cup {NoKey}, stream : BOOLEAN, signal : BOOLEAN,
     cancelWhenUnobserved : BOOLEAN, cacheable : BOOLEAN, cooldown : BOOLEAN,
     bypassCache : BOOLEAN, maxAttempts : Nat]

ReadLanes == {"interactive-read", "background-read"}

\* run() refuses a composite owner without a route; streams are unkeyed.
ASSUME RequestAssumption ==
    /\ Req \in [Flights -> RequestType]
    /\ ReadLanes \subseteq Lanes
    /\ \A f \in Flights : /\ Req[f].routeOnly => Req[f].route # NoRoute
                          /\ Req[f].stream => Req[f].key = NoKey
                          /\ Req[f].key # NoKey => KeyScope[Req[f].key] = Req[f].scope
    /\ KeyScope \in [Keys -> Scopes]
    /\ \A K \in Prefixes : K \subseteq Keys
    /\ None \notin Flights /\ NoKey \notin Keys
    /\ MaxEpoch \in Nat /\ MaxDisposals \in Nat

VARIABLES
    epoch,      \* account generation of each scope
    routeGen,   \* generation of the route objects of each scope
    aborted,    \* why a flight's controller was aborted, or "no"
    attempts,
    outcome,    \* how a flight's execute() settled
    inFlight, cache, failures,
    observers,  \* callers counted by a shared flight's consumers
    call,       \* where each call of run() stands
    via,        \* the flight a call waits on
    answer,     \* what the call returned or threw
    hungUp,     \* calls whose own signal was aborted
    overtaken,  \* history: flights started before an invalidation of their key
    disposals

callVars == <<call, via, answer, hungUp>>
storeVars == <<inFlight, cache, failures, observers>>
scopeVars == <<epoch, routeGen, overtaken, disposals>>
flightVars == <<aborted, attempts, outcome>>
vars == <<admissionVars, callVars, storeVars, scopeVars, flightVars>>

Reasons == {"caller", "unobserved", "stale", "timeout", "disposed"}
Live == {"queued", "granted", "running", "backoff", "settled", "published"}
Registered == {"queued", "granted", "running", "backoff"}   \* in activeControllersByScope

Keyed(f) == Req[f].key # NoKey
Epoch(f) == epoch[Req[f].scope]
KeysOf(s) == {k \in Keys : KeyScope[k] = s}

Init ==
    /\ phase = [f \in Flights |-> "none"]
    /\ lane = [f \in Flights |-> Req[f].lane]
    /\ born = [f \in Flights |-> [epoch |-> 0, gen |-> 0]]
    /\ ticket = [f \in Flights |-> 0]
    /\ sequence = 0
    /\ held = [f \in Flights |-> {}]
    /\ active = [l \in Limits |-> 0]
    /\ tokens = [l \in Limits |-> Burst[Config(l)]]
    /\ cooling = {}
    /\ timer = FALSE
    /\ epoch = [s \in Scopes |-> 0]
    /\ routeGen = [s \in Scopes |-> 0]
    /\ aborted = [f \in Flights |-> "no"]
    /\ attempts = [f \in Flights |-> 0]
    /\ outcome = [f \in Flights |-> "none"]
    /\ inFlight = [k \in Keys |-> None]
    /\ cache = [k \in Keys |-> None]
    /\ failures = [k \in Keys |-> None]
    /\ observers = [f \in Flights |-> {}]
    /\ call = [c \in Flights |-> "idle"]
    /\ via = [c \in Flights |-> None]
    /\ answer = [c \in Flights |-> "none"]
    /\ hungUp = {}
    /\ overtaken = {}
    /\ disposals = 0

-----------------------------------------------------------------------------
\* execute() of an unkeyed request answers its caller; a keyed one still has
\* its .then/.catch and .finally to run.
Ended(f) == IF Keyed(f) THEN "settled" ELSE "done"

\* acquire(): refuse when the queue is full, else queue the permit and drain.
Acquire(f, gen) ==
    IF QueueIsFull(f, gen)
    THEN /\ phase' = [phase EXCEPT ![f] = Ended(f)]
         /\ outcome' = [outcome EXCEPT ![f] = "overflow"]
         /\ UNCHANGED <<ticket, sequence, held, active, tokens, timer>>
    ELSE /\ ticket' = [ticket EXCEPT ![f] = sequence]
         /\ sequence' = sequence + 1
         /\ UNCHANGED outcome
         /\ Drain([phase EXCEPT ![f] = "queued"], {}, cooling)

\* What a flight that was aborted for reason r throws: recovery reports a
\* request it has already tried as exhausted, unless its account is gone.
Recovers(f) == Req[f].maxAttempts > 0
Failure(f, r) == IF Recovers(f) /\ attempts[f] > 0 /\ r # "stale" THEN "failed" ELSE r

\* AbortController.abort() on the controllers of F.  Only the first reason
\* sticks.  A queued permit leaves the queue and a retry delay ends at once,
\* both without a drain; an operation under way is only told.
Abort(F, reason) ==
    LET fresh == {f \in F : aborted[f] = "no"}
        parked == {f \in fresh : phase[f] \in {"queued", "backoff"}}
    IN /\ aborted' = [f \in Flights |-> IF f \in fresh THEN reason ELSE aborted[f]]
       /\ phase' = [f \in Flights |-> IF f \in parked THEN Ended(f) ELSE phase[f]]
       /\ outcome' = [f \in Flights |-> IF f \in parked THEN Failure(f, reason) ELSE outcome[f]]
       /\ UNCHANGED <<attempts, lane, born, ticket, sequence, held, active, tokens, cooling>>

\* updateSharedReadPriority(): a shared read takes the lane its remaining
\* subscribers ask for, and a queued permit moves with it.
LaneOnceRaised(f, subscribers) ==  \* mutant
    IF lane[f] \in ReadLanes /\ \E c \in subscribers : Req[c].lane = "interactive-read"
    THEN "interactive-read" ELSE lane[f]
LaneFor(f, subscribers) ==
    IF lane[f] \notin ReadLanes THEN lane[f]
    ELSE IF \E c \in subscribers : Req[c].lane = "interactive-read"
         THEN "interactive-read" ELSE "background-read"

Reprioritize(f, subscribers) ==
    /\ lane' = [lane EXCEPT ![f] = LaneFor(f, subscribers)]
    /\ UNCHANGED <<born, ticket, sequence, cooling, outcome, aborted, attempts>>
    /\ IF lane' # lane /\ phase[f] = "queued"
       THEN Drain(phase, {}, cooling)
       ELSE UNCHANGED <<phase, held, active, tokens, timer>>

-----------------------------------------------------------------------------
(***************************** run() ***************************************)

CacheUsable(c) ==
    LET k == Req[c].key IN
    Keyed(c) /\ ~Req[c].bypassCache /\ cache[k] # None /\ born[cache[k]].epoch = Epoch(c)

CoolingDown(c) ==
    LET k == Req[c].key IN
    Keyed(c) /\ failures[k] # None /\ born[failures[k]].epoch = Epoch(c)

Joinable(c) ==
    LET f == inFlight[Req[c].key] IN
    Keyed(c) /\ f # None /\ born[f].epoch = Epoch(c) /\ aborted[f] = "no"

Return(c, f, a) ==
    /\ call' = [call EXCEPT ![c] = "returned"]
    /\ via' = [via EXCEPT ![c] = f]
    /\ answer' = [answer EXCEPT ![c] = a]

\* The caller's signal was aborted before run() looked at it.
RunAborted(c) ==
    /\ call[c] = "idle" /\ Req[c].signal
    /\ Return(c, None, "caller")
    /\ hungUp' = hungUp \cup {c}
    /\ UNCHANGED <<admissionVars, storeVars, scopeVars, flightVars>>

RunFromCache(c) ==
    /\ call[c] = "idle" /\ CacheUsable(c)
    /\ Return(c, cache[Req[c].key], "value")
    /\ UNCHANGED <<hungUp, admissionVars, storeVars, scopeVars, flightVars>>

RunInCooldown(c) ==
    /\ call[c] = "idle" /\ ~CacheUsable(c) /\ CoolingDown(c)
    /\ LET f == failures[Req[c].key] IN Return(c, f, outcome[f])
    /\ UNCHANGED <<hungUp, admissionVars, storeVars, scopeVars, flightVars>>

Await(c, f) ==
    /\ call' = [call EXCEPT ![c] = "waiting"]
    /\ via' = [via EXCEPT ![c] = f]
    /\ UNCHANGED <<answer, hungUp>>

\* joinFlight() on the flight that is already reading this key.
RunJoins(c) ==
    /\ call[c] = "idle" /\ ~CacheUsable(c) /\ ~CoolingDown(c) /\ Joinable(c)
    /\ LET f == inFlight[Req[c].key] IN
        /\ Await(c, f)
        /\ observers' = [observers EXCEPT ![f] = @ \cup {c}]
        /\ Reprioritize(f, observers[f] \cup {c})
    /\ UNCHANGED <<inFlight, cache, failures, scopeVars>>

\* A flight of its own: execute() up to its first await, then joinFlight().
RunStarts(c) ==
    /\ call[c] = "idle" /\ ~CacheUsable(c) /\ ~CoolingDown(c) /\ ~Joinable(c)
    /\ born' = [born EXCEPT ![c] = [epoch |-> Epoch(c), gen |-> routeGen[Req[c].scope]]]
    /\ Await(c, c)
    /\ IF Keyed(c)
       THEN /\ inFlight' = [inFlight EXCEPT ![Req[c].key] = c]
            /\ observers' = [observers EXCEPT ![c] = {c}]
       ELSE UNCHANGED <<inFlight, observers>>
    /\ UNCHANGED <<lane, cooling, aborted, attempts, cache, failures, scopeVars>>
    /\ Acquire(c, routeGen[Req[c].scope])

-----------------------------------------------------------------------------
(************************** execute() **************************************)

\* execute() settles and releases its permit; the drain of the release runs
\* before any cooldown that is set afterwards.
SettleWithoutDrain(f, why, cool) ==  \* mutant
    /\ outcome' = [outcome EXCEPT ![f] = why]
    /\ phase' = [phase EXCEPT ![f] = Ended(f)]
    /\ held' = [held EXCEPT ![f] = {}]
    /\ active' = [l \in Limits |-> active[l] - GivenBack({f}, l)]
    /\ UNCHANGED <<tokens, timer>>
Settle(f, why, cool) ==
    /\ outcome' = [outcome EXCEPT ![f] = why]
    /\ Drain([phase EXCEPT ![f] = Ended(f)], {f}, cool)

\* The permit arrives and the operation is called.
Begin(f) ==
    /\ phase[f] = "granted" /\ aborted[f] = "no" /\ born[f].epoch = Epoch(f)
    /\ phase' = [phase EXCEPT ![f] = "running"]
    /\ attempts' = [attempts EXCEPT ![f] = @ + 1]
    /\ UNCHANGED <<aborted, outcome, lane, born, ticket, sequence, held, active, tokens, cooling, timer,
                   callVars, storeVars, scopeVars>>

\* The permit arrives too late: the flight was aborted or outlived its account.
BeginTooLate(f) ==
    /\ phase[f] = "granted" /\ ~(aborted[f] = "no" /\ born[f].epoch = Epoch(f))
    /\ UNCHANGED <<lane, born, ticket, sequence, cooling, aborted, attempts, callVars, storeVars, scopeVars>>
    /\ Settle(f, IF aborted[f] = "no" THEN "stale" ELSE Failure(f, aborted[f]), cooling)

\* The operation succeeds.  A stream's operation does so when the transfer is
\* over, which is after its headers were handed to the caller.
OperationSucceeds(f) ==
    /\ phase[f] = "running"
    /\ Req[f].stream => call[f] # "waiting"
    /\ UNCHANGED <<lane, born, ticket, sequence, cooling, aborted, attempts, callVars, storeVars, scopeVars>>
    /\ Settle(f, IF born[f].epoch = Epoch(f) THEN "value" ELSE "stale", cooling)

\* What a failed operation puts on cooldown: the account route, before the
\* permit is released, and the whole service, after it.
RouteCooled(f, cools) == IF cools /\ Req[f].route # NoRoute
                         THEN {RouteLimit(Req[f].scope, Req[f].route, born[f].gen)} ELSE {}
ServiceCooled(f, cools) == IF cools /\ Transport(f) THEN {ServiceLimit(Req[f].service)} ELSE {}

\* The operation fails in a way recovery takes on.  When its attempts are used
\* up the failure is final.
RetryableFailure(f, coolsRoute, coolsService) ==
    LET hot == RouteCooled(f, coolsRoute)
    IN /\ phase[f] = "running" /\ Recovers(f)
       /\ UNCHANGED <<lane, born, ticket, sequence, aborted, attempts, callVars, storeVars, scopeVars>>
       /\ IF attempts[f] < Req[f].maxAttempts /\ aborted[f] = "no"
          THEN /\ cooling' = cooling \cup hot
               /\ UNCHANGED outcome
               /\ Drain([phase EXCEPT ![f] = "backoff"], {f}, cooling \cup hot)
          ELSE /\ cooling' = cooling \cup hot \cup ServiceCooled(f, coolsService)
               /\ Settle(f, "failed", cooling \cup hot)

FinalFailure(f, coolsService) ==
    /\ phase[f] = "running"
    /\ cooling' = cooling \cup ServiceCooled(f, coolsService)
    /\ UNCHANGED <<lane, born, ticket, sequence, aborted, attempts, callVars, storeVars, scopeVars>>
    /\ Settle(f, IF aborted[f] = "no" THEN "failed" ELSE Failure(f, aborted[f]), cooling)

\* The retry delay is over: acquire() again, in the lane the flight has by now.
RetryDue(f) ==
    /\ phase[f] = "backoff"
    /\ UNCHANGED <<lane, born, cooling, aborted, attempts, callVars, storeVars, scopeVars>>
    /\ Acquire(f, born[f].gen)

\* The deadline of a request with recovery passes.
DeadlinePasses(f) ==
    /\ Recovers(f) /\ phase[f] \in Registered /\ aborted[f] = "no"
    /\ Abort({f}, "timeout")
    /\ UNCHANGED <<timer, callVars, storeVars, scopeVars>>

\* The flight is still the one inFlight has on record for its key.
MineRegardless(f) == TRUE  \* mutant
Mine(f) == inFlight[Req[f].key] = f

\* .then/.catch of a keyed flight: fill the cache or the failure cooldown,
\* unless the account moved on or the flight is no longer the one on record.
\* shouldCooldown may exempt an error of the operation.
Publish(f) ==
    LET k == Req[f].key
        current == born[f].epoch = Epoch(f)
    IN /\ phase[f] = "settled"
       /\ phase' = [phase EXCEPT ![f] = "published"]
       /\ IF outcome[f] = "value"
          THEN IF current
               THEN /\ cache' = IF Mine(f) /\ Req[f].cacheable THEN [cache EXCEPT ![k] = f] ELSE cache
                    /\ failures' = IF Mine(f) THEN [failures EXCEPT ![k] = None] ELSE failures
                    /\ UNCHANGED outcome
               ELSE /\ outcome' = [outcome EXCEPT ![f] = "stale"]
                    /\ UNCHANGED <<cache, failures>>
          ELSE /\ \E cools \in IF outcome[f] = "failed" THEN BOOLEAN ELSE {TRUE} :
                    failures' = IF current /\ Mine(f) /\ Req[f].cooldown /\ cools
                                THEN [failures EXCEPT ![k] = f] ELSE failures
               /\ UNCHANGED <<cache, outcome>>
       /\ UNCHANGED <<aborted, attempts, lane, born, ticket, sequence, held, active, tokens, cooling, timer,
                      inFlight, observers, callVars, scopeVars>>

\* .finally of a keyed flight.
Retire(f) ==
    /\ phase[f] = "published"
    /\ phase' = [phase EXCEPT ![f] = "done"]
    /\ inFlight' = IF Mine(f) THEN [inFlight EXCEPT ![Req[f].key] = None] ELSE inFlight
    /\ UNCHANGED <<lane, born, ticket, sequence, held, active, tokens, cooling, timer,
                   cache, failures, observers, flightVars, callVars, scopeVars>>

-----------------------------------------------------------------------------
(************************** callers ****************************************)

\* runStream(): the caller gets the headers, the flight keeps its permit.
StreamOpens(c) ==
    /\ Req[c].stream /\ call[c] = "waiting" /\ phase[c] = "running"
    /\ aborted[c] = "no" /\ born[c].epoch = Epoch(c)
    /\ Return(c, c, "value")
    /\ UNCHANGED <<hungUp, admissionVars, storeVars, scopeVars, flightVars>>

\* The caller aborts.  An unkeyed request is cancelled; a subscriber of a
\* shared one only stops listening.  A stream's signal outlives its headers.
HangUp(c) ==
    /\ Req[c].signal /\ c \notin hungUp
    /\ hungUp' = hungUp \cup {c}
    /\ UNCHANGED <<storeVars, scopeVars, via>>
    /\ IF Keyed(c)
       THEN /\ call[c] = "waiting"
            /\ call' = [call EXCEPT ![c] = "leaving"]
            /\ answer' = [answer EXCEPT ![c] = "caller"]
            /\ UNCHANGED <<admissionVars, flightVars>>
       ELSE /\ phase[c] \in Registered
            /\ UNCHANGED <<call, answer>>
            /\ Abort({c}, "caller")
            /\ UNCHANGED timer

\* The awaited promise settles.
Answered(c) ==
    /\ call[c] = "waiting" /\ phase[via[c]] = "done"
    /\ call' = [call EXCEPT ![c] = IF Keyed(c) THEN "leaving" ELSE "returned"]
    /\ answer' = [answer EXCEPT ![c] = outcome[via[c]]]
    /\ UNCHANGED <<via, hungUp, admissionVars, storeVars, scopeVars, flightVars>>

\* .finally of joinFlight(): the last subscriber may cancel the transport.
DesertedByAny(f, others) == Req[f].cancelWhenUnobserved  \* mutant
Deserted(f, others) == Req[f].cancelWhenUnobserved /\ others = {}
Leave(c) ==
    LET f == via[c]
        others == observers[f] \ {c}
    IN /\ call[c] = "leaving"
       /\ call' = [call EXCEPT ![c] = "returned"]
       /\ observers' = [observers EXCEPT ![f] = others]
       /\ UNCHANGED <<via, answer, hungUp, inFlight, cache, failures, scopeVars>>
       /\ IF Deserted(f, others)
          THEN Abort({f}, "unobserved") /\ UNCHANGED timer
          ELSE Reprioritize(f, others)

-----------------------------------------------------------------------------
(************************** invalidation ***********************************)

\* Forget what is stored under the keys K; old are the flights it may come from.
Forget(K) ==
    /\ cache' = [k \in Keys |-> IF k \in K THEN None ELSE cache[k]]
    /\ failures' = [k \in Keys |-> IF k \in K THEN None ELSE failures[k]]
    /\ inFlight' = [k \in Keys |-> IF k \in K THEN None ELSE inFlight[k]]
    /\ overtaken' = overtaken \cup {f \in Flights : phase[f] # "none" /\ Req[f].key \in K}
    /\ UNCHANGED observers

\* The flights whose controllers invalidation and dispose() reach: those in
\* activeControllersByScope and those in inFlight.
RegisteredOnly == {f \in Flights : phase[f] \in Registered}  \* mutant
Controlled == {f \in Flights : phase[f] \in Registered \/ \E k \in Keys : inFlight[k] = f}

\* invalidateScope(): logout, login accepted.
InvalidateScope(s) ==
    /\ epoch[s] < MaxEpoch /\ routeGen[s] < MaxGen
    /\ epoch' = [epoch EXCEPT ![s] = @ + 1]
    /\ routeGen' = [routeGen EXCEPT ![s] = @ + 1]
    /\ Abort({f \in Controlled : Req[f].scope = s}, "stale")
    /\ Forget(KeysOf(s))
    /\ UNCHANGED <<disposals, timer, callVars>>

\* invalidateKey() with a prefix that K stands for: detach without aborting.
InvalidateKeys(K) ==
    /\ Forget(K)
    /\ UNCHANGED <<epoch, routeGen, disposals, callVars, admissionVars, flightVars>>

\* dispose().  The cache stays.
Dispose ==
    /\ disposals < MaxDisposals /\ \A s \in Scopes : routeGen[s] < MaxGen
    /\ disposals' = disposals + 1
    /\ routeGen' = [s \in Scopes |-> routeGen[s] + 1]
    /\ inFlight' = [k \in Keys |-> None]
    /\ Abort(Controlled, "disposed")
    /\ timer' = FALSE
    /\ UNCHANGED <<epoch, overtaken, cache, failures, observers, callVars>>

\* Entries whose time is up are ignored by run() from then on.
Expire ==
    /\ \E k \in Keys :
        \/ cache[k] # None /\ cache' = [cache EXCEPT ![k] = None] /\ UNCHANGED failures
        \/ failures[k] # None /\ failures' = [failures EXCEPT ![k] = None] /\ UNCHANGED cache
    /\ UNCHANGED <<admissionVars, callVars, inFlight, observers, scopeVars, flightVars>>

-----------------------------------------------------------------------------
Progress(f) ==
    \/ Begin(f) \/ BeginTooLate(f)
    \/ OperationSucceeds(f)
    \/ \E route, service \in BOOLEAN : RetryableFailure(f, route, service)
    \/ \E service \in BOOLEAN : FinalFailure(f, service)
    \/ RetryDue(f) \/ Publish(f) \/ Retire(f)

Continue(c) == StreamOpens(c) \/ Answered(c) \/ Leave(c)

Run(c) == RunAborted(c) \/ RunFromCache(c) \/ RunInCooldown(c) \/ RunJoins(c) \/ RunStarts(c)

Elsewhere == UNCHANGED <<callVars, storeVars, scopeVars, flightVars>>
RefillStep == Refill /\ Elsewhere
CooldownStep == CooldownEnds /\ Elsewhere
TimerStep == TimerFires /\ Elsewhere

Next ==
    \/ \E c \in Flights : Run(c) \/ HangUp(c) \/ Continue(c)
    \/ \E f \in Flights : Progress(f) \/ DeadlinePasses(f)
    \/ RefillStep \/ CooldownStep \/ TimerStep \/ Expire
    \/ \E s \in Scopes : InvalidateScope(s)
    \/ \E K \in Prefixes : InvalidateKeys(K)
    \/ Dispose

\* The event loop runs every continuation that is due, the transports under
\* the operations carry timeouts of their own, and the clock goes on.
Fairness ==
    /\ \A f \in Flights : WF_vars(Progress(f)) /\ WF_vars(Continue(f))
    /\ WF_vars(RefillStep) /\ WF_vars(CooldownStep) /\ WF_vars(TimerStep)

Spec == Init /\ [][Next]_vars
FairSpec == Spec /\ Fairness

-----------------------------------------------------------------------------
(************************** properties *************************************)

Endings == Reasons \cup {"none", "value", "failed", "overflow"}

CallTypeOK ==
    /\ epoch \in [Scopes -> 0..MaxEpoch] /\ routeGen \in [Scopes -> 0..MaxGen]
    /\ aborted \in [Flights -> Reasons \cup {"no"}]
    /\ attempts \in [Flights -> Nat]
    /\ outcome \in [Flights -> Endings]
    /\ inFlight \in [Keys -> Flights \cup {None}]
    /\ cache \in [Keys -> Flights \cup {None}] /\ failures \in [Keys -> Flights \cup {None}]
    /\ observers \in [Flights -> SUBSET Flights]
    /\ call \in [Flights -> {"idle", "waiting", "leaving", "returned"}]
    /\ via \in [Flights -> Flights \cup {None}]
    /\ answer \in [Flights -> Endings]
    /\ hungUp \in SUBSET Flights /\ overtaken \in SUBSET Flights
    /\ disposals \in 0..MaxDisposals

\* Every variable keeps its type.  In particular no number of starts admitted in
\* one drain takes a token that is not there.
TypeOK == AdmissionTypeOK /\ CallTypeOK

\* Cache and failure cooldown hold only results of the present account
\* generation, of reads that began after the last invalidation of their key.
StoresCurrent ==
    \A k \in Keys : \A f \in {cache[k], failures[k]} \ {None} :
        /\ f \notin overtaken
        /\ born[f].epoch = epoch[KeyScope[k]]

\* Two transports for one key are under way only if an invalidation or an
\* abort lies between them.
SingleFlight ==
    \A f, g \in Flights :
        /\ f # g /\ Keyed(f) /\ Req[f].key = Req[g].key
        /\ {phase[f], phase[g]} \subseteq Live
        /\ {f, g} \cap overtaken = {}
        => aborted[f] # "no" \/ aborted[g] # "no"

\* Nobody still waits on a shared transport that was cancelled because its
\* subscribers had all left.
SharedReadSurvives ==
    \A c \in Flights : call[c] = "waiting" /\ Keyed(c) => aborted[via[c]] # "unobserved"

\* "Queue overflow fails closed": neither the aggregate queue nor that of a
\* service outgrows its bound, retries and lane changes included.
QueueBounded ==
    \A l \in {Pool} \cup {ServiceLimit(s) : s \in Services} :
        Load([f \in Flights |-> Needs(f)], Queued(phase), l) <= MaxQueued[Config(l)]

\* A shared read queues in the foreground lane exactly while one of its
\* subscribers is a foreground reader.
PriorityFollowsSubscribers ==
    \A f \in Flights : Keyed(f) /\ phase[f] = "queued" /\ lane[f] \in ReadLanes =>
        (lane[f] = "interactive-read" <=> \E c \in observers[f] : Req[c].lane = "interactive-read")

\* Starting a cooldown of a whole service admits nothing more to it.
CooldownPausesService ==
    [][\A s \in Services : ServiceLimit(s) \in cooling' \ cooling =>
        \A f \in Flights : phase[f] = "queued" /\ phase'[f] = "granted" => ServiceLimit(s) \notin held'[f]]_vars

\* Every call of run() is answered: no permit, wake-up or answer is lost.
EveryCallReturns == \A c \in Flights : call[c] = "waiting" ~> call[c] = "returned"
=============================================================================
