------------------------- MODULE RequestReadsProofs -------------------------
(***************************************************************************)
(* Proofs about the shared reads of RequestCoordinator, for every set of   *)
(* calls and every request profile: what is stored is current, two         *)
(* transports of one key never run side by side, a transport is not        *)
(* cancelled under a subscriber, a queued read has the lane its            *)
(* subscribers ask for, and the queue keeps its bound.  They rest on the   *)
(* invariant of RequestCoordinatorProofs.                                  *)
(***************************************************************************)
EXTENDS RequestCoordinatorProofs

\* inFlight[k] is a transport of k that is under way and not overtaken.
Tracked(k) == inFlight[k] # None =>
    /\ Req[inFlight[k]].key = k
    /\ phase[inFlight[k]] \in Live
    /\ inFlight[k] \notin overtaken
    /\ born[inFlight[k]].epoch = epoch[KeyScope[k]]

\* An entry f stored under k is a result of k, and current.
Fits(k, f) == f # None =>
    /\ Req[f].key = k
    /\ phase[f] # "none"
    /\ f \notin overtaken
    /\ born[f].epoch = epoch[KeyScope[k]]

\* A transport that was neither overtaken nor aborted is the one on record.
Alone(f) ==
    Keyed(f) /\ phase[f] \in Live /\ f \notin overtaken /\ aborted[f] = "no" => inFlight[Req[f].key] = f

\* A caller that has not left counts as a subscriber, and keeps its transport.
Counted(c) == Keyed(c) /\ call[c] \in {"waiting", "leaving"} =>
    /\ c \in observers[via[c]]
    /\ call[c] = "waiting" => aborted[via[c]] # "unobserved"

\* The lane of a read that may queue again is the one its subscribers ask for.
Ranked(f) == Keyed(f) /\ phase[f] \in Registered /\ aborted[f] = "no" /\ lane[f] \in ReadLanes =>
    (lane[f] = "interactive-read" <=> \E c \in observers[f] : Req[c].lane = "interactive-read")

\* A call that has not started has the lane it was made with, and was not overtaken.
Fresh(f) == phase[f] = "none" => lane[f] = Req[f].lane /\ f \notin overtaken

ReadsInv ==
    /\ \A k \in Keys : Tracked(k) /\ Fits(k, cache[k]) /\ Fits(k, failures[k])
    /\ \A f \in Flights : Alone(f) /\ Counted(f) /\ Ranked(f) /\ Fresh(f)

-----------------------------------------------------------------------------
\* What every step but its start and its retirement does to a flight.
Flows(f) ==
    /\ phase'[f] = "none" <=> phase[f] = "none"
    /\ Keyed(f) => (phase'[f] \in Live <=> phase[f] \in Live)
    /\ phase'[f] \in Registered => phase[f] \in Registered
    /\ aborted'[f] = "no" => aborted[f] = "no"
    /\ born'[f] = born[f]

(* drain() only lets waiters in. *)
LEMMA DrainShape ==
    ASSUME NEW ph, NEW R, NEW cool, Drain(ph, R, cool), NEW f \in Flights
    PROVE  phase'[f] = ph[f] \/ (ph[f] = "queued" /\ phase'[f] = "granted")
<1>1. PICK A \in SUBSET Queued(ph) : phase' = [g \in Flights |-> IF g \in A THEN "granted" ELSE ph[g]]
    BY DEF Drain
<1> QED BY <1>1 DEF Queued

(* A step in which the queue drains and f goes on. *)
LEMMA MovesFlow ==
    ASSUME NEW f \in Flights, NEW T, Moves(f, T), UNCHANGED <<aborted, born>>,
           phase[f] \in Live, T \subseteq Live \cup {"done"}, Keyed(f) => T \subseteq Live,
           phase[f] \in Registered \/ T \cap Registered = {}
    PROVE  \A g \in Flights : Flows(g)
BY DEF Moves, Flows, Live, Registered

(* Aborting controllers. *)
LEMMA AbortFlow ==
    ASSUME phase \in [Flights -> Phases], NEW F, NEW reason \in Reasons, Abort(F, reason), NEW g \in Flights
    PROVE  /\ Flows(g)
           /\ lane' = lane
           /\ aborted'[g] = aborted[g] \/ (g \in F /\ aborted'[g] = reason)
           /\ g \in F => aborted'[g] # "no"
<1>1. "no" \notin Reasons
    BY DEF Reasons
<1>2. /\ aborted'[g] = IF g \in F /\ aborted[g] = "no" THEN reason ELSE aborted[g]
      /\ \/ phase'[g] = phase[g]
         \/ phase[g] \in {"queued", "backoff"} /\ phase'[g] = Ended(g)
      /\ lane' = lane /\ born' = born
    BY DEF Abort
<1> QED BY <1>1, <1>2 DEF Flows, Ended, Live, Registered

-----------------------------------------------------------------------------
(* What keeps each part of the invariant. *)
LEMMA KeepTracked ==
    ASSUME NEW k \in Keys, Tracked(k),
           \/ inFlight'[k] = None
           \/ /\ inFlight'[k] = inFlight[k] /\ Flows(inFlight[k])
              /\ inFlight[k] \notin overtaken' /\ epoch'[KeyScope[k]] = epoch[KeyScope[k]]
    PROVE  Tracked(k)'
BY RequestAssumption DEF Tracked, Flows, Keyed

LEMMA KeepAlone ==
    ASSUME NEW f \in Flights, Alone(f), Flows(f), overtaken \subseteq overtaken',
           \/ inFlight'[Req[f].key] = inFlight[Req[f].key]
           \/ inFlight[Req[f].key] # f
           \/ f \in overtaken' \/ aborted'[f] # "no"
    PROVE  Alone(f)'
BY DEF Alone, Flows, Keyed

LEMMA KeepFits ==
    ASSUME NEW k \in Keys, NEW f, Fits(k, f), NEW g,
           \/ g = None
           \/ /\ g = f
              /\ phase[f] # "none" => phase'[f] # "none" /\ born'[f] = born[f]
              /\ f \in overtaken' => f \in overtaken
              /\ epoch'[KeyScope[k]] = epoch[KeyScope[k]]
    PROVE  g # None =>
            /\ Req[g].key = k
            /\ phase'[g] # "none"
            /\ g \notin overtaken'
            /\ born'[g].epoch = epoch'[KeyScope[k]]
BY DEF Fits

LEMMA KeepCounted ==
    ASSUME NEW c \in Flights, Counted(c), via'[c] = via[c],
           call'[c] \in {"waiting", "leaving"} => call[c] \in {"waiting", "leaving"},
           call'[c] = "waiting" => call[c] = "waiting",
           Keyed(c) /\ call'[c] \in {"waiting", "leaving"} /\ c \in observers[via[c]] => c \in observers'[via[c]],
           Keyed(c) /\ call'[c] = "waiting" =>
                aborted'[via[c]] = aborted[via[c]] \/ aborted'[via[c]] # "unobserved"
    PROVE  Counted(c)'
BY DEF Counted, Keyed

LEMMA KeepRanked ==
    ASSUME NEW f \in Flights, Ranked(f), Flows(f), lane'[f] = lane[f], observers'[f] = observers[f]
    PROVE  Ranked(f)'
BY DEF Ranked, Flows, Keyed

LEMMA KeepFresh ==
    ASSUME NEW f \in Flights, Fresh(f), phase'[f] = "none" => phase[f] = "none" /\ lane'[f] = lane[f],
           phase'[f] = "none" /\ f \in overtaken' => f \in overtaken
    PROVE  Fresh(f)'
BY DEF Fresh

(* A step that leaves the stores and the scopes alone. *)
LEMMA StoresFrame ==
    ASSUME CoordinatorInv, ReadsInv, \A g \in Flights : Flows(g),
           UNCHANGED <<inFlight, cache, failures, epoch, overtaken>>
    PROVE  /\ \A k \in Keys : Tracked(k)' /\ Fits(k, cache[k])' /\ Fits(k, failures[k])'
           /\ \A f \in Flights : Alone(f)'
<1> USE DEF ReadsInv
<1>1. ASSUME NEW k \in Keys PROVE Tracked(k)'
    <2>1. inFlight[k] = None \/ Flows(inFlight[k])
        BY DEF CoordinatorInv, CallTypeOK
    <2>2. inFlight[k] = None \/ inFlight[k] \notin overtaken
        BY DEF Tracked
    <2> QED BY <2>1, <2>2, KeepTracked
<1>2. ASSUME NEW k \in Keys PROVE Fits(k, cache[k])' /\ Fits(k, failures[k])'
    <2>1. ASSUME NEW f \in Flights \cup {None}, Fits(k, f)
          PROVE  f # None => /\ Req[f].key = k /\ phase'[f] # "none"
                             /\ f \notin overtaken' /\ born'[f].epoch = epoch'[KeyScope[k]]
        BY <2>1, KeepFits DEF Flows
    <2>2. cache[k] \in Flights \cup {None} /\ failures[k] \in Flights \cup {None}
        BY DEF CoordinatorInv, CallTypeOK
    <2> QED BY <2>1, <2>2 DEF Fits
<1>3. ASSUME NEW f \in Flights PROVE Alone(f)'
    BY KeepAlone
<1> QED BY <1>1, <1>2, <1>3

(* A step that changes only how far the flights are. *)
LEMMA FlowFrame ==
    ASSUME CoordinatorInv, ReadsInv, UNCHANGED <<lane, call, via, storeVars, scopeVars>>,
           \A g \in Flights : Flows(g) /\ (aborted'[g] = aborted[g] \/ aborted'[g] # "unobserved")
    PROVE  ReadsInv'
<1> USE DEF ReadsInv
<1>1. UNCHANGED <<inFlight, cache, failures, observers, epoch, overtaken>>
    BY DEF storeVars, scopeVars
<1>2. /\ \A k \in Keys : Tracked(k)' /\ Fits(k, cache[k])' /\ Fits(k, failures[k])'
      /\ \A f \in Flights : Alone(f)'
    BY <1>1, StoresFrame
<1>3. ASSUME NEW f \in Flights PROVE Counted(f)' /\ Ranked(f)' /\ Fresh(f)'
    <2>1. Counted(f)'
        <3>1. call[f] = "waiting" => via[f] \in Flights
            BY DEF CoordinatorInv, CallsInv
        <3> QED BY <1>1, <3>1, KeepCounted
    <2>2. Ranked(f)'
        BY <1>1, KeepRanked
    <2>3. Fresh(f)'
        BY <1>1, KeepFresh DEF Flows
    <2> QED BY <2>1, <2>2, <2>3
<1> QED BY <1>2, <1>3

(* Calls that are answered at once, and what happens to callers only. *)
LEMMA CallFrame ==
    ASSUME CoordinatorInv, ReadsInv, NEW c \in Flights,
           UNCHANGED <<admissionVars, storeVars, scopeVars, flightVars>>,
           \A d \in Flights : d # c => call'[d] = call[d] /\ via'[d] = via[d],
           \/ call'[c] = "returned"
           \/ call[c] \in {"waiting", "leaving"} /\ call'[c] = "leaving" /\ via'[c] = via[c]
    PROVE  ReadsInv'
<1> USE DEF ReadsInv
<1>0. UNCHANGED <<inFlight, cache, failures, observers, epoch, overtaken, phase, lane, born, aborted>>
    BY DEF storeVars, scopeVars, admissionVars, flightVars
<1>1. \A k \in Keys : Tracked(k)' /\ Fits(k, cache[k])' /\ Fits(k, failures[k])'
    BY <1>0 DEF Tracked, Fits
<1>2. \A f \in Flights : Alone(f)' /\ Ranked(f)' /\ Fresh(f)'
    BY <1>0 DEF Alone, Ranked, Fresh, Keyed
<1>3. \A f \in Flights : Counted(f)'
    BY <1>0 DEF Counted, Keyed
<1> QED BY <1>1, <1>2, <1>3

-----------------------------------------------------------------------------
(* The calls of run() that find an answer, and callers that get or give up *)
(* theirs.                                                                 *)
LEMMA CallReads ==
    ASSUME CoordinatorInv, ReadsInv, NEW c \in Flights,
           \/ RunAborted(c) \/ RunFromCache(c) \/ RunInCooldown(c) \/ StreamOpens(c) \/ Answered(c)
           \/ HangUp(c) /\ Keyed(c)
    PROVE  ReadsInv'
<1>1. call \in [Flights -> {"idle", "waiting", "leaving", "returned"}] /\ via \in [Flights -> Flights \cup {None}]
    BY DEF CoordinatorInv, CallTypeOK
<1>2. ASSUME NEW f, NEW a, Return(c, f, a)
      PROVE  /\ \A d \in Flights : d # c => call'[d] = call[d] /\ via'[d] = via[d]
             /\ call'[c] = "returned"
    BY <1>1, <1>2 DEF Return
<1>3. CASE RunAborted(c)
    BY <1>2, <1>3, CallFrame DEF RunAborted
<1>4. CASE RunFromCache(c)
    BY <1>2, <1>4, CallFrame DEF RunFromCache
<1>5. CASE RunInCooldown(c)
    BY <1>2, <1>5, CallFrame DEF RunInCooldown
<1>6. CASE StreamOpens(c)
    BY <1>2, <1>6, CallFrame DEF StreamOpens
<1>7. CASE Answered(c)
    <2>1. /\ \A d \in Flights : d # c => call'[d] = call[d] /\ via'[d] = via[d]
          /\ \/ call'[c] = "returned"
             \/ call[c] \in {"waiting", "leaving"} /\ call'[c] = "leaving" /\ via'[c] = via[c]
        BY <1>1, <1>7 DEF Answered
    <2> QED BY <1>7, <2>1, CallFrame DEF Answered
<1>8. CASE HangUp(c) /\ Keyed(c)
    <2>1. /\ \A d \in Flights : d # c => call'[d] = call[d] /\ via'[d] = via[d]
          /\ call[c] \in {"waiting", "leaving"} /\ call'[c] = "leaving" /\ via'[c] = via[c]
        BY <1>1, <1>8 DEF HangUp
    <2> QED BY <1>8, <2>1, CallFrame DEF HangUp
<1> QED BY <1>3, <1>4, <1>5, <1>6, <1>7, <1>8

(* The steps of execute(). *)
LEMMA ExecuteReads ==
    ASSUME CoordinatorInv, ReadsInv, NEW f \in Flights,
           \/ Begin(f) \/ BeginTooLate(f) \/ OperationSucceeds(f) \/ RetryDue(f)
           \/ \E route, service \in BOOLEAN : RetryableFailure(f, route, service)
           \/ \E service \in BOOLEAN : FinalFailure(f, service)
    PROVE  ReadsInv'
<1>1. phase \in [Flights -> Phases] /\ phase[f] \in Live /\ phase[f] \in Registered
    BY DEF CoordinatorInv, AdmissionInv, AdmissionTypeOK, Begin, BeginTooLate, OperationSucceeds, RetryDue,
           RetryableFailure, FinalFailure, Live, Registered
<1>2. UNCHANGED <<lane, born, aborted, call, via, storeVars, scopeVars>>
    BY DEF Begin, BeginTooLate, OperationSucceeds, RetryDue, RetryableFailure, FinalFailure, callVars
<1>3. \A g \in Flights : phase'[g] = phase[g] \/ (phase[g] = "queued" /\ phase'[g] = "granted")
                         \/ (g = f /\ phase'[g] \in {"queued", "granted", "running", "backoff", Ended(f)})
    <2>1. ASSUME NEW to, NEW R, NEW cool, Drain([phase EXCEPT ![f] = to], R, cool), NEW g \in Flights
          PROVE  \/ phase'[g] = phase[g] \/ (phase[g] = "queued" /\ phase'[g] = "granted")
                 \/ g = f /\ phase'[g] \in {to, "granted"}
        BY <1>1, <2>1, DrainShape
    <2>2. CASE Begin(f)
        BY <1>1, <2>2 DEF Begin
    <2>3. CASE BeginTooLate(f)
        BY <2>1, <2>3 DEF BeginTooLate, Settle
    <2>4. CASE OperationSucceeds(f)
        BY <2>1, <2>4 DEF OperationSucceeds, Settle
    <2>5. CASE RetryDue(f)
        BY <1>1, <2>1, <2>5 DEF RetryDue, Acquire
    <2>6. ASSUME NEW route \in BOOLEAN, NEW service \in BOOLEAN,
                 RetryableFailure(f, route, service) \/ FinalFailure(f, service)
          PROVE  \A g \in Flights : phase'[g] = phase[g] \/ (phase[g] = "queued" /\ phase'[g] = "granted")
                    \/ (g = f /\ phase'[g] \in {"queued", "granted", "running", "backoff", Ended(f)})
        BY <2>1, <2>6 DEF RetryableFailure, FinalFailure, Settle
    <2> QED BY <2>2, <2>3, <2>4, <2>5, <2>6
<1>4. Moves(f, {"queued", "granted", "running", "backoff", Ended(f)})
    BY <1>3 DEF Moves
<1>5. \A g \in Flights : Flows(g)
    <2> DEFINE T == {"queued", "granted", "running", "backoff", Ended(f)}
    <2>1. T \subseteq Live \cup {"done"} /\ (Keyed(f) => T \subseteq Live)
        BY DEF Ended, Live
    <2> HIDE DEF T
    <2>2. Moves(f, T)
        BY <1>4 DEF T
    <2> QED BY <1>1, <1>2, <2>1, <2>2, MovesFlow
<1> QED BY <1>2, <1>5, FlowFrame

(* The clock. *)
LEMMA ClockReads ==
    ASSUME CoordinatorInv, ReadsInv, RefillStep \/ CooldownStep \/ TimerStep
    PROVE  ReadsInv'
<1>1. UNCHANGED <<lane, born, aborted, call, via, storeVars, scopeVars>>
    BY DEF RefillStep, CooldownStep, TimerStep, Elsewhere, Refill, CooldownEnds, TimerFires, callVars, flightVars
<1>2. \A g \in Flights : phase'[g] = phase[g] \/ (phase[g] = "queued" /\ phase'[g] = "granted")
    BY DrainShape DEF RefillStep, CooldownStep, TimerStep, Refill, CooldownEnds, TimerFires
<1>3. \A g \in Flights : Flows(g)
    BY <1>1, <1>2 DEF Flows, Live, Registered
<1> QED BY <1>1, <1>3, FlowFrame

(* A request without a key is hung up on, or a deadline passes. *)
LEMMA CancelReads ==
    ASSUME CoordinatorInv, ReadsInv, NEW c \in Flights, DeadlinePasses(c) \/ (HangUp(c) /\ ~Keyed(c))
    PROVE  ReadsInv'
<1>1. PICK why \in {"timeout", "caller"} : Abort({c}, why)
    BY DEF DeadlinePasses, HangUp
<1>2. UNCHANGED <<call, via, storeVars, scopeVars>>
    BY DEF DeadlinePasses, HangUp, callVars
<1>3. phase \in [Flights -> Phases] /\ why \in Reasons /\ why # "unobserved"
    BY DEF CoordinatorInv, AdmissionInv, AdmissionTypeOK, Reasons
<1>4. \A g \in Flights : Flows(g) /\ (aborted'[g] = aborted[g] \/ aborted'[g] # "unobserved") /\ lane' = lane
    BY <1>1, <1>3, AbortFlow
<1>5. lane' = lane
    BY <1>4
<1> QED BY <1>2, <1>4, <1>5, FlowFrame

(* .then/.catch: what is stored is of the flight on record. *)
LEMMA PublishReads ==
    ASSUME CoordinatorInv, ReadsInv, NEW f \in Flights, Publish(f)
    PROVE  ReadsInv'
<1> USE DEF ReadsInv
<1>1. /\ phase \in [Flights -> Phases] /\ cache \in [Keys -> Flights \cup {None}]
      /\ failures \in [Keys -> Flights \cup {None}] /\ inFlight \in [Keys -> Flights \cup {None}]
    BY DEF CoordinatorInv, AdmissionInv, AdmissionTypeOK, CallTypeOK
<1>2. UNCHANGED <<lane, born, aborted, inFlight, observers, call, via, epoch, overtaken>>
    BY DEF Publish, callVars, scopeVars
<1>3. phase[f] = "settled" /\ phase' = [phase EXCEPT ![f] = "published"]
    BY DEF Publish
<1>4. \A g \in Flights : Flows(g)
    BY <1>1, <1>2, <1>3 DEF Flows, Live, Registered
<1>5. ASSUME NEW k \in Keys PROVE Tracked(k)'
    <2>1. inFlight[k] = None \/ Flows(inFlight[k])
        BY <1>1, <1>4
    <2>2. inFlight[k] = None \/ inFlight[k] \notin overtaken
        BY DEF Tracked
    <2> QED BY <1>2, <2>1, <2>2, KeepTracked
<1>6. ASSUME NEW k \in Keys PROVE Fits(k, cache[k])' /\ Fits(k, failures[k])'
    <2>1. /\ cache'[k] \in {cache[k], None} \/ (cache'[k] = f /\ Req[f].key = k /\ Mine(f))
          /\ failures'[k] \in {failures[k], None} \/ (failures'[k] = f /\ Req[f].key = k /\ Mine(f))
        BY <1>1 DEF Publish
    <2>2. Req[f].key = k /\ Mine(f) => Fits(k, f)
        BY RequestAssumption DEF Mine, Tracked, Fits, Live
    <2>3. ASSUME NEW g \in Flights \cup {None}, Fits(k, g)
          PROVE  g # None => /\ Req[g].key = k /\ phase'[g] # "none"
                             /\ g \notin overtaken' /\ born'[g].epoch = epoch'[KeyScope[k]]
        BY <1>2, <1>4, <2>3, KeepFits DEF Flows
    <2>4. ASSUME NEW g, g = None \/ (g \in Flights /\ Fits(k, g))
          PROVE  g # None => /\ Req[g].key = k /\ phase'[g] # "none"
                             /\ g \notin overtaken' /\ born'[g].epoch = epoch'[KeyScope[k]]
        BY <2>3, <2>4
    <2>5. (cache'[k] = None \/ (cache'[k] \in Flights /\ Fits(k, cache'[k])))
          /\ (failures'[k] = None \/ (failures'[k] \in Flights /\ Fits(k, failures'[k])))
        BY <1>1, <2>1, <2>2
    <2> QED BY <2>4, <2>5 DEF Fits
<1>7. ASSUME NEW g \in Flights PROVE Alone(g)' /\ Counted(g)' /\ Ranked(g)' /\ Fresh(g)'
    <2>1. Alone(g)'
        BY <1>2, <1>4, KeepAlone
    <2>2. Counted(g)'
        BY <1>2, KeepCounted
    <2>3. Ranked(g)'
        BY <1>2, <1>4, KeepRanked
    <2>4. Fresh(g)'
        BY <1>2, <1>4, KeepFresh DEF Flows
    <2> QED BY <2>1, <2>2, <2>3, <2>4
<1> QED BY <1>5, <1>6, <1>7

(* .finally: the flight that is over leaves the record. *)
LEMMA RetireReads ==
    ASSUME CoordinatorInv, ReadsInv, NEW f \in Flights, Retire(f)
    PROVE  ReadsInv'
<1> USE DEF ReadsInv
<1>1. /\ phase \in [Flights -> Phases] /\ inFlight \in [Keys -> Flights \cup {None}]
      /\ cache \in [Keys -> Flights \cup {None}] /\ failures \in [Keys -> Flights \cup {None}]
    BY DEF CoordinatorInv, AdmissionInv, AdmissionTypeOK, CallTypeOK
<1>2. UNCHANGED <<lane, born, aborted, cache, failures, observers, call, via, epoch, overtaken>>
    BY DEF Retire, callVars, scopeVars, flightVars
<1>3. phase[f] = "published" /\ phase' = [phase EXCEPT ![f] = "done"]
    BY DEF Retire
<1>4. \A g \in Flights \ {f} : Flows(g)
    BY <1>1, <1>2, <1>3 DEF Flows
<1>5. phase'[f] \notin Live /\ phase'[f] \notin Registered /\ phase'[f] # "none"
    BY <1>1, <1>3 DEF Live, Registered
<1>6. ASSUME NEW k \in Keys
      PROVE  inFlight'[k] = None \/ (inFlight'[k] = inFlight[k] /\ inFlight[k] # f)
    <2>1. inFlight' = IF Mine(f) THEN [inFlight EXCEPT ![Req[f].key] = None] ELSE inFlight
        BY DEF Retire
    <2>2. inFlight[k] = f /\ f # None => Req[f].key = k /\ Mine(f)
        BY DEF Tracked, Mine
    <2> QED BY <1>1, <2>1, <2>2, RequestAssumption
<1>7. ASSUME NEW k \in Keys PROVE Tracked(k)'
    <2>1. inFlight'[k] = None \/ (inFlight'[k] = inFlight[k] /\ Flows(inFlight[k]))
        BY <1>1, <1>4, <1>6
    <2>2. inFlight[k] = None \/ inFlight[k] \notin overtaken
        BY DEF Tracked
    <2> QED BY <1>2, <2>1, <2>2, KeepTracked
<1>8. \A k \in Keys : Fits(k, cache[k])' /\ Fits(k, failures[k])'
    BY <1>1, <1>2, <1>4, <1>5 DEF Fits, Flows
<1>9. ASSUME NEW g \in Flights PROVE Alone(g)' /\ Counted(g)' /\ Ranked(g)' /\ Fresh(g)'
    <2>1. Alone(g)'
        <3>1. CASE g = f
            BY <1>5, <3>1 DEF Alone
        <3>2. CASE g # f
            <4>1. inFlight'[Req[g].key] = inFlight[Req[g].key] \/ inFlight[Req[g].key] # g
                BY <1>1, <3>2 DEF Retire, Mine
            <4> QED BY <1>2, <1>4, <3>2, <4>1, KeepAlone
        <3> QED BY <3>1, <3>2
    <2>2. Counted(g)'
        BY <1>2, KeepCounted
    <2>3. Ranked(g)'
        BY <1>2, <1>4, <1>5, KeepRanked DEF Ranked
    <2>4. Fresh(g)'
        BY <1>2, <1>4, <1>5, KeepFresh DEF Flows
    <2> QED BY <2>1, <2>2, <2>3, <2>4
<1> QED BY <1>7, <1>8, <1>9

(* A shared read takes the lane that the subscribers it has now ask for. *)
LEMMA RankFollows ==
    ASSUME CoordinatorInv, ReadsInv, NEW f \in Flights, NEW S, phase[f] # "none", Reprioritize(f, S),
           observers' = [observers EXCEPT ![f] = S], overtaken' = overtaken
    PROVE  \A g \in Flights : Flows(g) /\ Ranked(g)' /\ Fresh(g)'
<1> USE DEF ReadsInv
<1>1. /\ phase \in [Flights -> Phases] /\ lane \in [Flights -> Lanes]
      /\ observers \in [Flights -> SUBSET Flights]
    BY DEF CoordinatorInv, AdmissionInv, AdmissionTypeOK, CallTypeOK
<1>2. /\ lane' = [lane EXCEPT ![f] = LaneFor(f, S)]
      /\ UNCHANGED <<born, aborted>>
    BY DEF Reprioritize
<1>3. ASSUME NEW g \in Flights
      PROVE  phase'[g] = phase[g] \/ (phase[g] = "queued" /\ phase'[g] = "granted")
    BY DrainShape DEF Reprioritize
<1>4. \A g \in Flights : Flows(g)
    BY <1>2, <1>3 DEF Flows, Live, Registered
<1>5. ASSUME NEW g \in Flights PROVE Ranked(g)'
    <2>1. CASE g # f
        BY <1>1, <1>2, <1>4, <2>1, KeepRanked
    <2>2. CASE g = f
        <3>1. lane'[f] = LaneFor(f, S) /\ observers'[f] = S
            BY <1>1, <1>2
        <3> QED BY <2>2, <3>1 DEF Ranked, LaneFor, ReadLanes
    <2> QED BY <2>1, <2>2
<1>6. ASSUME NEW g \in Flights PROVE Fresh(g)'
    BY <1>1, <1>2, <1>3 DEF Fresh
<1> QED BY <1>4, <1>5, <1>6

(* joinFlight() on a flight that is under way. *)
LEMMA JoinReads ==
    ASSUME CoordinatorInv, ReadsInv, NEW c \in Flights, RunJoins(c)
    PROVE  ReadsInv'
<1> USE DEF ReadsInv
<1>1. PICK k \in Keys : k = Req[c].key /\ Keyed(c) /\ inFlight[k] # None
    BY RequestAssumption DEF RunJoins, Joinable, Keyed, RequestType
<1>2. PICK f \in Flights : f = inFlight[k] /\ phase[f] # "none" /\ aborted[f] = "no"
    BY <1>1 DEF RunJoins, Joinable, CoordinatorInv, CallTypeOK, CallsInv
<1>3. /\ observers' = [observers EXCEPT ![f] = observers[f] \cup {c}]
      /\ Reprioritize(f, observers[f] \cup {c})
      /\ call' = [call EXCEPT ![c] = "waiting"] /\ via' = [via EXCEPT ![c] = f]
      /\ UNCHANGED <<inFlight, cache, failures, epoch, overtaken, aborted>>
    BY <1>1, <1>2 DEF RunJoins, Await, Reprioritize, scopeVars
<1>4. \A g \in Flights : Flows(g) /\ Ranked(g)' /\ Fresh(g)'
    BY <1>2, <1>3, RankFollows
<1>5. /\ \A h \in Keys : Tracked(h)' /\ Fits(h, cache[h])' /\ Fits(h, failures[h])'
      /\ \A g \in Flights : Alone(g)'
    BY <1>3, <1>4, StoresFrame
<1>6. ASSUME NEW d \in Flights PROVE Counted(d)'
    <2>1. /\ observers \in [Flights -> SUBSET Flights] /\ via \in [Flights -> Flights \cup {None}]
          /\ call \in [Flights -> {"idle", "waiting", "leaving", "returned"}]
        BY DEF CoordinatorInv, CallTypeOK
    <2>2. CASE d = c
        <3>1. via'[c] = f /\ c \in observers'[f] /\ aborted'[f] # "unobserved"
            BY <1>2, <1>3, <2>1
        <3> QED BY <2>2, <3>1 DEF Counted
    <2>3. CASE d # c
        <3>1. call'[d] = call[d] /\ via'[d] = via[d]
            BY <1>3, <2>1, <2>3
        <3>2. \A g : d \in observers[g] => d \in observers'[g]
            BY <1>3, <2>1
        <3> QED BY <1>3, <3>1, <3>2, KeepCounted
    <2> QED BY <2>2, <2>3
<1> QED BY <1>4, <1>5, <1>6

(* .finally of joinFlight(): when the last subscriber leaves, nobody waits. *)
LEMMA LeaveReads ==
    ASSUME CoordinatorInv, ReadsInv, NEW c \in Flights, Leave(c)
    PROVE  ReadsInv'
<1> USE DEF ReadsInv
<1>1. PICK f \in Flights : f = via[c] /\ phase[f] # "none"
    BY DEF Leave, CoordinatorInv, CallsInv
<1> DEFINE others == observers[f] \ {c}
<1>2. /\ observers' = [observers EXCEPT ![f] = others]
      /\ call' = [call EXCEPT ![c] = "returned"]
      /\ UNCHANGED <<via, inFlight, cache, failures, epoch, overtaken>>
    BY <1>1 DEF Leave, scopeVars
<1>3. \/ Deserted(f, others) /\ Abort({f}, "unobserved")
      \/ Reprioritize(f, others)
    BY <1>1 DEF Leave
<1>4. /\ observers \in [Flights -> SUBSET Flights] /\ phase \in [Flights -> Phases]
      /\ call \in [Flights -> {"idle", "waiting", "leaving", "returned"}]
    BY DEF CoordinatorInv, AdmissionInv, AdmissionTypeOK, CallTypeOK
<1>5. /\ \A g \in Flights : Flows(g) /\ Ranked(g)' /\ Fresh(g)'
      /\ \A g \in Flights : \/ aborted'[g] = aborted[g]
                            \/ g = f /\ others = {}
    <2>1. CASE Reprioritize(f, others)
        BY <1>1, <1>2, <2>1, RankFollows DEF Reprioritize
    <2>2. CASE Deserted(f, others) /\ Abort({f}, "unobserved")
        <3>1. "unobserved" \in Reasons /\ others = {}
            BY <2>2 DEF Reasons, Deserted
        <3>2. \A g \in Flights : /\ Flows(g)
                                 /\ lane' = lane
                                 /\ aborted'[g] = aborted[g] \/ (g = f /\ aborted'[g] = "unobserved")
                                 /\ g = f => aborted'[g] # "no"
            BY <1>4, <2>2, <3>1, AbortFlow
        <3>3. ASSUME NEW g \in Flights PROVE Ranked(g)'
            <4>1. CASE g = f
                BY <3>2, <4>1 DEF Ranked
            <4>2. CASE g # f
                <5>1. observers'[g] = observers[g]
                    BY <1>2, <1>4, <4>2
                <5> QED BY <3>2, <5>1, KeepRanked
            <4> QED BY <4>1, <4>2
        <3>4. ASSUME NEW g \in Flights PROVE Fresh(g)'
            BY <1>2, <3>2, KeepFresh DEF Flows
        <3> QED BY <3>1, <3>2, <3>3, <3>4
    <2> QED BY <1>3, <2>1, <2>2
<1>6. /\ \A h \in Keys : Tracked(h)' /\ Fits(h, cache[h])' /\ Fits(h, failures[h])'
      /\ \A g \in Flights : Alone(g)'
    BY <1>2, <1>5, StoresFrame
<1>7. ASSUME NEW d \in Flights PROVE Counted(d)'
    <2>1. CASE d = c
        <3>1. call'[c] = "returned"
            BY <1>2, <1>4
        <3> QED BY <2>1, <3>1 DEF Counted
    <2>2. CASE d # c
        <3>1. call'[d] = call[d] /\ via'[d] = via[d]
            BY <1>2, <1>4, <2>2
        <3>2. \A g : d \in observers[g] => d \in observers'[g]
            BY <1>2, <1>4, <2>2
        <3>3. CASE Keyed(d) /\ call[d] = "waiting"
            <4>1. PICK g \in Flights : g = via[d] /\ d \in observers[g]
                BY <3>3 DEF CoordinatorInv, CallsInv, Counted
            <4>2. aborted'[g] = aborted[g]
                BY <1>5, <2>2, <4>1
            <4> QED BY <3>1, <3>2, <4>1, <4>2, KeepCounted
        <3>4. CASE ~(Keyed(d) /\ call[d] = "waiting")
            BY <3>1, <3>2, <3>4, KeepCounted
        <3> QED BY <3>3, <3>4
    <2> QED BY <2>1, <2>2
<1> QED BY <1>5, <1>6, <1>7

(* acquire() leaves a keyed flight under way, and moves nobody else on. *)
LEMMA AcquireShape ==
    ASSUME phase \in [Flights -> Phases], NEW f \in Flights, NEW gen, Acquire(f, gen)
    PROVE  /\ phase'[f] \in {"queued", "granted", Ended(f)}
           /\ phase'[f] = "queued" => ~QueueIsFull(f, gen)
           /\ \A g \in Flights \ {f} : phase'[g] = phase[g] \/ (phase[g] = "queued" /\ phase'[g] = "granted")
<1>1. CASE QueueIsFull(f, gen)
    <2>1. phase' = [phase EXCEPT ![f] = Ended(f)]
        BY <1>1 DEF Acquire
    <2>2. Ended(f) # "queued"
        BY DEF Ended
    <2> QED BY <2>1, <2>2
<1>2. CASE ~QueueIsFull(f, gen)
    <2> DEFINE ph == [phase EXCEPT ![f] = "queued"]
    <2>1. Drain(ph, {}, cooling)
        BY <1>2 DEF Acquire
    <2>2. ph[f] = "queued" /\ \A g \in Flights \ {f} : ph[g] = phase[g]
        OBVIOUS
    <2> HIDE DEF ph
    <2>3. \A g \in Flights : phase'[g] = ph[g] \/ (ph[g] = "queued" /\ phase'[g] = "granted")
        BY <2>1, DrainShape
    <2> QED BY <1>2, <2>2, <2>3
<1> QED BY <1>1, <1>2

(* A flight of its own starts only when no usable one is on record. *)
LEMMA StartReads ==
    ASSUME CoordinatorInv, ReadsInv, NEW c \in Flights, RunStarts(c)
    PROVE  ReadsInv'
<1> USE DEF ReadsInv
<1>1. /\ phase \in [Flights -> Phases] /\ inFlight \in [Keys -> Flights \cup {None}]
      /\ cache \in [Keys -> Flights \cup {None}] /\ failures \in [Keys -> Flights \cup {None}]
      /\ born \in [Flights -> [epoch : Nat, gen : 0..MaxGen]]
      /\ observers \in [Flights -> SUBSET Flights] /\ via \in [Flights -> Flights \cup {None}]
      /\ call \in [Flights -> {"idle", "waiting", "leaving", "returned"}]
    BY DEF CoordinatorInv, AdmissionInv, AdmissionTypeOK, CallTypeOK
<1>2. /\ phase[c] = "none" /\ aborted[c] = "no" /\ c \notin overtaken /\ lane[c] = Req[c].lane
    BY DEF RunStarts, CoordinatorInv, CallsInv, Fresh
<1>3. /\ UNCHANGED <<lane, aborted, cache, failures, epoch, overtaken>>
      /\ call' = [call EXCEPT ![c] = "waiting"] /\ via' = [via EXCEPT ![c] = c]
      /\ \A g \in Flights \ {c} : born'[g] = born[g]
      /\ born'[c].epoch = epoch[Req[c].scope]
    BY <1>1 DEF RunStarts, Await, Epoch, scopeVars
<1>4. /\ phase'[c] \in {"queued", "granted", Ended(c)}
      /\ \A g \in Flights \ {c} : phase'[g] = phase[g] \/ (phase[g] = "queued" /\ phase'[g] = "granted")
    BY <1>1, AcquireShape DEF RunStarts
<1>5. \A g \in Flights \ {c} : Flows(g)
    BY <1>3, <1>4 DEF Flows, Live, Registered
<1>6. /\ phase'[c] # "none" /\ (Keyed(c) => phase'[c] \in Live)
    BY <1>4 DEF Ended, Live
<1>7. /\ \A k \in Keys : inFlight'[k] = IF k = Req[c].key THEN c ELSE inFlight[k]
      /\ \A g \in Flights \ {c} : observers'[g] = observers[g]
      /\ Keyed(c) => observers'[c] = {c}
    BY <1>1, RequestAssumption DEF RunStarts, Keyed
<1>8. ASSUME NEW k \in Keys PROVE Tracked(k)'
    <2>1. CASE k = Req[c].key
        <3>1. Keyed(c) /\ KeyScope[k] = Req[c].scope
            BY <2>1, RequestAssumption DEF Keyed
        <3>2. inFlight'[k] = c
            BY <1>7, <2>1
        <3>3. Req[c].key = k /\ phase'[c] \in Live /\ c \notin overtaken' /\ born'[c].epoch = epoch'[KeyScope[k]]
            BY <1>2, <1>3, <1>6, <2>1, <3>1
        <3> QED BY <3>2, <3>3 DEF Tracked
    <2>2. CASE k # Req[c].key
        <3>1. inFlight'[k] = inFlight[k]
            BY <1>7, <2>2
        <3>2. inFlight[k] = None \/ inFlight[k] \in Flights \ {c}
            BY <1>1, <2>2 DEF Tracked
        <3>3. inFlight[k] = None \/ (Flows(inFlight[k]) /\ inFlight[k] \notin overtaken)
            BY <1>5, <3>2 DEF Tracked
        <3> QED BY <1>3, <3>1, <3>3, KeepTracked
    <2> QED BY <2>1, <2>2
<1>9. ASSUME NEW k \in Keys PROVE Fits(k, cache[k])' /\ Fits(k, failures[k])'
    <2>1. ASSUME NEW f \in Flights \cup {None}, Fits(k, f)
          PROVE  f # None => /\ Req[f].key = k /\ phase'[f] # "none"
                             /\ f \notin overtaken' /\ born'[f].epoch = epoch'[KeyScope[k]]
        <3>1. f = None \/ f \in Flights \ {c}
            BY <1>2, <2>1 DEF Fits
        <3> QED BY <1>3, <1>5, <2>1, <3>1, KeepFits DEF Flows
    <2> QED BY <1>1, <1>3, <2>1 DEF Fits
<1>10. ASSUME NEW g \in Flights PROVE Alone(g)'
    <2>1. CASE g = c
        <3>1. Keyed(c) => inFlight'[Req[c].key] = c
            BY <1>7, RequestAssumption DEF Keyed, RequestType
        <3> QED BY <2>1, <3>1 DEF Alone, Keyed
    <2>2. CASE g # c /\ Req[g].key # Req[c].key
        <3>1. Keyed(g) => inFlight'[Req[g].key] = inFlight[Req[g].key]
            BY <1>7, <2>2, RequestAssumption DEF Keyed, RequestType
        <3> QED BY <1>3, <1>5, <2>2, <3>1, KeepAlone DEF Alone, Keyed
    <2>3. CASE g # c /\ Req[g].key = Req[c].key
        <3>1. CASE Keyed(g) /\ phase[g] \in Live /\ g \notin overtaken /\ aborted[g] = "no"
            <4>1. PICK k \in Keys : k = Req[g].key
                BY <3>1, RequestAssumption DEF Keyed, RequestType
            <4>2. inFlight[k] = g
                BY <3>1, <4>1 DEF Alone
            <4>3. born[g].epoch = epoch[KeyScope[k]] /\ KeyScope[k] = Req[c].scope
                BY <2>3, <3>1, <4>1, <4>2, RequestAssumption DEF Tracked, Keyed
            <4>4. Joinable(c)
                BY <2>3, <3>1, <4>1, <4>2, <4>3, RequestAssumption DEF Joinable, Keyed, Epoch
            <4> QED BY <4>4 DEF RunStarts
        <3>2. CASE ~(Keyed(g) /\ phase[g] \in Live /\ g \notin overtaken /\ aborted[g] = "no")
            BY <1>3, <1>5, <2>3, <3>2 DEF Alone, Flows, Keyed
        <3> QED BY <3>1, <3>2
    <2> QED BY <2>1, <2>2, <2>3
<1>11. ASSUME NEW d \in Flights PROVE Counted(d)'
    <2>1. CASE d = c
        <3>1. via'[c] = c /\ (Keyed(c) => c \in observers'[c]) /\ aborted'[c] # "unobserved"
            BY <1>1, <1>2, <1>3, <1>7
        <3> QED BY <2>1, <3>1 DEF Counted, Keyed
    <2>2. CASE d # c
        <3>1. call'[d] = call[d] /\ via'[d] = via[d]
            BY <1>1, <1>3, <2>2
        <3>2. call[d] \in {"waiting", "leaving"} => via[d] \in Flights \ {c}
            BY <1>2 DEF CoordinatorInv, CallsInv
        <3> QED BY <1>3, <1>7, <3>1, <3>2, KeepCounted
    <2> QED BY <2>1, <2>2
<1>12. ASSUME NEW g \in Flights PROVE Ranked(g)' /\ Fresh(g)'
    <2>1. CASE g = c
        <3>1. Keyed(c) => (\E d \in observers'[c] : Req[d].lane = "interactive-read")
                            <=> lane'[c] = "interactive-read"
            BY <1>2, <1>3, <1>7
        <3> QED BY <1>6, <2>1, <3>1 DEF Ranked, Fresh, Keyed
    <2>2. CASE g # c
        <3>1. Ranked(g)'
            BY <1>3, <1>5, <1>7, <2>2, KeepRanked
        <3>2. Fresh(g)'
            BY <1>3, <1>5, <2>2, KeepFresh DEF Flows
        <3> QED BY <3>1, <3>2
    <2> QED BY <2>1, <2>2
<1> QED BY <1>8, <1>9, <1>10, <1>11, <1>12

(* invalidateScope() and invalidateKey(): what they leave on record under   *)
(* other keys is untouched, and what they detach is overtaken.              *)
LEMMA ForgetReads ==
    ASSUME CoordinatorInv, ReadsInv, NEW K \in SUBSET Keys, Forget(K),
           UNCHANGED <<lane, call, via>>,
           \A g \in Flights : Flows(g) /\ (aborted'[g] = aborted[g] \/ aborted'[g] # "unobserved"),
           \A k \in Keys \ K : epoch'[KeyScope[k]] = epoch[KeyScope[k]]
    PROVE  ReadsInv'
<1> USE DEF ReadsInv
<1>1. /\ inFlight \in [Keys -> Flights \cup {None}]
      /\ cache \in [Keys -> Flights \cup {None}] /\ failures \in [Keys -> Flights \cup {None}]
    BY DEF CoordinatorInv, CallTypeOK
<1>2. /\ observers' = observers
      /\ \A k \in K : inFlight'[k] = None /\ cache'[k] = None /\ failures'[k] = None
      /\ \A k \in Keys \ K : inFlight'[k] = inFlight[k] /\ cache'[k] = cache[k] /\ failures'[k] = failures[k]
      /\ \A f \in Flights : f \in overtaken' <=> f \in overtaken \/ (phase[f] # "none" /\ Req[f].key \in K)
      /\ overtaken \subseteq overtaken'
    BY DEF Forget
<1>3. ASSUME NEW k \in Keys PROVE Tracked(k)' /\ Fits(k, cache[k])' /\ Fits(k, failures[k])'
    <2>1. CASE k \in K
        BY <1>2, <2>1 DEF Tracked, Fits
    <2>2. CASE k \notin K
        <3>1. inFlight[k] = None \/ (Flows(inFlight[k]) /\ inFlight[k] \notin overtaken')
            BY <1>1, <1>2, <2>2 DEF Tracked
        <3>2. Tracked(k)'
            BY <1>2, <2>2, <3>1, KeepTracked
        <3>3. ASSUME NEW f \in Flights \cup {None}, Fits(k, f)
              PROVE  f # None => /\ Req[f].key = k /\ phase'[f] # "none"
                                 /\ f \notin overtaken' /\ born'[f].epoch = epoch'[KeyScope[k]]
            <4>1. f # None => (f \in overtaken' => f \in overtaken) /\ Flows(f)
                BY <1>2, <2>2, <3>3 DEF Fits
            <4> QED BY <2>2, <3>3, <4>1, KeepFits DEF Flows
        <3> QED BY <1>1, <1>2, <2>2, <3>2, <3>3 DEF Fits
    <2> QED BY <2>1, <2>2
<1>4. ASSUME NEW f \in Flights PROVE Alone(f)' /\ Counted(f)' /\ Ranked(f)' /\ Fresh(f)'
    <2>1. Alone(f)'
        <3>1. CASE Keyed(f) /\ phase[f] \in Live
            <4>1. Req[f].key \in Keys /\ phase[f] # "none"
                BY <3>1, RequestAssumption DEF Keyed, RequestType, Live
            <4> QED BY <1>2, <4>1, KeepAlone
        <3>2. CASE ~(Keyed(f) /\ phase[f] \in Live)
            BY <3>2 DEF Alone, Flows, Keyed
        <3> QED BY <3>1, <3>2
    <2>2. Counted(f)'
        <3>1. call[f] = "waiting" => via[f] \in Flights
            BY DEF CoordinatorInv, CallsInv
        <3> QED BY <1>2, <3>1, KeepCounted
    <2>3. Ranked(f)'
        BY <1>2, KeepRanked
    <2>4. Fresh(f)'
        BY <1>2, KeepFresh DEF Flows
    <2> QED BY <2>1, <2>2, <2>3, <2>4
<1> QED BY <1>3, <1>4

LEMMA InvalidationReads ==
    ASSUME CoordinatorInv, ReadsInv,
           (\E s \in Scopes : InvalidateScope(s)) \/ (\E K \in Prefixes : InvalidateKeys(K))
    PROVE  ReadsInv'
<1>1. ASSUME NEW s \in Scopes, InvalidateScope(s) PROVE ReadsInv'
    <2>1. PICK F : Abort(F, "stale")
        BY <1>1 DEF InvalidateScope
    <2>2. phase \in [Flights -> Phases] /\ "stale" \in Reasons
        BY DEF CoordinatorInv, AdmissionInv, AdmissionTypeOK, Reasons
    <2>3. \A g \in Flights : /\ Flows(g) /\ lane' = lane
                             /\ aborted'[g] = aborted[g] \/ (g \in F /\ aborted'[g] = "stale")
                             /\ g \in F => aborted'[g] # "no"
        BY <2>1, <2>2, AbortFlow
    <2>4. lane' = lane /\ Forget(KeysOf(s)) /\ KeysOf(s) \in SUBSET Keys /\ UNCHANGED <<call, via>>
        BY <1>1, <2>1 DEF InvalidateScope, Abort, KeysOf, callVars
    <2>5. \A k \in Keys \ KeysOf(s) : epoch'[KeyScope[k]] = epoch[KeyScope[k]]
        BY <1>1, RequestAssumption DEF InvalidateScope, KeysOf, CoordinatorInv, CallTypeOK
    <2> QED BY <2>3, <2>4, <2>5, ForgetReads
<1>2. ASSUME NEW K \in Prefixes, InvalidateKeys(K) PROVE ReadsInv'
    <2>1. /\ Forget(K) /\ K \in SUBSET Keys
          /\ UNCHANGED <<phase, lane, born, aborted, call, via, epoch>>
        BY <1>2, RequestAssumption DEF InvalidateKeys, callVars, admissionVars, flightVars
    <2>2. \A g \in Flights : Flows(g)
        BY <2>1 DEF Flows
    <2> QED BY <2>1, <2>2, ForgetReads
<1> QED BY <1>1, <1>2

(* dispose() aborts every flight on record before it drops the record. *)
LEMMA DisposeReads ==
    ASSUME CoordinatorInv, ReadsInv, Dispose
    PROVE  ReadsInv'
<1> USE DEF ReadsInv
<1>1. phase \in [Flights -> Phases] /\ "disposed" \in Reasons /\ Abort(Controlled, "disposed")
    BY DEF CoordinatorInv, AdmissionInv, AdmissionTypeOK, Reasons, Dispose
<1>2. \A g \in Flights : /\ Flows(g) /\ lane' = lane
                         /\ aborted'[g] = aborted[g] \/ (g \in Controlled /\ aborted'[g] = "disposed")
                         /\ g \in Controlled => aborted'[g] # "no"
    BY <1>1, AbortFlow
<1>3. /\ lane' = lane /\ UNCHANGED <<cache, failures, observers, call, via, epoch, overtaken>>
      /\ \A k \in Keys : inFlight'[k] = None
    BY <1>1 DEF Dispose, Abort, callVars
<1>4. ASSUME NEW k \in Keys PROVE Tracked(k)' /\ Fits(k, cache[k])' /\ Fits(k, failures[k])'
    <2>1. Tracked(k)'
        BY <1>3 DEF Tracked
    <2>2. ASSUME NEW f \in Flights \cup {None}, Fits(k, f)
          PROVE  f # None => /\ Req[f].key = k /\ phase'[f] # "none"
                             /\ f \notin overtaken' /\ born'[f].epoch = epoch'[KeyScope[k]]
        BY <1>2, <1>3, <2>2, KeepFits DEF Flows
    <2>3. cache[k] \in Flights \cup {None} /\ failures[k] \in Flights \cup {None}
        BY DEF CoordinatorInv, CallTypeOK
    <2> QED BY <1>3, <2>1, <2>2, <2>3 DEF Fits
<1>5. ASSUME NEW f \in Flights PROVE Alone(f)' /\ Counted(f)' /\ Ranked(f)' /\ Fresh(f)'
    <2>1. Alone(f)'
        <3>1. Keyed(f) /\ inFlight[Req[f].key] = f => f \in Controlled
            BY RequestAssumption DEF Keyed, RequestType, Controlled
        <3> QED BY <1>2, <1>3, <3>1, KeepAlone DEF Alone, Keyed
    <2>2. Counted(f)'
        <3>1. call[f] = "waiting" => via[f] \in Flights
            BY DEF CoordinatorInv, CallsInv
        <3> QED BY <1>2, <1>3, <3>1, KeepCounted
    <2>3. Ranked(f)'
        BY <1>2, <1>3, KeepRanked
    <2>4. Fresh(f)'
        BY <1>2, <1>3, KeepFresh DEF Flows
    <2> QED BY <2>1, <2>2, <2>3, <2>4
<1> QED BY <1>4, <1>5

(* Entries whose time is up. *)
LEMMA ExpireReads ==
    ASSUME CoordinatorInv, ReadsInv, Expire
    PROVE  ReadsInv'
<1> USE DEF ReadsInv
<1>1. /\ UNCHANGED <<phase, lane, born, aborted, inFlight, observers, call, via, epoch, overtaken>>
      /\ \A k \in Keys : cache'[k] \in {cache[k], None} /\ failures'[k] \in {failures[k], None}
    BY DEF Expire, admissionVars, callVars, scopeVars, flightVars, CoordinatorInv, CallTypeOK
<1>2. \A k \in Keys : Tracked(k)' /\ Fits(k, cache[k])' /\ Fits(k, failures[k])'
    BY <1>1 DEF Tracked, Fits
<1>3. \A f \in Flights : Alone(f)' /\ Counted(f)' /\ Ranked(f)' /\ Fresh(f)'
    BY <1>1 DEF Alone, Counted, Ranked, Fresh, Keyed
<1> QED BY <1>2, <1>3

-----------------------------------------------------------------------------
LEMMA ReadsInitially == Init => ReadsInv
BY DEF Init, ReadsInv, Tracked, Fits, Alone, Counted, Ranked, Fresh, Live, Registered

(* ReadsInv is inductive relative to CoordinatorInv. *)
LEMMA ReadsInductive == CoordinatorInv /\ ReadsInv /\ [Next]_vars => ReadsInv'
<1> SUFFICES ASSUME CoordinatorInv, ReadsInv, [Next]_vars PROVE ReadsInv'
    OBVIOUS
<1>1. ASSUME NEW c \in Flights, Run(c) \/ HangUp(c) \/ Continue(c) \/ DeadlinePasses(c)
      PROVE  ReadsInv'
    BY <1>1, CallReads, JoinReads, StartReads, LeaveReads, CancelReads DEF Run, Continue
<1>2. ASSUME NEW f \in Flights, Progress(f)
      PROVE  ReadsInv'
    BY <1>2, ExecuteReads, PublishReads, RetireReads DEF Progress
<1>3. CASE RefillStep \/ CooldownStep \/ TimerStep \/ Dispose \/ Expire
    BY <1>3, ClockReads, DisposeReads, ExpireReads
<1>4. CASE (\E s \in Scopes : InvalidateScope(s)) \/ (\E K \in Prefixes : InvalidateKeys(K))
    BY <1>4, InvalidationReads
<1>5. CASE UNCHANGED vars
    <2>1. UNCHANGED <<lane, call, via, storeVars, scopeVars, aborted, phase, born>>
        BY <1>5 DEF vars, admissionVars, callVars, flightVars
    <2>2. \A g \in Flights : Flows(g)
        BY <2>1 DEF Flows
    <2> QED BY <2>1, <2>2, FlowFrame
<1> QED BY <1>1, <1>2, <1>3, <1>4, <1>5 DEF Next

LEMMA ReadsAlways == Spec => [](CoordinatorInv /\ ReadsInv)
<1>1. Init => CoordinatorInv /\ ReadsInv
    BY Initially, ReadsInitially
<1>2. CoordinatorInv /\ ReadsInv /\ [Next]_vars => (CoordinatorInv /\ ReadsInv)'
    BY Inductive, ReadsInductive
<1> QED BY <1>1, <1>2, PTL DEF Spec

(* The cache and the failure cooldowns hold nothing of a former account    *)
(* generation and no result of a read that an invalidation overtook.       *)
THEOREM StoresStayCurrent == Spec => []StoresCurrent
<1>1. ReadsInv => StoresCurrent
    BY DEF ReadsInv, Fits, StoresCurrent
<1> QED BY <1>1, ReadsAlways, PTL

(* Of two transports of one key that are under way, one was aborted or an  *)
(* invalidation lies between them.                                         *)
THEOREM ReadsStaySingle == Spec => []SingleFlight
<1>1. ReadsInv => SingleFlight
    BY DEF ReadsInv, Alone, SingleFlight, Keyed
<1> QED BY <1>1, ReadsAlways, PTL

(* A subscriber that still waits never has its transport cancelled because *)
(* other subscribers left.                                                 *)
THEOREM SubscribersKeepTheirRead == Spec => []SharedReadSurvives
<1>1. ReadsInv => SharedReadSurvives
    BY DEF ReadsInv, Counted, SharedReadSurvives
<1> QED BY <1>1, ReadsAlways, PTL

(* A queued shared read is in the foreground lane exactly while one of its *)
(* subscribers is a foreground reader.                                     *)
THEOREM LaneFollowsSubscribers == Spec => []PriorityFollowsSubscribers
<1>1. CoordinatorInv /\ ReadsInv => PriorityFollowsSubscribers
    BY DEF CoordinatorInv, CallsInv, ReadsInv, Ranked, PriorityFollowsSubscribers, Registered
<1> QED BY <1>1, ReadsAlways, PTL

-----------------------------------------------------------------------------
\* No flight enters the queue, but for those of S.
QueuedBefore(S) == \A g \in Flights \ S : phase'[g] = "queued" => phase[g] = "queued"

\* acquire() found room in the queues that f joins.
Admits(f) == QueuedBefore({f}) /\ (phase'[f] = "queued" => \E gen \in Nat : ~QueueIsFull(f, gen))

(* Only acquire() puts a flight into the queue, and only where there is room. *)
LEMMA QueueGrows ==
    ASSUME CoordinatorInv, [Next]_vars
    PROVE  QueuedBefore({}) \/ \E f \in Flights : Admits(f)
<1>1. /\ phase \in [Flights -> Phases] /\ born \in [Flights -> [epoch : Nat, gen : 0..MaxGen]]
      /\ routeGen \in [Scopes -> 0..MaxGen]
    BY DEF CoordinatorInv, AdmissionInv, AdmissionTypeOK, CallTypeOK
<1>2. ASSUME phase' = phase PROVE QueuedBefore({})
    BY <1>2 DEF QueuedBefore
<1>3. ASSUME NEW R, NEW cool, Drain(phase, R, cool) PROVE QueuedBefore({})
    BY <1>3, DrainShape DEF QueuedBefore
<1>4. ASSUME NEW f \in Flights, NEW to, to # "queued", NEW R, NEW cool, Drain([phase EXCEPT ![f] = to], R, cool)
      PROVE  QueuedBefore({})
    <2> DEFINE ph == [phase EXCEPT ![f] = to]
    <2>1. \A g \in Flights : ph[g] = "queued" => phase[g] = "queued"
        BY <1>1, <1>4
    <2>2. Drain(ph, R, cool)
        BY <1>4
    <2> HIDE DEF ph
    <2>3. \A g \in Flights : phase'[g] = ph[g] \/ (ph[g] = "queued" /\ phase'[g] = "granted")
        BY <2>2, DrainShape
    <2> QED BY <2>1, <2>3 DEF QueuedBefore
<1>5. ASSUME NEW F, NEW reason, Abort(F, reason) PROVE QueuedBefore({})
    BY <1>5 DEF QueuedBefore, Abort, Ended
<1>6. ASSUME NEW f \in Flights, NEW gen \in Nat, Acquire(f, gen) PROVE Admits(f)
    <2>1. QueuedBefore({f})
        BY <1>1, <1>6, AcquireShape DEF QueuedBefore
    <2>2. phase'[f] = "queued" => ~QueueIsFull(f, gen)
        BY <1>1, <1>6, AcquireShape
    <2> QED BY <2>1, <2>2 DEF Admits
<1>7. ASSUME NEW c \in Flights, Run(c) \/ HangUp(c) \/ Continue(c) \/ DeadlinePasses(c)
      PROVE  QueuedBefore({}) \/ \E f \in Flights : Admits(f)
    <2>1. CASE \/ RunAborted(c) \/ RunFromCache(c) \/ RunInCooldown(c) \/ StreamOpens(c) \/ Answered(c)
               \/ HangUp(c) /\ Keyed(c)
        BY <1>2, <2>1 DEF RunAborted, RunFromCache, RunInCooldown, StreamOpens, Answered, HangUp, admissionVars
    <2>2. CASE RunJoins(c) \/ Leave(c)
        <3>1. QueuedBefore({}) \/ phase' = phase \/ (\E F, reason : Abort(F, reason))
            BY <1>3, <2>2 DEF RunJoins, Leave, Reprioritize
        <3> QED BY <1>2, <1>5, <3>1
    <2>3. CASE RunStarts(c)
        <3>1. PICK gen \in Nat : Acquire(c, gen)
            BY <1>1, <2>3, AdmissionAssumption DEF RunStarts
        <3> QED BY <1>6, <3>1
    <2>4. CASE DeadlinePasses(c) \/ (HangUp(c) /\ ~Keyed(c))
        BY <1>5, <2>4 DEF DeadlinePasses, HangUp
    <2> QED BY <1>7, <2>1, <2>2, <2>3, <2>4 DEF Run, Continue
<1>8. ASSUME NEW f \in Flights, Progress(f)
      PROVE  QueuedBefore({}) \/ \E g \in Flights : Admits(g)
    <2>1. CASE Begin(f) \/ Publish(f) \/ Retire(f)
        BY <1>1, <2>1 DEF Begin, Publish, Retire, QueuedBefore
    <2>2. ASSUME NEW why, NEW cool, Settle(f, why, cool) PROVE QueuedBefore({})
        <3>1. Ended(f) # "queued" /\ Drain([phase EXCEPT ![f] = Ended(f)], {f}, cool)
            BY <2>2 DEF Ended, Settle
        <3> QED BY <1>4, <3>1
    <2>3. CASE BeginTooLate(f) \/ OperationSucceeds(f)
        BY <2>2, <2>3 DEF BeginTooLate, OperationSucceeds
    <2>4. ASSUME NEW route \in BOOLEAN, NEW service \in BOOLEAN,
                 RetryableFailure(f, route, service) \/ FinalFailure(f, service) PROVE QueuedBefore({})
        <3>1. \/ \E why, cool : Settle(f, why, cool)
              \/ \E cool : Drain([phase EXCEPT ![f] = "backoff"], {f}, cool)
            BY <2>4 DEF RetryableFailure, FinalFailure
        <3> QED BY <1>4, <2>2, <3>1
    <2>5. CASE RetryDue(f)
        <3>1. PICK gen \in Nat : Acquire(f, gen)
            BY <1>1, <2>5, AdmissionAssumption DEF RetryDue
        <3> QED BY <1>6, <3>1
    <2> QED BY <1>8, <2>1, <2>3, <2>4, <2>5 DEF Progress
<1>9. CASE RefillStep \/ CooldownStep \/ TimerStep
    BY <1>2, <1>3, <1>9 DEF RefillStep, CooldownStep, TimerStep, Refill, CooldownEnds, TimerFires
<1>10. CASE \/ \E s \in Scopes : InvalidateScope(s)
            \/ \E K \in Prefixes : InvalidateKeys(K)
            \/ Dispose \/ Expire
    <2>1. phase' = phase \/ (\E F, reason : Abort(F, reason))
        BY <1>10 DEF InvalidateScope, InvalidateKeys, Dispose, Expire, admissionVars
    <2> QED BY <1>2, <1>5, <2>1
<1>11. CASE UNCHANGED vars
    BY <1>2, <1>11 DEF vars, admissionVars
<1> QED BY <1>7, <1>8, <1>9, <1>10, <1>11 DEF Next

-----------------------------------------------------------------------------
\* The limits that a change of lane leaves a permit under, and their waiters.
Lasting == {Pool} \cup {ServiceLimit(s) : s \in Services}
Waiters(l) == {f \in Queued(phase) : l \in Needs(f)}

(* Whether a permit needs such a limit depends on its request alone. *)
LEMMA LastingNeeds ==
    ASSUME NEW l \in Lasting, NEW f \in Flights
    PROVE  /\ l \in Limits /\ (l \in Needs(f) <=> l \in Needs(f)')
           /\ l \in Needs(f) => Transport(f) /\ l \in {Pool, ServiceLimit(Req[f].service)}
<1>1. /\ l \in Limits
      /\ \A x : l # LaneLimit(x)
      /\ \A s, r, g : l # RouteLimit(s, r, g)
    BY DEF Lasting, Limits, Pool, ServiceLimit, LaneLimit, RouteLimit
<1>2. l \in Needs(f) <=> Transport(f) /\ l \in {Pool, ServiceLimit(Req[f].service)}
    BY <1>1 DEF Needs, LimitsOf
<1>3. (l \in Needs(f))' <=> Transport(f) /\ l \in {Pool, ServiceLimit(Req[f].service)}
    BY <1>1 DEF Needs, LimitsOf, Transport
<1> QED BY <1>1, <1>2, <1>3

(* A step keeps the queues of the lasting limits within their bounds. *)
LEMMA QueueStep == CoordinatorInv /\ QueueBounded /\ [Next]_vars => QueueBounded'
<1> SUFFICES ASSUME CoordinatorInv, QueueBounded, [Next]_vars, NEW l \in Lasting
             PROVE  Cardinality(Waiters(l)') <= MaxQueued[Config(l)]
    BY DEF QueueBounded, Load, Waiters, Lasting, Queued
<1>1. IsFiniteSet(Waiters(l)) /\ Cardinality(Waiters(l)) \in Nat /\ IsFiniteSet(Waiters(l)')
    BY AdmissionAssumption, FS_Subset, FS_CardinalityType DEF Waiters, Queued
<1>2. Cardinality(Waiters(l)) <= MaxQueued[Config(l)] /\ MaxQueued[Config(l)] \in Nat
    <2>1. l \in Limits
        BY DEF Lasting, Limits
    <2>2. {f \in Queued(phase) : l \in [g \in Flights |-> Needs(g)][f]} = Waiters(l)
        BY DEF Waiters, Queued
    <2> QED BY <2>1, <2>2, AdmissionAssumption DEF QueueBounded, Load, Lasting
<1>3. CASE QueuedBefore({})
    <2>1. Waiters(l)' \subseteq Waiters(l)
        BY <1>3, LastingNeeds DEF Waiters, Queued, QueuedBefore
    <2>2. Cardinality(Waiters(l)') <= Cardinality(Waiters(l)) /\ Cardinality(Waiters(l)') \in Nat
        BY <1>1, <2>1, FS_Subset, FS_CardinalityType
    <2> QED BY <1>1, <1>2, <2>2
<1>4. ASSUME NEW f \in Flights, Admits(f)
      PROVE  Cardinality(Waiters(l)') <= MaxQueued[Config(l)]
    <2>1. Waiters(l)' \subseteq Waiters(l) \cup {f}
        BY <1>4, LastingNeeds DEF Waiters, Queued, QueuedBefore, Admits
    <2>2. CASE f \in Waiters(l)'
        <3>1. PICK gen \in Nat : ~QueueIsFull(f, gen)
            BY <1>4, <2>2 DEF Admits, Waiters, Queued
        <3>2. Transport(f) /\ l \in {Pool, ServiceLimit(Req[f].service)}
            BY <2>2, LastingNeeds DEF Waiters
        <3>3. ~(Cardinality(Waiters(l)) >= MaxQueued[Config(l)])
            BY <3>1, <3>2 DEF QueueIsFull, Waiters
        <3>4. Cardinality(Waiters(l)) < MaxQueued[Config(l)]
            BY <1>1, <1>2, <3>3
        <3>5. IsFiniteSet(Waiters(l) \cup {f}) /\ Cardinality(Waiters(l) \cup {f}) <= Cardinality(Waiters(l)) + 1
            <4> DEFINE W == Waiters(l)
            <4>1. IsFiniteSet(W) /\ Cardinality(W) \in Nat
                BY <1>1
            <4> HIDE DEF W
            <4>2. /\ IsFiniteSet(W \cup {f})
                  /\ Cardinality(W \cup {f}) = IF f \in W THEN Cardinality(W) ELSE Cardinality(W) + 1
                BY <4>1, FS_AddElement
            <4>3. Cardinality(W \cup {f}) <= Cardinality(W) + 1
                BY <4>1, <4>2
            <4> QED BY <4>2, <4>3 DEF W
        <3>6. Cardinality(Waiters(l)') <= Cardinality(Waiters(l) \cup {f}) /\ Cardinality(Waiters(l)') \in Nat
            BY <1>1, <2>1, <3>5, FS_Subset, FS_CardinalityType
        <3>7. Cardinality(Waiters(l) \cup {f}) \in Nat
            BY <3>5, FS_CardinalityType
        <3> QED BY <1>1, <1>2, <3>4, <3>5, <3>6, <3>7
    <2>3. CASE f \notin Waiters(l)'
        <3>1. Waiters(l)' \subseteq Waiters(l)
            BY <2>1, <2>3
        <3>2. Cardinality(Waiters(l)') <= Cardinality(Waiters(l)) /\ Cardinality(Waiters(l)') \in Nat
            BY <1>1, <3>1, FS_Subset, FS_CardinalityType
        <3> QED BY <1>1, <1>2, <3>2
    <2> QED BY <2>2, <2>3
<1> QED BY <1>3, <1>4, QueueGrows

(* The queues of the transport pool and of every service keep their bounds, *)
(* however calls, retries and changes of lane follow each other.            *)
THEOREM QueueStaysBounded == Spec => []QueueBounded
<1>1. Init => QueueBounded
    <2> SUFFICES ASSUME Init, NEW l \in Lasting
                 PROVE  Cardinality(Waiters(l)) <= MaxQueued[Config(l)]
        BY DEF QueueBounded, Load, Waiters, Lasting, Queued
    <2>1. Waiters(l) = {}
        BY DEF Init, Waiters, Queued
    <2>2. MaxQueued[Config(l)] \in Nat
        BY AdmissionAssumption DEF Lasting, Limits
    <2> QED BY <2>1, <2>2, FS_EmptySet
<1> QED BY <1>1, QueueStep, CoordinatorInvariant, PTL DEF Spec
=============================================================================
