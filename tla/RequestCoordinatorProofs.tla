---------------------- MODULE RequestCoordinatorProofs ----------------------
(***************************************************************************)
(* Proofs about RequestCoordinator for every set of calls, every request   *)
(* profile and every limit: its variables keep their types, its counters   *)
(* count the permits that are out and stay within the limits, and no       *)
(* waiter is left without a wake-up.                                       *)
(***************************************************************************)
EXTENDS RequestCoordinator, FiniteFacts

\* R is a strict total order on A.
Sorts(R, A) ==
    /\ \A f \in A : <<f, f>> \notin R
    /\ \A f, g, h \in A : <<f, g>> \in R /\ <<g, h>> \in R => <<f, h>> \in R
    /\ \A f, g \in A : f = g \/ <<f, g>> \in R \/ <<g, f>> \in R

\* Every member of A that needs l finds less than m of it taken, counting a and
\* the members before it.
RoomInTurn(A, need, R, l, a, m) ==
    \A f \in A : l \in need[f] => a + Cardinality({g \in A : <<g, f>> \in R /\ l \in need[g]}) < m

(* When each member of A found room after the members before it, all of A  *)
(* fits together: what one pass of drain() admits respects a limit m.      *)
LEMMA PassFits ==
    ASSUME NEW A, IsFiniteSet(A), NEW need, NEW R, NEW l, NEW a \in Int, NEW m \in Int, a <= m,
           Sorts(R, A), RoomInTurn(A, need, R, l, a, m)
    PROVE  a + Cardinality({f \in A : l \in need[f]}) <= m
<1> DEFINE S == {f \in A : l \in need[f]}
<1>1. IsFiniteSet(S)
    BY FS_Subset
<1>2. CASE S = {}
    BY <1>2, FS_EmptySet
<1>3. CASE S # {}
    <2>1. PICK x \in S : \A y \in S : <<x, y>> \notin R
        <3> HIDE DEF S
        <3>1. S \subseteq A BY DEF S
        <3> QED BY <1>1, <1>3, <3>1, LastElement DEF Sorts
    <2>2. S \ {x} \subseteq {g \in A : <<g, x>> \in R /\ l \in need[g]}
        BY <2>1 DEF Sorts
    <2>3. IsFiniteSet({g \in A : <<g, x>> \in R /\ l \in need[g]})
        BY FS_Subset
    <2>4. Cardinality(S \ {x}) <= Cardinality({g \in A : <<g, x>> \in R /\ l \in need[g]})
        BY <2>2, <2>3, FS_Subset
    <2>5. Cardinality(S) = Cardinality(S \ {x}) + 1 /\ Cardinality(S \ {x}) \in Nat
        <3> HIDE DEF S
        <3>1. IsFiniteSet(S \ {x}) /\ Cardinality(S \ {x}) = Cardinality(S) - 1
            BY <1>1, FS_RemoveElement
        <3>2. Cardinality(S) \in Nat /\ Cardinality(S \ {x}) \in Nat
            BY <1>1, <3>1, FS_CardinalityType
        <3> QED BY <3>1, <3>2
    <2>6. Cardinality({g \in A : <<g, x>> \in R /\ l \in need[g]}) \in Nat
        BY <2>3, FS_CardinalityType
    <2>7. a + Cardinality({g \in A : <<g, x>> \in R /\ l \in need[g]}) < m
        BY <2>1 DEF RoomInTurn
    <2>8. a + Cardinality(S) <= m
        <3> DEFINE n == Cardinality(S)
                   k == Cardinality(S \ {x})
                   p == Cardinality({g \in A : <<g, x>> \in R /\ l \in need[g]})
        <3>1. k <= p /\ n = k + 1 /\ k \in Nat /\ p \in Nat /\ a + p < m
            BY <2>4, <2>5, <2>6, <2>7
        <3> HIDE DEF n, k, p
        <3>2. a + n <= m
            BY <3>1
        <3> QED BY <3>2 DEF n
    <2> QED BY <2>8
<1> QED BY <1>2, <1>3

LEMMA CountMoves ==
    ASSUME NEW H, IsFiniteSet(H), NEW R, R \subseteq H, NEW N, IsFiniteSet(N), N \cap H = {}
    PROVE  /\ Cardinality((H \ R) \cup N) = Cardinality(H) - Cardinality(R) + Cardinality(N)
           /\ Cardinality(H) - Cardinality(R) \in Nat /\ Cardinality(N) \in Nat
           /\ Cardinality(H) \in Nat /\ Cardinality(R) \in Nat
<1>1. IsFiniteSet(H \ R) /\ Cardinality(H \ R) = Cardinality(H) - Cardinality(H \cap R)
    BY FS_Difference
<1>2. H \cap R = R /\ (H \ R) \cap N = {}
    OBVIOUS
<1>3. Cardinality((H \ R) \cup N) = Cardinality(H \ R) + Cardinality(N) - Cardinality((H \ R) \cap N)
    BY <1>1, FS_Union
<1>4. Cardinality({}) = 0
    BY FS_EmptySet
<1>5. IsFiniteSet(R)
    BY FS_Subset
<1>6. Cardinality(H) \in Nat /\ Cardinality(R) \in Nat /\ Cardinality(N) \in Nat /\ Cardinality(H \ R) \in Nat
    BY <1>1, <1>5, FS_CardinalityType
<1>7. Cardinality(H \ R) = Cardinality(H) - Cardinality(R)
    BY <1>1, <1>2
<1>8. Cardinality((H \ R) \cap N) = 0
    BY <1>2, <1>4
<1>9. Cardinality((H \ R) \cup N) = Cardinality(H \ R) + Cardinality(N)
    BY <1>3, <1>6, <1>8
<1> QED BY <1>6, <1>7, <1>9

(* The limits a permit needs exist. *)
LEMMA NeedsExist ==
    ASSUME NEW f \in Flights, NEW l \in Lanes, NEW g \in 0..MaxGen
    PROVE  LimitsOf(f, l, g) \subseteq Limits
BY AdmissionAssumption DEF LimitsOf, Limits, Pool, LaneLimit, ServiceLimit, RouteLimit

(* drain() keeps types, counts and bounds, and leaves nobody stranded, from *)
(* any phases in which the queued permits are distinct and hold nothing.   *)
LEMMA DrainKeeps ==
    ASSUME AdmissionTypeOK, BudgetKept,
           NEW ph \in [Flights -> Phases], NEW R \in SUBSET Flights, NEW cool,
           lane' \in [Flights -> Lanes],
           born' \in [Flights -> [epoch : Nat, gen : 0..MaxGen]],
           ticket' \in [Flights -> Nat],
           \A f, g \in Queued(ph) : f # g => ticket'[f] # ticket'[g],
           \A f \in Queued(ph) : held[f] = {},
           Drain(ph, R, cool)
    PROVE  /\ phase' \in [Flights -> Phases] /\ held' \in [Flights -> SUBSET Limits]
           /\ active' \in [Limits -> Nat] /\ tokens' \in [Limits -> Nat] /\ timer' \in BOOLEAN
           /\ BudgetKept' /\ NoStrandedWaiter'
           /\ \A f \in Flights : /\ phase'[f] = ph[f] \/ (ph[f] = "queued" /\ phase'[f] = "granted")
                                 /\ held'[f] # {} =>
                                        \/ phase'[f] = "granted"
                                        \/ f \notin R /\ held[f] # {} /\ phase'[f] = ph[f]
<1> DEFINE need == [f \in Flights |-> LimitsOf(f, lane'[f], born'[f].gen)]
           act == [l \in Limits |-> active[l] - GivenBack(R, l)]
           Before(g, f) == \/ Priority[lane'[g]] < Priority[lane'[f]]
                           \/ Priority[lane'[g]] = Priority[lane'[f]] /\ ticket'[g] < ticket'[f]
<1>1. PICK A \in SUBSET Queued(ph) :
        /\ \A f \in Queued(ph) :
            f \in A <=> \A l \in need[f] : Open(l, Load(need, {g \in A : Before(g, f)}, l), act, cool)
        /\ phase' = [f \in Flights |-> IF f \in A THEN "granted" ELSE ph[f]]
        /\ held' = [f \in Flights |-> IF f \in A THEN need[f] ELSE IF f \in R THEN {} ELSE held[f]]
        /\ active' = [l \in Limits |-> act[l] + Load(need, A, l)]
        /\ tokens' = [l \in Limits |-> IF Rated(l) THEN tokens[l] - Load(need, A, l) ELSE tokens[l]]
        /\ timer' = NeedsTimer(Queued(ph) \ A, need, active')
    BY DEF Drain
<1>2. Queued(ph) \subseteq Flights /\ A \subseteq Flights /\ IsFiniteSet(A)
    BY AdmissionAssumption, FS_Subset DEF Queued
<1>3. need \in [Flights -> SUBSET Limits]
    BY NeedsExist
<1> DEFINE BR == {p \in A \X A : Before(p[1], p[2])}
<1>4. Sorts(BR, A)
    <2>1. \A f \in A : Priority[lane'[f]] \in Nat /\ ticket'[f] \in Nat
        BY <1>2, AdmissionAssumption
    <2>2. \A f, g \in A : <<f, g>> \in BR <=> Before(f, g)
        OBVIOUS
    <2>3. \A f, g \in A : f # g => ticket'[f] # ticket'[g]
        OBVIOUS
    <2>4. \A f \in A : ~Before(f, f)
        BY <2>1
    <2>5. \A f, g, h \in A : Before(f, g) /\ Before(g, h) => Before(f, h)
        BY <2>1
    <2>6. \A f, g \in A : f = g \/ Before(f, g) \/ Before(g, f)
        <3> SUFFICES ASSUME NEW f \in A, NEW g \in A, f # g PROVE Before(f, g) \/ Before(g, f)
            OBVIOUS
        <3> DEFINE pf == Priority[lane'[f]]
                   pg == Priority[lane'[g]]
                   tf == ticket'[f]
                   tg == ticket'[g]
        <3>1. pf \in Nat /\ pg \in Nat /\ tf \in Nat /\ tg \in Nat /\ tf # tg
            BY <2>1, <2>3
        <3> HIDE DEF pf, pg, tf, tg
        <3>2. pf < pg \/ pg < pf \/ (pf = pg /\ (tf < tg \/ tg < tf))
            BY <3>1
        <3> QED BY <3>2 DEF pf, pg, tf, tg
    <2> HIDE DEF BR, Before
    <2> QED BY <2>2, <2>4, <2>5, <2>6 DEF Sorts
<1>5. ASSUME NEW l \in Limits, NEW f \in A, l \in need[f]
      PROVE  /\ Open(l, Cardinality({g \in A : <<g, f>> \in BR /\ l \in need[g]}), act, cool)
    <2>1. Open(l, Load(need, {g \in A : Before(g, f)}, l), act, cool)
        BY <1>1, <1>5
    <2>2. {h \in {g \in A : Before(g, f)} : l \in need[h]} = {g \in A : <<g, f>> \in BR /\ l \in need[g]}
        OBVIOUS
    <2> QED BY <2>1, <2>2 DEF Load
<1> HIDE DEF need, act, BR
<1>6. ASSUME NEW l \in Limits
      PROVE  /\ act[l] \in Nat /\ act[l] <= MaxConcurrent[Config(l)]
             /\ act[l] + Load(need, A, l) \in Nat
             /\ act[l] + Load(need, A, l) = Cardinality({f \in Flights : l \in held'[f]})
    <2> DEFINE H == {f \in Flights : l \in held[f]}
               G == {f \in R : l \in held[f]}
               N == {f \in A : l \in need[f]}
    <2>1. IsFiniteSet(H) /\ G \subseteq H /\ IsFiniteSet(N) /\ N \cap H = {}
        BY <1>1, <1>2, AdmissionAssumption, FS_Subset
    <2>2. {f \in Flights : l \in held'[f]} = (H \ G) \cup N
        BY <1>1, <1>2
    <2>3. active[l] = Cardinality(H) /\ active[l] <= MaxConcurrent[Config(l)] /\ act[l] = active[l] - Cardinality(G)
        BY DEF BudgetKept, act, GivenBack
    <2>4. Load(need, A, l) = Cardinality(N)
        BY DEF Load
    <2> HIDE DEF H, G, N
    <2>5. /\ Cardinality((H \ G) \cup N) = Cardinality(H) - Cardinality(G) + Cardinality(N)
          /\ Cardinality(H) - Cardinality(G) \in Nat /\ Cardinality(N) \in Nat
          /\ Cardinality(H) \in Nat /\ Cardinality(G) \in Nat
        BY <2>1, CountMoves
    <2>6. MaxConcurrent[Config(l)] \in Nat
        BY AdmissionAssumption
    <2>7. act[l] \in Nat /\ act[l] <= MaxConcurrent[Config(l)]
        BY <2>3, <2>5, <2>6
    <2>8. act[l] + Cardinality(N) = Cardinality((H \ G) \cup N) /\ act[l] + Cardinality(N) \in Nat
        BY <2>3, <2>5, <2>7
    <2> QED BY <2>2, <2>4, <2>7, <2>8
<1>7. ASSUME NEW l \in Limits
      PROVE  act[l] + Load(need, A, l) <= MaxConcurrent[Config(l)]
    <2>1. RoomInTurn(A, need, BR, l, act[l], MaxConcurrent[Config(l)])
        BY <1>5 DEF Open, RoomInTurn
    <2>2. act[l] \in Nat /\ act[l] <= MaxConcurrent[Config(l)]
        BY <1>6
    <2>3. MaxConcurrent[Config(l)] \in Nat
        BY AdmissionAssumption
    <2>4. act[l] \in Int /\ MaxConcurrent[Config(l)] \in Int
        BY <2>2, <2>3
    <2>5. act[l] + Cardinality({f \in A : l \in need[f]}) <= MaxConcurrent[Config(l)]
        BY <1>2, <1>4, <2>1, <2>2, <2>4, PassFits
    <2> QED BY <2>5 DEF Load
<1>8. ASSUME NEW l \in Limits, Rated(l)
      PROVE  tokens[l] - Load(need, A, l) \in Nat
    <2>1. IsFiniteSet({f \in A : l \in need[f]})
        BY <1>2, FS_Subset
    <2>2. Load(need, A, l) \in Nat
        BY <2>1, FS_CardinalityType DEF Load
    <2>3. tokens[l] \in Nat
        BY DEF AdmissionTypeOK
    <2>4. RoomInTurn(A, need, BR, l, 0, tokens[l])
        <3> SUFFICES ASSUME NEW f \in A, l \in need[f]
                     PROVE  0 + Cardinality({g \in A : <<g, f>> \in BR /\ l \in need[g]}) < tokens[l]
            BY DEF RoomInTurn
        <3>1. IsFiniteSet({g \in A : <<g, f>> \in BR /\ l \in need[g]})
            BY <1>2, FS_Subset
        <3>2. Cardinality({g \in A : <<g, f>> \in BR /\ l \in need[g]}) \in Nat
            BY <3>1, FS_CardinalityType
        <3>3. Cardinality({g \in A : <<g, f>> \in BR /\ l \in need[g]}) < tokens[l]
            BY <1>5, <1>8, <2>3, <3>2 DEF Open
        <3> QED BY <3>2, <3>3
    <2>5. 0 + Cardinality({f \in A : l \in need[f]}) <= tokens[l]
        <3>1. 0 \in Int /\ tokens[l] \in Int /\ 0 <= tokens[l]
            BY <2>3
        <3> QED BY <1>2, <1>4, <2>4, <3>1, PassFits
    <2> QED BY <2>2, <2>3, <2>5 DEF Load
<1>9. active' \in [Limits -> Nat] /\ tokens' \in [Limits -> Nat]
    BY <1>1, <1>6, <1>8 DEF AdmissionTypeOK
<1>10. BudgetKept'
    BY <1>1, <1>6, <1>7 DEF BudgetKept
<1>11. NoStrandedWaiter' /\ timer' \in BOOLEAN
    <2>1. \A f \in Queued(phase') : f \in Queued(ph) \ A
        BY <1>1 DEF Queued
    <2>2. \A f \in Flights : Needs(f)' = need[f]
        BY DEF Needs, need
    <2>3. Queued(phase') \subseteq Flights
        BY DEF Queued
    <2> QED BY <1>1, <2>1, <2>2, <2>3 DEF NoStrandedWaiter, ConcurrencyFree, NeedsTimer
<1>12. phase' \in [Flights -> Phases] /\ held' \in [Flights -> SUBSET Limits]
    BY <1>1, <1>3 DEF AdmissionTypeOK, Phases
<1>13. \A f \in Flights : /\ phase'[f] = ph[f] \/ (ph[f] = "queued" /\ phase'[f] = "granted")
                          /\ held'[f] # {} =>
                                \/ phase'[f] = "granted"
                                \/ f \notin R /\ held[f] # {} /\ phase'[f] = ph[f]
    BY <1>1 DEF Queued
<1> QED BY <1>9, <1>10, <1>11, <1>12, <1>13

-----------------------------------------------------------------------------
(* The inductive invariant.  Permits: only an admitted flight holds limits, *)
(* and the tickets of the queue tell its members apart.                    *)
PermitsInv ==
    /\ \A f \in Flights : held[f] # {} => phase[f] \in {"granted", "running"}
    /\ \A f \in Flights : phase[f] = "queued" => ticket[f] < sequence
    /\ \A f, g \in Flights : phase[f] = "queued" /\ phase[g] = "queued" /\ f # g => ticket[f] # ticket[g]

AdmissionInv == AdmissionTypeOK /\ BudgetKept /\ NoStrandedWaiter /\ PermitsInv

(* Calls: what waits in the queue or for a retry has not been aborted (an  *)
(* abort takes it out at once, so dispose() empties the queue), and        *)
(* callers and keys refer to flights that started.                         *)
CallsInv ==
    /\ \A f \in Flights : phase[f] \in {"none", "queued", "backoff"} => aborted[f] = "no"
    /\ \A c \in Flights : call[c] = "idle" => phase[c] = "none"
    /\ \A c \in Flights : call[c] \in {"waiting", "leaving"} => via[c] \in Flights /\ phase[via[c]] # "none"
    /\ \A k \in Keys : inFlight[k] # None => phase[inFlight[k]] # "none"

CoordinatorInv == AdmissionInv /\ CallTypeOK /\ CallsInv

(* A step that drains keeps the admission invariant. *)
LEMMA DrainStep ==
    ASSUME AdmissionInv,
           NEW ph \in [Flights -> Phases], NEW R \in SUBSET Flights, NEW cool,
           lane' \in [Flights -> Lanes],
           born' \in [Flights -> [epoch : Nat, gen : 0..MaxGen]],
           ticket' \in [Flights -> Nat], sequence' \in Nat, cooling' \in SUBSET Limits,
           \A f \in Flights : ph[f] = "queued" => ticket'[f] < sequence' /\ held[f] = {},
           \A f, g \in Flights : ph[f] = "queued" /\ ph[g] = "queued" /\ f # g => ticket'[f] # ticket'[g],
           \A f \in Flights : held[f] # {} /\ f \notin R => ph[f] \in {"granted", "running"},
           Drain(ph, R, cool)
    PROVE  /\ AdmissionInv'
           /\ \A f \in Flights : phase'[f] = ph[f] \/ (ph[f] = "queued" /\ phase'[f] = "granted")
<1>1. /\ phase' \in [Flights -> Phases] /\ held' \in [Flights -> SUBSET Limits]
      /\ active' \in [Limits -> Nat] /\ tokens' \in [Limits -> Nat] /\ timer' \in BOOLEAN
      /\ BudgetKept' /\ NoStrandedWaiter'
      /\ \A f \in Flights : /\ phase'[f] = ph[f] \/ (ph[f] = "queued" /\ phase'[f] = "granted")
                            /\ held'[f] # {} =>
                                \/ phase'[f] = "granted"
                                \/ f \notin R /\ held[f] # {} /\ phase'[f] = ph[f]
    <2>1. /\ \A f, g \in Queued(ph) : f # g => ticket'[f] # ticket'[g]
          /\ \A f \in Queued(ph) : held[f] = {}
        BY DEF Queued
    <2> QED BY <2>1, DrainKeeps DEF AdmissionInv
<1>2. AdmissionTypeOK'
    BY <1>1 DEF AdmissionTypeOK
<1>3. PermitsInv'
    BY <1>1 DEF PermitsInv
<1> QED BY <1>1, <1>2, <1>3 DEF AdmissionInv

(* How the phases move in a step: the queue may be drained, and f goes on   *)
(* to one of the phases in T.                                              *)
Moves(f, T) ==
    \A g \in Flights : \/ phase'[g] = phase[g]
                       \/ phase[g] = "queued" /\ phase'[g] = "granted"
                       \/ g = f /\ phase'[g] \in T

(* A step that does not drain keeps it when it only takes flights out of   *)
(* the queue and changes what none of those in it need.                    *)
LEMMA QuietStep ==
    ASSUME AdmissionInv, UNCHANGED <<ticket, sequence, held, active, tokens, cooling>>,
           lane' \in [Flights -> Lanes], born' \in [Flights -> [epoch : Nat, gen : 0..MaxGen]],
           phase' \in [Flights -> Phases],
           \A f \in Flights : phase'[f] = "queued" =>
                phase[f] = "queued" /\ lane'[f] = lane[f] /\ born'[f] = born[f],
           \A f \in Flights : phase[f] \in {"granted", "running"} => phase'[f] \in {"granted", "running"},
           timer' \in BOOLEAN,
           timer' = timer \/ \A f \in Flights : phase'[f] # "queued"
    PROVE  AdmissionInv'
<1>1. AdmissionTypeOK'
    BY DEF AdmissionInv, AdmissionTypeOK
<1>2. BudgetKept'
    BY DEF AdmissionInv, BudgetKept
<1>3. \A f \in Flights : phase'[f] = "queued" => (ConcurrencyFree(f)' = ConcurrencyFree(f))
    BY DEF ConcurrencyFree, Needs
<1>4. NoStrandedWaiter'
    BY <1>3 DEF AdmissionInv, NoStrandedWaiter, Queued
<1>5. PermitsInv'
    BY DEF AdmissionInv, PermitsInv
<1> QED BY <1>1, <1>2, <1>4, <1>5 DEF AdmissionInv

(* Releasing the permit of an admitted flight. *)
LEMMA ReleaseStep ==
    ASSUME AdmissionInv, NEW f \in Flights, phase[f] \in {"granted", "running"},
           NEW to \in {"backoff", "settled", "done"}, NEW cool, cooling' \in SUBSET Limits,
           UNCHANGED <<lane, born, ticket, sequence>>,
           Drain([phase EXCEPT ![f] = to], {f}, cool)
    PROVE  AdmissionInv' /\ Moves(f, {to})
<1> DEFINE ph == [phase EXCEPT ![f] = to]
<1>1. ph \in [Flights -> Phases] /\ {f} \in SUBSET Flights
    BY DEF AdmissionInv, AdmissionTypeOK, Phases
<1>2. /\ lane' \in [Flights -> Lanes]
      /\ born' \in [Flights -> [epoch : Nat, gen : 0..MaxGen]]
      /\ ticket' \in [Flights -> Nat] /\ sequence' \in Nat
    BY DEF AdmissionInv, AdmissionTypeOK
<1>3. /\ \A g \in Flights : ph[g] = "queued" => ticket'[g] < sequence' /\ held[g] = {}
      /\ \A g, h \in Flights : ph[g] = "queued" /\ ph[h] = "queued" /\ g # h => ticket'[g] # ticket'[h]
      /\ \A g \in Flights : held[g] # {} /\ g \notin {f} => ph[g] \in {"granted", "running"}
    BY <1>1 DEF AdmissionInv, PermitsInv, AdmissionTypeOK
<1>4. \A g \in Flights : ph[g] = phase[g] \/ (g = f /\ ph[g] = to)
    BY DEF AdmissionInv, AdmissionTypeOK
<1> HIDE DEF ph
<1>5. /\ AdmissionInv'
      /\ \A g \in Flights : phase'[g] = ph[g] \/ (ph[g] = "queued" /\ phase'[g] = "granted")
    <2>1. Drain(ph, {f}, cool)
        BY DEF ph
    <2> QED BY <1>1, <1>2, <1>3, <2>1, DrainStep
<1>6. \A g \in Flights : \/ phase'[g] = phase[g]
                         \/ phase[g] = "queued" /\ phase'[g] = "granted"
                         \/ g = f /\ phase'[g] = to
    BY <1>4, <1>5
<1> QED BY <1>5, <1>6 DEF Moves

(* acquire() for a flight that starts or retries. *)
LEMMA AcquireStep ==
    ASSUME AdmissionInv, NEW f \in Flights, phase[f] \in {"none", "backoff"}, NEW gen,
           UNCHANGED <<lane, cooling>>,
           born' \in [Flights -> [epoch : Nat, gen : 0..MaxGen]],
           \A g \in Flights : g # f => born'[g] = born[g],
           outcome \in [Flights -> Endings],
           Acquire(f, gen)
    PROVE  /\ AdmissionInv' /\ Moves(f, {"queued", "granted", "settled", "done"})
           /\ phase'[f] # "none" /\ outcome' \in [Flights -> Endings]
<1>1. CASE QueueIsFull(f, gen)
    <2>1. /\ phase' = [phase EXCEPT ![f] = Ended(f)]
          /\ outcome' = [outcome EXCEPT ![f] = "overflow"]
          /\ UNCHANGED <<ticket, sequence, held, active, tokens, timer>>
        BY <1>1 DEF Acquire
    <2>2. Ended(f) \in {"settled", "done"}
        BY DEF Ended
    <2>3. phase' \in [Flights -> Phases]
        BY <2>1, <2>2 DEF AdmissionInv, AdmissionTypeOK, Phases
    <2>4. \A g \in Flights : g # f => phase'[g] = phase[g]
        BY <2>1 DEF AdmissionInv, AdmissionTypeOK
    <2>5. phase'[f] \in {"settled", "done"} /\ phase[f] \notin {"granted", "running"}
        BY <2>1, <2>2 DEF AdmissionInv, AdmissionTypeOK
    <2>6. lane' \in [Flights -> Lanes] /\ timer' \in BOOLEAN
        BY <2>1 DEF AdmissionInv, AdmissionTypeOK
    <2>7. AdmissionInv'
        BY <2>1, <2>3, <2>4, <2>5, <2>6, QuietStep
    <2>8. outcome' \in [Flights -> Endings]
        BY <2>1 DEF Endings
    <2>9. Moves(f, {"queued", "granted", "settled", "done"})
        BY <2>4, <2>5 DEF Moves
    <2> QED BY <2>5, <2>7, <2>8, <2>9
<1>2. CASE ~QueueIsFull(f, gen)
    <2> DEFINE ph == [phase EXCEPT ![f] = "queued"]
    <2>1. /\ ticket' = [ticket EXCEPT ![f] = sequence]
          /\ sequence' = sequence + 1
          /\ outcome' = outcome
          /\ Drain(ph, {}, cooling)
        BY <1>2 DEF Acquire
    <2>2. ph \in [Flights -> Phases] /\ {} \in SUBSET Flights
        BY DEF AdmissionInv, AdmissionTypeOK, Phases
    <2>3. /\ lane' \in [Flights -> Lanes] /\ cooling' \in SUBSET Limits
          /\ ticket' \in [Flights -> Nat] /\ sequence' \in Nat
        BY <2>1 DEF AdmissionInv, AdmissionTypeOK
    <2>4. \A g \in Flights : /\ ph[g] = "queued" => g = f \/ phase[g] = "queued"
                             /\ g # f => ph[g] = phase[g]
                             /\ ticket'[g] = IF g = f THEN sequence ELSE ticket[g]
        BY <2>1 DEF AdmissionInv, AdmissionTypeOK
    <2>5. held[f] = {}
        BY DEF AdmissionInv, PermitsInv
    <2>6. \A g \in Flights : ph[g] = "queued" => ticket'[g] < sequence' /\ held[g] = {}
        BY <2>1, <2>4, <2>5 DEF AdmissionInv, AdmissionTypeOK, PermitsInv
    <2>7. \A g, h \in Flights : ph[g] = "queued" /\ ph[h] = "queued" /\ g # h => ticket'[g] # ticket'[h]
        BY <2>4 DEF AdmissionInv, AdmissionTypeOK, PermitsInv
    <2>8. \A g \in Flights : held[g] # {} /\ g \notin {} => ph[g] \in {"granted", "running"}
        BY <2>4, <2>5 DEF AdmissionInv, PermitsInv
    <2>9. ph[f] = "queued"
        BY DEF AdmissionInv, AdmissionTypeOK
    <2> HIDE DEF ph
    <2>10. /\ AdmissionInv'
           /\ \A g \in Flights : phase'[g] = ph[g] \/ (ph[g] = "queued" /\ phase'[g] = "granted")
        BY <2>1, <2>2, <2>3, <2>6, <2>7, <2>8, DrainStep
    <2>11. \A g \in Flights : \/ phase'[g] = phase[g]
                              \/ phase[g] = "queued" /\ phase'[g] = "granted"
                              \/ g = f /\ phase'[g] \in {"queued", "granted"}
        BY <2>4, <2>9, <2>10
    <2>12. phase'[f] # "none"
        BY <2>9, <2>10
    <2> QED BY <2>1, <2>10, <2>11, <2>12 DEF Moves
<1> QED BY <1>1, <1>2

(* A drain that only lets waiters in: the timer, or a change of lane. *)
LEMMA DrainOnly ==
    ASSUME AdmissionInv, UNCHANGED <<born, ticket, sequence, cooling>>,
           lane' \in [Flights -> Lanes], Drain(phase, {}, cooling)
    PROVE  /\ AdmissionInv'
           /\ \A g \in Flights : phase'[g] = phase[g] \/ (phase[g] = "queued" /\ phase'[g] = "granted")
<1>1. /\ phase \in [Flights -> Phases] /\ {} \in SUBSET Flights
      /\ born' \in [Flights -> [epoch : Nat, gen : 0..MaxGen]]
      /\ ticket' \in [Flights -> Nat] /\ sequence' \in Nat /\ cooling' \in SUBSET Limits
    BY DEF AdmissionInv, AdmissionTypeOK
<1>2. /\ \A g \in Flights : phase[g] = "queued" => ticket'[g] < sequence' /\ held[g] = {}
      /\ \A g, h \in Flights : phase[g] = "queued" /\ phase[h] = "queued" /\ g # h => ticket'[g] # ticket'[h]
      /\ \A g \in Flights : held[g] # {} /\ g \notin {} => phase[g] \in {"granted", "running"}
    BY DEF AdmissionInv, PermitsInv
<1> QED BY <1>1, <1>2, DrainStep

(* A shared read changes lanes. *)
LEMMA ReprioritizeStep ==
    ASSUME AdmissionInv, NEW f \in Flights, NEW subscribers, Reprioritize(f, subscribers)
    PROVE  /\ AdmissionInv'
           /\ \A g \in Flights : phase'[g] = phase[g] \/ (phase[g] = "queued" /\ phase'[g] = "granted")
<1>1. LaneFor(f, subscribers) \in Lanes
    BY RequestAssumption DEF LaneFor, ReadLanes, AdmissionInv, AdmissionTypeOK
<1>2. lane' \in [Flights -> Lanes] /\ \A g \in Flights : g # f => lane'[g] = lane[g]
    BY <1>1 DEF Reprioritize, AdmissionInv, AdmissionTypeOK
<1>3. CASE lane' # lane /\ phase[f] = "queued"
    BY <1>2, <1>3, DrainOnly DEF Reprioritize
<1>4. CASE ~(lane' # lane /\ phase[f] = "queued")
    <2>1. UNCHANGED <<phase, born, ticket, sequence, held, active, tokens, cooling, timer>>
        BY <1>4 DEF Reprioritize
    <2>2. \A g \in Flights : phase[g] = "queued" => lane'[g] = lane[g]
        BY <1>2, <1>4
    <2>3. born' \in [Flights -> [epoch : Nat, gen : 0..MaxGen]] /\ phase' \in [Flights -> Phases] /\ timer' \in BOOLEAN
        BY <2>1 DEF AdmissionInv, AdmissionTypeOK
    <2>4. AdmissionInv'
        BY <1>2, <2>1, <2>2, <2>3, QuietStep
    <2> QED BY <2>1, <2>4
<1> QED BY <1>3, <1>4

-----------------------------------------------------------------------------
(* Every variable starts out right. *)
LEMMA Initially == Init => CoordinatorInv
<1> SUFFICES ASSUME Init PROVE CoordinatorInv
    OBVIOUS
<1>1. \A f \in Flights : Req[f].lane \in Lanes
    BY RequestAssumption DEF RequestType
<1>2. AdmissionTypeOK
    <2>1. phase \in [Flights -> Phases] /\ lane \in [Flights -> Lanes] /\ ticket \in [Flights -> Nat] /\ sequence \in Nat
        BY <1>1 DEF Init, Phases
    <2>2. [epoch |-> 0, gen |-> 0] \in [epoch : Nat, gen : 0..MaxGen]
        BY AdmissionAssumption
    <2>3. born \in [Flights -> [epoch : Nat, gen : 0..MaxGen]]
        BY <2>2 DEF Init
    <2>4. held \in [Flights -> SUBSET Limits] /\ cooling \in SUBSET Limits /\ timer \in BOOLEAN
        BY DEF Init
    <2>5. active \in [Limits -> Nat]
        BY DEF Init
    <2>6. tokens \in [Limits -> Nat]
        BY AdmissionAssumption DEF Init
    <2> QED BY <2>1, <2>3, <2>4, <2>5, <2>6 DEF AdmissionTypeOK
<1>3. BudgetKept
    <2>1. \A l \in Limits : {f \in Flights : l \in held[f]} = {}
        BY DEF Init
    <2>2. \A l \in Limits : 0 <= MaxConcurrent[Config(l)]
        BY AdmissionAssumption
    <2> QED BY <2>1, <2>2, FS_EmptySet DEF Init, BudgetKept
<1>4. NoStrandedWaiter /\ PermitsInv
    BY DEF Init, NoStrandedWaiter, Queued, PermitsInv
<1>5. CallTypeOK
    BY AdmissionAssumption, RequestAssumption DEF Init, CallTypeOK, Reasons, Endings
<1>6. CallsInv
    BY DEF Init, CallsInv
<1> QED BY <1>2, <1>3, <1>4, <1>5, <1>6 DEF CoordinatorInv, AdmissionInv

(* A step that leaves callers, stores and scopes alone keeps CallsInv. *)
LEMMA CallsFrame ==
    ASSUME CallsInv, CallTypeOK, NEW f \in Flights, phase[f] # "none",
           NEW T, Moves(f, T), "none" \notin T,
           UNCHANGED <<callVars, storeVars, scopeVars, aborted>>,
           aborted[f] = "no" \/ T \cap {"queued", "backoff"} = {}
    PROVE  CallsInv'
<1>1. \A g \in Flights : phase'[g] = "none" <=> phase[g] = "none"
    BY DEF CallsInv, Moves
<1>2. \A g \in Flights : phase'[g] \in {"none", "queued", "backoff"} => aborted'[g] = "no"
    BY DEF CallsInv, Moves
<1>3. /\ \A c \in Flights : call'[c] = "idle" => phase'[c] = "none"
      /\ \A c \in Flights : call'[c] \in {"waiting", "leaving"} => via'[c] \in Flights /\ phase'[via'[c]] # "none"
      /\ \A k \in Keys : inFlight'[k] # None => phase'[inFlight'[k]] # "none"
    BY <1>1 DEF CallsInv, CallTypeOK, callVars, storeVars, scopeVars
<1> QED BY <1>2, <1>3 DEF CallsInv

(* What a flight throws is one of the endings. *)
LEMMA FailureType ==
    ASSUME NEW f \in Flights, NEW r \in Reasons
    PROVE  Failure(f, r) \in Endings
BY DEF Failure, Endings

(* Settling a flight keeps the invariant. *)
LEMMA SettleStep ==
    ASSUME CoordinatorInv, NEW f \in Flights, phase[f] \in {"granted", "running"},
           NEW why \in Endings, NEW cool, cooling' \in SUBSET Limits,
           UNCHANGED <<lane, born, ticket, sequence, aborted, attempts, callVars, storeVars, scopeVars>>,
           Settle(f, why, cool)
    PROVE  CoordinatorInv'
<1>1. Ended(f) \in {"settled", "done"} /\ Ended(f) \in {"backoff", "settled", "done"}
    BY DEF Ended
<1>2. AdmissionInv' /\ Moves(f, {Ended(f)})
    BY <1>1, ReleaseStep DEF Settle, CoordinatorInv
<1>3. CallTypeOK'
    <2>1. outcome' = [outcome EXCEPT ![f] = why]
        BY DEF Settle
    <2>2. outcome' \in [Flights -> Endings]
        BY <2>1 DEF CoordinatorInv, CallTypeOK
    <2> QED BY <2>2 DEF CoordinatorInv, CallTypeOK, callVars, storeVars, scopeVars
<1>4. CallsInv'
    BY <1>1, <1>2, CallsFrame DEF CoordinatorInv
<1> QED BY <1>2, <1>3, <1>4 DEF CoordinatorInv

(* Aborting flights that started keeps the invariant of the flights. *)
LEMMA AbortStep ==
    ASSUME CoordinatorInv, NEW F \in SUBSET Flights, \A f \in F : phase[f] # "none",
           NEW reason \in Reasons, Abort(F, reason), timer' \in BOOLEAN,
           timer' = timer \/ \A f \in Flights : phase'[f] # "queued"
    PROVE  /\ AdmissionInv'
           /\ aborted' \in [Flights -> Reasons \cup {"no"}] /\ outcome' \in [Flights -> Endings]
           /\ attempts' = attempts
           /\ \A f \in Flights : phase'[f] = "none" <=> phase[f] = "none"
           /\ \A f \in Flights : phase'[f] \in {"none", "queued", "backoff"} => aborted'[f] = "no"
<1> DEFINE fresh == {f \in F : aborted[f] = "no"}
           parked == {f \in fresh : phase[f] \in {"queued", "backoff"}}
<1>1. /\ aborted' = [f \in Flights |-> IF f \in fresh THEN reason ELSE aborted[f]]
      /\ phase' = [f \in Flights |-> IF f \in parked THEN Ended(f) ELSE phase[f]]
      /\ outcome' = [f \in Flights |-> IF f \in parked THEN Failure(f, reason) ELSE outcome[f]]
      /\ UNCHANGED <<attempts, lane, born, ticket, sequence, held, active, tokens, cooling>>
    BY DEF Abort
<1>2. \A f \in Flights : Ended(f) \in {"settled", "done"}
    BY DEF Ended
<1>3. \A f \in Flights : /\ phase'[f] = phase[f] \/ (phase[f] \in {"queued", "backoff"} /\ phase'[f] \in {"settled", "done"})
                         /\ f \in parked => phase'[f] \in {"settled", "done"}
                         /\ f \notin parked => phase'[f] = phase[f]
    BY <1>1, <1>2
<1>4. phase' \in [Flights -> Phases]
    BY <1>1, <1>2 DEF CoordinatorInv, AdmissionInv, AdmissionTypeOK, Phases
<1>5. /\ lane' \in [Flights -> Lanes] /\ born' \in [Flights -> [epoch : Nat, gen : 0..MaxGen]]
      /\ \A f \in Flights : lane'[f] = lane[f] /\ born'[f] = born[f]
    BY <1>1 DEF CoordinatorInv, AdmissionInv, AdmissionTypeOK
<1>6. \A f \in Flights : /\ phase'[f] = "queued" => phase[f] = "queued"
                         /\ phase[f] \in {"granted", "running"} => phase'[f] \in {"granted", "running"}
    BY <1>3
<1>7. AdmissionInv'
    BY <1>1, <1>4, <1>5, <1>6, QuietStep DEF CoordinatorInv
<1>8. aborted' \in [Flights -> Reasons \cup {"no"}] /\ outcome' \in [Flights -> Endings]
    BY <1>1, FailureType DEF CoordinatorInv, CallTypeOK
<1>9. \A f \in Flights : phase'[f] = "none" <=> phase[f] = "none"
    BY <1>3
<1>10. \A f \in Flights : phase'[f] \in {"none", "queued", "backoff"} => aborted'[f] = "no"
    <2> SUFFICES ASSUME NEW f \in Flights, phase'[f] \in {"none", "queued", "backoff"} PROVE aborted'[f] = "no"
        OBVIOUS
    <2>1. f \notin parked /\ phase[f] \in {"none", "queued", "backoff"}
        BY <1>3
    <2>2. aborted[f] = "no"
        BY <2>1 DEF CoordinatorInv, CallsInv
    <2>3. f \notin fresh
        BY <2>1, <2>2
    <2> QED BY <1>1, <2>2, <2>3
<1> QED BY <1>1, <1>7, <1>8, <1>9, <1>10

(* A step that leaves the admission variables alone. *)
LEMMA AdmissionUnchanged ==
    ASSUME AdmissionInv, UNCHANGED admissionVars
    PROVE  AdmissionInv'
<1>1. UNCHANGED <<phase, lane, born, ticket, sequence, held, active, tokens, cooling, timer>>
    BY DEF admissionVars
<1>2. /\ lane' \in [Flights -> Lanes] /\ born' \in [Flights -> [epoch : Nat, gen : 0..MaxGen]]
      /\ phase' \in [Flights -> Phases] /\ timer' \in BOOLEAN
    BY <1>1 DEF AdmissionInv, AdmissionTypeOK
<1> QED BY <1>1, <1>2, QuietStep

(* Calls of run(). *)
LEMMA RunSteps ==
    ASSUME CoordinatorInv, NEW c \in Flights, Run(c)
    PROVE  CoordinatorInv'
<1> USE DEF CoordinatorInv
<1>1. CASE RunAborted(c)
    <2>1. AdmissionInv'
        BY <1>1, AdmissionUnchanged DEF RunAborted
    <2>2. CallTypeOK'
        BY <1>1 DEF RunAborted, Return, CallTypeOK, Endings, Reasons, storeVars, scopeVars, flightVars
    <2>3. CallsInv'
        BY <1>1 DEF RunAborted, Return, CallTypeOK, CallsInv, admissionVars, storeVars, scopeVars, flightVars
    <2> QED BY <2>1, <2>2, <2>3
<1>2. CASE RunFromCache(c)
    <2>1. AdmissionInv'
        BY <1>2, AdmissionUnchanged DEF RunFromCache
    <2>2. cache[Req[c].key] \in Flights
        BY <1>2, RequestAssumption DEF RunFromCache, CacheUsable, Keyed, CallTypeOK, RequestType
    <2>3. CallTypeOK'
        BY <1>2, <2>2 DEF RunFromCache, Return, CallTypeOK, Endings, Reasons, storeVars, scopeVars, flightVars
    <2>4. CallsInv'
        BY <1>2 DEF RunFromCache, Return, CallTypeOK, CallsInv, admissionVars, storeVars, scopeVars, flightVars
    <2> QED BY <2>1, <2>3, <2>4
<1>3. CASE RunInCooldown(c)
    <2>1. AdmissionInv'
        BY <1>3, AdmissionUnchanged DEF RunInCooldown
    <2>2. failures[Req[c].key] \in Flights
        BY <1>3, RequestAssumption DEF RunInCooldown, CoolingDown, Keyed, CallTypeOK, RequestType
    <2>3. CallTypeOK'
        BY <1>3, <2>2 DEF RunInCooldown, Return, CallTypeOK, storeVars, scopeVars, flightVars
    <2>4. CallsInv'
        BY <1>3 DEF RunInCooldown, Return, CallTypeOK, CallsInv, admissionVars, storeVars, scopeVars, flightVars
    <2> QED BY <2>1, <2>3, <2>4
<1>4. CASE RunJoins(c)
    <2> DEFINE f == inFlight[Req[c].key]
    <2>1. f \in Flights /\ phase[f] # "none"
        <3>1. Req[c].key \in Keys /\ f # None
            BY <1>4, RequestAssumption DEF RunJoins, Joinable, Keyed, RequestType
        <3> QED BY <3>1 DEF CallTypeOK, CallsInv
    <2>2. /\ AdmissionInv'
          /\ \A g \in Flights : phase'[g] = phase[g] \/ (phase[g] = "queued" /\ phase'[g] = "granted")
        BY <1>4, <2>1, ReprioritizeStep DEF RunJoins
    <2>3. CallTypeOK'
        BY <1>4, <2>1 DEF RunJoins, Await, Reprioritize, CallTypeOK, scopeVars
    <2>4. CallsInv'
        BY <1>4, <2>1, <2>2 DEF RunJoins, Await, Reprioritize, CallTypeOK, CallsInv, scopeVars
    <2> QED BY <2>2, <2>3, <2>4
<1>5. CASE RunStarts(c)
    <2> DEFINE gen == routeGen[Req[c].scope]
    <2>1. phase[c] = "none" /\ aborted[c] = "no" /\ Req[c].scope \in Scopes
        BY <1>5, AdmissionAssumption DEF RunStarts, CallsInv
    <2>2. epoch[Req[c].scope] \in Nat /\ gen \in 0..MaxGen
        BY <2>1, RequestAssumption DEF CallTypeOK
    <2>3. /\ born' \in [Flights -> [epoch : Nat, gen : 0..MaxGen]]
          /\ \A g \in Flights : g # c => born'[g] = born[g]
        BY <1>5, <2>2 DEF RunStarts, Epoch, AdmissionInv, AdmissionTypeOK
    <2>4. /\ AdmissionInv' /\ Moves(c, {"queued", "granted", "settled", "done"})
          /\ phase'[c] # "none" /\ outcome' \in [Flights -> Endings]
        BY <1>5, <2>1, <2>3, AcquireStep DEF RunStarts, CallTypeOK
    <2>5. CallTypeOK'
        <3>1. via' \in [Flights -> Flights \cup {None}] /\ call' \in [Flights -> {"idle", "waiting", "leaving", "returned"}]
            BY <1>5 DEF RunStarts, Await, CallTypeOK
        <3>2. inFlight' \in [Keys -> Flights \cup {None}] /\ observers' \in [Flights -> SUBSET Flights]
            BY <1>5 DEF RunStarts, CallTypeOK
        <3> QED BY <1>5, <2>4, <3>1, <3>2 DEF RunStarts, Await, CallTypeOK, scopeVars
    <2>6. phase'[c] # "none" /\ \A g \in Flights : g # c => (phase'[g] = "none" <=> phase[g] = "none")
        BY <2>4 DEF Moves
    <2>7. \A g \in Flights : phase'[g] \in {"none", "queued", "backoff"} => aborted'[g] = "no"
        BY <1>5, <2>1, <2>4 DEF Moves, CallsInv, RunStarts
    <2>8. CallsInv'
        BY <1>5, <2>6, <2>7 DEF CallsInv, RunStarts, Await, CallTypeOK, scopeVars
    <2> QED BY <2>4, <2>5, <2>8
<1> QED BY <1>1, <1>2, <1>3, <1>4, <1>5 DEF Run

(* The steps of execute() and of the promise chain behind it. *)
LEMMA ProgressSteps ==
    ASSUME CoordinatorInv, NEW f \in Flights, Progress(f)
    PROVE  CoordinatorInv'
<1> USE DEF CoordinatorInv
<1>0. phase \in [Flights -> Phases] /\ cooling \in SUBSET Limits /\ aborted \in [Flights -> Reasons \cup {"no"}]
    BY DEF AdmissionInv, AdmissionTypeOK, CallTypeOK
<1>1. CASE Begin(f)
    <2>1. phase' = [phase EXCEPT ![f] = "running"] /\ phase[f] = "granted"
        BY <1>1 DEF Begin
    <2>2. phase' \in [Flights -> Phases] /\ Moves(f, {"running"})
        BY <1>0, <2>1 DEF Phases, Moves
    <2>3. /\ lane' \in [Flights -> Lanes] /\ born' \in [Flights -> [epoch : Nat, gen : 0..MaxGen]]
          /\ timer' \in BOOLEAN /\ timer' = timer
          /\ \A g \in Flights : lane'[g] = lane[g] /\ born'[g] = born[g]
        BY <1>1 DEF Begin, AdmissionInv, AdmissionTypeOK
    <2>4. \A g \in Flights : /\ phase'[g] = "queued" => phase[g] = "queued"
                             /\ phase[g] \in {"granted", "running"} => phase'[g] \in {"granted", "running"}
        BY <1>0, <2>1
    <2>5. AdmissionInv'
        BY <1>1, <2>2, <2>3, <2>4, QuietStep DEF Begin
    <2>6. CallTypeOK'
        BY <1>1 DEF Begin, CallTypeOK, callVars, storeVars, scopeVars
    <2>7. CallsInv'
        BY <1>1, <2>1, <2>2, CallsFrame DEF Begin
    <2> QED BY <2>5, <2>6, <2>7
<1>2. CASE BeginTooLate(f)
    <2> DEFINE why == IF aborted[f] = "no" THEN "stale" ELSE Failure(f, aborted[f])
    <2>1. why \in Endings
        BY <1>0, FailureType DEF Endings, Reasons
    <2>2. Settle(f, why, cooling) /\ phase[f] \in {"granted", "running"} /\ cooling' \in SUBSET Limits
        BY <1>0, <1>2 DEF BeginTooLate
    <2> QED BY <1>2, <2>1, <2>2, SettleStep DEF BeginTooLate
<1>3. CASE OperationSucceeds(f)
    <2> DEFINE why == IF born[f].epoch = Epoch(f) THEN "value" ELSE "stale"
    <2>1. why \in Endings
        BY DEF Endings, Reasons
    <2>2. Settle(f, why, cooling) /\ phase[f] \in {"granted", "running"} /\ cooling' \in SUBSET Limits
        BY <1>0, <1>3 DEF OperationSucceeds
    <2> QED BY <1>3, <2>1, <2>2, SettleStep DEF OperationSucceeds
<1>4. ASSUME NEW route \in BOOLEAN, NEW service \in BOOLEAN, RetryableFailure(f, route, service)
      PROVE  CoordinatorInv'
    <2> DEFINE hot == RouteCooled(f, route)
    <2>1. hot \subseteq Limits
        <3>1. born[f].gen \in 0..MaxGen
            BY DEF AdmissionInv, AdmissionTypeOK
        <3> QED BY <3>1, AdmissionAssumption DEF RouteCooled, Limits, RouteLimit
    <2>2. CASE attempts[f] < Req[f].maxAttempts /\ aborted[f] = "no"
        <3>1. cooling' = cooling \cup hot /\ cooling' \in SUBSET Limits
            BY <1>0, <1>4, <2>1, <2>2 DEF RetryableFailure
        <3>2. /\ AdmissionInv' /\ Moves(f, {"backoff"})
            BY <1>4, <2>2, <3>1, ReleaseStep DEF RetryableFailure
        <3>3. CallTypeOK'
            BY <1>4, <2>2 DEF RetryableFailure, CallTypeOK, callVars, storeVars, scopeVars
        <3>4. CallsInv'
            BY <1>4, <2>2, <3>2, CallsFrame DEF RetryableFailure
        <3> QED BY <3>2, <3>3, <3>4
    <2>3. CASE ~(attempts[f] < Req[f].maxAttempts /\ aborted[f] = "no")
        <3>1. cooling' = cooling \cup hot \cup ServiceCooled(f, service)
            BY <1>4, <2>3 DEF RetryableFailure
        <3>2. cooling' \in SUBSET Limits
            BY <1>0, <2>1, <3>1, AdmissionAssumption DEF ServiceCooled, Limits, ServiceLimit
        <3>3. Settle(f, "failed", cooling \cup hot) /\ phase[f] \in {"granted", "running"} /\ "failed" \in Endings
            BY <1>4, <2>3 DEF RetryableFailure, Endings
        <3> QED BY <1>4, <3>2, <3>3, SettleStep DEF RetryableFailure
    <2> QED BY <2>2, <2>3
<1>5. ASSUME NEW service \in BOOLEAN, FinalFailure(f, service)
      PROVE  CoordinatorInv'
    <2> DEFINE why == IF aborted[f] = "no" THEN "failed" ELSE Failure(f, aborted[f])
    <2>1. why \in Endings
        BY <1>0, FailureType DEF Endings, Reasons
    <2>2. cooling' \in SUBSET Limits
        BY <1>0, <1>5, AdmissionAssumption DEF FinalFailure, ServiceCooled, Limits, ServiceLimit
    <2>3. Settle(f, why, cooling) /\ phase[f] \in {"granted", "running"}
        BY <1>5 DEF FinalFailure
    <2> QED BY <1>5, <2>1, <2>2, <2>3, SettleStep DEF FinalFailure
<1>6. CASE RetryDue(f)
    <2>1. /\ born' \in [Flights -> [epoch : Nat, gen : 0..MaxGen]]
          /\ \A g \in Flights : g # f => born'[g] = born[g]
        BY <1>6 DEF RetryDue, AdmissionInv, AdmissionTypeOK
    <2>2. /\ AdmissionInv' /\ Moves(f, {"queued", "granted", "settled", "done"})
          /\ outcome' \in [Flights -> Endings]
        BY <1>6, <2>1, AcquireStep DEF RetryDue, CallTypeOK
    <2>3. CallTypeOK'
        BY <1>6, <2>2 DEF RetryDue, CallTypeOK, callVars, storeVars, scopeVars
    <2>4. aborted[f] = "no" /\ phase[f] # "none"
        BY <1>6 DEF RetryDue, CallsInv
    <2>5. CallsInv'
        BY <1>6, <2>2, <2>4, CallsFrame DEF RetryDue
    <2> QED BY <2>2, <2>3, <2>5
<1>7. ASSUME NEW to \in {"published", "done"}, phase[f] \in {"settled", "published"},
             phase' = [phase EXCEPT ![f] = to],
             UNCHANGED <<lane, born, ticket, sequence, held, active, tokens, cooling, timer>>
      PROVE  AdmissionInv' /\ \A g \in Flights : phase'[g] = phase[g] \/ (g = f /\ phase'[g] = to)
    <2>1. \A g \in Flights : phase'[g] = phase[g] \/ (g = f /\ phase'[g] = to)
        BY <1>0, <1>7
    <2>2. /\ lane' \in [Flights -> Lanes] /\ born' \in [Flights -> [epoch : Nat, gen : 0..MaxGen]]
          /\ phase' \in [Flights -> Phases] /\ timer' \in BOOLEAN
          /\ \A g \in Flights : lane'[g] = lane[g] /\ born'[g] = born[g]
        BY <1>0, <1>7 DEF AdmissionInv, AdmissionTypeOK, Phases
    <2>3. \A g \in Flights : /\ phase'[g] = "queued" => phase[g] = "queued"
                             /\ phase[g] \in {"granted", "running"} => phase'[g] \in {"granted", "running"}
        BY <1>0, <1>7
    <2>4. AdmissionInv'
        BY <1>7, <2>2, <2>3, QuietStep
    <2> QED BY <2>1, <2>4
<1>8. CASE Publish(f)
    <2>1. /\ phase[f] = "settled" /\ phase' = [phase EXCEPT ![f] = "published"]
          /\ UNCHANGED <<lane, born, ticket, sequence, held, active, tokens, cooling, timer>>
        BY <1>8 DEF Publish
    <2>2. AdmissionInv' /\ \A g \in Flights : phase'[g] = phase[g] \/ (g = f /\ phase'[g] = "published")
        BY <1>7, <2>1
    <2>3. cache' \in [Keys -> Flights \cup {None}]
        BY <1>8 DEF Publish, CallTypeOK
    <2>4. failures' \in [Keys -> Flights \cup {None}]
        BY <1>8 DEF Publish, CallTypeOK
    <2>5. outcome' \in [Flights -> Endings]
        BY <1>8 DEF Publish, CallTypeOK, Endings, Reasons
    <2>6. CallTypeOK'
        BY <1>8, <2>3, <2>4, <2>5 DEF Publish, CallTypeOK, callVars, scopeVars
    <2>7. CallsInv'
        BY <1>8, <2>1, <2>2 DEF Publish, CallTypeOK, CallsInv, callVars, scopeVars
    <2> QED BY <2>2, <2>6, <2>7
<1>9. CASE Retire(f)
    <2>1. /\ phase[f] = "published" /\ phase' = [phase EXCEPT ![f] = "done"]
          /\ UNCHANGED <<lane, born, ticket, sequence, held, active, tokens, cooling, timer>>
        BY <1>9 DEF Retire
    <2>2. AdmissionInv' /\ \A g \in Flights : phase'[g] = phase[g] \/ (g = f /\ phase'[g] = "done")
        BY <1>7, <2>1
    <2>3. CallTypeOK'
        BY <1>9 DEF Retire, CallTypeOK, callVars, scopeVars, flightVars
    <2>4. \A k \in Keys : inFlight'[k] = inFlight[k] \/ inFlight'[k] = None
        BY <1>9 DEF Retire, CallTypeOK
    <2>5. CallsInv'
        BY <1>9, <2>1, <2>2, <2>4 DEF Retire, CallTypeOK, CallsInv, callVars, scopeVars, flightVars
    <2> QED BY <2>2, <2>3, <2>5
<1> QED BY <1>1, <1>2, <1>3, <1>4, <1>5, <1>6, <1>8, <1>9 DEF Progress

(* Callers that wait, leave or hang up, and deadlines. *)
LEMMA CallerSteps ==
    ASSUME CoordinatorInv, NEW c \in Flights, Continue(c) \/ HangUp(c) \/ DeadlinePasses(c)
    PROVE  CoordinatorInv'
<1> USE DEF CoordinatorInv
<1>1. CASE StreamOpens(c)
    <2>1. AdmissionInv'
        BY <1>1, AdmissionUnchanged DEF StreamOpens
    <2>2. CallTypeOK'
        BY <1>1 DEF StreamOpens, Return, CallTypeOK, Endings, storeVars, scopeVars, flightVars
    <2>3. CallsInv'
        BY <1>1 DEF StreamOpens, Return, CallTypeOK, CallsInv, admissionVars, storeVars, scopeVars, flightVars
    <2> QED BY <2>1, <2>2, <2>3
<1>2. CASE Answered(c)
    <2>1. AdmissionInv'
        BY <1>2, AdmissionUnchanged DEF Answered
    <2>2. outcome[via[c]] \in Endings
        BY <1>2 DEF Answered, CallTypeOK, CallsInv
    <2>3. CallTypeOK'
        BY <1>2, <2>2 DEF Answered, CallTypeOK, storeVars, scopeVars, flightVars
    <2>4. CallsInv'
        BY <1>2 DEF Answered, CallTypeOK, CallsInv, admissionVars, storeVars, scopeVars, flightVars
    <2> QED BY <2>1, <2>3, <2>4
<1>3. CASE Leave(c)
    <2> DEFINE f == via[c]
               others == observers[f] \ {c}
    <2>1. f \in Flights /\ phase[f] # "none"
        BY <1>3 DEF Leave, CallsInv
    <2>2. CASE Deserted(f, others)
        <3>1. /\ {f} \in SUBSET Flights /\ \A g \in {f} : phase[g] # "none"
              /\ Abort({f}, "unobserved") /\ timer' = timer /\ timer' \in BOOLEAN /\ "unobserved" \in Reasons
            BY <1>3, <2>1, <2>2 DEF Leave, AdmissionInv, AdmissionTypeOK, Reasons
        <3>2. /\ AdmissionInv'
              /\ aborted' \in [Flights -> Reasons \cup {"no"}] /\ outcome' \in [Flights -> Endings]
              /\ attempts' = attempts
              /\ \A g \in Flights : phase'[g] = "none" <=> phase[g] = "none"
              /\ \A g \in Flights : phase'[g] \in {"none", "queued", "backoff"} => aborted'[g] = "no"
            BY <3>1, AbortStep
        <3>3. CallTypeOK'
            BY <1>3, <2>1, <3>2 DEF Leave, CallTypeOK, scopeVars
        <3>4. CallsInv'
            BY <1>3, <3>2 DEF Leave, CallTypeOK, CallsInv, scopeVars
        <3> QED BY <3>2, <3>3, <3>4
    <2>3. CASE ~Deserted(f, others)
        <3>1. Reprioritize(f, others)
            BY <1>3, <2>3 DEF Leave
        <3>2. /\ AdmissionInv'
              /\ \A g \in Flights : phase'[g] = phase[g] \/ (phase[g] = "queued" /\ phase'[g] = "granted")
            BY <2>1, <3>1, ReprioritizeStep
        <3>3. CallTypeOK'
            BY <1>3, <2>1, <3>1 DEF Leave, Reprioritize, CallTypeOK, scopeVars
        <3>4. CallsInv'
            BY <1>3, <3>1, <3>2 DEF Leave, Reprioritize, CallTypeOK, CallsInv, scopeVars
        <3> QED BY <3>2, <3>3, <3>4
    <2> QED BY <2>2, <2>3
<1>4. ASSUME NEW why \in Reasons, phase[c] # "none", Abort({c}, why),
             UNCHANGED <<timer, call, via, answer, storeVars, scopeVars>>, hungUp' \in SUBSET Flights
      PROVE  CoordinatorInv'
    <2>1. /\ {c} \in SUBSET Flights /\ \A g \in {c} : phase[g] # "none"
          /\ timer' = timer /\ timer' \in BOOLEAN
        BY <1>4 DEF AdmissionInv, AdmissionTypeOK
    <2>2. /\ AdmissionInv'
          /\ aborted' \in [Flights -> Reasons \cup {"no"}] /\ outcome' \in [Flights -> Endings]
          /\ attempts' = attempts
          /\ \A g \in Flights : phase'[g] = "none" <=> phase[g] = "none"
          /\ \A g \in Flights : phase'[g] \in {"none", "queued", "backoff"} => aborted'[g] = "no"
        BY <1>4, <2>1, AbortStep
    <2>3. CallTypeOK'
        BY <1>4, <2>2 DEF CallTypeOK, storeVars, scopeVars
    <2>4. CallsInv'
        BY <1>4, <2>2 DEF CallTypeOK, CallsInv, storeVars, scopeVars
    <2> QED BY <2>2, <2>3, <2>4
<1>5. CASE HangUp(c) /\ Keyed(c)
    <2>1. AdmissionInv'
        BY <1>5, AdmissionUnchanged DEF HangUp
    <2>2. CallTypeOK'
        BY <1>5 DEF HangUp, CallTypeOK, Endings, Reasons, storeVars, scopeVars, flightVars
    <2>3. CallsInv'
        BY <1>5 DEF HangUp, CallTypeOK, CallsInv, admissionVars, storeVars, scopeVars, flightVars
    <2> QED BY <2>1, <2>2, <2>3
<1>6. CASE HangUp(c) /\ ~Keyed(c)
    <2>1. "caller" \in Reasons /\ phase[c] # "none" /\ Abort({c}, "caller")
        BY <1>6 DEF HangUp, Registered, Reasons
    <2>2. UNCHANGED <<timer, call, via, answer, storeVars, scopeVars>> /\ hungUp' \in SUBSET Flights
        BY <1>6 DEF HangUp, CallTypeOK
    <2> QED BY <1>4, <2>1, <2>2
<1>7. CASE DeadlinePasses(c)
    <2>1. "timeout" \in Reasons /\ phase[c] # "none" /\ Abort({c}, "timeout")
        BY <1>7 DEF DeadlinePasses, Registered, Reasons
    <2>2. UNCHANGED <<timer, call, via, answer, storeVars, scopeVars>> /\ hungUp' \in SUBSET Flights
        BY <1>7 DEF DeadlinePasses, CallTypeOK, callVars
    <2> QED BY <1>4, <2>1, <2>2
<1> QED BY <1>1, <1>2, <1>3, <1>5, <1>6, <1>7 DEF Continue

(* Invalidation, dispose() and the passing of entries. *)
LEMMA InvalidationSteps ==
    ASSUME CoordinatorInv,
           (\E s \in Scopes : InvalidateScope(s)) \/ (\E K \in Prefixes : InvalidateKeys(K)) \/ Dispose \/ Expire
    PROVE  CoordinatorInv'
<1> USE DEF CoordinatorInv
<1>1. ASSUME NEW K, Forget(K)
      PROVE  /\ cache' \in [Keys -> Flights \cup {None}] /\ failures' \in [Keys -> Flights \cup {None}]
             /\ inFlight' \in [Keys -> Flights \cup {None}] /\ observers' = observers
             /\ overtaken' \in SUBSET Flights
             /\ \A k \in Keys : inFlight'[k] = inFlight[k] \/ inFlight'[k] = None
    BY <1>1 DEF Forget, CallTypeOK
<1>2. Controlled \subseteq Flights /\ \A f \in Controlled : phase[f] # "none"
    BY RequestAssumption DEF Controlled, Registered, CallTypeOK, CallsInv
<1>3. ASSUME NEW s \in Scopes, InvalidateScope(s)
      PROVE  CoordinatorInv'
    <2> DEFINE F == {f \in Controlled : Req[f].scope = s}
    <2>1. F \in SUBSET Flights /\ \A f \in F : phase[f] # "none"
        BY <1>2
    <2>2. /\ Abort(F, "stale") /\ timer' = timer /\ timer' \in BOOLEAN /\ "stale" \in Reasons
        BY <1>3 DEF InvalidateScope, AdmissionInv, AdmissionTypeOK, Reasons
    <2>3. /\ AdmissionInv'
          /\ aborted' \in [Flights -> Reasons \cup {"no"}] /\ outcome' \in [Flights -> Endings]
          /\ attempts' = attempts
          /\ \A f \in Flights : phase'[f] = "none" <=> phase[f] = "none"
          /\ \A f \in Flights : phase'[f] \in {"none", "queued", "backoff"} => aborted'[f] = "no"
        BY <2>1, <2>2, AbortStep
    <2>4. /\ epoch' \in [Scopes -> 0..MaxEpoch] /\ routeGen' \in [Scopes -> 0..MaxGen]
        <3>1. /\ epoch' = [epoch EXCEPT ![s] = @ + 1] /\ routeGen' = [routeGen EXCEPT ![s] = @ + 1]
              /\ epoch[s] < MaxEpoch /\ routeGen[s] < MaxGen /\ disposals' = disposals
            BY <1>3 DEF InvalidateScope
        <3>2. /\ epoch \in [Scopes -> 0..MaxEpoch] /\ routeGen \in [Scopes -> 0..MaxGen]
              /\ disposals \in 0..MaxDisposals
            BY DEF CallTypeOK
        <3>3. epoch[s] + 1 \in 0..MaxEpoch /\ routeGen[s] + 1 \in 0..MaxGen
            BY <3>1, <3>2, RequestAssumption, AdmissionAssumption
        <3> QED BY <3>1, <3>2, <3>3
    <2>5. Forget(KeysOf(s)) /\ disposals' = disposals /\ callVars' = callVars
        BY <1>3 DEF InvalidateScope
    <2>6. CallTypeOK'
        BY <1>1, <2>3, <2>4, <2>5 DEF CallTypeOK, callVars
    <2>7. CallsInv'
        BY <1>1, <2>3, <2>4, <2>5 DEF CallTypeOK, CallsInv, callVars
    <2> QED BY <2>3, <2>6, <2>7
<1>4. ASSUME NEW K \in Prefixes, InvalidateKeys(K)
      PROVE  CoordinatorInv'
    <2>1. AdmissionInv'
        BY <1>4, AdmissionUnchanged DEF InvalidateKeys
    <2>2. CallTypeOK'
        BY <1>1, <1>4 DEF InvalidateKeys, CallTypeOK, callVars, flightVars
    <2>3. CallsInv'
        BY <1>1, <1>4 DEF InvalidateKeys, CallTypeOK, CallsInv, callVars, flightVars, admissionVars
    <2> QED BY <2>1, <2>2, <2>3
<1>5. CASE Dispose
    <2>1. /\ Abort(Controlled, "disposed") /\ timer' = FALSE /\ "disposed" \in Reasons
        BY <1>5 DEF Dispose, Reasons
    <2>2. \A f \in Flights : phase'[f] # "queued"
        <3> SUFFICES ASSUME NEW f \in Flights, phase[f] = "queued" PROVE phase'[f] # "queued"
            BY <2>1 DEF Abort, Ended
        <3>1. f \in Controlled /\ aborted[f] = "no"
            BY DEF Controlled, Registered, CallsInv
        <3> QED BY <2>1, <3>1 DEF Abort, Ended
    <2>3. /\ AdmissionInv'
          /\ aborted' \in [Flights -> Reasons \cup {"no"}] /\ outcome' \in [Flights -> Endings]
          /\ attempts' = attempts
          /\ \A f \in Flights : phase'[f] = "none" <=> phase[f] = "none"
          /\ \A f \in Flights : phase'[f] \in {"none", "queued", "backoff"} => aborted'[f] = "no"
        BY <1>2, <2>1, <2>2, AbortStep
    <2>4. /\ disposals' \in 0..MaxDisposals /\ epoch' = epoch /\ routeGen' \in [Scopes -> 0..MaxGen]
        <3>1. /\ disposals < MaxDisposals /\ disposals' = disposals + 1
              /\ \A s \in Scopes : routeGen[s] < MaxGen
              /\ routeGen' = [s \in Scopes |-> routeGen[s] + 1] /\ epoch' = epoch
            BY <1>5 DEF Dispose
        <3>2. /\ epoch \in [Scopes -> 0..MaxEpoch] /\ routeGen \in [Scopes -> 0..MaxGen]
              /\ disposals \in 0..MaxDisposals
            BY DEF CallTypeOK
        <3>3. \A s \in Scopes : routeGen[s] + 1 \in 0..MaxGen
            BY <3>1, <3>2, RequestAssumption, AdmissionAssumption
        <3> QED BY <3>1, <3>2, <3>3, RequestAssumption
    <2>5. inFlight' \in [Keys -> Flights \cup {None}] /\ \A k \in Keys : inFlight'[k] = None
        BY <1>5 DEF Dispose
    <2>6. CallTypeOK'
        BY <1>5, <2>3, <2>4, <2>5 DEF Dispose, CallTypeOK, callVars
    <2>7. CallsInv'
        BY <1>5, <2>3, <2>4, <2>5 DEF Dispose, CallTypeOK, CallsInv, callVars
    <2> QED BY <2>3, <2>6, <2>7
<1>6. CASE Expire
    <2>1. AdmissionInv'
        BY <1>6, AdmissionUnchanged DEF Expire
    <2>2. cache' \in [Keys -> Flights \cup {None}] /\ failures' \in [Keys -> Flights \cup {None}]
        BY <1>6 DEF Expire, CallTypeOK
    <2>3. CallTypeOK'
        BY <1>6, <2>2 DEF Expire, CallTypeOK, callVars, scopeVars, flightVars
    <2>4. CallsInv'
        BY <1>6 DEF Expire, CallTypeOK, CallsInv, callVars, scopeVars, flightVars, admissionVars
    <2> QED BY <2>1, <2>3, <2>4
<1> QED BY <1>3, <1>4, <1>5, <1>6

(* The clock: refill, the end of a cooldown, the drain timer. *)
LEMMA ClockSteps ==
    ASSUME CoordinatorInv, RefillStep \/ CooldownStep \/ TimerStep
    PROVE  CoordinatorInv'
<1> USE DEF CoordinatorInv
<1>1. CallTypeOK'
    BY DEF RefillStep, CooldownStep, TimerStep, Elsewhere, CallTypeOK, callVars, storeVars, scopeVars, flightVars
<1>2. ASSUME AdmissionInv',
             \A g \in Flights : phase'[g] = phase[g] \/ (phase[g] = "queued" /\ phase'[g] = "granted"),
             Elsewhere
      PROVE  CallsInv'
    BY <1>2 DEF Elsewhere, CallTypeOK, CallsInv, callVars, storeVars, scopeVars, flightVars
<1>3. ASSUME UNCHANGED <<phase, lane, born, ticket, sequence, held, active, timer>>,
             tokens' \in [Limits -> Nat], cooling' \in SUBSET Limits
      PROVE  AdmissionInv'
    <2>1. AdmissionTypeOK'
        BY <1>3 DEF AdmissionInv, AdmissionTypeOK
    <2>2. BudgetKept' /\ PermitsInv'
        BY <1>3 DEF AdmissionInv, BudgetKept, PermitsInv
    <2>3. NoStrandedWaiter'
        BY <1>3 DEF AdmissionInv, NoStrandedWaiter, ConcurrencyFree, Needs, Queued
    <2> QED BY <2>1, <2>2, <2>3 DEF AdmissionInv
<1>4. CASE RefillStep
    <2>1. tokens' \in [Limits -> Nat] /\ cooling' \in SUBSET Limits
        BY <1>4 DEF RefillStep, Refill, AdmissionInv, AdmissionTypeOK
    <2>2. AdmissionInv' /\ phase' = phase /\ Elsewhere
        BY <1>3, <1>4, <2>1 DEF RefillStep, Refill
    <2> QED BY <1>1, <1>2, <2>2
<1>5. CASE CooldownStep
    <2>1. tokens' \in [Limits -> Nat] /\ cooling' \in SUBSET Limits
        BY <1>5 DEF CooldownStep, CooldownEnds, AdmissionInv, AdmissionTypeOK
    <2>2. AdmissionInv' /\ phase' = phase /\ Elsewhere
        BY <1>3, <1>5, <2>1 DEF CooldownStep, CooldownEnds
    <2> QED BY <1>1, <1>2, <2>2
<1>6. CASE TimerStep
    <2>1. /\ UNCHANGED <<born, ticket, sequence, cooling>> /\ lane' \in [Flights -> Lanes]
          /\ Drain(phase, {}, cooling)
        BY <1>6 DEF TimerStep, TimerFires, AdmissionInv, AdmissionTypeOK
    <2>2. /\ AdmissionInv' /\ Elsewhere
          /\ \A g \in Flights : phase'[g] = phase[g] \/ (phase[g] = "queued" /\ phase'[g] = "granted")
        BY <1>6, <2>1, DrainOnly DEF TimerStep
    <2> QED BY <1>1, <1>2, <2>2
<1> QED BY <1>4, <1>5, <1>6

(* CoordinatorInv is inductive. *)
LEMMA Inductive == CoordinatorInv /\ [Next]_vars => CoordinatorInv'
<1> SUFFICES ASSUME CoordinatorInv, [Next]_vars PROVE CoordinatorInv'
    OBVIOUS
<1>1. ASSUME NEW c \in Flights, Run(c) \/ HangUp(c) \/ Continue(c) \/ Progress(c) \/ DeadlinePasses(c)
      PROVE  CoordinatorInv'
    BY <1>1, RunSteps, CallerSteps, ProgressSteps
<1>2. CASE RefillStep \/ CooldownStep \/ TimerStep
    BY <1>2, ClockSteps
<1>3. CASE (\E s \in Scopes : InvalidateScope(s)) \/ (\E K \in Prefixes : InvalidateKeys(K)) \/ Dispose \/ Expire
    BY <1>3, InvalidationSteps
<1>4. CASE UNCHANGED vars
    <2>1. UNCHANGED admissionVars
        BY <1>4 DEF vars
    <2>2. AdmissionInv'
        BY <2>1, AdmissionUnchanged DEF CoordinatorInv
    <2>3. CallTypeOK'
        BY <1>4 DEF vars, CoordinatorInv, CallTypeOK, callVars, storeVars, scopeVars, flightVars
    <2>4. CallsInv'
        BY <1>4 DEF vars, CoordinatorInv, CallsInv, admissionVars, callVars, storeVars, scopeVars, flightVars
    <2> QED BY <2>2, <2>3, <2>4 DEF CoordinatorInv
<1> QED BY <1>1, <1>2, <1>3, <1>4 DEF Next

-----------------------------------------------------------------------------
(* The inductive invariant holds throughout. *)
THEOREM CoordinatorInvariant == Spec => []CoordinatorInv
<1> QED BY Initially, Inductive, PTL DEF Spec

(* No call, whatever its profile, and no interleaving takes a variable out *)
(* of its type; no drain takes a token that is not there.                  *)
THEOREM TypesKept == Spec => []TypeOK
<1>1. CoordinatorInv => TypeOK
    BY DEF CoordinatorInv, AdmissionInv, TypeOK
<1> QED BY <1>1, CoordinatorInvariant, PTL

(* The counters of every limit equal the permits that are out under it and *)
(* never exceed its maximum, for any number of calls and any limits.       *)
THEOREM BudgetAlwaysKept == Spec => []BudgetKept
<1>1. CoordinatorInv => BudgetKept
    BY DEF CoordinatorInv, AdmissionInv
<1> QED BY <1>1, CoordinatorInvariant, PTL

(* A queued permit whose limits all have room always has the timer armed.  *)
THEOREM NobodyStranded == Spec => []NoStrandedWaiter
<1>1. CoordinatorInv => NoStrandedWaiter
    BY DEF CoordinatorInv, AdmissionInv
<1> QED BY <1>1, CoordinatorInvariant, PTL
=============================================================================
