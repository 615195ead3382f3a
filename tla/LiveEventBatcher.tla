--------------------------- MODULE LiveEventBatcher ---------------------------
(***************************************************************************)
(* Live delivery of session events (src/dsh-remote/live-event-batcher.ts): *)
(* events are buffered per session and published in batches, one flight    *)
(* per session and MaxFlights in all.  Once the buffer is full a session   *)
(* keeps only its high-water mark and reads the rest back from the         *)
(* canonical history, whose events are numbered 1, 2, ... here.            *)
(*                                                                         *)
(* Time: readyAt, retryAt and timerDueAt are the ticks left until then.    *)
(***************************************************************************)
EXTENDS Naturals, Sequences, FiniteSets, FiniteSetsExt, SequencesExt

CONSTANTS
    Sessions,
    MaxSeq,        \* bound: events of each session
    MaxFlights,    \* 2 in the code
    MaxPending,    \* MAX_PENDING_SESSIONS
    MaxBuffered,   \* maxBufferEntries
    BatchItems,    \* LIVE_BATCH_ITEMS
    ReadyDelay,    \* ticks in 40 ms
    RetryDelay,    \* ticks in 2 s
    Early,         \* ticks a timer may fire before it is due
    Off            \* no timer, no flush()

ASSUME BatcherConstants ==
    /\ MaxSeq \in [Sessions -> Nat]
    /\ {MaxPending, MaxBuffered, ReadyDelay, Early} \subseteq Nat
    /\ {MaxFlights, BatchItems, RetryDelay} \subseteq Nat \ {0}
    /\ Off \notin Nat

VARIABLES
    head,        \* the last event of a session's canonical history
    offered,     \* the events of a session enqueue() took
    repeated,    \* the events of a session enqueue() was given twice
    order,       \* the sessions map: its keys in insertion order
    pending,     \* the sessions map: its values
    buffered,    \* bufferedEntries
    flight,      \* what consume() waits for, for each session in publishing
    timer,       \* ticks until the timer is due, or Off
    awaited,     \* flights flush() waits for; its loop is over when Off
    closed,
    delivered,   \* the events of a session that were published, in order
    withheld,    \* the events of a session an answer of the history left out
    dozing       \* the timer went off when nothing was due, or flush() took it
                 \* away, and nothing has armed it since

host == <<head, offered, repeated>>
queue == <<order, pending, buffered>>
output == <<delivered, withheld>>
vars == <<host, queue, flight, timer, awaited, closed, output, dozing>>

NotPending == [cursor |-> 0, through |-> 0, entries |-> <<>>, replay |-> FALSE,
               readyAt |-> 0, retryAt |-> 0]
NoFlight == [step |-> "none", source |-> <<>>, upper |-> 0, replayed |-> FALSE]

Later(a, b) == IF a >= b THEN a ELSE b
DueIn(p) == Later(p.readyAt, p.retryAt)
Flights(f) == {s \in Sessions : f[s] # NoFlight}
InMap(s) == s \in Range(order)

Init ==
    /\ head = [s \in Sessions |-> 0]
    /\ offered = [s \in Sessions |-> {}] /\ repeated = offered
    /\ order = <<>> /\ pending = [s \in Sessions |-> NotPending] /\ buffered = 0
    /\ flight = [s \in Sessions |-> NoFlight]
    /\ timer = Off /\ awaited = Off /\ closed = FALSE
    /\ delivered = [s \in Sessions |-> <<>>] /\ withheld = [s \in Sessions |-> {}]
    /\ dozing = FALSE

\* schedule(): what becomes of the timer, from the map and the flights it finds.
Waiting(o, f) == Range(o) \ Flights(f)
Scheduled(t, o, p, f) ==
    IF closed \/ Cardinality(Flights(f)) >= MaxFlights \/ Waiting(o, f) = {} THEN t
    ELSE LET due == Min({DueIn(p[s]) : s \in Waiting(o, f)})
         IN IF t # Off /\ t <= due THEN t ELSE due

-----------------------------------------------------------------------------
(* enqueue() *)

\* Mutant: events are buffered again once there is room, behind omitted ones.
FitsAgain(p) == buffered < MaxBuffered
Fits(p) == ~p.replay /\ buffered < MaxBuffered
\* Mutant: an event is kept although there is no room for it.
BufferedPastLimit(p, n) ==
    IF ~p.replay THEN [p EXCEPT !.through = n, !.entries = Append(@, n)] ELSE [p EXCEPT !.through = n]
Buffered(p, n) == IF Fits(p) THEN [p EXCEPT !.through = n, !.entries = Append(@, n)]
                  ELSE [p EXCEPT !.through = n, !.replay = TRUE]
Woken(p, chunk) == IF ~chunk \/ Len(p.entries) >= BatchItems THEN [p EXCEPT !.readyAt = 0] ELSE p
Fresh(n) == [NotPending EXCEPT !.cursor = n - 1, !.through = n - 1, !.readyAt = ReadyDelay]

Enqueue(s, n, chunk) ==
    /\ ~closed
    /\ LET known == IF InMap(s) THEN pending[s] ELSE Fresh(n) IN
       IF (~InMap(s) /\ Len(order) >= MaxPending) \/ n <= known.through
       THEN UNCHANGED <<offered, queue, timer, dozing>>
       ELSE /\ offered' = [offered EXCEPT ![s] = @ \cup {n}]
            /\ order' = IF InMap(s) THEN order ELSE Append(order, s)
            /\ pending' = [pending EXCEPT ![s] = Woken(Buffered(known, n), chunk)]
            /\ buffered' = buffered + (IF Fits(known) THEN 1 ELSE 0)
            /\ timer' = Scheduled(timer, order', pending', flight)
            /\ dozing' = (dozing /\ timer' = Off)
    /\ UNCHANGED <<flight, awaited, closed, output>>

\* The session's history grows, and its mux subscription delivers the event.
EventArrives(s, chunk) ==
    /\ head[s] < MaxSeq[s]
    /\ head' = [head EXCEPT ![s] = @ + 1]
    /\ Enqueue(s, head'[s], chunk)
    /\ UNCHANGED repeated
\* The subscription repeats the last event; bound: once.
EventRepeats(s, chunk) ==
    /\ head[s] \in offered[s] \ repeated[s]
    /\ repeated' = [repeated EXCEPT ![s] = @ \cup {head[s]}]
    /\ Enqueue(s, head[s], chunk)
    /\ UNCHANGED head
\* The subscription is down: the event is only in the history.
EventMissed(s) ==
    /\ head[s] < MaxSeq[s]
    /\ head' = [head EXCEPT ![s] = @ + 1]
    /\ UNCHANGED <<offered, repeated, queue, flight, timer, awaited, closed, output, dozing>>

-----------------------------------------------------------------------------
(* drain(): start consume() for due sessions, oldest first, while there is room *)

Consume(p) ==
    IF p.entries = <<>> /\ p.replay
    THEN [step |-> "replay", source |-> <<>>, replayed |-> TRUE,
          upper |-> Min({p.through, p.cursor + BatchItems})]
    ELSE [step |-> "publish", source |-> p.entries, upper |-> p.through, replayed |-> FALSE]
Drained(p) ==
    LET due == {i \in DOMAIN order : flight[order[i]] = NoFlight /\ DueIn(p[order[i]]) = 0}
        busy == Cardinality(Flights(flight))
        begun == {order[i] : i \in {j \in due :
                                     busy + Cardinality({k \in due : k < j}) < MaxFlights}}
    IN [s \in Sessions |-> IF s \in begun THEN Consume(p[s]) ELSE flight[s]]

TimerFires ==
    /\ ~closed /\ timer # Off /\ timer <= Early
    /\ timer' = Off
    /\ flight' = Drained(pending)
    /\ dozing' = (flight' = flight)
    /\ UNCHANGED <<host, queue, awaited, closed, output>>

Left(n) == IF n = 0 THEN 0 ELSE n - 1
Tick ==
    /\ timer' = IF timer = Off THEN Off ELSE Left(timer)
    /\ pending' = [s \in Sessions |->
           [pending[s] EXCEPT !.readyAt = Left(@), !.retryAt = Left(@)]]
    /\ <<timer, pending>>' # <<timer, pending>>
    /\ UNCHANGED <<host, order, buffered, flight, awaited, closed, output, dozing>>

-----------------------------------------------------------------------------
(* consume() goes on, and its finally block *)

\* Mutant: the flight that ends does not look for the next one.
EndsQuietly(s) ==
    /\ flight' = [flight EXCEPT ![s] = NoFlight]
    /\ awaited' = IF awaited = Off THEN Off ELSE awaited \ {s}
    /\ UNCHANGED <<timer, host, closed, dozing>>
Ends(s) ==
    /\ flight' = [flight EXCEPT ![s] = NoFlight]
    /\ awaited' = IF awaited = Off THEN Off ELSE awaited \ {s}
    /\ timer' = Scheduled(timer, order', pending', flight')
    /\ dozing' = (dozing /\ timer' = Off)
    /\ UNCHANGED <<host, closed>>

\* The catch block: the session keeps its place and backs off.
Fails(s) ==
    /\ flight[s] # NoFlight
    /\ pending' = IF closed THEN pending ELSE [pending EXCEPT ![s].retryAt = RetryDelay]
    /\ UNCHANGED <<order, buffered, output>>
    /\ Ends(s)

\* What stays pending after n events of the flight were published.
Advanced(p, f, n) ==
    LET through == IF f.replayed /\ n = Len(f.source) THEN f.upper ELSE f.source[n]
    IN [p EXCEPT !.entries = IF f.replayed THEN @ ELSE SubSeq(@, n + 1, Len(@)),
                 !.cursor = through, !.retryAt = 0]

\* Mutant: what was omitted from the buffer does not count as pending.
MoreBuffered(p) == p.entries # <<>>
More(p) == p.cursor < p.through

\* The session leaves its place in the map, for the last one if more is pending.
Moves(s, f, n) ==
    LET p == Advanced(pending[s], f, n) IN
    /\ order' = LET rest == RemoveAt(order, CHOOSE i \in DOMAIN order : order[i] = s)
                IN IF More(p) THEN Append(rest, s) ELSE rest
    /\ pending' = [pending EXCEPT ![s] = IF More(p) THEN [p EXCEPT !.readyAt = 0] ELSE NotPending]
    /\ buffered' = buffered - (IF f.replayed THEN 0 ELSE n)

\* Mutant: a page may hold what was read before.
ValidFromStart(page, cursor, upper) ==
    /\ cursor < page.throughSeq /\ page.throughSeq <= upper
    /\ \A i \in DOMAIN page.entries : page.entries[i] <= page.throughSeq
\* A page of the history need not hold every event of its range: a session that
\* is not owned is answered with none.
Valid(page, cursor, upper) ==
    /\ cursor < page.throughSeq /\ page.throughSeq <= upper
    /\ \A i \in DOMAIN page.entries :
           cursor < page.entries[i] /\ page.entries[i] <= page.throughSeq
    /\ \A i, j \in DOMAIN page.entries : i < j => page.entries[i] < page.entries[j]
Pages(s) == [throughSeq : 1..MaxSeq[s],
             entries : UNION {[1..n -> 1..MaxSeq[s]] : n \in 0..BatchItems}]
Replay(s, page) == [flight[s] EXCEPT !.step = "publish", !.upper = page.throughSeq,
                                     !.source = page.entries]
Answered(s, page) ==
    /\ flight[s].step = "replay" /\ ~closed
    /\ Valid(page, pending[s].cursor, flight[s].upper)
    /\ withheld' = [withheld EXCEPT ![s] =
           @ \cup ((pending[s].cursor + 1)..page.throughSeq \ Range(page.entries))]
    /\ UNCHANGED delivered
ReplayAnswers(s, page) ==
    /\ Answered(s, page) /\ page.entries # <<>>
    /\ flight' = [flight EXCEPT ![s] = Replay(s, page)]
    /\ UNCHANGED <<host, queue, timer, awaited, closed, dozing>>
\* A page with no event is passed over at once.
ReplayPasses(s, page) ==
    /\ Answered(s, page) /\ page.entries = <<>>
    /\ Moves(s, Replay(s, page), 0)
    /\ Ends(s)
ReplayAfterClose(s) ==
    /\ flight[s].step = "replay" /\ closed
    /\ UNCHANGED <<queue, output>>
    /\ Ends(s)

\* The batch is the longest prefix within the limits of items and bytes.
Published(s, n) ==
    /\ flight[s].step = "publish"
    /\ n \in 1..Min({BatchItems, Len(flight[s].source)})
    /\ delivered' = [delivered EXCEPT ![s] = @ \o SubSeq(flight[s].source, 1, n)]
    /\ IF closed THEN UNCHANGED queue ELSE Moves(s, flight[s], n)
    /\ Ends(s)
    /\ UNCHANGED withheld

-----------------------------------------------------------------------------
(* flush() and close() *)

FlushLoop(p) == /\ flight' = Drained(p)
                /\ awaited' = Flights(flight')
Flush ==
    /\ ~closed /\ awaited = Off
    /\ pending' = [s \in Sessions |-> [pending[s] EXCEPT !.readyAt = 0]]
    /\ timer' = Off /\ dozing' = TRUE
    /\ FlushLoop(pending')
    /\ UNCHANGED <<host, order, buffered, closed, output>>
FlushGoesOn ==
    /\ awaited = {}
    /\ IF /\ ~closed
          /\ \/ Flights(flight) # {}
             \/ \E s \in Range(order) : DueIn(pending[s]) = 0
       THEN FlushLoop(pending)
       ELSE awaited' = Off /\ UNCHANGED flight
    /\ UNCHANGED <<host, queue, timer, closed, output, dozing>>

Close ==
    /\ ~closed
    /\ closed' = TRUE
    /\ timer' = Off
    /\ order' = <<>> /\ pending' = [s \in Sessions |-> NotPending] /\ buffered' = 0
    /\ UNCHANGED <<host, flight, awaited, output, dozing>>

-----------------------------------------------------------------------------
ConsumeSteps(s) ==
    \/ Fails(s)
    \/ \E page \in Pages(s) : ReplayAnswers(s, page) \/ ReplayPasses(s, page)
    \/ ReplayAfterClose(s)
    \/ \E n \in 1..BatchItems : Published(s, n)
EventSteps(s) ==
    \/ \E chunk \in BOOLEAN : EventArrives(s, chunk)
    \/ \E chunk \in BOOLEAN : EventRepeats(s, chunk)
    \/ EventMissed(s)
Next ==
    \/ \E s \in Sessions : EventSteps(s) \/ ConsumeSteps(s)
    \/ TimerFires \/ Tick \/ Flush \/ FlushGoesOn \/ Close

Spec == Init /\ [][Next]_vars

\* Timers fire, time passes, and a session whose batch is tried again and again
\* is published or passed over in the end.
Reads(s) == \E page \in Pages(s) : ReplayAnswers(s, page) \/ ReplayPasses(s, page)
Publishes(s) == \E n \in 1..BatchItems : Published(s, n)
Fairness == /\ WF_vars(TimerFires) /\ WF_vars(Tick) /\ WF_vars(FlushGoesOn)
            /\ \A s \in Sessions : /\ WF_vars(ConsumeSteps(s))
                                   /\ SF_vars(Reads(s)) /\ SF_vars(Publishes(s))
FairSpec == Spec /\ Fairness

-----------------------------------------------------------------------------
(* Properties *)

Positions(s) == 1..Len(delivered[s])

\* What enqueue() took and no answer of the history left out.
Owed(s) == offered[s] \ withheld[s]

\* bufferedEntries counts what is in the buffers, whatever closes or fails
\* while a batch is out, and stays within the limit.
BufferExact ==
    /\ buffered = Cardinality(UNION {{s} \X DOMAIN pending[s].entries : s \in Sessions})
    /\ buffered <= MaxBuffered

\* An event is published only after every earlier event that is owed of its
\* session, also when some were buffered and others read back from the history.
InOrder ==
    \A s \in Sessions : \A i \in Positions(s) : \A n \in Owed(s) :
        n < delivered[s][i] => \E j \in 1..(i - 1) : delivered[s][j] = n

\* No event is captured twice, so that a replayed turn/start cannot seal a newer
\* turn, unless the subscription itself repeated it.
OnceEach ==
    \A s \in Sessions : \A i, j \in Positions(s) :
        i # j /\ delivered[s][i] = delivered[s][j] => delivered[s][i] \in repeated[s]

\* What is owed is published or still between cursor and through.
NothingForgotten ==
    ~closed => \A s \in Sessions : \A n \in Owed(s) :
        \/ n \in Range(delivered[s])
        \/ InMap(s) /\ pending[s].cursor < n /\ n <= pending[s].through

\* What is owed is published, whatever fails on the way, until the batcher is
\* closed, unless it was left without a timer by one that found nothing due or
\* by flush(): the next event or the next flight to end wakes it up again.
EverythingDelivered ==
    \A s \in Sessions : []<>(Owed(s) \subseteq Range(delivered[s]) \/ closed \/ dozing)

\* A session whose batch could not be prepared is taken up again, as the
\* documentation of live delivery says; the code does not keep this: its timer
\* may fire before retryAt, and drain() arms no other.
FailureRetried ==
    \A s \in Sessions :
        pending[s].retryAt > 0 ~> flight[s] # NoFlight \/ awaited # Off \/ closed
=============================================================================
