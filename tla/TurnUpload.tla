----------------------------- MODULE TurnUpload -----------------------------
(***************************************************************************)
(* The upload outbox of DSH turns (src/dsh-remote/turn-upload-outbox.ts):  *)
(* one row per turn in SQLite, its events in a spool file, the object      *)
(* built from them, and a drain that takes each sealed row through         *)
(* prepare, PUT and commit.  Turns are opaque here: a spool or an object   *)
(* is the number of leading events it holds.                               *)
(*                                                                         *)
(* Time: next_attempt_at_millis is "now" (0), "later" (a deadline ahead),  *)
(* "due" (a deadline that passed) or "never" (MAX_SAFE_INTEGER).  The      *)
(* retry timer is the set of rows whose deadline it was armed for.         *)
(***************************************************************************)
EXTENDS Naturals, FiniteSets

CONSTANTS
    Turns,       \* turn ids
    Sessions,    \* session refs
    SessionOf,   \* the session of each turn
    MaxEvents,   \* bound: events captured of one turn
    Capacity,    \* maxPendingSpoolBytes, in events
    Faults,      \* which of FaultKinds may happen in a run
    None

FaultKinds == {"restart", "crash", "error", "expiry", "append", "handoff", "binding"}
ASSUME TurnConstants ==
    /\ IsFiniteSet(Turns)
    /\ SessionOf \in [Turns -> Sessions]
    /\ MaxEvents \in Nat /\ Capacity \in Nat
    /\ Faults \subseteq FaultKinds
    /\ Turns \cap Sessions = {} /\ None \notin Turns \cup Sessions

VARIABLES
    row,         \* dsh_turn_upload_v2, one row per turn id
    older,       \* pairs of rows, by created_at_millis
    completion,  \* dsh_history_completion_v2 with its dsh_history_scan_v2
    spool,       \* events in the spool file of a turn, 0 if there is none
    torn,        \* spool files with a line cut short
    object,      \* events in the object file of a turn, 0 if there is none
    intent,      \* turns whose upload id and signed URL the Backend still takes
    stored,      \* objects in the bucket: <<turn, events>>
    committed,   \* events of the object the Backend committed, 0 if none
    proven,      \* turns the Backend was told are the whole history of a session
    phase,       \* of the instance: "down", "active" or "closing"
    drain,       \* where performDrain waits, and for which row
    timer,       \* retryTimer
    capturing,   \* the head of captureTail: its session, or the turn it appends to
    binding,     \* bindingFlight
    pending,     \* pendingSpoolBytes
    owner        \* sessions canUploadSession admits

db == <<row, older, completion>>
disk == <<spool, torn, object>>
cloud == <<intent, stored, committed, proven>>
memory == <<phase, drain, timer, capturing, binding, pending>>
vars == <<db, disk, cloud, memory, owner>>

Uploading == {"SEALED", "PREPARED", "UPLOADED"}
Deadlines == {"now", "later", "due", "never"}
Row == [state: {"none", "OPEN", "COMMITTED"} \cup Uploading, next: Deadlines,
        tried: BOOLEAN, missing: BOOLEAN, size: 0..MaxEvents]
NoRow == [state |-> "none", next |-> "now", tried |-> FALSE, missing |-> FALSE, size |-> 0]
OpenRow == [NoRow EXCEPT !.state = "OPEN"]
Completion == [state: {"none", "PENDING", "FINALIZED"}, next: Deadlines,
               missing: BOOLEAN, through: SUBSET Turns]
NoCompletion == [state |-> "none", next |-> "now", missing |-> FALSE, through |-> {}]
At(pc, on) == [pc |-> pc, on |-> on, proof |-> {}]
Idle == At("idle", None)
Picking == At("pick", None)
NoTimer == [on |-> FALSE, for |-> {}]
Armed(for) == [on |-> TRUE, for |-> for]
Soon == Armed({})

Of(s) == {t \in Turns : SessionOf[t] = s}
Exists(t) == row[t].state # "none"
Present == {t \in Turns : Exists(t)}
Remaining(rows) == {p \in older : rows[p[1]].state # "none" /\ rows[p[2]].state # "none"}
Reset(r) == [r EXCEPT !.next = "now", !.tried = FALSE]
Elapsed(x) == [x EXCEPT !.next = IF @ = "later" THEN "due" ELSE @]
Unspool(ts) == /\ spool' = [t \in Turns |-> IF t \in ts THEN 0 ELSE spool[t]]
               /\ torn' = torn \ ts
               /\ object' = [t \in Turns |-> IF t \in ts THEN 0 ELSE object[t]]
Forgotten(ss) == [s \in Sessions |-> IF s \in ss THEN NoCompletion ELSE completion[s]]
Unpaid(rows) == Cardinality({e \in Turns \X (1..MaxEvents) :
                    rows[e[1]].state # "COMMITTED" /\ e[2] <= rows[e[1]].size})

Init ==
    /\ row = [t \in Turns |-> NoRow] /\ older = {}
    /\ completion = [s \in Sessions |-> NoCompletion]
    /\ spool = [t \in Turns |-> 0] /\ torn = {} /\ object = [t \in Turns |-> 0]
    /\ intent = {} /\ stored = {} /\ committed = [t \in Turns |-> 0]
    /\ proven = [s \in Sessions |-> {}]
    /\ phase = "down" /\ drain = Idle /\ timer = NoTimer
    /\ capturing = None /\ binding = None /\ pending = 0
    /\ owner = Sessions

(***************************************************************************)
(* scheduleDrain: the timer it sets replaces the one that was waiting.     *)
(***************************************************************************)
\* Mutant: a drain under way is trusted to see the new work.
ScheduleDrainUnlessDraining(for) ==
    timer' = IF phase = "active" /\ drain = Idle THEN Armed(for) ELSE timer
ScheduleDrain(for) == timer' = IF phase = "active" THEN Armed(for) ELSE timer

(***************************************************************************)
(* deferToCurrentOwner: every unfinished row of the session waits          *)
(* RETRY_MAX_MILLIS, the longest delay there is, so whatever else waits    *)
(* now is due by then too.                                                 *)
(***************************************************************************)
Waiting(rows, comps) ==
    {t \in Turns : rows[t].next = "later"} \cup {s \in Sessions : comps[s].next = "later"}
DeferToCurrentOwner(s) ==
    /\ row' = [t \in Turns |-> IF t \in Of(s) /\ row[t].state \notin {"none", "COMMITTED"}
                               THEN [row[t] EXCEPT !.next = "later"] ELSE row[t]]
    /\ completion' = [completion EXCEPT ![s].next =
                         IF completion[s].state = "PENDING" THEN "later" ELSE @]
    /\ ScheduleDrain(Waiting(row', completion'))
    /\ UNCHANGED older

(***************************************************************************)
(* The constructor and activate().  cleanupCommitted removes the payloads  *)
(* of committed rows and drops the receipts that expired, together with    *)
(* what was concluded from them; recoverOpenTurnsFromDisk recounts open    *)
(* turns or drops them; activate makes every row due at once.  The host    *)
(* generation is a new one each time, so no prepared row keeps its id.     *)
(* Captures and drains wait for all of it.                                 *)
(***************************************************************************)
Unproven == {s \in Sessions : completion[s].state # "PENDING"}
Unrecoverable == {t \in Turns : row[t].state = "OPEN" /\ (spool[t] = 0 \/ t \in torn)}
\* Mutant: the payload of a row whose commit is not answered yet is cleaned up too.
SettledOnceUploaded == {t \in Turns : row[t].state \in {"UPLOADED", "COMMITTED"} /\ SessionOf[t] \in Unproven}
Settled == {t \in Turns : row[t].state = "COMMITTED" /\ SessionOf[t] \in Unproven}
Recovered(r, t) ==
    CASE r.state = "OPEN" -> [r EXCEPT !.size = spool[t]]
      [] r.state = "SEALED" -> Reset(r)
      [] r.state \in {"PREPARED", "UPLOADED"} -> [r EXCEPT !.state = "SEALED", !.next = "now"]
      [] OTHER -> r
Start ==
    /\ phase = "down"
    /\ \E expired \in SUBSET {t \in Settled : row[t].state = "COMMITTED"} :
        LET dropped == expired \cup Unrecoverable
        IN  /\ row' = [t \in Turns |-> IF t \in dropped THEN NoRow ELSE Recovered(row[t], t)]
            /\ older' = Remaining(row')
            /\ completion' = [s \in Sessions |->
                  IF Of(s) \cap dropped # {} THEN NoCompletion
                  ELSE IF completion[s].state = "PENDING" THEN [completion[s] EXCEPT !.next = "now"]
                  ELSE completion[s]]
            /\ Unspool(Settled \cup Unrecoverable)
    /\ pending' = Unpaid(row')
    /\ phase' = "active" /\ timer' = Soon
    /\ UNCHANGED <<cloud, drain, capturing, binding, owner>>

(***************************************************************************)
(* capture: the entries of one call, one call at a time.  Events of a turn *)
(* are appended to its spool, then counted in its row; a new turn/start    *)
(* seals the open turn before it.  Nothing is scheduled before the end: a  *)
(* call that throws, at capacity or because appendFile fails, leaves what  *)
(* it sealed to the next one.  A call in the queue outlives close().       *)
(***************************************************************************)
CaptureBegins(s) ==
    /\ phase # "down" /\ capturing = None /\ s \in owner
    /\ capturing' = s
    /\ UNCHANGED <<db, disk, cloud, phase, drain, timer, binding, pending, owner>>
CaptureDefers(s) ==
    /\ phase # "down" /\ capturing = None /\ s \notin owner
    /\ DeferToCurrentOwner(s)
    /\ UNCHANGED <<disk, cloud, phase, drain, capturing, binding, pending, owner>>

\* At capacity the turn's row exists but nothing is written.
AppendBegins(t) ==
    /\ capturing = SessionOf[t]
    /\ row[t].state \in {"none", "OPEN"} /\ row[t].size < MaxEvents
    /\ row' = [row EXCEPT ![t] = IF Exists(t) THEN @ ELSE OpenRow]
    /\ older' = IF Exists(t) THEN older ELSE older \cup Present \X {t}
    /\ capturing' = IF pending < Capacity THEN t ELSE None
    /\ UNCHANGED <<completion, disk, cloud, phase, drain, timer, binding, pending, owner>>

\* Mutant: events captured again are added to those on disk.
AtLeastAndAgain(n, m) == n + m
AtLeast(n, m) == IF n < m THEN m ELSE n
AppendEnds(t, ended) ==
    /\ capturing = t
    /\ spool' = [spool EXCEPT ![t] = AtLeast(@, row[t].size + 1)]
    /\ row' = [row EXCEPT ![t].size = @ + 1,
                          ![t].state = IF ended THEN "SEALED" ELSE "OPEN",
                          ![t].next = IF ended THEN "now" ELSE @]
    /\ pending' = pending + 1
    /\ capturing' = SessionOf[t]
    /\ UNCHANGED <<older, completion, torn, object, cloud, phase, drain, timer, binding, owner>>

\* appendFile fails; part of a line may be left in the file.
AppendFails(t) ==
    /\ "append" \in Faults /\ capturing = t
    /\ \E cut \in SUBSET {t} : torn' = torn \cup cut
    /\ spool' = [spool EXCEPT ![t] = IF t \in torn' THEN AtLeast(@, 1) ELSE @]
    /\ capturing' = None
    /\ UNCHANGED <<db, object, cloud, phase, drain, timer, binding, pending, owner>>

SealInterrupted(t) ==
    /\ capturing = SessionOf[t] /\ row[t].state = "OPEN"
    /\ row' = [row EXCEPT ![t].state = "SEALED", ![t].next = "now"]
    /\ UNCHANGED <<older, completion, disk, cloud, memory, owner>>

CaptureEnds ==
    /\ capturing \in Sessions /\ capturing' = None
    /\ ScheduleDrain({})
    /\ UNCHANGED <<db, disk, cloud, phase, drain, binding, pending, owner>>

(***************************************************************************)
(* queueHistoryFinalization: the backfill read the journal up to a point,  *)
(* saw every turn of it sealed and now wants it finalized.                 *)
(* restoreHistoryReceipts: what the Backend committed becomes rows again.  *)
(***************************************************************************)
QueueHistoryFinalization(s) ==
    LET read == {t \in Of(s) : row[t].state \notin {"none", "OPEN"}} IN
    /\ phase = "active" /\ binding = None /\ read # {}
    /\ completion[s].state = "none" \/ completion[s].through # read
    /\ completion' = [completion EXCEPT ![s] =
          [NoCompletion EXCEPT !.state = "PENDING", !.through = read]]
    /\ ScheduleDrain({})
    /\ UNCHANGED <<row, older, disk, cloud, phase, drain, capturing, binding, pending, owner>>
RestoreHistoryReceipts(s) ==
    LET lost == {t \in Of(s) : ~Exists(t) /\ committed[t] > 0} IN
    /\ phase = "active" /\ binding = None /\ lost # {} /\ completion[s].state # "FINALIZED"
    /\ older' = older \cup Present \X lost
    /\ row' = [t \in Turns |-> IF t \in lost
                               THEN [NoRow EXCEPT !.state = "COMMITTED", !.size = committed[t]]
                               ELSE row[t]]
    /\ UNCHANGED <<completion, disk, cloud, memory, owner>>

(***************************************************************************)
(* performDrain: one row at a time, rows not tried before first, then by   *)
(* age; a finalization only when no row is ready.                          *)
(***************************************************************************)
Eligible(x) == x.next \in {"now", "due"}
Ready == {t \in Turns : row[t].state \in Uploading /\ Eligible(row[t])}
ReadyToFinalize == {s \in Sessions : completion[s].state = "PENDING" /\ Eligible(completion[s])}
Before(t, u) == \/ ~row[t].tried /\ row[u].tried
                \/ row[t].tried = row[u].tried /\ <<t, u>> \in older
NextReady == CHOOSE t \in Ready : \A u \in Ready : ~Before(u, t)
Draining == phase = "active" /\ binding = None
Advance(t) == At(CASE row[t].state = "SEALED" -> "file"
                   [] row[t].state = "PREPARED" -> "put"
                   [] row[t].state = "UPLOADED" -> "commit", t)

\* No timer fires between two rows of a drain: that part of the loop awaits nothing.
\* setTimeout: drain() joins a drain under way and returns while a binding is reconciled.
TimerFires ==
    /\ timer.on /\ drain # Picking /\ timer' = NoTimer
    /\ row' = [t \in Turns |-> IF t \in timer.for THEN Elapsed(row[t]) ELSE row[t]]
    /\ completion' = [s \in Sessions |->
                         IF s \in timer.for THEN Elapsed(completion[s]) ELSE completion[s]]
    /\ drain' = IF drain = Idle /\ binding = None THEN Picking ELSE drain
    /\ UNCHANGED <<older, disk, cloud, phase, capturing, binding, pending, owner>>

\* A deadline passes on its own; nothing is awakened by it.
DeadlinePasses(x) ==
    /\ phase = "active" /\ drain # Picking
    /\ \/ x \in Turns /\ row[x].next = "later"
          /\ row' = [row EXCEPT ![x].next = "due"] /\ UNCHANGED <<older, completion>>
       \/ x \in Sessions /\ completion[x].next = "later"
          /\ completion' = [completion EXCEPT ![x].next = "due"] /\ UNCHANGED <<row, older>>
    /\ UNCHANGED <<disk, cloud, memory, owner>>

PickTurn ==
    /\ drain = Picking /\ Draining /\ Ready # {}
    /\ LET t == NextReady IN
        IF SessionOf[t] \in owner
        THEN drain' = Advance(t) /\ UNCHANGED <<db, timer>>
        ELSE DeferToCurrentOwner(SessionOf[t]) /\ UNCHANGED drain
    /\ UNCHANGED <<disk, cloud, phase, capturing, binding, pending, owner>>
\* finalizeHistory without its proof waits retryBaseMillis and looks again.
\* Mutant: a sealed turn passes for a committed one.
ProvedBySealing(s) == \A t \in completion[s].through : row[t].state # "OPEN"
Proved(s) == \A t \in completion[s].through : row[t].state = "COMMITTED"
PickFinalization(s) ==
    /\ drain = Picking /\ Draining /\ Ready = {} /\ s \in ReadyToFinalize
    /\ CASE s \notin owner ->
                DeferToCurrentOwner(s) /\ UNCHANGED drain
         [] s \in owner /\ Proved(s) ->
                /\ drain' = [At("complete", s) EXCEPT !.proof = completion[s].through]
                /\ UNCHANGED <<db, timer>>
         [] s \in owner /\ ~Proved(s) ->
                /\ completion' = [completion EXCEPT ![s].next = "later"]
                /\ ScheduleDrain({s})
                /\ UNCHANGED <<row, older, drain>>
    /\ UNCHANGED <<disk, cloud, phase, capturing, binding, pending, owner>>
DrainEnds ==
    /\ drain = Picking
    /\ Draining => Ready \cup ReadyToFinalize = {}
    /\ drain' = Idle
    /\ UNCHANGED <<db, disk, cloud, phase, timer, capturing, binding, pending, owner>>

(***************************************************************************)
(* An attempt fails.  While closing nothing is recorded; a session handed  *)
(* over in the meantime waits for its return; a retryable failure ends the *)
(* drain and arms the timer, a final one pauses the row and goes on.       *)
(***************************************************************************)
AttemptFails(t, failed, retryable, missing) ==
    IF phase # "active"
    THEN row' = failed /\ drain' = Idle /\ UNCHANGED <<older, completion, timer>>
    ELSE IF SessionOf[t] \notin owner
    THEN /\ row' = [u \in Turns |-> IF u \in Of(SessionOf[t]) /\ failed[u].state \notin {"none", "COMMITTED"}
                                    THEN [failed[u] EXCEPT !.next = "later"] ELSE failed[u]]
         /\ completion' = [completion EXCEPT ![SessionOf[t]].next =
                              IF completion[SessionOf[t]].state = "PENDING" THEN "later" ELSE @]
         /\ ScheduleDrain(Waiting(row', completion'))
         /\ drain' = Picking /\ UNCHANGED older
    ELSE /\ row' = [failed EXCEPT ![t].tried = TRUE, ![t].missing = missing,
                                  ![t].next = IF retryable THEN "later" ELSE "never"]
         /\ IF retryable THEN drain' = Idle /\ ScheduleDrain({t})
                         ELSE drain' = Picking /\ UNCHANGED timer
         /\ UNCHANGED <<older, completion>>
\* Mutant: an intent that is gone is taken for a commit that succeeded.
UnpreparedAsDone == [row EXCEPT ![drain.on].state = "COMMITTED"]
Unprepared == [row EXCEPT ![drain.on].state = "SEALED"]

\* Any call may fail, whatever it did on the other side.
CallFails ==
    /\ "error" \in Faults /\ drain.pc \in {"prepare", "put", "commit"}
    /\ \E retryable, missing \in BOOLEAN :
          /\ missing => ~retryable /\ drain.pc = "prepare"
          /\ AttemptFails(drain.on, row, retryable, missing)
    /\ UNCHANGED <<disk, cloud, phase, capturing, binding, pending, owner>>

\* prepareObjectFile: an object that exists is taken as it is; a spool that is
\* missing or does not parse is an error like any other, hence retryable.
FilePrepared ==
    /\ drain.pc = "file"
    /\ LET t == drain.on IN
        IF spool[t] = 0 \/ t \in torn
        THEN AttemptFails(t, row, TRUE, FALSE) /\ UNCHANGED object
        ELSE /\ object' = [object EXCEPT ![t] = IF @ = 0 THEN spool[t] ELSE @]
             /\ drain' = [drain EXCEPT !.pc = "prepare"]
             /\ UNCHANGED <<db, timer>>
    /\ UNCHANGED <<spool, torn, cloud, phase, capturing, binding, pending, owner>>

\* The local end of an upload: the row is marked, then its files are removed.
Marked(t) == [row EXCEPT ![t].state = "COMMITTED", ![t].next = "now"]
\* Mutant: the capacity of a committed turn is not given back.
MarkCommittedCharged(t) ==
    row' = Marked(t) /\ Unspool({t}) /\ drain' = Picking /\ UNCHANGED pending
\* Mutant: a drain uploads one row and returns.
MarkCommittedAndReturn(t) ==
    /\ row' = Marked(t)
    /\ pending' = IF pending < row[t].size THEN 0 ELSE pending - row[t].size
    /\ Unspool({t})
    /\ drain' = Idle
MarkCommitted(t) ==
    /\ row' = Marked(t)
    /\ pending' = IF pending < row[t].size THEN 0 ELSE pending - row[t].size
    /\ Unspool({t})
    /\ drain' = Picking
PrepareAnswers ==
    LET t == drain.on IN
    /\ drain.pc = "prepare"
    /\ CASE committed[t] = object[t] ->
                MarkCommitted(t) /\ UNCHANGED <<older, completion, intent, timer>>
         [] committed[t] = 0 ->
                /\ row' = [row EXCEPT ![t].state = "PREPARED"]
                /\ intent' = intent \cup {t}
                /\ drain' = [drain EXCEPT !.pc = "put"]
                /\ UNCHANGED <<older, completion, disk, timer, pending>>
         [] OTHER ->
                AttemptFails(t, row, FALSE, FALSE) /\ UNCHANGED <<disk, intent, pending>>
    /\ UNCHANGED <<stored, committed, proven, phase, capturing, binding, owner>>

\* advance: an expired credential sends a prepared row back.
CredentialExpired ==
    /\ drain.pc = "put" /\ drain.on \notin intent
    /\ AttemptFails(drain.on, Unprepared, TRUE, FALSE)
    /\ UNCHANGED <<disk, cloud, phase, capturing, binding, pending, owner>>
\* putObject: an object that is already there (409, 412) is as good as stored.
PutAnswers ==
    /\ drain.pc = "put" /\ drain.on \in intent
    /\ stored' = stored \cup {<<drain.on, object[drain.on]>>}
    /\ \/ /\ row' = [row EXCEPT ![drain.on].state = "UPLOADED"]
          /\ drain' = [drain EXCEPT !.pc = "commit"]
          /\ UNCHANGED <<older, completion, timer>>
       \/ "error" \in Faults /\ AttemptFails(drain.on, row, TRUE, FALSE)
    /\ UNCHANGED <<disk, intent, committed, proven, phase, capturing, binding, pending, owner>>

\* commitSessionTurnUpload: an intent that is gone sends the row back.
CommitAnswers ==
    LET t == drain.on IN
    /\ drain.pc = "commit"
    /\ IF t \notin intent
       THEN AttemptFails(t, Unprepared, TRUE, FALSE) /\ UNCHANGED <<disk, committed, pending>>
       ELSE /\ committed' = [committed EXCEPT ![t] =
                                IF <<t, object[t]>> \in stored THEN object[t] ELSE @]
            /\ \/ /\ <<t, object[t]>> \in stored
                  /\ MarkCommitted(t) /\ UNCHANGED <<older, completion, timer>>
               \/ /\ "error" \in Faults \/ <<t, object[t]>> \notin stored
                  /\ AttemptFails(t, row, TRUE, FALSE) /\ UNCHANGED <<disk, pending>>
    /\ UNCHANGED <<intent, stored, proven, phase, capturing, binding, owner>>

(***************************************************************************)
(* finalizeHistory: the Backend is told which turns are the whole history; *)
(* the answer counts only for the completion it was asked for.             *)
(***************************************************************************)
Current(s) == completion[s].state = "PENDING" /\ completion[s].through = drain.proof
FinalizationDeferred(s) ==
    IF phase # "active" THEN drain' = Idle /\ UNCHANGED <<db, timer>>
    ELSE /\ drain' = Picking
         /\ IF s \notin owner THEN DeferToCurrentOwner(s)
            ELSE \E retryable, missing \in BOOLEAN :
                    /\ missing => ~retryable
                    /\ completion' = IF ~Current(s) THEN completion
                          ELSE [completion EXCEPT ![s].missing = missing,
                                   ![s].next = IF retryable THEN "later" ELSE "never"]
                    /\ IF retryable THEN ScheduleDrain({s}) ELSE UNCHANGED timer
                    /\ UNCHANGED <<row, older>>
FinalizationAnswers ==
    LET s == drain.on IN
    /\ drain.pc = "complete"
    /\ \/ /\ proven' = [proven EXCEPT ![s] = drain.proof]
          /\ completion' = [completion EXCEPT ![s] = IF Current(s)
                THEN [@ EXCEPT !.state = "FINALIZED", !.next = "now"] ELSE @]
          /\ drain' = Picking /\ UNCHANGED <<row, older, timer>>
       \/ /\ "error" \in Faults
          /\ proven' \in {proven, [proven EXCEPT ![s] = drain.proof]}
          /\ FinalizationDeferred(s)
    /\ UNCHANGED <<disk, intent, stored, committed, phase, capturing, binding, pending, owner>>

(***************************************************************************)
(* resumePublishedSessions: the catalog now knows the session, so the rows *)
(* the Backend had not found are tried again.                              *)
(***************************************************************************)
Paused(x) == x.next = "never" /\ x.missing
ResumePublished(s) ==
    LET found == {t \in Of(s) : row[t].state \in Uploading /\ Paused(row[t])}
        due == completion[s].state = "PENDING" /\ Paused(completion[s])
    IN
    /\ phase = "active" /\ s \in owner /\ (found # {} \/ due)
    /\ row' = [t \in Turns |-> IF t \in found
                               THEN [Reset(row[t]) EXCEPT !.missing = FALSE] ELSE row[t]]
    /\ completion' = IF due THEN [completion EXCEPT ![s].next = "now", ![s].missing = FALSE]
                            ELSE completion
    /\ ScheduleDrain({})
    /\ UNCHANGED <<older, disk, cloud, phase, drain, capturing, binding, pending, owner>>

(***************************************************************************)
(* reconcileSourceBindings: waits for the drain and for the captures that  *)
(* were queued, then one transaction.                                      *)
(***************************************************************************)
BindingBegins(s) ==
    /\ "binding" \in Faults /\ phase = "active" /\ binding = None
    /\ binding' = s
    /\ UNCHANGED <<db, disk, cloud, phase, drain, timer, capturing, pending, owner>>
BindingEnds ==
    /\ binding # None /\ drain = Idle /\ capturing = None
    /\ binding' = None
    /\ IF phase # "active" THEN UNCHANGED <<db, timer>>
       ELSE /\ row' = [t \in Turns |->
                  IF t \notin Of(binding) THEN row[t]
                  ELSE CASE row[t].state = "COMMITTED" -> NoRow
                         [] row[t].state \in Uploading -> [Reset(row[t]) EXCEPT !.state = "SEALED"]
                         [] OTHER -> row[t]]
            /\ older' = Remaining(row')
            /\ completion' = Forgotten({binding})
            /\ ScheduleDrain({})
    /\ UNCHANGED <<disk, cloud, phase, drain, capturing, pending, owner>>

(***************************************************************************)
(* What happens around the outbox.                                         *)
(***************************************************************************)
IntentExpires(t) ==
    /\ "expiry" \in Faults /\ t \in intent
    /\ intent' = intent \ {t}
    /\ UNCHANGED <<db, disk, stored, committed, proven, memory, owner>>
HandedOver(s) ==
    /\ "handoff" \in Faults
    /\ owner' = IF s \in owner THEN owner \ {s} ELSE owner \cup {s}
    /\ UNCHANGED <<db, disk, cloud, memory>>
Close ==
    /\ "restart" \in Faults /\ phase = "active"
    /\ phase' = "closing" /\ timer' = NoTimer
    /\ UNCHANGED <<db, disk, cloud, drain, capturing, binding, pending, owner>>
Aborted ==
    /\ phase = "closing" /\ capturing = None
    /\ drain.pc \in {"file", "prepare", "put", "commit", "complete"}
    /\ drain' = Idle
    /\ UNCHANGED <<db, disk, cloud, phase, timer, capturing, binding, pending, owner>>
Closed ==
    /\ phase = "closing" /\ drain = Idle /\ capturing = None /\ binding = None
    /\ phase' = "down"
    /\ pending' = 0
    /\ UNCHANGED <<db, disk, cloud, drain, timer, capturing, binding, owner>>
Dead ==
    /\ phase' = "down" /\ drain' = Idle /\ timer' = NoTimer
    /\ capturing' = None /\ binding' = None /\ pending' = 0
    /\ UNCHANGED owner
\* The line being appended may be on disk, cut short, or not there.
Crash ==
    /\ "crash" \in Faults /\ phase # "down" /\ Dead
    /\ IF capturing \notin Turns THEN UNCHANGED <<spool, torn>>
       ELSE \/ UNCHANGED <<spool, torn>>
            \/ /\ spool' = [spool EXCEPT ![capturing] = AtLeast(@, row[capturing].size + 1)]
               /\ \E cut \in SUBSET {capturing} : torn' = torn \cup cut
    /\ UNCHANGED <<db, object, cloud>>
\* The process dies between marking a row committed and removing its files.
CrashBeforeRemoval ==
    LET t == drain.on IN
    /\ "crash" \in Faults /\ drain.pc \in {"prepare", "commit"}
    /\ IF drain.pc = "prepare" THEN committed[t] = object[t]
       ELSE t \in intent /\ <<t, object[t]>> \in stored
    /\ committed' = [committed EXCEPT ![t] = object[t]]
    /\ row' = Marked(t)
    /\ Dead
    /\ UNCHANGED <<older, completion, disk, intent, stored, proven>>

AdvanceSteps ==
    \/ PickTurn \/ (\E s \in Sessions : PickFinalization(s)) \/ DrainEnds
    \/ FilePrepared \/ PrepareAnswers \/ CredentialExpired \/ PutAnswers \/ CommitAnswers
    \/ CallFails \/ FinalizationAnswers
CaptureSteps ==
    \/ \E t \in Turns : \/ AppendBegins(t) \/ AppendFails(t) \/ SealInterrupted(t)
                        \/ (\E ended \in BOOLEAN : AppendEnds(t, ended))
    \/ CaptureEnds
    \/ \E s \in Sessions : CaptureBegins(s) \/ CaptureDefers(s)
HostSteps ==
    \/ \E s \in Sessions : \/ QueueHistoryFinalization(s) \/ RestoreHistoryReceipts(s)
                           \/ ResumePublished(s) \/ BindingBegins(s) \/ HandedOver(s)
    \/ Start \/ BindingEnds \/ Close \/ Aborted \/ Closed
TimePasses ==
    \/ TimerFires \/ (\E x \in Turns \cup Sessions : DeadlinePasses(x))
    \/ \E t \in Turns : IntentExpires(t)
Next == AdvanceSteps \/ CaptureSteps \/ HostSteps \/ TimePasses \/ Crash \/ CrashBeforeRemoval
Spec == Init /\ [][Next]_vars

\* Timers fire, calls are answered, appends, captures and waits end, time passes.
\* A binding waits for no capture that is queued after it.
FairSpec ==
    /\ Spec
    /\ WF_vars(Start) /\ WF_vars(AdvanceSteps) /\ WF_vars(TimerFires) /\ SF_vars(BindingEnds) /\ WF_vars(Aborted \/ Closed)
    /\ \A t \in Turns : WF_vars(\E ended \in BOOLEAN : AppendEnds(t, ended))
    /\ WF_vars(CaptureEnds)
    /\ \A x \in Turns \cup Sessions : SF_vars(DeadlinePasses(x))

(***************************************************************************)
(* Properties                                                              *)
(***************************************************************************)
TypeOK ==
    /\ row \in [Turns -> Row] /\ completion \in [Sessions -> Completion]
    /\ older \in SUBSET (Turns \X Turns)
    /\ spool \in [Turns -> 0..MaxEvents] /\ torn \subseteq Turns /\ object \in [Turns -> 0..MaxEvents]
    /\ intent \subseteq Turns /\ stored \subseteq Turns \X (1..MaxEvents)
    /\ committed \in [Turns -> 0..MaxEvents] /\ proven \in [Sessions -> SUBSET Turns]
    /\ phase \in {"down", "active", "closing"}
    /\ timer \in [on : BOOLEAN, for : SUBSET (Turns \cup Sessions)]
    /\ drain \in [pc : {"idle", "pick", "file", "prepare", "put", "commit", "complete"},
                  on : Turns \cup Sessions \cup {None}, proof : SUBSET Turns]
    /\ capturing \in Turns \cup Sessions \cup {None} /\ binding \in Sessions \cup {None}
    /\ pending \in Nat /\ owner \subseteq Sessions

\* The events of a turn leave the disk only when the Backend has committed all
\* of them, or when the turn was still open and its spool does not parse: the
\* journal replays such a turn.
PayloadSafe ==
    [][\A t \in Turns : spool[t] > 0 /\ spool'[t] = 0 =>
          \/ committed'[t] >= spool[t]
          \/ row[t].state = "OPEN" /\ t \in torn]_vars

\* A row says COMMITTED only of an object the Backend committed.
ReceiptsTrue ==
    \A t \in Turns : row[t].state = "COMMITTED" => committed[t] > 0 /\ committed[t] >= row[t].size

\* The object that is uploaded holds the events of the sealed spool, no fewer.
\* The code does not keep this after a crash followed by a binding: see README.
ObjectMatchesSpool ==
    drain.pc \in {"prepare", "put", "commit"} => object[drain.on] = spool[drain.on]

\* The capacity of the outbox is charged with exactly what is not yet committed.
PendingExact == phase # "down" => pending = Unpaid(row)

\* The Backend is never told that a session is complete while a turn of that
\* history is not committed, and a scan counts as finalized only with its receipts.
HistoryProven ==
    \A s \in Sessions :
        /\ \A t \in proven[s] : committed[t] > 0
        /\ completion[s].state = "FINALIZED" =>
              /\ completion[s].through \subseteq proven[s]
              /\ \A t \in completion[s].through : row[t].state = "COMMITTED"

\* Work falls asleep only when a capture throws: no other step leaves a turn or a
\* finalization that is due at once to no drain, timer, capture or binding that
\* will look at it.
Asleep ==
    /\ phase = "active" /\ drain = Idle /\ ~timer.on /\ binding = None /\ capturing = None
    /\ \/ \E t \in Turns : row[t].state \in Uploading /\ row[t].next = "now"
       \/ \E s \in Sessions : completion[s].state = "PENDING" /\ completion[s].next = "now"
CaptureThrows == \E t \in Turns : AppendFails(t) \/ (AppendBegins(t) /\ capturing' = None)
NewWorkWakes == [][Asleep' => Asleep \/ CaptureThrows]_vars

\* With answers that come, every sealed turn whose spool can be read is uploaded,
\* whatever is captured or queued while a drain runs, as long as the outbox is not
\* full: the capture that meets its capacity throws.  A turn that fails for ever
\* does not hold the others up.
Full == pending >= Capacity
Readable(t) == spool[t] > 0 /\ t \notin torn
EverySealedUploads ==
    \A t \in Turns : row[t].state = "SEALED" /\ Readable(t) ~> row[t].state = "COMMITTED" \/ Full
\* A finalization that was queued is answered or replaced by a longer one, unless
\* a sealed turn fails for ever: such a turn ends every drain before the
\* finalizations are looked at.
Poisoned == \E t \in Turns : row[t].state \in Uploading /\ ~Readable(t)
HistoryFinalizes ==
    \A s \in Sessions : \A read \in SUBSET Of(s) :
        completion[s].state = "PENDING" /\ completion[s].through = read
            ~> completion[s].state = "FINALIZED" \/ completion[s].through # read \/ Poisoned
\* The turns of a session that was handed over are uploaded after it returns.
TransferredResumes ==
    \A t \in Turns :
        <>[](SessionOf[t] \in owner) =>
            (row[t].state = "SEALED" ~> row[t].state = "COMMITTED")

=============================================================================
