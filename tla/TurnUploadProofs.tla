-------------------------- MODULE TurnUploadProofs --------------------------
(***************************************************************************)
(* Proofs about the outbox of DSH turns, for every set of turns and        *)
(* sessions and every combination of faults: what the Backend is told is a *)
(* session's history was committed, no work is left asleep, the capacity   *)
(* is charged exactly; and, as long as what is uploaded is the spool, a    *)
(* receipt stands for a commit and the events of a turn leave the disk     *)
(* only when the Backend has them.                                         *)
(***************************************************************************)
EXTENDS TurnUpload, FiniteFacts

\* TypeOK without the count of events and the order of rows; no timer waits unless active.
Types ==
    /\ row \in [Turns -> Row] /\ completion \in [Sessions -> Completion]
    /\ spool \in [Turns -> 0..MaxEvents] /\ torn \subseteq Turns /\ object \in [Turns -> 0..MaxEvents]
    /\ intent \subseteq Turns /\ stored \subseteq Turns \X (1..MaxEvents)
    /\ committed \in [Turns -> 0..MaxEvents] /\ proven \in [Sessions -> SUBSET Turns]
    /\ phase \in {"down", "active", "closing"}
    /\ timer \in [on : BOOLEAN, for : SUBSET (Turns \cup Sessions)]
    /\ drain \in [pc : {"idle", "pick", "file", "prepare", "put", "commit", "complete"},
                  on : Turns \cup Sessions \cup {None}, proof : SUBSET Turns]
    /\ capturing \in Turns \cup Sessions \cup {None} /\ binding \in Sessions \cup {None}
    /\ owner \subseteq Sessions
    /\ phase # "active" => ~timer.on

OpenInv == capturing \in Turns =>
    phase # "down" /\ row[capturing].state = "OPEN" /\ row[capturing].size < MaxEvents
DownInv == phase = "down" => drain = Idle /\ capturing = None /\ binding = None

-----------------------------------------------------------------------------
(* Rows: every edit the outbox makes of one is a row again. *)
LEMMA RowEdits ==
    ASSUME NEW r \in Row
    PROVE  /\ NoRow \in Row /\ OpenRow \in Row
           /\ Reset(r) \in Row /\ Elapsed(r) \in Row
           /\ \A d \in Deadlines : [r EXCEPT !.next = d] \in Row
           /\ \A x \in {"OPEN", "COMMITTED"} \cup Uploading, d \in Deadlines :
                  [r EXCEPT !.state = x, !.next = d] \in Row /\ [r EXCEPT !.state = x] \in Row
           /\ \A b \in BOOLEAN, d \in Deadlines : [r EXCEPT !.tried = TRUE, !.missing = b, !.next = d] \in Row
           /\ \A n \in 0..MaxEvents : [r EXCEPT !.size = n] \in Row
           /\ [Reset(r) EXCEPT !.missing = FALSE] \in Row
           /\ [Reset(r) EXCEPT !.state = "SEALED"] \in Row
<1>1. 0 \in 0..MaxEvents
    BY TurnConstants
<1> QED BY Zenon, <1>1 DEF Row, NoRow, OpenRow, Reset, Elapsed, Deadlines, Uploading

LEMMA CompletionEdits ==
    ASSUME NEW c \in Completion
    PROVE  /\ NoCompletion \in Completion
           /\ Elapsed(c) \in Completion
           /\ \A d \in Deadlines : [c EXCEPT !.next = d] \in Completion
           /\ \A d \in Deadlines, b \in BOOLEAN :
                  [c EXCEPT !.missing = b, !.next = d] \in Completion /\ [c EXCEPT !.next = d, !.missing = b] \in Completion
           /\ \A T \in SUBSET Turns : [NoCompletion EXCEPT !.state = "PENDING", !.through = T] \in Completion
           /\ [c EXCEPT !.state = "FINALIZED", !.next = "now"] \in Completion
BY Zenon DEF Completion, NoCompletion, Elapsed, Deadlines

LEMMA TurnsAndSessions ==
    ASSUME NEW t \in Turns
    PROVE  SessionOf[t] \in Sessions
BY TurnConstants

\* Rows keep their state and their events; completions what they stand for.
Rests == row' \in [Turns -> Row] /\ \A t \in Turns : row'[t].state = row[t].state /\ row'[t].size = row[t].size
Holds == /\ completion' \in [Sessions -> Completion]
         /\ \A s \in Sessions : /\ completion'[s].state = completion[s].state
                                /\ completion'[s].through = completion[s].through
TimerType == /\ timer' \in [on : BOOLEAN, for : SUBSET (Turns \cup Sessions)]
             /\ phase # "active" => ~timer'.on
Roused == phase = "active" => timer'.on

LEMMA WaitingType ==
    ASSUME NEW rows, NEW comps
    PROVE  Waiting(rows, comps) \subseteq Turns \cup Sessions
BY DEF Waiting

LEMMA ScheduleFacts ==
    ASSUME Types, NEW for \in SUBSET (Turns \cup Sessions), ScheduleDrain(for)
    PROVE  TimerType /\ Roused
BY DEF Types, ScheduleDrain, Armed, TimerType, Roused

(* deferToCurrentOwner changes deadlines. *)
LEMMA DeferFacts ==
    ASSUME Types, NEW s \in Sessions, DeferToCurrentOwner(s)
    PROVE  Rests /\ Holds /\ TimerType /\ Roused /\ older' = older
<1>1. "later" \in Deadlines
    BY DEF Deadlines
<1>2. /\ row' = [t \in Turns |-> IF t \in Of(s) /\ row[t].state \notin {"none", "COMMITTED"}
                                 THEN [row[t] EXCEPT !.next = "later"] ELSE row[t]]
      /\ completion' = [completion EXCEPT ![s].next = IF completion[s].state = "PENDING" THEN "later" ELSE @]
      /\ ScheduleDrain(Waiting(row', completion'))
      /\ older' = older
    BY DEF DeferToCurrentOwner
<1>3. \A t \in Turns : row[t] \in Row /\ [row[t] EXCEPT !.next = "later"] \in Row
    BY Zenon, <1>1, RowEdits DEF Types
<1>4. \A t \in Turns : /\ [row[t] EXCEPT !.next = "later"].state = row[t].state
                       /\ [row[t] EXCEPT !.next = "later"].size = row[t].size
    BY <1>3 DEF Row
<1>5. Rests
    BY <1>2, <1>3, <1>4 DEF Rests
<1>6. Holds
    <2>1. completion[s] \in Completion /\ [completion[s] EXCEPT !.next = "later"] \in Completion
        BY Zenon, <1>1, CompletionEdits DEF Types
    <2>2. completion' = [completion EXCEPT ![s] = [completion[s] EXCEPT !.next =
                             IF completion[s].state = "PENDING" THEN "later" ELSE @]]
        BY <1>2
    <2>3. completion'[s] \in {completion[s], [completion[s] EXCEPT !.next = "later"]}
          /\ completion'[s] \in Completion
        BY <2>1, <2>2 DEF Types, Completion
    <2>4. \A z \in Sessions : z # s => completion'[z] = completion[z]
        BY <2>2 DEF Types
    <2>5. completion'[s].state = completion[s].state /\ completion'[s].through = completion[s].through
        BY <2>1, <2>3 DEF Completion
    <2>6. completion' \in [Sessions -> Completion]
        BY <2>2, <2>3, <2>4 DEF Types
    <2> QED BY <2>4, <2>5, <2>6 DEF Holds
<1>7. TimerType /\ Roused
    BY <1>2, WaitingType, ScheduleFacts
<1> QED BY <1>2, <1>5, <1>6, <1>7

(* A failed attempt leaves the rows in the state it is given them in.      *)
LEMMA FailFacts ==
    ASSUME Types, NEW t \in Turns, NEW failed \in [Turns -> Row], NEW retryable \in BOOLEAN,
           NEW missing \in BOOLEAN, AttemptFails(t, failed, retryable, missing)
    PROVE  /\ row' \in [Turns -> Row]
           /\ \A u \in Turns : row'[u].state = failed[u].state /\ row'[u].size = failed[u].size
           /\ Holds /\ TimerType /\ older' = older
           /\ drain' \in {Idle, Picking}
           /\ phase = "active" /\ drain' = Idle => timer'.on
<1> DEFINE Later(u) == [failed[u] EXCEPT !.next = "later"]
           Tried == [failed[t] EXCEPT !.tried = TRUE, !.missing = missing,
                                      !.next = IF retryable THEN "later" ELSE "never"]
<1>0. UNCHANGED <<completion, timer>> => Holds /\ TimerType
    BY DEF Holds, TimerType, Types
<1>0a. "later" \in Deadlines /\ "never" \in Deadlines
    BY DEF Deadlines
<1>1. CASE phase # "active"
    BY <1>0, <1>1 DEF AttemptFails, Types
<1>2. CASE phase = "active" /\ SessionOf[t] \notin owner
    <2>1. PICK s \in Sessions : s = SessionOf[t]
        BY TurnsAndSessions
    <2>2. /\ row' = [u \in Turns |-> IF u \in Of(s) /\ failed[u].state \notin {"none", "COMMITTED"}
                                     THEN Later(u) ELSE failed[u]]
          /\ completion' = [completion EXCEPT ![s].next = IF completion[s].state = "PENDING" THEN "later" ELSE @]
          /\ ScheduleDrain(Waiting(row', completion'))
          /\ older' = older /\ drain' = Picking
        BY <1>2, <2>1 DEF AttemptFails
    <2>3. \A u \in Turns : /\ Later(u) \in Row /\ Later(u).state = failed[u].state /\ Later(u).size = failed[u].size
        <3> TAKE u \in Turns
        <3>1. PICK r \in Row : r = failed[u]
            OBVIOUS
        <3>2. [r EXCEPT !.next = "later"] \in Row
            BY Zenon, <1>0a, RowEdits
        <3>3. [r EXCEPT !.next = "later"].state = r.state /\ [r EXCEPT !.next = "later"].size = r.size
            BY DEF Row
        <3> QED BY <3>1, <3>2, <3>3
    <2>4. /\ row' \in [Turns -> Row]
          /\ \A u \in Turns : row'[u].state = failed[u].state /\ row'[u].size = failed[u].size
        <3> HIDE DEF Later
        <3> QED BY <2>2, <2>3
    <2>5. Holds
        <3>1. completion[s] \in Completion /\ [completion[s] EXCEPT !.next = "later"] \in Completion
            BY Zenon, <1>0a, CompletionEdits DEF Types
        <3>2. completion'[s] \in {completion[s], [completion[s] EXCEPT !.next = "later"]}
              /\ completion'[s] \in Completion
            BY <2>2, <3>1 DEF Types, Completion
        <3>3. \A z \in Sessions : z # s => completion'[z] = completion[z]
            BY <2>2 DEF Types
        <3>4. completion'[s].state = completion[s].state /\ completion'[s].through = completion[s].through
            BY <3>1, <3>2 DEF Completion
        <3>5. completion' \in [Sessions -> Completion]
            BY <2>2, <3>2, <3>3 DEF Types
        <3> QED BY <3>3, <3>4, <3>5 DEF Holds
    <2>6. TimerType /\ Roused
        BY <2>2, WaitingType, ScheduleFacts
    <2>7. Picking # Idle
        BY DEF Picking, Idle, At
    <2> QED BY <2>2, <2>4, <2>5, <2>6, <2>7
<1>3. CASE phase = "active" /\ SessionOf[t] \in owner
    <2>1. /\ row' = [failed EXCEPT ![t] = Tried]
          /\ IF retryable THEN drain' = Idle /\ ScheduleDrain({t}) ELSE drain' = Picking /\ UNCHANGED timer
          /\ UNCHANGED <<older, completion>>
        BY <1>3 DEF AttemptFails
    <2>2. Tried \in Row /\ Tried.state = failed[t].state /\ Tried.size = failed[t].size
        <3>1. PICK r \in Row : r = failed[t]
            OBVIOUS
        <3>2. PICK d \in Deadlines : d = IF retryable THEN "later" ELSE "never"
            BY <1>0a
        <3>3. [r EXCEPT !.tried = TRUE, !.missing = missing, !.next = d] \in Row
            BY Zenon, RowEdits
        <3>4. /\ [r EXCEPT !.tried = TRUE, !.missing = missing, !.next = d].state = r.state
              /\ [r EXCEPT !.tried = TRUE, !.missing = missing, !.next = d].size = r.size
            BY DEF Row
        <3> QED BY <3>1, <3>2, <3>3, <3>4
    <2>3. /\ row' \in [Turns -> Row]
          /\ \A u \in Turns : row'[u].state = failed[u].state /\ row'[u].size = failed[u].size
        <3> HIDE DEF Tried
        <3> QED BY <2>1, <2>2
    <2>4. Picking # Idle
        BY DEF Picking, Idle, At
    <2>5. CASE retryable
        <3>1. TimerType /\ Roused
            BY <2>1, <2>5, ScheduleFacts
        <3> QED BY <1>3, <2>1, <2>3, <2>5, <3>1, <1>0 DEF Roused, Holds, Types
    <2>6. CASE ~retryable
        BY <2>1, <2>3, <2>4, <2>6, <1>0
    <2> QED BY <2>5, <2>6
<1> QED BY <1>1, <1>2, <1>3

-----------------------------------------------------------------------------
(* The drain waits for a row in the state of its call, and holds the proof *)
(* of a finalization only while it asks for it.                            *)
Stage(pc) == CASE pc = "put" -> "PREPARED" [] pc = "commit" -> "UPLOADED" [] OTHER -> "SEALED"
DrainInv ==
    /\ drain.pc \in {"idle", "pick"} => drain.on = None
    /\ drain.pc # "complete" => drain.proof = {}
    /\ drain.pc \in {"file", "prepare", "put", "commit"} =>
           drain.on \in Turns /\ row[drain.on].state = Stage(drain.pc)
    /\ drain.pc = "prepare" => object[drain.on] > 0
    /\ drain.pc = "complete" =>
           /\ drain.on \in Sessions /\ completion[drain.on].state = "PENDING"
           /\ drain.proof \subseteq Of(drain.on)
           /\ \A t \in drain.proof : row[t].state = "COMMITTED"

\* What is uploaded holds events; a receipt stands for a commit.
CloudInv == \A t \in Turns :
    /\ row[t].state \in {"PREPARED", "UPLOADED"} => object[t] > 0
    /\ row[t].state = "COMMITTED" => committed[t] > 0

\* Age orders the rows there are.
OrderInv ==
    /\ older \subseteq Present \X Present
    /\ \A t \in Turns : <<t, t>> \notin older
    /\ \A t, u, v \in Turns : <<t, u>> \in older /\ <<u, v>> \in older => <<t, v>> \in older

(* A row that nothing precedes exists among those that are ready. *)
LEMMA NextReadyExists ==
    ASSUME Types, OrderInv, Ready # {}
    PROVE  NextReady \in Ready
<1> DEFINE R == {p \in Ready \X Ready : Before(p[2], p[1])}
<1>1. \A t \in Ready : t \in Turns /\ row[t].tried \in BOOLEAN
    BY DEF Ready, Types, Row
<1>2. IsFiniteSet(Ready)
    BY TurnConstants, FS_Subset DEF Ready
<1>3. \A x, y \in Ready : <<x, y>> \in R <=> Before(y, x)
    OBVIOUS
<1>4. \A x \in Ready : ~Before(x, x)
    BY Zenon, <1>1 DEF Before, OrderInv
<1>5. \A x, y, z \in Ready : Before(y, x) /\ Before(z, y) => Before(z, x)
    BY <1>1 DEF Before, OrderInv
<1>6. \E x \in Ready : \A y \in Ready : <<x, y>> \notin R
    <2>1. \A x \in Ready : <<x, x>> \notin R
        BY <1>3, <1>4
    <2>2. \A x, y, z \in Ready : <<x, y>> \in R /\ <<y, z>> \in R => <<x, z>> \in R
        <3> HIDE DEF R
        <3> QED BY <1>3, <1>5
    <2>3. PICK S : S = Ready
        OBVIOUS
    <2>4. PICK Q : Q = R
        OBVIOUS
    <2> HIDE DEF R
    <2>5. \E x \in S : \A y \in S : <<x, y>> \notin Q
        BY <2>1, <2>2, <2>3, <2>4, <1>2, LastElement
    <2> QED BY <2>3, <2>4, <2>5
<1>7. \E t \in Ready : \A u \in Ready : ~Before(u, t)
    <2> HIDE DEF R
    <2> QED BY <1>3, <1>6
<1> QED BY <1>7 DEF NextReady

-----------------------------------------------------------------------------
(* Each step keeps the types. *)
LEMMA QuietTypes ==
    ASSUME Types, row' \in [Turns -> Row], completion' \in [Sessions -> Completion], TimerType,
           UNCHANGED <<disk, cloud, phase, capturing, binding, owner>>,
           drain' \in [pc : {"idle", "pick", "file", "prepare", "put", "commit", "complete"},
                       on : Turns \cup Sessions \cup {None}, proof : SUBSET Turns]
    PROVE  Types'
BY DEF Types, TimerType, disk, cloud

DrainType == drain' \in [pc : {"idle", "pick", "file", "prepare", "put", "commit", "complete"},
                         on : Turns \cup Sessions \cup {None}, proof : SUBSET Turns]
LEMMA PauseType ==
    ASSUME drain' \in {Idle, Picking}
    PROVE  DrainType
BY DEF Idle, Picking, At, DrainType

LEMMA SameTypes ==
    ASSUME Types
    PROVE  /\ UNCHANGED row => row' \in [Turns -> Row]
           /\ UNCHANGED completion => completion' \in [Sessions -> Completion]
           /\ UNCHANGED timer => TimerType
           /\ UNCHANGED drain => DrainType
BY DEF Types, TimerType, DrainType

(* Changes to one row. *)
LEMMA OneRow ==
    ASSUME Types, NEW t \in Turns, NEW r \in Row, row' = [row EXCEPT ![t] = r]
    PROVE  row' \in [Turns -> Row]
BY DEF Types

LEMMA CaptureTypes ==
    ASSUME Types, OpenInv, CaptureSteps
    PROVE  Types'
<1>1. ASSUME NEW t \in Turns, AppendBegins(t) PROVE Types'
    <2>1. OpenRow \in Row
        BY Zenon, RowEdits DEF Types
    <2>2. row' \in [Turns -> Row]
        BY <1>1, <2>1 DEF AppendBegins, Types
    <2>3. capturing' \in Turns \cup {None}
        BY <1>1 DEF AppendBegins
    <2> QED BY <1>1, <2>2, <2>3 DEF AppendBegins, Types, disk, cloud
<1>2. ASSUME NEW t \in Turns, AppendFails(t) PROVE Types'
    <2>1. /\ torn' \subseteq Turns
          /\ spool' = [spool EXCEPT ![t] = IF t \in torn' THEN AtLeast(@, 1) ELSE @]
        BY <1>2 DEF AppendFails, Types
    <2>2. t = capturing /\ MaxEvents \in Nat /\ spool[t] \in 0..MaxEvents /\ row[t].size \in 0..MaxEvents
        BY <1>2, TurnConstants DEF AppendFails, Types, Row
    <2>3. AtLeast(spool[t], 1) \in 0..MaxEvents
        BY <2>2, TurnConstants DEF AtLeast, OpenInv
    <2>4. spool' \in [Turns -> 0..MaxEvents]
        BY <2>1, <2>3 DEF Types
    <2> QED BY <1>2, <2>1, <2>4 DEF AppendFails, Types, db, cloud
<1>3. ASSUME NEW t \in Turns, SealInterrupted(t) PROVE Types'
    <2>1. row' \in [Turns -> Row]
        <3>1. [row[t] EXCEPT !.state = "SEALED", !.next = "now"] \in Row
            BY Zenon, RowEdits DEF Types, Uploading, Deadlines
        <3>2. row' = [row EXCEPT ![t] = [row[t] EXCEPT !.state = "SEALED", !.next = "now"]]
            BY <1>3 DEF SealInterrupted, Types
        <3> QED BY Zenon, <3>1, <3>2, OneRow
    <2> QED BY <1>3, <2>1, QuietTypes, SameTypes DEF SealInterrupted, DrainType, memory
<1>4. ASSUME NEW t \in Turns, NEW ended \in BOOLEAN, AppendEnds(t, ended) PROVE Types'
    <2>1. t = capturing /\ MaxEvents \in Nat /\ spool[t] \in 0..MaxEvents /\ row[t].size \in 0..MaxEvents
          /\ row[t] \in Row
        BY <1>4, TurnConstants DEF AppendEnds, Types, Row
    <2>2. row[t].size + 1 \in 0..MaxEvents /\ AtLeast(spool[t], row[t].size + 1) \in 0..MaxEvents
        BY <2>1, TurnConstants DEF AtLeast, OpenInv
    <2>3. row' \in [Turns -> Row]
        <3>1. PICK r \in Row : r = row[t]
            BY <2>1
        <3>2. PICK n \in 0..MaxEvents : n = row[t].size + 1
            BY <2>2
        <3>3. PICK x \in {"SEALED", "OPEN"} : x = IF ended THEN "SEALED" ELSE "OPEN"
            OBVIOUS
        <3>4. PICK d \in Deadlines : d = IF ended THEN "now" ELSE r.next
            BY DEF Deadlines, Row
        <3>5. [r EXCEPT !.size = n, !.state = x, !.next = d] \in Row
            BY DEF Row, Uploading
        <3>6. row' = [row EXCEPT ![t] = [r EXCEPT !.size = n, !.state = x, !.next = d]]
            BY <1>4, <3>1, <3>2, <3>3, <3>4 DEF AppendEnds, Types
        <3> QED BY <3>5, <3>6, OneRow
    <2>4. spool' \in [Turns -> 0..MaxEvents]
        BY <1>4, <2>2 DEF AppendEnds, Types
    <2>5. capturing' \in Sessions
        BY <1>4, TurnsAndSessions DEF AppendEnds
    <2> QED BY <1>4, <2>3, <2>4, <2>5 DEF AppendEnds, Types, cloud
<1>5. ASSUME NEW s \in Sessions, CaptureDefers(s) PROVE Types'
    <2>1. Rests /\ Holds /\ TimerType
        BY <1>5, DeferFacts DEF CaptureDefers
    <2> QED BY <1>5, <2>1, QuietTypes, SameTypes DEF CaptureDefers, Rests, Holds, DrainType
<1>6. ASSUME NEW s \in Sessions, CaptureBegins(s) PROVE Types'
    BY <1>6 DEF CaptureBegins, Types, db, disk, cloud
<1>7. ASSUME CaptureEnds PROVE Types'
    <2>1. TimerType
        BY <1>7, ScheduleFacts DEF CaptureEnds
    <2> QED BY <1>7, <2>1 DEF CaptureEnds, Types, TimerType, db, disk, cloud
<1> QED BY <1>1, <1>2, <1>3, <1>4, <1>5, <1>6, <1>7 DEF CaptureSteps

LEMMA UnspoolTypes ==
    ASSUME Types, NEW ts \in SUBSET Turns, Unspool(ts)
    PROVE  /\ spool' \in [Turns -> 0..MaxEvents] /\ torn' \subseteq Turns /\ object' \in [Turns -> 0..MaxEvents]
           /\ \A t \in Turns : /\ spool'[t] = IF t \in ts THEN 0 ELSE spool[t]
                               /\ object'[t] = IF t \in ts THEN 0 ELSE object[t]
BY TurnConstants DEF Unspool, Types

LEMMA StartRows ==
    ASSUME Types, Start
    PROVE  /\ \E expired \in SUBSET Settled :
                LET dropped == expired \cup Unrecoverable
                IN  /\ \A t \in Turns : row'[t] = IF t \in dropped THEN NoRow ELSE Recovered(row[t], t)
                    /\ \A s \in Sessions : Of(s) \cap dropped # {} => completion'[s] = NoCompletion
                    /\ \A s \in Sessions : Of(s) \cap dropped = {} =>
                           completion'[s].state = completion[s].state /\ completion'[s].through = completion[s].through
           /\ row' \in [Turns -> Row] /\ completion' \in [Sessions -> Completion]
           /\ older' = Remaining(row')
           /\ Unspool(Settled \cup Unrecoverable)
<1>1. PICK expired \in SUBSET {t \in Settled : row[t].state = "COMMITTED"} :
        LET dropped == expired \cup Unrecoverable
        IN  /\ row' = [t \in Turns |-> IF t \in dropped THEN NoRow ELSE Recovered(row[t], t)]
            /\ older' = Remaining(row')
            /\ completion' = [s \in Sessions |->
                  IF Of(s) \cap dropped # {} THEN NoCompletion
                  ELSE IF completion[s].state = "PENDING" THEN [completion[s] EXCEPT !.next = "now"]
                  ELSE completion[s]]
            /\ Unspool(Settled \cup Unrecoverable)
    BY DEF Start
<1> DEFINE dropped == expired \cup Unrecoverable
           Due(s) == [completion[s] EXCEPT !.next = "now"]
<1>2. /\ row' = [t \in Turns |-> IF t \in dropped THEN NoRow ELSE Recovered(row[t], t)]
      /\ completion' = [s \in Sessions |-> IF Of(s) \cap dropped # {} THEN NoCompletion
                            ELSE IF completion[s].state = "PENDING" THEN Due(s) ELSE completion[s]]
    BY <1>1
<1>3. \A t \in Turns : NoRow \in Row /\ Recovered(row[t], t) \in Row
    <2> TAKE t \in Turns
    <2>1. PICK r \in Row : r = row[t]
        BY DEF Types
    <2>2. PICK n \in 0..MaxEvents : n = spool[t]
        BY DEF Types
    <2>3. /\ NoRow \in Row /\ Reset(r) \in Row /\ [r EXCEPT !.size = n] \in Row
          /\ [r EXCEPT !.state = "SEALED", !.next = "now"] \in Row
        BY Zenon, RowEdits DEF Uploading, Deadlines
    <2>4. Recovered(r, t) \in Row
        BY <2>2, <2>3 DEF Recovered
    <2> QED BY <2>1, <2>3, <2>4
<1>4. \A s \in Sessions : /\ NoCompletion \in Completion /\ completion[s] \in Completion /\ Due(s) \in Completion
                          /\ Due(s).state = completion[s].state /\ Due(s).through = completion[s].through
    <2> TAKE s \in Sessions
    <2>1. PICK c \in Completion : c = completion[s]
        BY DEF Types
    <2>2. NoCompletion \in Completion /\ [c EXCEPT !.next = "now"] \in Completion
        BY Zenon, CompletionEdits DEF Deadlines
    <2>3. [c EXCEPT !.next = "now"].state = c.state /\ [c EXCEPT !.next = "now"].through = c.through
        BY DEF Completion
    <2> QED BY <2>1, <2>2, <2>3
<1>5. row' \in [Turns -> Row] /\ completion' \in [Sessions -> Completion]
    <2> HIDE DEF dropped, Due
    <2> QED BY <1>2, <1>3, <1>4
<1>6. /\ \A t \in Turns : row'[t] = IF t \in dropped THEN NoRow ELSE Recovered(row[t], t)
      /\ \A s \in Sessions : Of(s) \cap dropped # {} => completion'[s] = NoCompletion
      /\ \A s \in Sessions : Of(s) \cap dropped = {} =>
            completion'[s].state = completion[s].state /\ completion'[s].through = completion[s].through
    <2> HIDE DEF dropped, Due
    <2> QED BY <1>2, <1>4
<1>7. expired \in SUBSET Settled
    OBVIOUS
<1> QED BY <1>1, <1>5, <1>6, <1>7

LEMMA RestoreRow ==
    ASSUME NEW n \in 0..MaxEvents
    PROVE  [NoRow EXCEPT !.state = "COMMITTED", !.size = n] \in Row
<1>1. NoRow \in Row
    BY TurnConstants DEF NoRow, Row, Deadlines
<1> QED BY <1>1 DEF Row

LEMMA HostTypes ==
    ASSUME Types, HostSteps
    PROVE  Types'
<1>1. ASSUME NEW s \in Sessions, QueueHistoryFinalization(s) PROVE Types'
    <2>1. PICK read \in SUBSET Turns : completion' = [completion EXCEPT ![s] =
              [NoCompletion EXCEPT !.state = "PENDING", !.through = read]]
        BY Zenon, <1>1 DEF QueueHistoryFinalization, Of
    <2>2. completion' \in [Sessions -> Completion]
        BY Zenon, <2>1, CompletionEdits DEF Types
    <2>3. TimerType
        BY <1>1, ScheduleFacts DEF QueueHistoryFinalization
    <2> QED BY <1>1, <2>2, <2>3, QuietTypes, SameTypes DEF QueueHistoryFinalization, DrainType
<1>2. ASSUME NEW s \in Sessions, RestoreHistoryReceipts(s) PROVE Types'
    <2> DEFINE Receipt(t) == [NoRow EXCEPT !.state = "COMMITTED", !.size = committed[t]]
    <2>1. PICK lost : row' = [t \in Turns |-> IF t \in lost THEN Receipt(t) ELSE row[t]]
        BY Zenon, <1>2 DEF RestoreHistoryReceipts
    <2>2. \A t \in Turns : Receipt(t) \in Row /\ row[t] \in Row
        BY Zenon, RestoreRow DEF Types
    <2>3. row' \in [Turns -> Row]
        <3> HIDE DEF Receipt
        <3> QED BY <2>1, <2>2
    <2> QED BY Zenon, <1>2, <2>3, QuietTypes, SameTypes DEF RestoreHistoryReceipts, DrainType, memory
<1>3. ASSUME NEW s \in Sessions, ResumePublished(s) PROVE Types'
    <2>1. PICK found : row' = [t \in Turns |-> IF t \in found
                               THEN [Reset(row[t]) EXCEPT !.missing = FALSE] ELSE row[t]]
        BY <1>3 DEF ResumePublished
    <2>2. \A t \in Turns : [Reset(row[t]) EXCEPT !.missing = FALSE] \in Row /\ row[t] \in Row
        BY Zenon, RowEdits DEF Types
    <2>3. row' \in [Turns -> Row]
        BY <2>1, <2>2
    <2>4. completion' \in [Sessions -> Completion]
        <3>1. \/ completion' = completion
              \/ completion' = [completion EXCEPT ![s] = [completion[s] EXCEPT !.next = "now", !.missing = FALSE]]
            BY Zenon, <1>3 DEF ResumePublished, Types
        <3>2. [completion[s] EXCEPT !.next = "now", !.missing = FALSE] \in Completion
            BY Zenon, CompletionEdits DEF Types, Deadlines
        <3> QED BY <3>1, <3>2 DEF Types
    <2>5. TimerType
        BY <1>3, ScheduleFacts DEF ResumePublished
    <2> QED BY <1>3, <2>3, <2>4, <2>5, QuietTypes, SameTypes DEF ResumePublished, DrainType
<1>4. ASSUME NEW s \in Sessions, BindingBegins(s) PROVE Types'
    BY <1>4 DEF BindingBegins, Types, db, disk, cloud
<1>5. ASSUME NEW s \in Sessions, HandedOver(s) PROVE Types'
    BY <1>5 DEF HandedOver, Types, db, disk, cloud, memory
<1>6. ASSUME Start PROVE Types'
    <2>1. row' \in [Turns -> Row] /\ completion' \in [Sessions -> Completion] /\ Unspool(Settled \cup Unrecoverable)
        BY <1>6, StartRows
    <2>2. PICK ts \in SUBSET Turns : Unspool(ts)
        BY <2>1 DEF Settled, Unrecoverable
    <2>3. spool' \in [Turns -> 0..MaxEvents] /\ torn' \subseteq Turns /\ object' \in [Turns -> 0..MaxEvents]
        BY <2>2, UnspoolTypes
    <2> QED BY <1>6, <2>1, <2>3 DEF Start, Types, cloud, Soon, Armed
<1>7. ASSUME BindingEnds PROVE Types'
    <2>1. CASE phase # "active"
        BY <1>7, <2>1 DEF BindingEnds, Types, db, disk, cloud
    <2>2. CASE phase = "active"
        <3> DEFINE New(t) == IF t \notin Of(binding) THEN row[t]
                  ELSE CASE row[t].state = "COMMITTED" -> NoRow
                         [] row[t].state \in Uploading -> [Reset(row[t]) EXCEPT !.state = "SEALED"]
                         [] OTHER -> row[t]
        <3>1. row' = [t \in Turns |-> New(t)]
            BY <1>7, <2>2 DEF BindingEnds
        <3>2. \A t \in Turns : New(t) \in Row
            <4> TAKE t \in Turns
            <4>1. row[t] \in Row /\ NoRow \in Row /\ [Reset(row[t]) EXCEPT !.state = "SEALED"] \in Row
                BY Zenon, RowEdits DEF Types
            <4> QED BY <4>1
        <3>3. row' \in [Turns -> Row]
            <4> HIDE DEF New
            <4> QED BY <3>1, <3>2
        <3>4. completion' \in [Sessions -> Completion]
            BY Zenon, <1>7, <2>2, CompletionEdits DEF BindingEnds, Forgotten, Types
        <3>5. TimerType
            BY <1>7, <2>2, ScheduleFacts DEF BindingEnds
        <3> QED BY <1>7, <3>3, <3>4, <3>5 DEF BindingEnds, Types, disk, cloud, TimerType
    <2> QED BY <2>1, <2>2
<1>8. ASSUME Close PROVE Types'
    BY <1>8 DEF Close, Types, db, disk, cloud, NoTimer
<1>9. ASSUME Aborted PROVE Types'
    BY <1>9 DEF Aborted, Types, db, disk, cloud, Idle, At
<1>10. ASSUME Closed PROVE Types'
    BY <1>10 DEF Closed, Types, db, disk, cloud
<1> QED BY <1>1, <1>2, <1>3, <1>4, <1>5, <1>6, <1>7, <1>8, <1>9, <1>10 DEF HostSteps

LEMMA ElapsedRows ==
    ASSUME Types, NEW for, 
           row' = [t \in Turns |-> IF t \in for THEN Elapsed(row[t]) ELSE row[t]]
    PROVE  Rests
<1>1. \A t \in Turns : row[t] \in Row /\ Elapsed(row[t]) \in Row
    BY Zenon, RowEdits DEF Types
<1>2. \A t \in Turns : Elapsed(row[t]).state = row[t].state /\ Elapsed(row[t]).size = row[t].size
    BY <1>1 DEF Elapsed, Row
<1> QED BY <1>1, <1>2 DEF Rests

LEMMA ElapsedCompletions ==
    ASSUME Types, NEW for, 
           completion' = [s \in Sessions |-> IF s \in for THEN Elapsed(completion[s]) ELSE completion[s]]
    PROVE  Holds
<1>1. \A s \in Sessions : completion[s] \in Completion /\ Elapsed(completion[s]) \in Completion
    BY Zenon, CompletionEdits DEF Types
<1>2. \A s \in Sessions : /\ Elapsed(completion[s]).state = completion[s].state
                          /\ Elapsed(completion[s]).through = completion[s].through
    BY <1>1 DEF Elapsed, Completion
<1> QED BY <1>1, <1>2 DEF Holds

LEMMA SameWork ==
    ASSUME Types
    PROVE  (UNCHANGED row => Rests) /\ (UNCHANGED completion => Holds)
BY DEF Types, Rests, Holds

LEMMA TimeRests ==
    ASSUME Types, TimePasses
    PROVE  Rests /\ Holds /\ TimerType
<1>1. ASSUME TimerFires PROVE Rests /\ Holds /\ TimerType
    BY <1>1, ElapsedRows, ElapsedCompletions DEF TimerFires, TimerType, NoTimer
<1>2. ASSUME NEW x \in Turns \cup Sessions, DeadlinePasses(x) PROVE Rests /\ Holds /\ TimerType
    <2>1. CASE x \in Turns /\ row' = [row EXCEPT ![x].next = "due"] /\ UNCHANGED completion
        <3>1. PICK r \in Row : r = row[x]
            BY <2>1 DEF Types
        <3>2. [r EXCEPT !.next = "due"] \in Row
            BY Zenon, RowEdits DEF Deadlines
        <3>3. [r EXCEPT !.next = "due"].state = r.state /\ [r EXCEPT !.next = "due"].size = r.size
            BY DEF Row
        <3>4. row' = [row EXCEPT ![x] = [r EXCEPT !.next = "due"]]
            BY <2>1, <3>1
        <3>5. Rests
            BY <2>1, <3>1, <3>2, <3>3, <3>4 DEF Rests, Types
        <3> QED BY <1>2, <2>1, <3>5, SameWork, SameTypes DEF DeadlinePasses, memory
    <2>2. CASE x \in Sessions /\ completion' = [completion EXCEPT ![x].next = "due"] /\ UNCHANGED row
        <3>1. PICK c \in Completion : c = completion[x]
            BY <2>2 DEF Types
        <3>2. [c EXCEPT !.next = "due"] \in Completion
            BY Zenon, CompletionEdits DEF Deadlines
        <3>3. [c EXCEPT !.next = "due"].state = c.state /\ [c EXCEPT !.next = "due"].through = c.through
            BY DEF Completion
        <3>4. completion' = [completion EXCEPT ![x] = [c EXCEPT !.next = "due"]]
            BY <2>2, <3>1
        <3>5. Holds
            BY <2>2, <3>1, <3>2, <3>3, <3>4 DEF Holds, Types
        <3> QED BY <1>2, <2>2, <3>5, SameWork, SameTypes DEF DeadlinePasses, memory
    <2> QED BY <1>2, <2>1, <2>2 DEF DeadlinePasses
<1>3. ASSUME NEW t \in Turns, IntentExpires(t) PROVE Rests /\ Holds /\ TimerType
    BY <1>3, SameWork, SameTypes DEF IntentExpires, db, memory
<1> QED BY <1>1, <1>2, <1>3 DEF TimePasses

LEMMA TimeTypes ==
    ASSUME Types, TimePasses
    PROVE  Types'
<1>1. Rests /\ Holds /\ TimerType
    BY TimeRests
<1>2. ASSUME TimerFires PROVE Types'
    <2>1. DrainType
        BY <1>2, PauseType, SameTypes DEF TimerFires
    <2> QED BY <1>1, <1>2, <2>1, QuietTypes DEF TimerFires, Rests, Holds, DrainType
<1>3. ASSUME NEW x \in Turns \cup Sessions, DeadlinePasses(x) PROVE Types'
    BY <1>1, <1>3, QuietTypes, SameTypes DEF DeadlinePasses, memory, Rests, Holds, DrainType
<1>4. ASSUME NEW t \in Turns, IntentExpires(t) PROVE Types'
    BY <1>4 DEF IntentExpires, Types, db, disk, memory
<1> QED BY <1>2, <1>3, <1>4 DEF TimePasses

LEMMA CrashTypes ==
    ASSUME Types, OpenInv, Crash
    PROVE  Types'
<1>1. spool' \in [Turns -> 0..MaxEvents] /\ torn' \subseteq Turns
    <2>1. CASE UNCHANGED <<spool, torn>>
        BY <2>1 DEF Types
    <2>2. CASE ~UNCHANGED <<spool, torn>>
        <3>1. PICK t \in Turns : t = capturing
            BY <2>2 DEF Crash, Types
        <3>2. /\ spool' = [spool EXCEPT ![t] = AtLeast(@, row[t].size + 1)]
              /\ \E cut \in SUBSET {t} : torn' = torn \cup cut
            BY <2>2, <3>1 DEF Crash
        <3>3. spool[t] \in 0..MaxEvents /\ row[t].size \in 0..MaxEvents
            BY DEF Types, Row
        <3>4. AtLeast(spool[t], row[t].size + 1) \in 0..MaxEvents
            BY <3>1, <3>3, TurnConstants DEF AtLeast, OpenInv
        <3> QED BY <3>2, <3>4 DEF Types
    <2> QED BY <2>1, <2>2
<1> QED BY <1>1 DEF Crash, Dead, Idle, At, NoTimer, Types, db, cloud

-----------------------------------------------------------------------------
(* The calls of the drain. *)
Gives == /\ Holds /\ TimerType /\ older' = older /\ drain' \in {Idle, Picking}
         /\ phase = "active" /\ drain' = Idle => timer'.on
\* One row changes its state.
Becomes(t, x) == /\ row' \in [Turns -> Row]
                 /\ \A u \in Turns : /\ row'[u].size = row[u].size
                                     /\ row'[u].state = IF u = t THEN x ELSE row[u].state

LEMMA FailedAsItWas ==
    ASSUME Types, DrainInv, drain.pc \in {"file", "prepare", "put", "commit"},
           NEW retryable \in BOOLEAN, NEW missing \in BOOLEAN,
           AttemptFails(drain.on, row, retryable, missing)
    PROVE  Rests /\ Gives
<1>1. PICK t \in Turns : t = drain.on
    BY DEF DrainInv
<1>2. PICK f \in [Turns -> Row] : f = row
    BY DEF Types
<1>3. AttemptFails(t, f, retryable, missing)
    BY <1>1, <1>2
<1>4. /\ row' \in [Turns -> Row]
      /\ \A u \in Turns : row'[u].state = f[u].state /\ row'[u].size = f[u].size
      /\ Holds /\ TimerType /\ older' = older
      /\ drain' \in {Idle, Picking}
      /\ phase = "active" /\ drain' = Idle => timer'.on
    BY <1>3, FailFacts
<1> QED BY <1>2, <1>4 DEF Rests, Gives

LEMMA FailedUnprepared ==
    ASSUME Types, DrainInv, drain.pc \in {"put", "commit"},
           AttemptFails(drain.on, Unprepared, TRUE, FALSE)
    PROVE  Becomes(drain.on, "SEALED") /\ Gives
<1>1. PICK t \in Turns : t = drain.on
    BY DEF DrainInv
<1>2. PICK r \in Row : r = row[t]
    BY DEF Types
<1>3. [r EXCEPT !.state = "SEALED"] \in Row
    BY Zenon, RowEdits DEF Uploading, Deadlines
<1>4. Unprepared = [row EXCEPT ![t] = [r EXCEPT !.state = "SEALED"]]
    BY <1>1, <1>2 DEF Unprepared
<1>5. Unprepared \in [Turns -> Row]
    BY <1>3, <1>4 DEF Types
<1>6. PICK f \in [Turns -> Row] : f = Unprepared
    BY <1>5
<1>7. AttemptFails(t, f, TRUE, FALSE)
    BY <1>1, <1>6
<1>8. /\ row' \in [Turns -> Row]
      /\ \A u \in Turns : row'[u].state = f[u].state /\ row'[u].size = f[u].size
      /\ Holds /\ TimerType /\ older' = older
      /\ drain' \in {Idle, Picking}
      /\ phase = "active" /\ drain' = Idle => timer'.on
    BY <1>7, FailFacts
<1>9. [r EXCEPT !.state = "SEALED"].state = "SEALED" /\ [r EXCEPT !.state = "SEALED"].size = r.size
    BY DEF Row
<1>10. \A u \in Turns : f[u] = IF u = t THEN [r EXCEPT !.state = "SEALED"] ELSE row[u]
    BY <1>4, <1>6 DEF Types
<1>11. \A u \in Turns : f[u].size = row[u].size /\ f[u].state = IF u = t THEN "SEALED" ELSE row[u].state
    BY Zenon, <1>2, <1>9, <1>10
<1> QED BY <1>1, <1>8, <1>11 DEF Becomes, Gives

LEMMA MarkedFacts ==
    ASSUME Types, NEW t \in Turns, row' = Marked(t)
    PROVE  Becomes(t, "COMMITTED") /\ row'[t].next = "now"
<1>1. PICK r \in Row : r = row[t]
    BY DEF Types
<1>2. [r EXCEPT !.state = "COMMITTED", !.next = "now"] \in Row
    BY Zenon, RowEdits DEF Deadlines
<1>3. row' = [row EXCEPT ![t] = [r EXCEPT !.state = "COMMITTED", !.next = "now"]]
    BY Zenon, <1>1 DEF Marked
<1>4. /\ [r EXCEPT !.state = "COMMITTED", !.next = "now"].state = "COMMITTED"
      /\ [r EXCEPT !.state = "COMMITTED", !.next = "now"].size = r.size
      /\ [r EXCEPT !.state = "COMMITTED", !.next = "now"].next = "now"
    BY DEF Row
<1> QED BY <1>1, <1>2, <1>3, <1>4 DEF Becomes, Types

LEMMA StateFacts ==
    ASSUME Types, NEW t \in Turns, NEW x \in Uploading, row' = [row EXCEPT ![t].state = x]
    PROVE  Becomes(t, x)
<1>1. PICK r \in Row : r = row[t]
    BY DEF Types
<1>2. [r EXCEPT !.state = x] \in Row
    BY Zenon, RowEdits DEF Deadlines
<1>3. row' = [row EXCEPT ![t] = [r EXCEPT !.state = x]]
    BY <1>1
<1>4. [r EXCEPT !.state = x].state = x /\ [r EXCEPT !.state = x].size = r.size
    BY DEF Row
<1> QED BY <1>1, <1>2, <1>3, <1>4 DEF Becomes, Types

\* The local end of an upload.
Receives(t) == /\ Becomes(t, "COMMITTED") /\ row'[t].next = "now" /\ Unspool({t})
               /\ drain' = Picking /\ UNCHANGED <<older, completion, timer>>
\* A call is answered and the next one made.
Proceeds(t, x, pc) == /\ Becomes(t, x) /\ drain' = [drain EXCEPT !.pc = pc]
                      /\ UNCHANGED <<older, completion, timer, disk>>

LEMMA PickOutcome ==
    ASSUME Types, OrderInv, PickTurn
    PROVE  \/ \E t \in Ready : drain' = Advance(t) /\ UNCHANGED <<db, timer>>
           \/ Rests /\ Holds /\ TimerType /\ older' = older /\ drain' = drain
<1>1. PICK t \in Ready : t = NextReady
    BY NextReadyExists DEF PickTurn
<1>2. PICK s \in Sessions : s = SessionOf[t]
    BY TurnsAndSessions DEF Ready
<1>3. IF s \in owner THEN drain' = Advance(t) /\ UNCHANGED <<db, timer>>
      ELSE DeferToCurrentOwner(s) /\ UNCHANGED drain
    BY <1>1, <1>2 DEF PickTurn
<1> QED BY <1>3, DeferFacts

LEMMA FinalizationPicked ==
    ASSUME Types, NEW s \in Sessions, PickFinalization(s)
    PROVE  /\ s \in ReadyToFinalize
           /\ \/ /\ Proved(s) /\ drain' = [At("complete", s) EXCEPT !.proof = completion[s].through]
                 /\ UNCHANGED <<db, timer>>
              \/ Rests /\ Holds /\ TimerType /\ older' = older /\ drain' = drain
<1>1. s \in ReadyToFinalize /\ drain = Picking
    BY DEF PickFinalization
<1>2. CASE s \notin owner
    BY Zenon, <1>1, <1>2, DeferFacts DEF PickFinalization
<1>3. CASE s \in owner /\ Proved(s)
    BY <1>1, <1>3 DEF PickFinalization
<1>4. CASE s \in owner /\ ~Proved(s)
    <2>1. /\ completion' = [completion EXCEPT ![s].next = "later"]
          /\ ScheduleDrain({s}) /\ UNCHANGED <<row, older, drain>>
        BY <1>4 DEF PickFinalization
    <2>2. PICK c \in Completion : c = completion[s]
        BY DEF Types
    <2>3. [c EXCEPT !.next = "later"] \in Completion
        BY Zenon, CompletionEdits DEF Deadlines
    <2>4. [c EXCEPT !.next = "later"].state = c.state /\ [c EXCEPT !.next = "later"].through = c.through
        BY DEF Completion
    <2>5. completion' = [completion EXCEPT ![s] = [c EXCEPT !.next = "later"]]
        BY <2>1, <2>2
    <2>6. Holds
        BY <2>2, <2>3, <2>4, <2>5 DEF Holds, Types
    <2> QED BY <1>1, <2>1, <2>6, ScheduleFacts, SameWork
<1> QED BY <1>2, <1>3, <1>4

LEMMA FileOutcome ==
    ASSUME Types, DrainInv, FilePrepared
    PROVE  \/ Rests /\ Gives /\ UNCHANGED object
           \/ /\ spool[drain.on] # 0
              /\ object' = [object EXCEPT ![drain.on] = IF @ = 0 THEN spool[drain.on] ELSE @]
              /\ drain' = [drain EXCEPT !.pc = "prepare"] /\ UNCHANGED <<db, timer>>
<1>1. CASE spool[drain.on] = 0 \/ drain.on \in torn
    <2>1. AttemptFails(drain.on, row, TRUE, FALSE) /\ UNCHANGED object /\ drain.pc = "file"
        BY <1>1 DEF FilePrepared
    <2> QED BY <2>1, FailedAsItWas
<1>2. CASE ~(spool[drain.on] = 0 \/ drain.on \in torn)
    BY <1>2 DEF FilePrepared
<1> QED BY <1>1, <1>2

LEMMA PrepareOutcome ==
    ASSUME Types, DrainInv, PrepareAnswers
    PROVE  LET t == drain.on IN
           \/ committed[t] = object[t] /\ Receives(t) /\ UNCHANGED intent
           \/ Proceeds(t, "PREPARED", "put") /\ intent' = intent \cup {t}
           \/ Rests /\ Gives /\ UNCHANGED <<disk, intent>>
<1>1. drain.on \in Turns /\ drain.pc = "prepare"
    BY DEF DrainInv, PrepareAnswers
<1>2. CASE committed[drain.on] = object[drain.on]
    <2>0. committed[drain.on] # 0
        BY <1>1, <1>2 DEF DrainInv, Types
    <2>1. MarkCommitted(drain.on) /\ UNCHANGED <<older, completion, intent, timer>>
        BY <1>2, <2>0 DEF PrepareAnswers
    <2> QED BY <1>1, <1>2, <2>1, MarkedFacts DEF MarkCommitted, Receives
<1>3. CASE committed[drain.on] # object[drain.on] /\ committed[drain.on] = 0
    <2>1. /\ row' = [row EXCEPT ![drain.on].state = "PREPARED"]
          /\ intent' = intent \cup {drain.on}
          /\ drain' = [drain EXCEPT !.pc = "put"]
          /\ UNCHANGED <<older, completion, disk, timer>>
        BY <1>3 DEF PrepareAnswers
    <2>2. "PREPARED" \in Uploading
        BY DEF Uploading
    <2> QED BY <1>1, <2>1, <2>2, StateFacts DEF Proceeds
<1>4. CASE committed[drain.on] # object[drain.on] /\ committed[drain.on] # 0
    <2>1. AttemptFails(drain.on, row, FALSE, FALSE) /\ UNCHANGED <<disk, intent>>
        BY <1>4 DEF PrepareAnswers
    <2> QED BY <1>1, <2>1, FailedAsItWas
<1> QED BY <1>2, <1>3, <1>4

LEMMA PutOutcome ==
    ASSUME Types, DrainInv, PutAnswers
    PROVE  \/ Proceeds(drain.on, "UPLOADED", "commit")
           \/ Rests /\ Gives /\ UNCHANGED disk
<1>1. drain.on \in Turns /\ drain.pc = "put"
    BY DEF DrainInv, PutAnswers
<1>2. CASE /\ row' = [row EXCEPT ![drain.on].state = "UPLOADED"]
           /\ drain' = [drain EXCEPT !.pc = "commit"]
           /\ UNCHANGED <<older, completion, timer, disk>>
    <2>1. "UPLOADED" \in Uploading
        BY DEF Uploading
    <2> QED BY <1>1, <1>2, <2>1, StateFacts DEF Proceeds
<1>3. CASE AttemptFails(drain.on, row, TRUE, FALSE) /\ UNCHANGED disk
    BY <1>1, <1>3, FailedAsItWas
<1> QED BY <1>2, <1>3 DEF PutAnswers

LEMMA CommitOutcome ==
    ASSUME Types, DrainInv, CommitAnswers
    PROVE  LET t == drain.on IN
           \/ Becomes(t, "SEALED") /\ Gives /\ UNCHANGED <<disk, committed>>
           \/ /\ <<t, object[t]>> \in stored /\ committed' = [committed EXCEPT ![t] = object[t]]
              /\ Receives(t)
           \/ /\ committed' = [committed EXCEPT ![t] = IF <<t, object[t]>> \in stored THEN object[t] ELSE @]
              /\ Rests /\ Gives /\ UNCHANGED disk
<1>1. drain.on \in Turns /\ drain.pc = "commit"
    BY DEF DrainInv, CommitAnswers
<1>2. CASE drain.on \notin intent
    <2>1. AttemptFails(drain.on, Unprepared, TRUE, FALSE) /\ UNCHANGED <<disk, committed>>
        BY <1>2 DEF CommitAnswers
    <2> QED BY <1>1, <2>1, FailedUnprepared
<1>3. CASE drain.on \in intent
    <2>1. committed' = [committed EXCEPT ![drain.on] =
                            IF <<drain.on, object[drain.on]>> \in stored THEN object[drain.on] ELSE @]
        BY <1>3 DEF CommitAnswers
    <2>2. CASE /\ <<drain.on, object[drain.on]>> \in stored
               /\ MarkCommitted(drain.on) /\ UNCHANGED <<older, completion, timer>>
        BY <1>1, <2>1, <2>2, MarkedFacts DEF MarkCommitted, Receives
    <2>3. CASE AttemptFails(drain.on, row, TRUE, FALSE) /\ UNCHANGED disk
        BY <1>1, <2>1, <2>3, FailedAsItWas
    <2> QED BY <1>3, <2>2, <2>3 DEF CommitAnswers
<1> QED BY <1>2, <1>3

(* The answer to a finalization tells what the Backend was asked, or nothing. *)
Tells(s) == proven' = [proven EXCEPT ![s] = drain.proof]
LEMMA FinalizationOutcome ==
    ASSUME Types, DrainInv, FinalizationAnswers
    PROVE  LET s == drain.on IN
           /\ s \in Sessions /\ drain.pc = "complete"
           /\ row' \in [Turns -> Row] /\ Rests
           /\ TimerType /\ older' = older /\ drain' \in {Idle, Picking}
           /\ phase = "active" /\ drain' = Idle => timer'.on
           /\ \/ Tells(s) /\ completion' = [completion EXCEPT ![s] = IF Current(s)
                    THEN [@ EXCEPT !.state = "FINALIZED", !.next = "now"] ELSE @]
              \/ (Tells(s) \/ UNCHANGED proven) /\ Holds
<1>1. drain.on \in Sessions /\ drain.pc = "complete" /\ completion[drain.on].state = "PENDING"
    BY DEF DrainInv, FinalizationAnswers
<1>2. PICK s \in Sessions : s = drain.on
    BY <1>1
<1>3. Picking # Idle
    BY DEF Picking, Idle, At
<1>4. CASE /\ Tells(s) /\ drain' = Picking /\ UNCHANGED <<row, older, timer>>
           /\ completion' = [completion EXCEPT ![s] = IF Current(s)
                    THEN [@ EXCEPT !.state = "FINALIZED", !.next = "now"] ELSE @]
    BY <1>1, <1>2, <1>3, <1>4, SameWork, SameTypes DEF Rests
<1>5. CASE (Tells(s) \/ UNCHANGED proven) /\ FinalizationDeferred(s)
    <2>1. CASE phase # "active"
        BY <1>1, <1>2, <1>5, <2>1, SameWork, SameTypes DEF FinalizationDeferred, db, Rests
    <2>2. CASE phase = "active" /\ s \notin owner
        BY <1>1, <1>2, <1>3, <1>5, <2>2, DeferFacts DEF FinalizationDeferred, Rests
    <2>3. CASE phase = "active" /\ s \in owner
        <3>1. PICK retryable \in BOOLEAN, missing \in BOOLEAN :
                    /\ completion' = IF ~Current(s) THEN completion
                          ELSE [completion EXCEPT ![s].missing = missing,
                                   ![s].next = IF retryable THEN "later" ELSE "never"]
                    /\ IF retryable THEN ScheduleDrain({s}) ELSE UNCHANGED timer
                    /\ UNCHANGED <<row, older>> /\ drain' = Picking
            BY <1>5, <2>3 DEF FinalizationDeferred
        <3>2. PICK c \in Completion : c = completion[s]
            BY DEF Types
        <3>3. PICK d \in Deadlines : d = IF retryable THEN "later" ELSE "never"
            BY DEF Deadlines
        <3>4. [c EXCEPT !.missing = missing, !.next = d] \in Completion
            BY Zenon, CompletionEdits
        <3>5. /\ [c EXCEPT !.missing = missing, !.next = d].state = c.state
              /\ [c EXCEPT !.missing = missing, !.next = d].through = c.through
            BY DEF Completion
        <3>6. completion' = completion \/ completion' = [completion EXCEPT ![s] = [c EXCEPT !.missing = missing, !.next = d]]
            BY <3>1, <3>2, <3>3 DEF Types
        <3>7. Holds
            BY <3>2, <3>4, <3>5, <3>6 DEF Holds, Types
        <3>8. TimerType
            BY <3>1, ScheduleFacts, SameTypes
        <3> QED BY <1>1, <1>2, <1>3, <1>5, <3>1, <3>7, <3>8, SameWork DEF Rests
    <2> QED BY <2>1, <2>2, <2>3
<1> QED BY <1>2, <1>4, <1>5 DEF FinalizationAnswers, Tells

LEMMA DrainTypes ==
    ASSUME Types, OrderInv, CloudInv, DrainInv, AdvanceSteps
    PROVE  Types'
<1>0. Gives => completion' \in [Sessions -> Completion] /\ TimerType /\ DrainType
    BY PauseType DEF Gives, Holds
<1>1. ASSUME PickTurn PROVE Types'
    <2>1. CASE \E t \in Ready : drain' = Advance(t) /\ UNCHANGED <<db, timer>>
        <3>1. PICK t \in Ready : drain' = Advance(t) /\ UNCHANGED <<db, timer>>
            BY <2>1
        <3>2. t \in Turns /\ row[t].state \in Uploading
            BY DEF Ready
        <3>3. DrainType
            BY <3>1, <3>2 DEF Advance, At, DrainType, Uploading
        <3> QED BY <1>1, <3>1, <3>3, SameTypes, QuietTypes DEF PickTurn, db, DrainType
    <2>2. CASE Rests /\ Holds /\ TimerType /\ drain' = drain
        BY <1>1, <2>2, SameTypes, QuietTypes DEF PickTurn, Rests, Holds, DrainType
    <2> QED BY <1>1, <2>1, <2>2, PickOutcome
<1>2. ASSUME NEW s \in Sessions, PickFinalization(s) PROVE Types'
    <2>1. CASE drain' = [At("complete", s) EXCEPT !.proof = completion[s].through] /\ UNCHANGED <<db, timer>>
        <3>1. completion[s].through \in SUBSET Turns
            BY DEF Types, Completion
        <3>2. DrainType
            BY <2>1, <3>1 DEF At, DrainType
        <3> QED BY <1>2, <2>1, <3>2, SameTypes, QuietTypes DEF PickFinalization, db, DrainType
    <2>2. CASE Rests /\ Holds /\ TimerType /\ drain' = drain
        BY <1>2, <2>2, SameTypes, QuietTypes DEF PickFinalization, Rests, Holds, DrainType
    <2> QED BY <1>2, <2>1, <2>2, FinalizationPicked
<1>3. ASSUME DrainEnds PROVE Types'
    <2>1. DrainType
        BY <1>3, PauseType DEF DrainEnds
    <2> QED BY <1>3, <2>1, SameTypes, QuietTypes DEF DrainEnds, db, DrainType
<1>4. ASSUME FilePrepared PROVE Types'
    <2>1. DrainType /\ row' \in [Turns -> Row] /\ completion' \in [Sessions -> Completion] /\ TimerType
        <3>1. CASE Rests /\ Gives
            BY <3>1, <1>0 DEF Rests
        <3>2. CASE drain' = [drain EXCEPT !.pc = "prepare"] /\ UNCHANGED <<db, timer>>
            BY <3>2, SameTypes DEF Types, DrainType, db
        <3> QED BY <1>4, <3>1, <3>2, FileOutcome
    <2>2. object' \in [Turns -> 0..MaxEvents]
        BY <1>4, FileOutcome DEF Types, FilePrepared
    <2> QED BY <1>4, <2>1, <2>2 DEF FilePrepared, Types, cloud, DrainType, TimerType
<1>5. ASSUME PrepareAnswers PROVE Types'
    <2>0. drain.on \in Turns
        BY <1>5 DEF DrainInv, PrepareAnswers
    <2>1. CASE Receives(drain.on) /\ UNCHANGED intent
        <3>1. PICK ts \in SUBSET Turns : Unspool(ts)
            BY <2>0, <2>1 DEF Receives
        <3> QED BY <1>5, <2>1, <3>1, UnspoolTypes, PauseType, SameTypes DEF PrepareAnswers, Receives, Becomes, Types, DrainType, TimerType
    <2>2. CASE Proceeds(drain.on, "PREPARED", "put") /\ intent' = intent \cup {drain.on}
        BY <1>5, <2>0, <2>2 DEF PrepareAnswers, Proceeds, Becomes, Types, disk
    <2>3. CASE Rests /\ Gives /\ UNCHANGED <<disk, intent>>
        BY <1>0, <1>5, <2>3 DEF PrepareAnswers, Types, disk, Rests, TimerType, DrainType
    <2> QED BY <1>5, <2>1, <2>2, <2>3, PrepareOutcome
<1>6. ASSUME CredentialExpired PROVE Types'
    <2>1. Becomes(drain.on, "SEALED") /\ Gives
        BY <1>6, FailedUnprepared DEF CredentialExpired
    <2> QED BY <1>0, <1>6, <2>1, QuietTypes DEF CredentialExpired, Becomes, DrainType
<1>7. ASSUME PutAnswers PROVE Types'
    <2>0. drain.on \in Turns /\ row[drain.on].state = "PREPARED"
        BY <1>7 DEF DrainInv, PutAnswers, Stage
    <2>1. row' \in [Turns -> Row] /\ completion' \in [Sessions -> Completion] /\ TimerType /\ DrainType
        <3>1. CASE Proceeds(drain.on, "UPLOADED", "commit")
            BY <3>1, SameTypes DEF Proceeds, Becomes, Types, DrainType
        <3>2. CASE Rests /\ Gives
            BY <3>2, <1>0 DEF Rests
        <3> QED BY <1>7, <3>1, <3>2, PutOutcome
    <2>2. object[drain.on] \in 1..MaxEvents
        BY <2>0, TurnConstants DEF CloudInv, Types
    <2>3. stored' \subseteq Turns \X (1..MaxEvents)
        BY <1>7, <2>0, <2>2 DEF PutAnswers, Types
    <2> QED BY <1>7, <2>1, <2>3 DEF PutAnswers, Types, disk, TimerType, DrainType
<1>8. ASSUME CommitAnswers PROVE Types'
    <2>0. drain.on \in Turns
        BY <1>8 DEF DrainInv, CommitAnswers
    <2>1. CASE Becomes(drain.on, "SEALED") /\ Gives /\ UNCHANGED <<disk, committed>>
        BY <1>0, <1>8, <2>1 DEF CommitAnswers, Becomes, Types, disk, TimerType, DrainType
    <2>2. CASE committed' = [committed EXCEPT ![drain.on] = object[drain.on]] /\ Receives(drain.on)
        <3>1. PICK ts \in SUBSET Turns : Unspool(ts)
            BY <2>0, <2>2 DEF Receives
        <3>2. committed' \in [Turns -> 0..MaxEvents]
            BY <2>0, <2>2 DEF Types
        <3> QED BY <1>8, <2>2, <3>1, <3>2, UnspoolTypes, PauseType, SameTypes DEF CommitAnswers, Receives, Becomes, Types, DrainType, TimerType
    <2>3. CASE /\ committed' = [committed EXCEPT ![drain.on] =
                       IF <<drain.on, object[drain.on]>> \in stored THEN object[drain.on] ELSE @]
               /\ Rests /\ Gives /\ UNCHANGED disk
        <3>2. committed' \in [Turns -> 0..MaxEvents]
            BY <2>0, <2>3 DEF Types
        <3> QED BY <1>0, <1>8, <2>3, <3>2 DEF CommitAnswers, Rests, Types, disk, TimerType, DrainType
    <2> QED BY <1>8, <2>1, <2>2, <2>3, CommitOutcome
<1>9. ASSUME CallFails PROVE Types'
    <2>1. Rests /\ Gives
        BY <1>9, FailedAsItWas DEF CallFails
    <2> QED BY <1>0, <1>9, <2>1, QuietTypes DEF CallFails, Rests, DrainType
<1>10. ASSUME FinalizationAnswers PROVE Types'
    <2>1. PICK s \in Sessions : s = drain.on
        BY <1>10, FinalizationOutcome
    <2>2. completion' \in [Sessions -> Completion]
        <3>1. CASE Holds
            BY <3>1 DEF Holds
        <3>2. CASE completion' = [completion EXCEPT ![s] = IF Current(s)
                    THEN [@ EXCEPT !.state = "FINALIZED", !.next = "now"] ELSE @]
            <4>1. completion[s] \in Completion /\ [completion[s] EXCEPT !.state = "FINALIZED", !.next = "now"] \in Completion
                BY Zenon, CompletionEdits DEF Types
            <4> QED BY <3>2, <4>1 DEF Types
        <3> QED BY <1>10, <2>1, <3>1, <3>2, FinalizationOutcome
    <2>3. proven' \in [Sessions -> SUBSET Turns]
        BY <1>10, <2>1, FinalizationOutcome DEF Tells, Types
    <2>4. row' \in [Turns -> Row] /\ TimerType /\ DrainType
        BY <1>10, FinalizationOutcome, PauseType
    <2> QED BY <1>10, <2>2, <2>3, <2>4 DEF FinalizationAnswers, Types, disk, TimerType, DrainType
<1> QED BY <1>1, <1>2, <1>3, <1>4, <1>5, <1>6, <1>7, <1>8, <1>9, <1>10 DEF AdvanceSteps

-----------------------------------------------------------------------------
\* Crashes may leave the files of a committed turn behind; bindings reopen committed
\* turns and would then find them.
Tidy == "crash" \notin Faults \/ "binding" \notin Faults
\* Where a turn's events and their copy are; without a row there are no files.
KeptOf(t) ==
    /\ row[t].state = "none" => spool[t] = 0 /\ object[t] = 0
    /\ row[t].state = "OPEN" => spool[t] >= row[t].size /\ object[t] = 0
    /\ row[t].state \in Uploading => spool[t] >= row[t].size /\ object[t] \in {0, spool[t]}
    /\ row[t].state = "COMMITTED" => committed[t] >= row[t].size /\ committed[t] >= spool[t]
    /\ row[t].state = "COMMITTED" /\ "crash" \notin Faults => spool[t] = 0 /\ object[t] = 0
Kept == ("binding" \notin Faults => binding = None) /\ (Tidy => \A t \in Turns : KeptOf(t))

HistInv == HistoryProven /\ \A s \in Sessions : completion[s].through \subseteq Of(s)

OutboxInv ==
    /\ Types /\ OpenInv /\ DownInv /\ DrainInv /\ CloudInv
    /\ HistInv /\ OrderInv /\ Kept

(* What a step may do to a turn and to a history for each part to hold on. *)
Flows(t) ==
    /\ row[t].state = "COMMITTED" => row'[t].state = "COMMITTED"
    /\ row[t].state # "none" => row'[t].state # "none"
    /\ committed[t] > 0 => committed'[t] > 0
Stills(t) ==
    /\ row'[t].state = row[t].state /\ row'[t].size = row[t].size
    /\ spool'[t] = spool[t] \/ (row[t].state = "OPEN" /\ spool'[t] >= spool[t])
    /\ object'[t] = object[t] \/ (row[t].state = "SEALED" /\ object'[t] = spool[t])
    /\ committed'[t] = committed[t] \/ (row[t].state # "COMMITTED" /\ committed'[t] > 0)
HistStep(s) ==
    /\ completion'[s].through \subseteq Of(s)
    /\ proven'[s] = proven[s] \/ \A t \in proven'[s] : row[t].state = "COMMITTED"
    /\ completion'[s].state = "FINALIZED" =>
          \/ /\ completion[s].state = "FINALIZED" /\ completion'[s].through = completion[s].through
             /\ proven'[s] = proven[s]
          \/ /\ completion'[s].through \subseteq proven'[s]
             /\ \A t \in completion'[s].through : row[t].state = "COMMITTED"

LEMMA KeepHist ==
    ASSUME Types, Types', CloudInv, HistInv, \A t \in Turns : Flows(t), \A s \in Sessions : HistStep(s)
    PROVE  HistInv'
<1> SUFFICES ASSUME NEW s \in Sessions
             PROVE  /\ \A t \in proven'[s] : committed'[t] > 0
                    /\ completion'[s].state = "FINALIZED" =>
                          /\ completion'[s].through \subseteq proven'[s]
                          /\ \A t \in completion'[s].through : row'[t].state = "COMMITTED"
                    /\ completion'[s].through \subseteq Of(s)
    BY DEF HistInv, HistoryProven, Of
<1>1. HistStep(s)
    OBVIOUS
<1>2. /\ \A t \in proven[s] : t \in Turns /\ committed[t] > 0
      /\ \A t \in proven'[s] : t \in Turns
      /\ completion[s].through \subseteq Turns /\ completion'[s].through \subseteq Turns
    BY DEF HistInv, HistoryProven, Types, Completion
<1>3. \A t \in proven'[s] : committed'[t] > 0
    BY <1>1, <1>2 DEF HistStep, Flows, CloudInv
<1>4. completion[s].state = "FINALIZED" =>
          /\ completion[s].through \subseteq proven[s]
          /\ \A t \in completion[s].through : row[t].state = "COMMITTED"
    BY DEF HistInv, HistoryProven
<1>5. ASSUME completion'[s].state = "FINALIZED"
      PROVE  /\ completion'[s].through \subseteq proven'[s]
             /\ \A t \in completion'[s].through : row[t].state = "COMMITTED"
    BY <1>1, <1>4, <1>5 DEF HistStep
<1> QED BY <1>1, <1>2, <1>3, <1>5 DEF HistStep, Flows

LEMMA HeldHist ==
    ASSUME HistInv, Holds, UNCHANGED proven
    PROVE  \A s \in Sessions : HistStep(s)
BY DEF HistInv, Holds, HistStep

LEMMA KeepOrder ==
    ASSUME OrderInv, older' = older, \A t \in Turns : Flows(t)
    PROVE  OrderInv'
BY DEF OrderInv, Flows, Present, Exists

LEMMA StillFlows ==
    ASSUME \A t \in Turns : Stills(t)
    PROVE  \A t \in Turns : Flows(t)
BY DEF Stills, Flows

(* Most steps leave every row in its state. *)
LEMMA KeepStill ==
    ASSUME OutboxInv, Types', \A t \in Turns : Stills(t), \A s \in Sessions : HistStep(s),
           older' = older, binding' = binding \/ binding' = None \/ "binding" \in Faults
    PROVE  CloudInv' /\ HistInv' /\ OrderInv' /\ Kept'
<1>1. HistInv' /\ OrderInv'
    BY StillFlows, KeepHist, KeepOrder DEF OutboxInv
<1>2. \A t \in Turns : /\ spool[t] \in Nat /\ object[t] \in Nat /\ committed[t] \in Nat /\ row[t].size \in Nat
                       /\ spool'[t] \in Nat /\ object'[t] \in Nat /\ committed'[t] \in Nat
    BY TurnConstants DEF OutboxInv, Types, Row
<1>3. CloudInv'
    <2> SUFFICES ASSUME NEW t \in Turns
                 PROVE  /\ row'[t].state \in {"PREPARED", "UPLOADED"} => object'[t] > 0
                        /\ row'[t].state = "COMMITTED" => committed'[t] > 0
        BY DEF CloudInv
    <2>1. Stills(t) /\ CloudInv
        BY DEF OutboxInv
    <2> QED BY <1>2, <2>1 DEF Stills, CloudInv
<1>4. ASSUME Tidy, NEW t \in Turns, KeptOf(t) PROVE KeptOf(t)'
    <2>1. Stills(t)
        OBVIOUS
    <2> QED BY <1>2, <1>4, <2>1 DEF Stills, KeptOf, Uploading
<1> QED BY <1>1, <1>3, <1>4 DEF OutboxInv, Kept

LEMMA QuietStills ==
    ASSUME Rests, UNCHANGED <<spool, object, committed>>
    PROVE  \A t \in Turns : Stills(t)
BY DEF Rests, Stills

(* The drain stays where it is, or goes on to the next row, or ends. *)
LEMMA KeepDrain ==
    ASSUME OutboxInv,
           \/ drain' \in {Idle, Picking}
           \/ /\ drain' = drain /\ UNCHANGED object
              /\ \A t \in Turns : row[t].state \in Uploading \cup {"COMMITTED"} => row'[t].state = row[t].state
              /\ \A s \in Sessions : completion[s].state = "PENDING" => completion'[s].state = "PENDING"
    PROVE  DrainInv'
<1>1. CASE drain' \in {Idle, Picking}
    BY <1>1 DEF DrainInv, Idle, Picking, At
<1>2. CASE /\ drain' = drain /\ UNCHANGED object
           /\ \A t \in Turns : row[t].state \in Uploading \cup {"COMMITTED"} => row'[t].state = row[t].state
           /\ \A s \in Sessions : completion[s].state = "PENDING" => completion'[s].state = "PENDING"
    <2>1. DrainInv /\ Types
        BY DEF OutboxInv
    <2>2. \A pc : Stage(pc) \in Uploading
        BY DEF Stage, Uploading
    <2>3. \A t \in drain.proof : t \in Turns
        BY <2>1 DEF Types
    <2> QED BY <1>2, <2>1, <2>2, <2>3 DEF DrainInv, Of
<1> QED BY <1>1, <1>2

LEMMA KeepUp ==
    ASSUME OutboxInv, phase # "down", phase' # "down",
           \/ capturing' \in Sessions \cup {None}
           \/ /\ capturing' = capturing
              /\ \A t \in Turns : row[t].state = "OPEN" => row'[t].state = "OPEN" /\ row'[t].size = row[t].size
    PROVE  OpenInv' /\ DownInv'
BY TurnConstants DEF OutboxInv, OpenInv, DownInv, Types

(* A step that moves deadlines only. *)
LEMMA KeepQuiet ==
    ASSUME OutboxInv, Types', Rests, Holds, older' = older, UNCHANGED <<spool, object, committed, proven>>,
           drain' \in {drain, Idle, Picking}, binding' = binding \/ binding' = None \/ "binding" \in Faults
    PROVE  CloudInv' /\ HistInv' /\ OrderInv' /\ Kept' /\ DrainInv'
<1>1. \A t \in Turns : Stills(t)
    BY QuietStills
<1>2. \A s \in Sessions : HistStep(s)
    BY HeldHist DEF OutboxInv
<1>3. CloudInv' /\ HistInv' /\ OrderInv' /\ Kept'
    BY <1>1, <1>2, KeepStill
<1>4. DrainInv'
    BY KeepDrain DEF Rests, Holds
<1> QED BY <1>3, <1>4

LEMMA KeepUpQuiet ==
    ASSUME OutboxInv, phase # "down", phase' # "down", Rests, capturing' = capturing \/ capturing' \in Sessions \cup {None}
    PROVE  OpenInv' /\ DownInv'
BY KeepUp DEF Rests

LEMMA DrainsUp ==
    ASSUME OutboxInv, drain # Idle
    PROVE  phase # "down"
BY DEF OutboxInv, DownInv

(* One row changes its state while nothing else is decided. *)
LEMMA KeepRest ==
    ASSUME OutboxInv, Types', NEW t \in Turns, NEW x, Becomes(t, x), row[t].state \in Uploading,
           x \in Uploading \cup {"COMMITTED"}, Holds, older' = older, UNCHANGED proven, binding' \in {binding, None},
           \A u \in Turns : committed[u] > 0 => committed'[u] > 0,
           \A u \in Turns : u # t => spool'[u] = spool[u] /\ object'[u] = object[u] /\ committed'[u] = committed[u],
           x \in {"PREPARED", "UPLOADED"} => object'[t] > 0,
           x = "COMMITTED" => committed'[t] > 0,
           KeptOf(t) => KeptOf(t)'
    PROVE  CloudInv' /\ HistInv' /\ OrderInv' /\ Kept'
<1>1. \A u \in Turns : Flows(u)
    BY DEF Becomes, Flows, Uploading
<1>2. \A s \in Sessions : HistStep(s)
    BY HeldHist DEF OutboxInv
<1>3. HistInv' /\ OrderInv'
    BY <1>1, <1>2, KeepHist, KeepOrder DEF OutboxInv
<1>4. CloudInv'
    <2> SUFFICES ASSUME NEW u \in Turns
                 PROVE  /\ row'[u].state \in {"PREPARED", "UPLOADED"} => object'[u] > 0
                        /\ row'[u].state = "COMMITTED" => committed'[u] > 0
        BY DEF CloudInv
    <2> QED BY DEF OutboxInv, CloudInv, Becomes
<1>5. ASSUME NEW u \in Turns, KeptOf(u) PROVE KeptOf(u)'
    <2>1. CASE u = t
        BY <1>5, <2>1
    <2>2. CASE u # t
        BY <1>5, <2>2 DEF KeptOf, Becomes
    <2> QED BY <2>1, <2>2
<1> QED BY <1>3, <1>4, <1>5 DEF OutboxInv, Kept

LEMMA PickTurnStep ==
    ASSUME OutboxInv, PickTurn
    PROVE  OutboxInv'
<1>1. Types'
    BY DrainTypes DEF OutboxInv, AdvanceSteps
<1>2. drain = Picking /\ UNCHANGED <<disk, cloud, phase, capturing, binding, owner>>
    BY DEF PickTurn
<1>3. drain # Idle
    BY <1>2 DEF Idle, Picking, At
<1>4. CASE Rests /\ Holds /\ TimerType /\ older' = older /\ drain' = drain
    BY <1>1, <1>2, <1>3, <1>4, KeepQuiet, KeepUpQuiet, DrainsUp DEF disk, cloud, OutboxInv
<1>5. CASE \E t \in Ready : drain' = Advance(t) /\ UNCHANGED <<db, timer>>
    <2>1. PICK t \in Ready : drain' = Advance(t) /\ UNCHANGED <<db, timer>>
        BY <1>5
    <2>2. t \in Turns /\ row[t].state \in Uploading
        BY DEF Ready
    <2>3. drain' \in {At("file", t), At("put", t), At("commit", t)} /\ row[t].state = Stage(drain'.pc)
        BY <2>1, <2>2 DEF Advance, At, Uploading, Stage
    <2>4. DrainInv'
        BY <2>1, <2>2, <2>3 DEF DrainInv, At, db
    <2>5. CloudInv' /\ HistInv' /\ OrderInv' /\ Kept'
        <3>1. Rests /\ Holds /\ older' = older
            BY <2>1, SameWork DEF OutboxInv, db
        <3>2. \A u \in Turns : Stills(u)
            BY <1>2, <3>1, QuietStills DEF disk, cloud
        <3>3. \A s \in Sessions : HistStep(s)
            BY <1>2, <3>1, HeldHist DEF OutboxInv, cloud
        <3> QED BY <1>1, <1>2, <3>1, <3>2, <3>3, KeepStill
    <2>6. OpenInv' /\ DownInv'
        BY <1>2, <1>3, <2>1, KeepUp, DrainsUp DEF db, OutboxInv
    <2> QED BY <1>1, <2>4, <2>5, <2>6 DEF OutboxInv
<1> QED BY <1>4, <1>5, PickOutcome DEF OutboxInv

LEMMA PickFinalizationStep ==
    ASSUME OutboxInv, NEW s \in Sessions, PickFinalization(s)
    PROVE  OutboxInv'
<1>1. Types'
    BY DrainTypes DEF OutboxInv, AdvanceSteps
<1>2. drain = Picking /\ UNCHANGED <<disk, cloud, phase, capturing, binding, owner>>
    BY DEF PickFinalization
<1>3. drain # Idle
    BY <1>2 DEF Idle, Picking, At
<1>4. CASE Rests /\ Holds /\ TimerType /\ older' = older /\ drain' = drain
    BY <1>1, <1>2, <1>3, <1>4, KeepQuiet, KeepUpQuiet, DrainsUp DEF disk, cloud, OutboxInv
<1>5. CASE /\ Proved(s) /\ drain' = [At("complete", s) EXCEPT !.proof = completion[s].through]
           /\ UNCHANGED <<db, timer>>
    <2>1. drain'.pc = "complete" /\ drain'.on = s /\ drain'.proof = completion[s].through
        BY <1>5 DEF At
    <2>2. completion[s].state = "PENDING" /\ completion[s].through \subseteq Of(s)
        BY FinalizationPicked DEF ReadyToFinalize, OutboxInv, HistInv
    <2>3. DrainInv'
        BY <1>5, <2>1, <2>2 DEF DrainInv, db, Proved, Of
    <2>4. Rests /\ Holds /\ older' = older
        BY <1>5, SameWork DEF OutboxInv, db
    <2>5. CloudInv' /\ HistInv' /\ OrderInv' /\ Kept'
        <3>2. \A u \in Turns : Stills(u)
            BY <1>2, <2>4, QuietStills DEF disk, cloud
        <3>3. \A z \in Sessions : HistStep(z)
            BY <1>2, <2>4, HeldHist DEF OutboxInv, cloud
        <3> QED BY <1>1, <1>2, <2>4, <3>2, <3>3, KeepStill
    <2>6. OpenInv' /\ DownInv'
        BY <1>2, <1>3, <2>4, KeepUpQuiet, DrainsUp
    <2> QED BY <1>1, <2>3, <2>5, <2>6 DEF OutboxInv
<1> QED BY <1>4, <1>5, FinalizationPicked DEF OutboxInv

LEMMA DrainEndsStep ==
    ASSUME OutboxInv, DrainEnds
    PROVE  OutboxInv'
<1>1. Types'
    BY DrainTypes DEF OutboxInv, AdvanceSteps
<1>2. drain = Picking /\ drain' = Idle /\ UNCHANGED <<db, disk, cloud, phase, timer, capturing, binding, owner>>
    BY DEF DrainEnds
<1>3. drain # Idle
    BY <1>2 DEF Idle, Picking, At
<1>4. Rests /\ Holds /\ older' = older
    BY <1>2, SameWork DEF OutboxInv, db
<1> QED BY <1>1, <1>2, <1>3, <1>4, KeepQuiet, KeepUpQuiet, DrainsUp DEF disk, cloud, OutboxInv

LEMMA FilePreparedStep ==
    ASSUME OutboxInv, FilePrepared
    PROVE  OutboxInv'
<1>1. Types'
    BY DrainTypes DEF OutboxInv, AdvanceSteps
<1>2. drain.pc = "file" /\ UNCHANGED <<spool, torn, cloud, phase, capturing, binding, owner>>
    BY DEF FilePrepared
<1>3. drain # Idle
    BY <1>2 DEF Idle, At
<1>4. drain.on \in Turns /\ row[drain.on].state = "SEALED"
    BY <1>2 DEF OutboxInv, DrainInv, Stage
<1>5. CASE Rests /\ Gives /\ UNCHANGED object
    BY <1>1, <1>2, <1>3, <1>5, KeepQuiet, KeepUpQuiet, DrainsUp DEF cloud, OutboxInv, Gives
<1>6. CASE /\ spool[drain.on] # 0
           /\ object' = [object EXCEPT ![drain.on] = IF @ = 0 THEN spool[drain.on] ELSE @]
           /\ drain' = [drain EXCEPT !.pc = "prepare"] /\ UNCHANGED <<db, timer>>
    <2>1. Rests /\ Holds /\ older' = older
        BY <1>6, SameWork DEF OutboxInv, db
    <2>2. \A u \in Turns : Stills(u)
        BY <1>2, <1>4, <1>6, <2>1 DEF Stills, Rests, OutboxInv, Types, cloud
    <2>3. \A s \in Sessions : HistStep(s)
        BY <1>2, <2>1, HeldHist DEF OutboxInv, cloud
    <2>4. CloudInv' /\ HistInv' /\ OrderInv' /\ Kept'
        BY <1>1, <1>2, <2>1, <2>2, <2>3, KeepStill
    <2>5. drain'.pc = "prepare" /\ drain'.on = drain.on /\ drain'.proof = drain.proof
        BY <1>6 DEF OutboxInv, Types
    <2>6. object'[drain.on] > 0
        BY <1>4, <1>6, TurnConstants DEF OutboxInv, Types
    <2>7. DrainInv'
        BY <1>2, <1>4, <2>1, <2>5, <2>6 DEF DrainInv, Rests, OutboxInv, Stage
    <2>9. OpenInv' /\ DownInv'
        BY <1>2, <1>3, <2>1, KeepUpQuiet, DrainsUp
    <2> QED BY <1>1, <2>4, <2>7, <2>9 DEF OutboxInv
<1> QED BY <1>5, <1>6, FileOutcome DEF OutboxInv

LEMMA CallFailsStep ==
    ASSUME OutboxInv, CallFails
    PROVE  OutboxInv'
<1>1. Types'
    BY DrainTypes DEF OutboxInv, AdvanceSteps
<1>2. drain.pc \in {"prepare", "put", "commit"} /\ UNCHANGED <<disk, cloud, phase, capturing, binding, owner>>
    BY DEF CallFails
<1>3. drain # Idle
    BY <1>2 DEF Idle, At
<1>4. Rests /\ Gives
    BY <1>2, FailedAsItWas DEF CallFails, OutboxInv
<1> QED BY <1>1, <1>2, <1>3, <1>4, KeepQuiet, KeepUpQuiet, DrainsUp DEF disk, cloud, OutboxInv, Gives

(* A row that is prepared, uploaded or sent back keeps its files. *)
LEMMA StageKept ==
    ASSUME Types, Types', NEW t \in Turns, NEW x \in Uploading, Becomes(t, x), row[t].state \in Uploading,
           UNCHANGED <<spool, object>>, KeptOf(t)
    PROVE  KeptOf(t)'
BY DEF KeptOf, Becomes, Uploading

(* The files of a row go when the Backend has what was uploaded. *)
LEMMA ReceiptKept ==
    ASSUME Types, Types', NEW t \in Turns, Becomes(t, "COMMITTED"), row[t].state \in Uploading,
           object[t] > 0, committed'[t] = object[t], spool'[t] \in {0, spool[t]},
           "crash" \in Faults \/ (spool'[t] = 0 /\ object'[t] = 0), KeptOf(t)
    PROVE  KeptOf(t)'
<1>1. committed'[t] = spool[t] /\ spool[t] >= row[t].size /\ row'[t].size = row[t].size
    BY DEF KeptOf, Becomes
<1>2. spool[t] \in Nat /\ row[t].size \in Nat /\ committed'[t] \in Nat
    BY TurnConstants DEF Types, Row
<1>3. row'[t].state = "COMMITTED"
    BY DEF Becomes
<1> QED BY <1>1, <1>2, <1>3 DEF KeptOf, Uploading

LEMMA UnspoolFrame ==
    ASSUME Types, NEW t \in Turns, Unspool({t})
    PROVE  /\ spool'[t] = 0 /\ object'[t] = 0
           /\ \A u \in Turns : u # t => spool'[u] = spool[u] /\ object'[u] = object[u]
BY UnspoolTypes

LEMMA KeepUpBecomes ==
    ASSUME OutboxInv, phase # "down", phase' = phase, capturing' = capturing,
           NEW t \in Turns, NEW x, Becomes(t, x), row[t].state \in Uploading
    PROVE  OpenInv' /\ DownInv'
BY KeepUp DEF Becomes, Uploading

LEMMA ReceivesStep ==
    ASSUME OutboxInv, Types', NEW t \in Turns, Receives(t), row[t].state \in Uploading,
           object[t] > 0, committed' = [committed EXCEPT ![t] = object[t]],
           UNCHANGED <<proven, phase, capturing, binding>>, phase # "down"
    PROVE  OutboxInv'
<1>1. committed'[t] = object[t] /\ \A u \in Turns : u # t => committed'[u] = committed[u]
    BY DEF OutboxInv, Types
<1>2. Becomes(t, "COMMITTED") /\ Unspool({t}) /\ drain' = Picking /\ UNCHANGED <<older, completion>>
    BY DEF Receives
<1>3. Holds
    BY <1>2, SameWork DEF OutboxInv
<1>4. KeptOf(t) => KeptOf(t)'
    BY <1>1, <1>2, UnspoolFrame, ReceiptKept DEF OutboxInv
<1>5. CloudInv' /\ HistInv' /\ OrderInv' /\ Kept'
    BY <1>1, <1>2, <1>3, <1>4, UnspoolFrame, KeepRest DEF OutboxInv
<1>6. DrainInv'
    BY <1>2, KeepDrain
<1>7. OpenInv' /\ DownInv'
    BY <1>2, KeepUpBecomes
<1> QED BY <1>5, <1>6, <1>7 DEF OutboxInv

LEMMA ProceedsStep ==
    ASSUME OutboxInv, Types', NEW t \in Turns, t = drain.on, NEW x, NEW pc, Proceeds(t, x, pc),
           row[t].state \in Uploading, drain.pc \in {"prepare", "put"}, object[t] > 0,
           <<x, pc>> \in {<<"PREPARED", "put">>, <<"UPLOADED", "commit">>},
           UNCHANGED <<committed, proven, phase, capturing, binding>>
    PROVE  OutboxInv'
<1>1. Becomes(t, x) /\ drain' = [drain EXCEPT !.pc = pc] /\ UNCHANGED <<older, completion, timer, disk>>
    BY DEF Proceeds
<1>2. x \in Uploading /\ x = Stage(pc)
    BY DEF Uploading, Stage
<1>3. Holds
    BY <1>1, SameWork DEF OutboxInv
<1>4. KeptOf(t) => KeptOf(t)'
    BY <1>1, <1>2, StageKept DEF OutboxInv, disk
<1>5. CloudInv' /\ HistInv' /\ OrderInv' /\ Kept'
    BY <1>1, <1>2, <1>3, <1>4, KeepRest DEF OutboxInv, disk
<1>6. drain'.pc = pc /\ drain'.on = t /\ drain'.proof = drain.proof
    BY <1>1 DEF OutboxInv, Types
<1>7. DrainInv'
    <2>1. drain.proof = {} /\ pc \in {"put", "commit"}
        BY DEF OutboxInv, DrainInv
    <2>2. row'[t].state = Stage(pc)
        BY <1>1, <1>2 DEF Becomes
    <2> QED BY <1>6, <2>1, <2>2 DEF DrainInv
<1>8. phase # "down"
    BY DrainsUp DEF Idle, At
<1>9. OpenInv' /\ DownInv'
    BY <1>1, <1>8, KeepUpBecomes
<1> QED BY <1>5, <1>7, <1>9 DEF OutboxInv

LEMMA SentBackStep ==
    ASSUME OutboxInv, Types', NEW t \in Turns, Becomes(t, "SEALED"), Gives, row[t].state \in Uploading,
           UNCHANGED <<disk, committed, proven, phase, capturing, binding>>, phase # "down"
    PROVE  OutboxInv'
<1>1. "SEALED" \in Uploading
    BY DEF Uploading
<1>2. KeptOf(t) => KeptOf(t)'
    BY <1>1, StageKept DEF OutboxInv, disk
<1>3. CloudInv' /\ HistInv' /\ OrderInv' /\ Kept'
    BY <1>1, <1>2, KeepRest DEF OutboxInv, disk, Gives
<1>4. DrainInv'
    BY KeepDrain DEF Gives
<1>5. OpenInv' /\ DownInv'
    BY KeepUpBecomes
<1> QED BY <1>3, <1>4, <1>5 DEF OutboxInv

LEMMA RetriedStep ==
    ASSUME OutboxInv, Types', Rests, Gives, UNCHANGED <<disk, committed, proven, phase, capturing, binding>>,
           phase # "down"
    PROVE  OutboxInv'
BY KeepQuiet, KeepUpQuiet DEF disk, OutboxInv, Gives

LEMMA PrepareAnswersStep ==
    ASSUME OutboxInv, PrepareAnswers
    PROVE  OutboxInv'
<1>1. Types'
    BY DrainTypes DEF OutboxInv, AdvanceSteps
<1>2. drain.pc = "prepare" /\ UNCHANGED <<stored, committed, proven, phase, capturing, binding, owner>>
    BY DEF PrepareAnswers
<1>3. PICK t \in Turns : t = drain.on
    BY <1>2 DEF OutboxInv, DrainInv
<1>4. row[t].state \in Uploading /\ object[t] > 0
    BY <1>2, <1>3 DEF OutboxInv, DrainInv, Stage, Uploading
<1>5. phase # "down"
    BY <1>2, DrainsUp DEF Idle, At
<1>6. CASE committed[t] = object[t] /\ Receives(t)
    <2>1. committed' = [committed EXCEPT ![t] = object[t]]
        BY <1>2, <1>6 DEF OutboxInv, Types
    <2> QED BY <1>1, <1>2, <1>4, <1>5, <1>6, <2>1, ReceivesStep
<1>7. CASE Proceeds(t, "PREPARED", "put")
    BY <1>1, <1>2, <1>3, <1>4, <1>7, ProceedsStep
<1>8. CASE Rests /\ Gives /\ UNCHANGED <<disk, intent>>
    BY <1>1, <1>2, <1>5, <1>8, RetriedStep
<1> QED BY <1>3, <1>6, <1>7, <1>8, PrepareOutcome DEF OutboxInv

LEMMA CredentialExpiredStep ==
    ASSUME OutboxInv, CredentialExpired
    PROVE  OutboxInv'
<1>1. Types'
    BY DrainTypes DEF OutboxInv, AdvanceSteps
<1>2. drain.pc = "put" /\ UNCHANGED <<disk, cloud, phase, capturing, binding, owner>>
    BY DEF CredentialExpired
<1>3. PICK t \in Turns : t = drain.on
    BY <1>2 DEF OutboxInv, DrainInv
<1>4. row[t].state \in Uploading
    BY <1>2, <1>3 DEF OutboxInv, DrainInv, Stage, Uploading
<1>5. phase # "down"
    BY <1>2, DrainsUp DEF Idle, At
<1>6. Becomes(t, "SEALED") /\ Gives
    BY <1>2, <1>3, FailedUnprepared DEF CredentialExpired, OutboxInv
<1> QED BY <1>1, <1>2, <1>4, <1>5, <1>6, SentBackStep DEF cloud

LEMMA PutAnswersStep ==
    ASSUME OutboxInv, PutAnswers
    PROVE  OutboxInv'
<1>1. Types'
    BY DrainTypes DEF OutboxInv, AdvanceSteps
<1>2. drain.pc = "put" /\ UNCHANGED <<disk, committed, proven, phase, capturing, binding, owner>>
    BY DEF PutAnswers
<1>3. PICK t \in Turns : t = drain.on
    BY <1>2 DEF OutboxInv, DrainInv
<1>4. row[t].state \in Uploading /\ object[t] > 0
    BY <1>2, <1>3 DEF OutboxInv, DrainInv, CloudInv, Stage, Uploading
<1>5. phase # "down"
    BY <1>2, DrainsUp DEF Idle, At
<1>6. CASE Proceeds(t, "UPLOADED", "commit")
    BY <1>1, <1>2, <1>3, <1>4, <1>6, ProceedsStep
<1>7. CASE Rests /\ Gives
    BY <1>1, <1>2, <1>5, <1>7, RetriedStep
<1> QED BY <1>3, <1>6, <1>7, PutOutcome DEF OutboxInv

LEMMA CommitAnswersStep ==
    ASSUME OutboxInv, CommitAnswers
    PROVE  OutboxInv'
<1>1. Types'
    BY DrainTypes DEF OutboxInv, AdvanceSteps
<1>2. drain.pc = "commit" /\ UNCHANGED <<intent, stored, proven, phase, capturing, binding, owner>>
    BY DEF CommitAnswers
<1>3. PICK t \in Turns : t = drain.on
    BY <1>2 DEF OutboxInv, DrainInv
<1>4. row[t].state = "UPLOADED" /\ row[t].state \in Uploading /\ object[t] > 0
    BY <1>2, <1>3 DEF OutboxInv, DrainInv, CloudInv, Stage, Uploading
<1>5. phase # "down"
    BY <1>2, DrainsUp DEF Idle, At
<1>6. CASE Becomes(t, "SEALED") /\ Gives /\ UNCHANGED <<disk, committed>>
    BY <1>1, <1>2, <1>4, <1>5, <1>6, SentBackStep
<1>7. CASE committed' = [committed EXCEPT ![t] = object[t]] /\ Receives(t)
    BY <1>1, <1>2, <1>4, <1>5, <1>7, ReceivesStep
<1>8. CASE /\ committed' = [committed EXCEPT ![t] = IF <<t, object[t]>> \in stored THEN object[t] ELSE @]
           /\ Rests /\ Gives /\ UNCHANGED disk
    <2>1. \A u \in Turns : Stills(u)
        BY <1>4, <1>8 DEF Stills, Rests, OutboxInv, Types, disk
    <2>2. \A s \in Sessions : HistStep(s)
        BY <1>2, <1>8, HeldHist DEF OutboxInv, Gives
    <2>3. CloudInv' /\ HistInv' /\ OrderInv' /\ Kept'
        BY <1>1, <1>2, <1>8, <2>1, <2>2, KeepStill DEF Gives
    <2>4. DrainInv'
        BY <1>8, KeepDrain DEF Gives
    <2>5. OpenInv' /\ DownInv'
        BY <1>2, <1>5, <1>8, KeepUpQuiet DEF Gives
    <2> QED BY <1>1, <2>3, <2>4, <2>5 DEF OutboxInv
<1> QED BY <1>3, <1>6, <1>7, <1>8, CommitOutcome DEF OutboxInv

LEMMA FinalizationAnswersStep ==
    ASSUME OutboxInv, FinalizationAnswers
    PROVE  OutboxInv'
<1>1. Types'
    BY DrainTypes DEF OutboxInv, AdvanceSteps
<1>2. drain.pc = "complete" /\ UNCHANGED <<disk, intent, stored, committed, phase, capturing, binding, owner>>
    BY DEF FinalizationAnswers
<1>3. PICK s \in Sessions : s = drain.on
    BY FinalizationOutcome DEF OutboxInv
<1>4. /\ Rests /\ TimerType /\ older' = older /\ drain' \in {Idle, Picking}
      /\ phase = "active" /\ drain' = Idle => timer'.on
      /\ \/ Tells(s) /\ completion' = [completion EXCEPT ![s] = IF Current(s)
                    THEN [@ EXCEPT !.state = "FINALIZED", !.next = "now"] ELSE @]
         \/ (Tells(s) \/ UNCHANGED proven) /\ Holds
    BY <1>3, FinalizationOutcome DEF OutboxInv
<1>5. phase # "down"
    BY <1>2, DrainsUp DEF Idle, At
<1>6. /\ completion[s].state = "PENDING" /\ drain.proof \subseteq Of(s)
      /\ \A t \in drain.proof : row[t].state = "COMMITTED"
    BY <1>2, <1>3 DEF OutboxInv, DrainInv
<1>7. \A t \in Turns : Stills(t)
    BY <1>2, <1>4, QuietStills DEF disk
<1>8. \A z \in Sessions : HistStep(z)
    <2> SUFFICES ASSUME NEW z \in Sessions PROVE HistStep(z)
        OBVIOUS
    <2>0. completion[z].through \subseteq Of(z)
        BY DEF OutboxInv, HistInv
    <2>1. CASE z # s
        BY <1>4, <2>0, <2>1 DEF HistStep, Holds, Tells, OutboxInv, Types
    <2>2. CASE z = s /\ Holds
        BY <1>4, <1>6, <2>0, <2>2 DEF HistStep, Holds, Tells, OutboxInv, Types
    <2>3. CASE /\ z = s /\ Tells(s)
               /\ completion' = [completion EXCEPT ![s] = IF Current(s)
                    THEN [@ EXCEPT !.state = "FINALIZED", !.next = "now"] ELSE @]
        <3>1. PICK c \in Completion : c = completion[s]
            BY DEF OutboxInv, Types
        <3>2. completion'[s] = IF Current(s) THEN [c EXCEPT !.state = "FINALIZED", !.next = "now"] ELSE c
            BY <2>3, <3>1 DEF OutboxInv, Types
        <3>3. [c EXCEPT !.state = "FINALIZED", !.next = "now"].through = c.through
            BY DEF Completion
        <3>4. completion'[s].through = c.through
            BY <3>2, <3>3
        <3>5. proven'[s] = drain.proof
            BY <2>3 DEF Tells, OutboxInv, Types
        <3>6. completion'[s].state = "FINALIZED" => Current(s)
            BY <1>6, <3>1, <3>2
        <3> QED BY <1>6, <2>0, <2>3, <3>1, <3>4, <3>5, <3>6 DEF HistStep, Current
    <2> QED BY <1>4, <2>1, <2>2, <2>3
<1>9. CloudInv' /\ HistInv' /\ OrderInv' /\ Kept'
    BY <1>1, <1>2, <1>4, <1>7, <1>8, KeepStill
<1>10. DrainInv' /\ OpenInv' /\ DownInv'
    BY <1>2, <1>4, <1>5, KeepDrain, KeepUpQuiet
<1> QED BY <1>1, <1>9, <1>10 DEF OutboxInv

-----------------------------------------------------------------------------
(* Captures. *)
LEMMA AppendBeginsStep ==
    ASSUME OutboxInv, NEW t \in Turns, AppendBegins(t)
    PROVE  OutboxInv'
<1>1. Types'
    BY CaptureTypes DEF OutboxInv, CaptureSteps
<1>2. /\ capturing = SessionOf[t]
      /\ row[t].state \in {"none", "OPEN"} /\ row[t].size < MaxEvents
      /\ row' = [row EXCEPT ![t] = IF Exists(t) THEN @ ELSE OpenRow]
      /\ older' = IF Exists(t) THEN older ELSE older \cup Present \X {t}
      /\ capturing' \in {t, None}
      /\ UNCHANGED <<completion, disk, cloud, phase, drain, timer, binding, pending, owner>>
    BY DEF AppendBegins
<1>3. OpenRow.state = "OPEN" /\ OpenRow.size = 0
    BY DEF OpenRow, NoRow
<1>4. row'[t].state = "OPEN" /\ \A u \in Turns : u # t => row'[u] = row[u]
    BY <1>2, <1>3 DEF OutboxInv, Types, Exists
<1>5. \A u \in Turns : Flows(u)
    BY <1>2, <1>4 DEF Flows, cloud
<1>6. \A s \in Sessions : HistStep(s)
    BY <1>2, SameWork, HeldHist DEF OutboxInv, cloud
<1>7. HistInv'
    BY <1>1, <1>5, <1>6, KeepHist DEF OutboxInv
<1>8. OrderInv'
    <2>1. CASE Exists(t)
        BY <1>2, <1>5, <2>1, KeepOrder DEF OutboxInv
    <2>2. CASE ~Exists(t)
        <3>1. Present' = Present \cup {t} /\ t \notin Present
            BY <1>4, <2>2 DEF Present, Exists
        <3>2. older' = older \cup Present \X {t}
            BY <1>2, <2>2
        <3>3. OrderInv
            BY DEF OutboxInv
        <3> HIDE DEF Present
        <3> QED BY <3>1, <3>2, <3>3 DEF OrderInv
    <2> QED BY <2>1, <2>2
<1>9. CloudInv'
    BY <1>2, <1>4 DEF OutboxInv, CloudInv, disk, cloud
<1>10. ASSUME NEW u \in Turns, KeptOf(u) PROVE KeptOf(u)'
    <2>1. CASE u = t
        <3>1. row'[t] = row[t] \/ (row[t].state = "none" /\ row'[t] = OpenRow)
            BY <1>2 DEF OutboxInv, Types, Exists
        <3> QED BY <1>2, <1>3, <1>4, <1>10, <2>1, <3>1 DEF KeptOf, disk, cloud, Uploading
    <2>2. CASE u # t
        BY <1>2, <1>4, <1>10, <2>2 DEF KeptOf, disk, cloud
    <2> QED BY <2>1, <2>2
<1>11. Kept'
    BY <1>2, <1>10 DEF Kept, OutboxInv
<1>12. DrainInv'
    BY <1>2, <1>4, KeepDrain DEF Uploading, disk
<1>13. row'[t].size < MaxEvents
    <2>1. CASE Exists(t)
        BY <1>2, <2>1 DEF OutboxInv, Types
    <2>2. CASE ~Exists(t)
        <3>1. row[t].state = "none"
            BY <2>2 DEF Exists
        <3>2. row'[t].size = 0 /\ row[t].size \in 0..MaxEvents
            BY <1>2, <1>3, <2>2 DEF OutboxInv, Types, Row
        <3> QED BY <1>2, <3>2, TurnConstants
    <2> QED BY <2>1, <2>2
<1>14. OpenInv' /\ DownInv'
    <2>1. capturing # None
        BY <1>2, TurnsAndSessions, TurnConstants
    <2>2. phase # "down"
        BY <2>1 DEF OutboxInv, DownInv
    <2> QED BY <1>2, <1>4, <1>13, <2>2, TurnConstants DEF OpenInv, DownInv
<1> QED BY <1>1, <1>7, <1>8, <1>9, <1>11, <1>12, <1>14 DEF OutboxInv

LEMMA AppendFailsStep ==
    ASSUME OutboxInv, NEW t \in Turns, AppendFails(t)
    PROVE  OutboxInv'
<1>1. Types'
    BY CaptureTypes DEF OutboxInv, CaptureSteps
<1>2. /\ t = capturing /\ capturing' = None
      /\ UNCHANGED <<db, object, cloud, phase, drain, timer, binding, owner>>
      /\ spool' = [spool EXCEPT ![t] = IF t \in torn' THEN AtLeast(@, 1) ELSE @]
    BY DEF AppendFails
<1>3. phase # "down" /\ row[t].state = "OPEN"
    BY <1>2, TurnConstants DEF OutboxInv, OpenInv
<1>4. Rests /\ Holds /\ older' = older
    BY <1>2, SameWork DEF OutboxInv, db
<1>5. spool[t] \in Nat /\ spool'[t] >= spool[t] /\ \A u \in Turns : u # t => spool'[u] = spool[u]
    BY <1>2, TurnConstants DEF OutboxInv, Types, AtLeast
<1>6. \A u \in Turns : Stills(u)
    BY <1>2, <1>3, <1>4, <1>5 DEF Stills, Rests, cloud
<1>7. \A s \in Sessions : HistStep(s)
    BY <1>2, <1>4, HeldHist DEF OutboxInv, cloud
<1>8. CloudInv' /\ HistInv' /\ OrderInv' /\ Kept'
    BY <1>1, <1>2, <1>4, <1>6, <1>7, KeepStill
<1>9. DrainInv'
    BY <1>2, <1>4, KeepDrain DEF Rests, Holds
<1>10. OpenInv' /\ DownInv'
    BY <1>2, <1>3, <1>4, KeepUpQuiet
<1> QED BY <1>1, <1>8, <1>9, <1>10 DEF OutboxInv

\* What a capture makes of its turn.
Grows(t, x, n) ==
    /\ row' \in [Turns -> Row] /\ row'[t].state = x /\ row'[t].size = n
    /\ \A u \in Turns : u # t => row'[u] = row[u]

LEMMA KeepCaptured ==
    ASSUME OutboxInv, Types', NEW t \in Turns, NEW x \in {"OPEN", "SEALED"}, NEW n, Grows(t, x, n),
           row[t].state = "OPEN", spool'[t] >= spool[t], Tidy => spool'[t] >= n,
           \A u \in Turns : u # t => spool'[u] = spool[u],
           UNCHANGED <<older, completion, object, cloud, phase, drain, binding>>,
           phase # "down", capturing' \in Sessions
    PROVE  OutboxInv'
<1>1. \A u \in Turns : Flows(u)
    BY DEF Grows, Flows, cloud
<1>2. \A s \in Sessions : HistStep(s)
    BY SameWork, HeldHist DEF OutboxInv, cloud
<1>3. HistInv' /\ OrderInv'
    BY <1>1, <1>2, KeepHist, KeepOrder DEF OutboxInv
<1>4. CloudInv'
    BY DEF OutboxInv, CloudInv, Grows, cloud
<1>5. ASSUME Tidy, NEW u \in Turns, KeptOf(u) PROVE KeptOf(u)'
    <2>1. CASE u = t
        BY <1>5, <2>1 DEF KeptOf, Grows, Uploading
    <2>2. CASE u # t
        BY <1>5, <2>2 DEF KeptOf, Grows, cloud
    <2> QED BY <2>1, <2>2
<1>6. Kept'
    BY <1>5 DEF Kept, OutboxInv
<1>7. DrainInv'
    BY KeepDrain DEF Grows, Uploading
<1>8. OpenInv' /\ DownInv'
    BY KeepUp
<1> QED BY <1>3, <1>4, <1>6, <1>7, <1>8 DEF OutboxInv

LEMMA AppendEndsStep ==
    ASSUME OutboxInv, NEW t \in Turns, NEW ended \in BOOLEAN, AppendEnds(t, ended)
    PROVE  OutboxInv'
<1>1. Types'
    BY CaptureTypes DEF OutboxInv, CaptureSteps
<1>2. t = capturing /\ row[t].state = "OPEN" /\ phase # "down" /\ row[t] \in Row
    BY TurnConstants DEF OutboxInv, OpenInv, AppendEnds, Types
<1>3. PICK x \in {"OPEN", "SEALED"} : x = IF ended THEN "SEALED" ELSE "OPEN"
    OBVIOUS
<1>4. PICK n : n = row[t].size + 1
    OBVIOUS
<1>5. Grows(t, x, n)
    <2>1. PICK r \in Row : r = row[t]
        BY <1>2
    <2>2. PICK d : d = IF ended THEN "now" ELSE r.next
        OBVIOUS
    <2>3. row' = [row EXCEPT ![t] = [r EXCEPT !.size = n, !.state = x, !.next = d]]
        BY <1>3, <1>4, <2>1, <2>2 DEF AppendEnds, OutboxInv, Types
    <2>4. [r EXCEPT !.size = n, !.state = x, !.next = d].state = x /\ [r EXCEPT !.size = n, !.state = x, !.next = d].size = n
        BY DEF Row
    <2> QED BY <1>1, <2>3, <2>4 DEF Grows, OutboxInv, Types
<1>6. row[t].size \in Nat /\ spool[t] \in Nat
    BY TurnConstants DEF OutboxInv, Types, Row
<1>7. spool' = [spool EXCEPT ![t] = AtLeast(@, n)]
    BY <1>4 DEF AppendEnds
<1>8. spool'[t] >= spool[t] /\ spool'[t] >= n /\ \A u \in Turns : u # t => spool'[u] = spool[u]
    BY <1>4, <1>6, <1>7 DEF AtLeast, OutboxInv, Types
<1>9. capturing' \in Sessions
    BY TurnsAndSessions DEF AppendEnds
<1> QED BY <1>1, <1>2, <1>5, <1>8, <1>9, KeepCaptured DEF AppendEnds

LEMMA SealInterruptedStep ==
    ASSUME OutboxInv, NEW t \in Turns, SealInterrupted(t)
    PROVE  OutboxInv'
<1>1. Types'
    BY CaptureTypes DEF OutboxInv, CaptureSteps
<1>2. /\ capturing = SessionOf[t] /\ row[t].state = "OPEN"
      /\ row' = [row EXCEPT ![t].state = "SEALED", ![t].next = "now"]
      /\ UNCHANGED <<older, completion, disk, cloud, phase, drain, capturing, binding, owner>>
    BY DEF SealInterrupted, memory
<1>3. PICK r \in Row : r = row[t]
    BY DEF OutboxInv, Types
<1>4. PICK n : n = row[t].size
    OBVIOUS
<1>5. Grows(t, "SEALED", n)
    <2>1. row' = [row EXCEPT ![t] = [r EXCEPT !.state = "SEALED", !.next = "now"]]
        BY <1>2, <1>3 DEF OutboxInv, Types
    <2>2. [r EXCEPT !.state = "SEALED", !.next = "now"].state = "SEALED" /\ [r EXCEPT !.state = "SEALED", !.next = "now"].size = r.size
        BY DEF Row
    <2> QED BY <1>1, <1>3, <1>4, <2>1, <2>2 DEF Grows, OutboxInv, Types
<1>6. capturing' \in Sessions /\ phase # "down"
    BY <1>2, TurnsAndSessions, TurnConstants DEF OutboxInv, DownInv
<1>7. row[t].size \in Nat /\ spool[t] \in Nat /\ UNCHANGED <<spool, object>>
    BY <1>2, TurnConstants DEF OutboxInv, Types, Row, disk
<1>8. Tidy => spool[t] >= n
    BY <1>2, <1>4 DEF OutboxInv, Kept, KeptOf
<1> QED BY <1>1, <1>2, <1>4, <1>5, <1>6, <1>7, <1>8, KeepCaptured

LEMMA CaptureDefersStep ==
    ASSUME OutboxInv, NEW s \in Sessions, CaptureDefers(s)
    PROVE  OutboxInv'
<1>1. Types'
    BY CaptureTypes DEF OutboxInv, CaptureSteps
<1>2. Rests /\ Holds /\ TimerType /\ Roused /\ older' = older
    BY DeferFacts DEF CaptureDefers, OutboxInv
<1> QED BY <1>1, <1>2, KeepQuiet, KeepUpQuiet DEF CaptureDefers, disk, cloud, OutboxInv

LEMMA CaptureBeginsStep ==
    ASSUME OutboxInv, NEW s \in Sessions, CaptureBegins(s)
    PROVE  OutboxInv'
<1>1. Types'
    BY CaptureTypes DEF OutboxInv, CaptureSteps
<1>2. Rests /\ Holds /\ older' = older
    BY SameWork DEF CaptureBegins, OutboxInv, db
<1> QED BY <1>1, <1>2, KeepQuiet, KeepUpQuiet DEF CaptureBegins, disk, cloud, OutboxInv

LEMMA CaptureEndsStep ==
    ASSUME OutboxInv, CaptureEnds
    PROVE  OutboxInv'
<1>1. Types'
    BY CaptureTypes DEF OutboxInv, CaptureSteps
<1>2. Rests /\ Holds /\ older' = older
    BY SameWork DEF CaptureEnds, OutboxInv, db
<1>3. phase # "down"
    BY TurnConstants DEF CaptureEnds, OutboxInv, DownInv
<1> QED BY <1>1, <1>2, <1>3, KeepQuiet, KeepUpQuiet DEF CaptureEnds, disk, cloud, OutboxInv

-----------------------------------------------------------------------------
(* The host, and time. *)
LEMMA HostCalm ==
    ASSUME OutboxInv, Types', Rests, Holds, older' = older, UNCHANGED <<disk, cloud, drain, capturing>>,
           phase # "down", phase' # "down", binding' = binding \/ binding' = None \/ "binding" \in Faults
    PROVE  OutboxInv'
BY KeepQuiet, KeepUpQuiet DEF disk, cloud, OutboxInv

LEMMA QueueStep ==
    ASSUME OutboxInv, NEW s \in Sessions, QueueHistoryFinalization(s)
    PROVE  OutboxInv'
<1>1. Types'
    BY HostTypes DEF OutboxInv, HostSteps
<1>2. /\ phase = "active" /\ UNCHANGED <<row, older, disk, cloud, phase, drain, capturing, binding, owner>>
      /\ ScheduleDrain({})
    BY DEF QueueHistoryFinalization
<1>3. PICK read \in SUBSET Of(s) : completion' = [completion EXCEPT ![s] =
              [NoCompletion EXCEPT !.state = "PENDING", !.through = read]]
    BY Zenon DEF QueueHistoryFinalization
<1>4. completion'[s].state = "PENDING" /\ completion'[s].through = read
      /\ \A z \in Sessions : z # s => completion'[z] = completion[z]
    BY <1>3 DEF OutboxInv, Types, NoCompletion
<1>5. Rests
    BY <1>2, SameWork DEF OutboxInv
<1>6. \A t \in Turns : Stills(t)
    BY <1>2, <1>5, QuietStills DEF disk, cloud
<1>7. \A z \in Sessions : HistStep(z)
    BY <1>2, <1>4 DEF HistStep, OutboxInv, HistInv, cloud
<1>8. CloudInv' /\ HistInv' /\ OrderInv' /\ Kept'
    BY <1>1, <1>2, <1>6, <1>7, KeepStill
<1>9. DrainInv'
    BY <1>2, <1>4, KeepDrain DEF disk
<1>10. OpenInv' /\ DownInv'
    BY <1>2, <1>5, KeepUpQuiet DEF OutboxInv
<1> QED BY <1>1, <1>8, <1>9, <1>10 DEF OutboxInv

LEMMA RestoreStep ==
    ASSUME OutboxInv, NEW s \in Sessions, RestoreHistoryReceipts(s)
    PROVE  OutboxInv'
<1>1. Types'
    BY HostTypes DEF OutboxInv, HostSteps
<1>2. PICK lost \in SUBSET Turns :
        /\ lost = {t \in Of(s) : ~Exists(t) /\ committed[t] > 0}
        /\ older' = older \cup Present \X lost
        /\ row' = [t \in Turns |-> IF t \in lost
                               THEN [NoRow EXCEPT !.state = "COMMITTED", !.size = committed[t]]
                               ELSE row[t]]
        /\ phase = "active" /\ UNCHANGED <<completion, disk, cloud, memory, owner>>
    BY Zenon DEF RestoreHistoryReceipts, Of
<1>3. \A t \in lost : /\ row'[t].state = "COMMITTED" /\ row'[t].size = committed[t]
                      /\ committed[t] > 0 /\ row[t].state = "none"
    BY Zenon, <1>2 DEF NoRow, Exists
<1>4. \A t \in Turns \ lost : row'[t] = row[t]
    BY Zenon, <1>2
<1>5. \A t \in Turns : Flows(t)
    BY Zenon, <1>2, <1>3, <1>4 DEF Flows, cloud
<1>6. \A z \in Sessions : HistStep(z)
    BY Zenon, <1>2, SameWork, HeldHist DEF OutboxInv, cloud
<1>7. HistInv'
    BY <1>1, <1>5, <1>6, KeepHist DEF OutboxInv
<1>8. OrderInv'
    <2>1. Present' = Present \cup lost /\ Present \cap lost = {}
        BY <1>3, <1>4 DEF Present, Exists
    <2>2. OrderInv /\ older' = older \cup Present \X lost
        BY Zenon, <1>2 DEF OutboxInv
    <2> HIDE DEF Present
    <2> QED BY <2>1, <2>2 DEF OrderInv
<1>9. CloudInv'
    <2> SUFFICES ASSUME NEW t \in Turns
                 PROVE  /\ row'[t].state \in {"PREPARED", "UPLOADED"} => object'[t] > 0
                        /\ row'[t].state = "COMMITTED" => committed'[t] > 0
        BY DEF CloudInv
    <2> QED BY Zenon, <1>2, <1>3, <1>4 DEF OutboxInv, CloudInv, disk, cloud
<1>10. ASSUME NEW t \in Turns, KeptOf(t) PROVE KeptOf(t)'
    <2>1. CASE t \in lost
        <3>1. row'[t].state = "COMMITTED" /\ row'[t].size = committed[t] /\ committed[t] \in Nat
              /\ spool[t] = 0 /\ object[t] = 0
            BY <1>3, <1>10, <2>1, TurnConstants DEF KeptOf, OutboxInv, Types
        <3>2. committed'[t] = committed[t] /\ spool'[t] = spool[t] /\ object'[t] = object[t]
            BY Zenon, <1>2 DEF disk, cloud
        <3> QED BY <3>1, <3>2 DEF KeptOf, Uploading
    <2>2. CASE t \notin lost
        BY Zenon, <1>2, <1>4, <1>10, <2>2 DEF KeptOf, disk, cloud
    <2> QED BY <2>1, <2>2
<1>11. Kept'
    BY Zenon, <1>2, <1>10 DEF Kept, OutboxInv, memory
<1>12. DrainInv'
    BY Zenon, <1>2, <1>3, <1>4, KeepDrain DEF Uploading, disk, memory
<1>13. OpenInv' /\ DownInv'
    BY Zenon, <1>2, <1>3, <1>4, KeepUp DEF memory
<1> QED BY <1>1, <1>7, <1>8, <1>9, <1>11, <1>12, <1>13 DEF OutboxInv

LEMMA ResumeStep ==
    ASSUME OutboxInv, NEW s \in Sessions, ResumePublished(s)
    PROVE  OutboxInv'
<1>1. Types'
    BY HostTypes DEF OutboxInv, HostSteps
<1>2. /\ phase = "active" /\ ScheduleDrain({})
      /\ UNCHANGED <<older, disk, cloud, phase, drain, capturing, binding, owner>>
    BY DEF ResumePublished
<1>3. Rests
    <2>1. PICK found : row' = [t \in Turns |-> IF t \in found
                               THEN [Reset(row[t]) EXCEPT !.missing = FALSE] ELSE row[t]]
        BY DEF ResumePublished
    <2>2. \A t \in Turns : /\ [Reset(row[t]) EXCEPT !.missing = FALSE].state = row[t].state
                           /\ [Reset(row[t]) EXCEPT !.missing = FALSE].size = row[t].size
        BY DEF OutboxInv, Types, Row, Reset
    <2> QED BY <1>1, <2>1, <2>2 DEF Types, Rests
<1>4. Holds
    <2>1. PICK c \in Completion : c = completion[s]
        BY DEF OutboxInv, Types
    <2>2. completion' = completion \/ completion' = [completion EXCEPT ![s] = [c EXCEPT !.next = "now", !.missing = FALSE]]
        BY <2>1 DEF ResumePublished, OutboxInv, Types
    <2>3. /\ [c EXCEPT !.next = "now", !.missing = FALSE].state = c.state
          /\ [c EXCEPT !.next = "now", !.missing = FALSE].through = c.through
        BY DEF Completion
    <2> QED BY <1>1, <2>1, <2>2, <2>3 DEF Holds, Types, OutboxInv
<1> QED BY <1>1, <1>2, <1>3, <1>4, HostCalm

LEMMA BindingBeginsStep ==
    ASSUME OutboxInv, NEW s \in Sessions, BindingBegins(s)
    PROVE  OutboxInv'
<1>1. Types'
    BY HostTypes DEF OutboxInv, HostSteps
<1>2. /\ "binding" \in Faults /\ phase = "active" /\ binding' = s
      /\ UNCHANGED <<db, disk, cloud, phase, drain, timer, capturing, owner>>
    BY DEF BindingBegins
<1>3. Rests /\ Holds
    BY <1>2, SameWork DEF OutboxInv, db
<1> QED BY <1>1, <1>2, <1>3, HostCalm DEF db

LEMMA HandedOverStep ==
    ASSUME OutboxInv, NEW s \in Sessions, HandedOver(s)
    PROVE  OutboxInv'
<1>1. Types'
    BY HostTypes DEF OutboxInv, HostSteps
<1> QED BY <1>1 DEF HandedOver, OutboxInv, OpenInv, DownInv, DrainInv, CloudInv, HistInv, HistoryProven, OrderInv,
            Present, Exists, Kept, KeptOf, db, disk, cloud, memory

LEMMA KeepRemaining ==
    ASSUME OrderInv, older' = Remaining(row')
    PROVE  OrderInv'
<1>1. older' = {p \in older : row'[p[1]].state # "none" /\ row'[p[2]].state # "none"}
    BY DEF Remaining
<1>2. \A t, u \in Turns : <<t, u>> \in older' <=>
          <<t, u>> \in older /\ row'[t].state # "none" /\ row'[u].state # "none"
    BY <1>1
<1>3. older \subseteq Turns \X Turns
    BY DEF OrderInv, Present
<1>4. older' \subseteq Present' \X Present'
    <2> SUFFICES ASSUME NEW p \in older' PROVE p \in Present' \X Present'
        OBVIOUS
    <2>1. PICK t \in Turns, u \in Turns : p = <<t, u>>
        BY <1>1, <1>3
    <2> QED BY <1>2, <2>1 DEF Present, Exists
<1> QED BY <1>2, <1>4 DEF OrderInv

LEMMA StartStep ==
    ASSUME OutboxInv, Start
    PROVE  OutboxInv'
<1>1. Types'
    BY HostTypes DEF OutboxInv, HostSteps
<1>2. /\ drain = Idle /\ capturing = None /\ binding = None
      /\ phase' = "active" /\ timer' = Soon
      /\ UNCHANGED <<cloud, drain, capturing, binding, owner>>
    BY DEF Start, OutboxInv, DownInv
<1>3. PICK expired \in SUBSET Settled :
        LET dropped == expired \cup Unrecoverable
        IN  /\ \A t \in Turns : row'[t] = IF t \in dropped THEN NoRow ELSE Recovered(row[t], t)
            /\ \A s \in Sessions : Of(s) \cap dropped # {} => completion'[s] = NoCompletion
            /\ \A s \in Sessions : Of(s) \cap dropped = {} =>
                  completion'[s].state = completion[s].state /\ completion'[s].through = completion[s].through
    BY StartRows DEF OutboxInv
<1>4. PICK dropped : dropped = expired \cup Unrecoverable
    OBVIOUS
<1>5. /\ \A t \in Turns : row'[t] = IF t \in dropped THEN NoRow ELSE Recovered(row[t], t)
      /\ \A s \in Sessions : Of(s) \cap dropped # {} => completion'[s] = NoCompletion
      /\ \A s \in Sessions : Of(s) \cap dropped = {} =>
            completion'[s].state = completion[s].state /\ completion'[s].through = completion[s].through
    BY <1>3, <1>4
<1>6. PICK ts \in SUBSET Turns : ts = Settled \cup Unrecoverable
    BY DEF Settled, Unrecoverable
<1>7. \A t \in Turns : /\ spool'[t] = IF t \in ts THEN 0 ELSE spool[t]
                       /\ object'[t] = IF t \in ts THEN 0 ELSE object[t]
    BY <1>6, StartRows, UnspoolTypes DEF OutboxInv
<1>8. ASSUME NEW t \in Turns
      PROVE  /\ row[t] \in Row
             /\ t \in dropped => row'[t].state = "none" /\ t \in ts
             /\ t \notin dropped =>
                   /\ row[t].state = "none" => row'[t].state = "none"
                   /\ row[t].state = "OPEN" => row'[t].state = "OPEN" /\ row'[t].size = spool[t]
                   /\ row[t].state \in Uploading => row'[t].state = "SEALED" /\ row'[t].size = row[t].size
                   /\ row[t].state = "COMMITTED" => row'[t] = row[t]
             /\ t \in ts => row[t].state = "COMMITTED" \/ t \in dropped
    <2>1. PICK r \in Row : r = row[t]
        BY DEF OutboxInv, Types
    <2>2. PICK n : n = spool[t]
        OBVIOUS
    <2>3. /\ [r EXCEPT !.size = n].state = r.state /\ [r EXCEPT !.size = n].size = n
          /\ Reset(r).state = r.state /\ Reset(r).size = r.size
          /\ [r EXCEPT !.state = "SEALED", !.next = "now"].state = "SEALED"
          /\ [r EXCEPT !.state = "SEALED", !.next = "now"].size = r.size
        BY DEF Row, Reset
    <2>4. /\ r.state = "none" => Recovered(r, t) = r
          /\ r.state = "COMMITTED" => Recovered(r, t) = r
          /\ r.state = "OPEN" => Recovered(r, t) = [r EXCEPT !.size = n]
          /\ r.state = "SEALED" => Recovered(r, t) = Reset(r)
          /\ r.state \in {"PREPARED", "UPLOADED"} => Recovered(r, t) = [r EXCEPT !.state = "SEALED", !.next = "now"]
        BY <2>2 DEF Recovered
    <2>5. NoRow.state = "none"
        BY DEF NoRow
    <2>6. row'[t] = IF t \in dropped THEN NoRow ELSE Recovered(r, t)
        BY <1>5, <2>1
    <2>7. t \in dropped => t \in ts
        BY <1>4, <1>6
    <2>8. t \in ts => row[t].state = "COMMITTED" \/ t \in dropped
        BY <1>4, <1>6 DEF Settled
    <2> QED BY <2>1, <2>2, <2>3, <2>4, <2>5, <2>6, <2>7, <2>8 DEF Uploading
<1>9. HistInv'
    <2> SUFFICES ASSUME NEW s \in Sessions
                 PROVE  /\ \A t \in proven'[s] : committed'[t] > 0
                        /\ completion'[s].state = "FINALIZED" =>
                              /\ completion'[s].through \subseteq proven'[s]
                              /\ \A t \in completion'[s].through : row'[t].state = "COMMITTED"
                        /\ completion'[s].through \subseteq Of(s)
        BY DEF HistInv, HistoryProven, Of
    <2>1. /\ \A t \in proven[s] : committed[t] > 0
          /\ completion[s].state = "FINALIZED" =>
                /\ completion[s].through \subseteq proven[s]
                /\ \A t \in completion[s].through : row[t].state = "COMMITTED"
          /\ completion[s].through \subseteq Of(s)
        BY DEF OutboxInv, HistInv, HistoryProven
    <2>2. UNCHANGED <<proven, committed>>
        BY <1>2 DEF cloud
    <2>3. CASE Of(s) \cap dropped # {}
        BY <1>5, <2>1, <2>2, <2>3 DEF NoCompletion
    <2>4. CASE Of(s) \cap dropped = {}
        <3>1. \A t \in completion[s].through : t \in Turns /\ t \notin dropped
            BY <2>1, <2>4 DEF Of
        <3> QED BY <1>5, <1>8, <2>1, <2>2, <2>4, <3>1
    <2> QED BY <2>3, <2>4
<1>10. OrderInv'
    BY StartRows, KeepRemaining DEF OutboxInv
<1>11. CloudInv'
    <2> SUFFICES ASSUME NEW t \in Turns
                 PROVE  /\ row'[t].state \notin {"PREPARED", "UPLOADED"}
                        /\ row'[t].state = "COMMITTED" => committed'[t] > 0
        BY DEF CloudInv
    <2>1. row[t].state \in {"none", "OPEN", "COMMITTED"} \cup Uploading
        BY <1>8 DEF Row
    <2> QED BY <1>2, <1>8, <2>1 DEF OutboxInv, CloudInv, cloud
<1>12. ASSUME Tidy, NEW t \in Turns, KeptOf(t) PROVE KeptOf(t)'
    <2>1. row[t].state \in {"none", "OPEN", "COMMITTED"} \cup Uploading
        BY <1>8 DEF Row
    <2>2. committed'[t] = committed[t] /\ committed[t] \in Nat /\ spool[t] \in Nat
        BY <1>2, TurnConstants DEF cloud, OutboxInv, Types
    <2>3. CASE t \in dropped
        BY <1>7, <1>8, <2>3 DEF KeptOf, Uploading
    <2>4. CASE t \notin dropped /\ row[t].state = "COMMITTED"
        BY <1>7, <1>8, <1>12, <2>2, <2>4 DEF KeptOf, Uploading
    <2>5. CASE t \notin dropped /\ row[t].state # "COMMITTED"
        <3>1. spool'[t] = spool[t] /\ object'[t] = object[t]
            BY <1>7, <1>8, <2>5
        <3> QED BY <1>8, <1>12, <2>1, <2>2, <2>5, <3>1 DEF KeptOf, Uploading
    <2> QED BY <2>3, <2>4, <2>5
<1>13. Kept'
    BY <1>2, <1>12 DEF Kept, OutboxInv
<1>14. OpenInv' /\ DownInv' /\ DrainInv'
    BY <1>2, KeepDrain, TurnConstants DEF OpenInv, DownInv, Soon, Armed
<1> QED BY <1>1, <1>9, <1>10, <1>11, <1>13, <1>14 DEF OutboxInv

LEMMA BindingEndsStep ==
    ASSUME OutboxInv, BindingEnds
    PROVE  OutboxInv'
<1>1. Types'
    BY HostTypes DEF OutboxInv, HostSteps
<1>2. /\ binding # None /\ drain = Idle /\ binding' = None
      /\ UNCHANGED <<disk, cloud, phase, drain, capturing, owner>>
    BY DEF BindingEnds
<1>3. phase # "down"
    BY <1>2 DEF OutboxInv, DownInv
<1>4. CASE phase # "active"
    <2>1. UNCHANGED <<db, timer>>
        BY <1>4 DEF BindingEnds
    <2>2. Rests /\ Holds /\ older' = older
        BY <2>1, SameWork DEF OutboxInv, db
    <2> QED BY <1>1, <1>2, <1>3, <2>2, HostCalm
<1>5. CASE phase = "active"
    <2>1. PICK b \in Sessions : b = binding
        BY <1>2 DEF OutboxInv, Types
    <2>2. /\ row' = [t \in Turns |->
                  IF t \notin Of(b) THEN row[t]
                  ELSE CASE row[t].state = "COMMITTED" -> NoRow
                         [] row[t].state \in Uploading -> [Reset(row[t]) EXCEPT !.state = "SEALED"]
                         [] OTHER -> row[t]]
          /\ older' = Remaining(row')
          /\ completion' = Forgotten({b})
          /\ ScheduleDrain({})
        BY <1>5, <2>1 DEF BindingEnds
    <2>3. ASSUME NEW t \in Turns
          PROVE  /\ t \notin Of(b) => row'[t] = row[t]
                 /\ row[t].state = "OPEN" => row'[t] = row[t]
                 /\ row'[t].state \in {"PREPARED", "UPLOADED", "COMMITTED"} => row'[t] = row[t]
        <3>1. NoRow.state = "none" /\ [Reset(row[t]) EXCEPT !.state = "SEALED"].state = "SEALED"
            BY DEF NoRow, OutboxInv, Types, Row, Reset
        <3> QED BY <2>2, <3>1 DEF Uploading
    <2>4. HistInv'
        <3> SUFFICES ASSUME NEW s \in Sessions
                     PROVE  /\ \A t \in proven'[s] : committed'[t] > 0
                            /\ completion'[s].state = "FINALIZED" =>
                                  /\ completion'[s].through \subseteq proven'[s]
                                  /\ \A t \in completion'[s].through : row'[t].state = "COMMITTED"
                            /\ completion'[s].through \subseteq Of(s)
            BY DEF HistInv, HistoryProven, Of
        <3>1. /\ \A t \in proven[s] : committed[t] > 0
              /\ completion[s].state = "FINALIZED" =>
                    /\ completion[s].through \subseteq proven[s]
                    /\ \A t \in completion[s].through : row[t].state = "COMMITTED"
              /\ completion[s].through \subseteq Of(s)
            BY DEF OutboxInv, HistInv, HistoryProven
        <3>2. UNCHANGED <<proven, committed>>
            BY <1>2 DEF cloud
        <3>3. completion'[s] = IF s = b THEN NoCompletion ELSE completion[s]
            BY <2>2 DEF Forgotten
        <3>4. CASE s = b
            BY <3>1, <3>2, <3>3, <3>4 DEF NoCompletion
        <3>5. CASE s # b
            <4>1. \A t \in completion[s].through : t \in Turns /\ t \notin Of(b)
                BY <3>1, <3>5 DEF Of
            <4> QED BY <2>3, <3>1, <3>2, <3>3, <3>5, <4>1
        <3> QED BY <3>4, <3>5
    <2>5. OrderInv'
        BY <2>2, KeepRemaining DEF OutboxInv
    <2>6. CloudInv'
        <3> SUFFICES ASSUME NEW t \in Turns
                     PROVE  /\ row'[t].state \in {"PREPARED", "UPLOADED"} => object'[t] > 0
                            /\ row'[t].state = "COMMITTED" => committed'[t] > 0
            BY DEF CloudInv
        <3> QED BY <1>2, <2>3 DEF OutboxInv, CloudInv, disk, cloud
    <2>7. Kept'
        <3>1. ASSUME Tidy, NEW t \in Turns, KeptOf(t) PROVE KeptOf(t)'
            <4>1. row[t] \in Row /\ "crash" \notin Faults
                BY <1>2, <3>1 DEF OutboxInv, Types, Kept, Tidy
            <4>2. UNCHANGED <<spool, object, committed>>
                BY <1>2 DEF disk, cloud
            <4>3. \/ row'[t] = row[t]
                  \/ row[t].state = "COMMITTED" /\ row'[t].state = "none"
                  \/ row[t].state \in Uploading /\ row'[t].state = "SEALED" /\ row'[t].size = row[t].size
                <5>1. /\ NoRow.state = "none" /\ [Reset(row[t]) EXCEPT !.state = "SEALED"].state = "SEALED"
                      /\ [Reset(row[t]) EXCEPT !.state = "SEALED"].size = row[t].size
                    BY <4>1 DEF NoRow, Row, Reset
                <5> QED BY <2>2, <5>1 DEF Uploading
            <4>4. CASE row'[t] = row[t]
                BY <3>1, <4>2, <4>4 DEF KeptOf
            <4>5. CASE row[t].state = "COMMITTED" /\ row'[t].state = "none"
                BY <3>1, <4>1, <4>2, <4>5 DEF KeptOf, Uploading
            <4>6. CASE row[t].state \in Uploading /\ row'[t].state = "SEALED" /\ row'[t].size = row[t].size
                BY <3>1, <4>2, <4>6 DEF KeptOf, Uploading
            <4> QED BY <4>3, <4>4, <4>5, <4>6
        <3> QED BY <1>2, <3>1 DEF Kept, OutboxInv
    <2>8. DrainInv'
        BY <1>2, KeepDrain
    <2>9. OpenInv' /\ DownInv'
        BY <1>2, <1>3, <2>3, KeepUp
    <2> QED BY <1>1, <2>4, <2>5, <2>6, <2>7, <2>8, <2>9 DEF OutboxInv
<1> QED BY <1>4, <1>5

LEMMA CloseStep ==
    ASSUME OutboxInv, Close
    PROVE  OutboxInv'
<1>1. Types'
    BY HostTypes DEF OutboxInv, HostSteps
<1>2. /\ phase = "active" /\ phase' = "closing"
      /\ UNCHANGED <<db, disk, cloud, drain, capturing, binding, owner>>
    BY DEF Close
<1>3. Rests /\ Holds /\ older' = older
    BY <1>2, SameWork DEF OutboxInv, db
<1> QED BY <1>1, <1>2, <1>3, HostCalm

LEMMA AbortedStep ==
    ASSUME OutboxInv, Aborted
    PROVE  OutboxInv'
<1>1. Types'
    BY HostTypes DEF OutboxInv, HostSteps
<1>2. /\ phase = "closing" /\ drain' = Idle
      /\ UNCHANGED <<db, disk, cloud, phase, capturing, binding, owner>>
    BY DEF Aborted
<1>3. Rests /\ Holds /\ older' = older
    BY <1>2, SameWork DEF OutboxInv, db
<1> QED BY <1>1, <1>2, <1>3, KeepQuiet, KeepUpQuiet DEF disk, cloud, OutboxInv

LEMMA ClosedStep ==
    ASSUME OutboxInv, Closed
    PROVE  OutboxInv'
<1>1. Types'
    BY HostTypes DEF OutboxInv, HostSteps
<1>2. /\ drain = Idle /\ capturing = None /\ binding = None /\ phase' = "down"
      /\ UNCHANGED <<db, disk, cloud, drain, capturing, binding, owner>>
    BY DEF Closed
<1>3. Rests /\ Holds /\ older' = older
    BY <1>2, SameWork DEF OutboxInv, db
<1>4. OpenInv' /\ DownInv'
    BY <1>2, TurnConstants DEF OpenInv, DownInv
<1> QED BY <1>1, <1>2, <1>3, <1>4, KeepQuiet DEF disk, cloud, OutboxInv

LEMMA TimeStep ==
    ASSUME OutboxInv, TimePasses
    PROVE  OutboxInv'
<1>1. Types' /\ Rests /\ Holds
    BY TimeTypes, TimeRests DEF OutboxInv
<1>2. /\ older' = older /\ UNCHANGED <<disk, committed, proven, phase, capturing, binding, owner>>
      /\ drain' \in {drain, Picking}
    BY DEF TimePasses, TimerFires, DeadlinePasses, IntentExpires, db, cloud, memory
<1>4. CloudInv' /\ HistInv' /\ OrderInv' /\ Kept' /\ DrainInv'
    BY <1>1, <1>2, KeepQuiet DEF disk
<1>5. OpenInv' /\ DownInv'
    <2>1. CASE phase # "down"
        BY <1>1, <1>2, <2>1, KeepUpQuiet
    <2>2. CASE phase = "down"
        <3>1. drain' = Idle
            BY <2>2 DEF TimePasses, TimerFires, DeadlinePasses, IntentExpires, memory, OutboxInv, Types, DownInv
        <3> QED BY <1>2, <2>2, <3>1 DEF OpenInv, DownInv, OutboxInv
    <2> QED BY <2>1, <2>2
<1> QED BY <1>1, <1>4, <1>5 DEF OutboxInv

-----------------------------------------------------------------------------
(* Crashes. *)
LEMMA DeadKeeps ==
    ASSUME Dead
    PROVE  OpenInv' /\ DownInv' /\ drain' = Idle
BY TurnConstants DEF Dead, OpenInv, DownInv

LEMMA CrashStep ==
    ASSUME OutboxInv, Crash
    PROVE  OutboxInv'
<1>1. Types'
    BY CrashTypes DEF OutboxInv
<1>2. UNCHANGED <<db, object, cloud>> /\ Dead /\ binding' = None
    BY DEF Crash, Dead
<1>3. Rests /\ Holds /\ older' = older
    BY <1>2, SameWork DEF OutboxInv, db
<1>4. \A t \in Turns : Stills(t)
    <2> SUFFICES ASSUME NEW t \in Turns
                 PROVE  spool'[t] = spool[t] \/ (row[t].state = "OPEN" /\ spool'[t] >= spool[t])
        BY <1>2, <1>3 DEF Stills, Rests, cloud
    <2>1. CASE spool' = spool
        BY <2>1
    <2>2. CASE capturing \in Turns /\ spool' = [spool EXCEPT ![capturing] = AtLeast(@, row[capturing].size + 1)]
        <3>1. CASE t = capturing
            <4>1. row[t].state = "OPEN" /\ row[t].size \in Nat /\ spool[t] \in Nat
                BY <2>2, <3>1, TurnConstants DEF OutboxInv, OpenInv, Types, Row
            <4>2. spool'[t] = AtLeast(spool[t], row[t].size + 1)
                BY <2>2, <3>1 DEF OutboxInv, Types
            <4> QED BY <4>1, <4>2 DEF AtLeast
        <3>2. CASE t # capturing
            BY <2>2, <3>2 DEF OutboxInv, Types
        <3> QED BY <3>1, <3>2
    <2> QED BY <2>1, <2>2 DEF Crash
<1>5. \A s \in Sessions : HistStep(s)
    BY <1>2, <1>3, HeldHist DEF OutboxInv, cloud
<1>6. CloudInv' /\ HistInv' /\ OrderInv' /\ Kept'
    BY <1>1, <1>2, <1>3, <1>4, <1>5, KeepStill
<1> QED BY <1>1, <1>2, <1>6, DeadKeeps, KeepDrain DEF OutboxInv

LEMMA CrashBeforeRemovalStep ==
    ASSUME OutboxInv, CrashBeforeRemoval
    PROVE  OutboxInv'
<1>1. /\ "crash" \in Faults /\ drain.pc \in {"prepare", "commit"} /\ Dead
      /\ UNCHANGED <<older, completion, disk, intent, stored, proven>>
    BY DEF CrashBeforeRemoval
<1>2. PICK t \in Turns : t = drain.on
    BY <1>1 DEF OutboxInv, DrainInv
<1>3. committed' = [committed EXCEPT ![t] = object[t]] /\ row' = Marked(t)
    BY <1>2 DEF CrashBeforeRemoval
<1>4. row[t].state \in Uploading /\ object[t] > 0
    BY <1>1, <1>2 DEF OutboxInv, DrainInv, CloudInv, Stage, Uploading
<1>5. Becomes(t, "COMMITTED")
    BY <1>3, MarkedFacts DEF OutboxInv
<1>6. Types'
    <2>1. committed' \in [Turns -> 0..MaxEvents]
        BY <1>3 DEF OutboxInv, Types
    <2> QED BY <1>1, <1>5, <2>1 DEF OutboxInv, Types, Becomes, Dead, Idle, At, NoTimer, disk
<1>7. committed'[t] = object[t] /\ \A u \in Turns : u # t => committed'[u] = committed[u]
    BY <1>3 DEF OutboxInv, Types
<1>8. Holds /\ binding' \in {binding, None}
    BY <1>1, SameWork DEF OutboxInv, Dead
<1>9. KeptOf(t) => KeptOf(t)'
    BY <1>1, <1>4, <1>5, <1>6, <1>7, ReceiptKept DEF OutboxInv, disk
<1>10. CloudInv' /\ HistInv' /\ OrderInv' /\ Kept'
    BY <1>1, <1>4, <1>5, <1>6, <1>7, <1>8, <1>9, KeepRest DEF disk
<1> QED BY <1>1, <1>6, <1>10, DeadKeeps, KeepDrain DEF OutboxInv

-----------------------------------------------------------------------------
LEMMA OutboxInit ==
    ASSUME Init
    PROVE  OutboxInv
<1>1. \A t \in Turns : row[t] = NoRow /\ NoRow \in Row /\ NoRow.state = "none"
    BY TurnConstants DEF Init, NoRow, Row, Deadlines
<1>2. \A s \in Sessions : completion[s] = NoCompletion /\ NoCompletion \in Completion /\ NoCompletion.state = "none"
                          /\ NoCompletion.through = {}
    BY DEF Init, NoCompletion, Completion, Deadlines
<1>3. Types
    BY <1>1, <1>2, TurnConstants DEF Init, Types, Idle, At, NoTimer
<1>4. OpenInv /\ DownInv /\ DrainInv
    BY TurnConstants DEF Init, OpenInv, DownInv, DrainInv, Idle, At
<1>5. CloudInv /\ OrderInv
    BY <1>1 DEF CloudInv, OrderInv, Init
<1>6. HistInv
    BY <1>2 DEF HistInv, HistoryProven, Init
<1>7. Kept
    BY <1>1 DEF Kept, KeptOf, Init, Uploading
<1> QED BY <1>3, <1>4, <1>5, <1>6, <1>7 DEF OutboxInv

LEMMA OutboxStutters ==
    ASSUME OutboxInv, UNCHANGED vars
    PROVE  OutboxInv'
BY DEF vars, db, disk, cloud, memory, OutboxInv, Types, OpenInv, DownInv, DrainInv, CloudInv, HistInv,
       HistoryProven, OrderInv, Present, Exists, Kept, KeptOf

LEMMA OutboxNext ==
    ASSUME OutboxInv, Next
    PROVE  OutboxInv'
<1>1. ASSUME AdvanceSteps PROVE OutboxInv'
    BY <1>1, PickTurnStep, PickFinalizationStep, DrainEndsStep, FilePreparedStep, PrepareAnswersStep,
       CredentialExpiredStep, PutAnswersStep, CommitAnswersStep, CallFailsStep, FinalizationAnswersStep
       DEF AdvanceSteps
<1>2. ASSUME CaptureSteps PROVE OutboxInv'
    BY <1>2, AppendBeginsStep, AppendFailsStep, SealInterruptedStep, AppendEndsStep, CaptureDefersStep,
       CaptureBeginsStep, CaptureEndsStep
       DEF CaptureSteps
<1>3. ASSUME HostSteps PROVE OutboxInv'
    BY <1>3, QueueStep, RestoreStep, ResumeStep, BindingBeginsStep, HandedOverStep, StartStep,
       BindingEndsStep, CloseStep, AbortedStep, ClosedStep
       DEF HostSteps
<1> QED BY <1>1, <1>2, <1>3, TimeStep, CrashStep, CrashBeforeRemovalStep DEF Next

(* Every step keeps all of it.                                            *)
THEOREM OutboxInvariant == Spec => []OutboxInv
<1>1. OutboxInv /\ [Next]_vars => OutboxInv'
    BY OutboxNext, OutboxStutters
<1> QED BY OutboxInit, <1>1, PTL DEF Spec

(* What the Backend is told is the whole history of a session was          *)
(* committed, and a scan is finalized with its receipts only.              *)
THEOREM HistoriesAreProven == Spec => []HistoryProven
BY OutboxInvariant, PTL DEF OutboxInv, HistInv

-----------------------------------------------------------------------------
(* What leaves work asleep. *)
LEMMA Woken ==
    ASSUME phase' = "active" /\ drain' = Idle /\ binding' = None /\ capturing' = None => timer'.on
    PROVE  ~Asleep'
BY DEF Asleep

LEMMA SleepsOn ==
    ASSUME Asleep', UNCHANGED memory,
           \A t \in Turns : row'[t].state \in Uploading /\ row'[t].next = "now" =>
               row[t].state \in Uploading /\ row[t].next = "now",
           \A s \in Sessions : completion'[s].state = "PENDING" /\ completion'[s].next = "now" =>
               completion[s].state = "PENDING" /\ completion[s].next = "now"
    PROVE  Asleep
BY DEF Asleep, memory

LEMMA DrainWakes ==
    ASSUME OutboxInv, AdvanceSteps
    PROVE  ~Asleep'
<1>1. Types /\ DrainInv /\ OrderInv
    BY DEF OutboxInv
<1>2. ASSUME drain.pc # "idle", UNCHANGED phase,
             Gives \/ drain' = drain \/ (\E pc : pc # "idle" /\ drain' = [drain EXCEPT !.pc = pc])
      PROVE  ~Asleep'
    <2>1. CASE Gives
        BY <1>2, <2>1, Woken DEF Gives
    <2>2. CASE drain' = drain
        BY <1>2, <2>2, Woken DEF Idle, At
    <2>3. ASSUME NEW pc, pc # "idle", drain' = [drain EXCEPT !.pc = pc] PROVE ~Asleep'
        BY <1>1, <2>3, Woken DEF Idle, At, Types
    <2> QED BY <1>2, <2>1, <2>2, <2>3
<1>3. CASE PickTurn
    <2>1. CASE drain' = drain
        BY <1>2, <1>3, <2>1 DEF PickTurn, Picking, At
    <2>2. CASE \E t \in Ready : drain' = Advance(t)
        <3>1. PICK t \in Ready : drain' = Advance(t)
            BY <2>2
        <3>2. row[t].state \in Uploading
            BY DEF Ready
        <3>3. drain' \in {At("file", t), At("put", t), At("commit", t)}
            BY <3>1, <3>2 DEF Advance, Uploading, At
        <3> QED BY <3>3, Woken DEF At, Idle
    <2> QED BY <1>1, <1>3, <2>1, <2>2, PickOutcome
<1>4. ASSUME NEW s \in Sessions, PickFinalization(s) PROVE ~Asleep'
    <2>1. CASE drain' = drain
        BY <1>2, <1>4, <2>1 DEF PickFinalization, Picking, At
    <2>2. CASE drain' = [At("complete", s) EXCEPT !.proof = completion[s].through]
        BY <2>2, Woken DEF At, Idle
    <2> QED BY <1>1, <1>4, <2>1, <2>2, FinalizationPicked
<1>5. CASE DrainEnds
    <2> SUFFICES ASSUME Asleep' PROVE FALSE
        OBVIOUS
    <2>1. /\ phase = "active" /\ binding = None /\ UNCHANGED <<row, completion>>
        BY <1>5 DEF DrainEnds, Asleep, db
    <2>2. Ready = {} /\ ReadyToFinalize = {}
        BY <1>5, <2>1 DEF DrainEnds, Draining
    <2>3. \/ \E t \in Turns : row[t].state \in Uploading /\ row[t].next = "now"
          \/ \E s \in Sessions : completion[s].state = "PENDING" /\ completion[s].next = "now"
        BY <2>1 DEF Asleep
    <2> QED BY <2>2, <2>3 DEF Ready, ReadyToFinalize, Eligible
<1>6. CASE FilePrepared
    BY <1>1, <1>2, <1>6, FileOutcome DEF FilePrepared
<1>7. ASSUME Receives(drain.on) PROVE ~Asleep'
    BY <1>7, Woken DEF Receives, Picking, Idle, At
<1>8. CASE PrepareAnswers
    BY <1>1, <1>2, <1>7, <1>8, PrepareOutcome DEF PrepareAnswers, Proceeds
<1>9. CASE CredentialExpired
    BY <1>1, <1>2, <1>9, FailedUnprepared DEF CredentialExpired
<1>10. CASE PutAnswers
    BY <1>1, <1>2, <1>10, PutOutcome DEF PutAnswers, Proceeds
<1>11. CASE CommitAnswers
    BY <1>1, <1>2, <1>7, <1>11, CommitOutcome DEF CommitAnswers
<1>12. CASE CallFails
    BY <1>1, <1>2, <1>12, FailedAsItWas DEF CallFails
<1>13. CASE FinalizationAnswers
    <2>1. UNCHANGED phase /\ (phase = "active" /\ drain' = Idle => timer'.on)
        BY <1>1, <1>13, FinalizationOutcome DEF FinalizationAnswers
    <2> QED BY <2>1, Woken
<1> QED BY <1>3, <1>4, <1>5, <1>6, <1>8, <1>9, <1>10, <1>11, <1>12, <1>13 DEF AdvanceSteps

LEMMA CaptureWakes ==
    ASSUME OutboxInv, CaptureSteps
    PROVE  Asleep' => CaptureThrows
<1>1. Types
    BY DEF OutboxInv
<1>2. \A x \in Turns \cup Sessions : capturing' = x => ~Asleep'
    BY TurnConstants DEF Asleep
<1>3. ASSUME NEW t \in Turns, AppendBegins(t) \/ AppendFails(t) PROVE Asleep' => CaptureThrows
    BY <1>3 DEF Asleep, CaptureThrows
<1>4. ASSUME NEW t \in Turns, NEW ended \in BOOLEAN, SealInterrupted(t) \/ AppendEnds(t, ended) PROVE ~Asleep'
    BY <1>2, <1>4, TurnsAndSessions DEF SealInterrupted, AppendEnds, memory
<1>5. ASSUME NEW s \in Sessions, CaptureBegins(s) PROVE ~Asleep'
    BY <1>2, <1>5 DEF CaptureBegins
<1>6. CASE CaptureEnds
    BY <1>1, <1>6, ScheduleFacts, Woken DEF CaptureEnds, Roused
<1>7. ASSUME NEW s \in Sessions, CaptureDefers(s) PROVE ~Asleep'
    BY <1>1, <1>7, DeferFacts, Woken DEF CaptureDefers, Roused
<1> QED BY <1>3, <1>4, <1>5, <1>6, <1>7 DEF CaptureSteps

LEMMA HostWakes ==
    ASSUME OutboxInv, HostSteps, Asleep'
    PROVE  Asleep
<1>1. Types
    BY DEF OutboxInv
<1>2. ASSUME Roused, UNCHANGED phase PROVE FALSE
    BY <1>2 DEF Roused, Asleep
<1>3. ASSUME NEW s \in Sessions, QueueHistoryFinalization(s) PROVE FALSE
    BY <1>1, <1>2, <1>3, ScheduleFacts DEF QueueHistoryFinalization
<1>4. ASSUME NEW s \in Sessions, ResumePublished(s) PROVE FALSE
    BY <1>1, <1>2, <1>4, ScheduleFacts DEF ResumePublished
<1>5. ASSUME NEW s \in Sessions, RestoreHistoryReceipts(s) PROVE Asleep
    <2>1. PICK lost \in SUBSET Turns :
            /\ row' = [t \in Turns |-> IF t \in lost
                               THEN [NoRow EXCEPT !.state = "COMMITTED", !.size = committed[t]]
                               ELSE row[t]]
            /\ UNCHANGED <<completion, memory>>
        BY Zenon, <1>5 DEF RestoreHistoryReceipts, Of
    <2>2. ASSUME NEW t \in Turns, row'[t].state \in Uploading PROVE row'[t] = row[t]
        <3>1. t \in lost => row'[t].state = "COMMITTED"
            BY Zenon, <2>1 DEF NoRow
        <3>2. t \notin lost => row'[t] = row[t]
            BY Zenon, <2>1
        <3> QED BY <2>2, <3>1, <3>2 DEF Uploading
    <2> QED BY Zenon, <2>1, <2>2, SleepsOn
<1>6. ASSUME NEW s \in Sessions, BindingBegins(s) PROVE FALSE
    BY <1>6, TurnConstants DEF BindingBegins, Asleep
<1>7. ASSUME NEW s \in Sessions, HandedOver(s) PROVE Asleep
    BY <1>7, SleepsOn DEF HandedOver, db
<1>8. CASE Start
    BY <1>8 DEF Start, Soon, Armed, Asleep
<1>9. CASE BindingEnds
    BY <1>1, <1>2, <1>9, ScheduleFacts DEF BindingEnds, Asleep
<1>10. CASE Close \/ Aborted \/ Closed
    BY <1>10 DEF Close, Aborted, Closed, Asleep
<1> QED BY <1>3, <1>4, <1>5, <1>6, <1>7, <1>8, <1>9, <1>10 DEF HostSteps

LEMMA TimeWakes ==
    ASSUME OutboxInv, TimePasses, Asleep'
    PROVE  Asleep
<1>1. CASE TimerFires
    BY <1>1 DEF TimerFires, Asleep, Picking, Idle, At
<1>2. ASSUME NEW x \in Turns \cup Sessions, DeadlinePasses(x) PROVE Asleep
    <2>1. \A t \in Turns : row'[t] = row[t] \/ row'[t].next = "due"
        BY <1>2 DEF DeadlinePasses, OutboxInv, Types, Row, Deadlines
    <2>2. \A s \in Sessions : completion'[s] = completion[s] \/ completion'[s].next = "due"
        BY <1>2 DEF DeadlinePasses, OutboxInv, Types, Completion, Deadlines
    <2>3. UNCHANGED memory
        BY <1>2 DEF DeadlinePasses
    <2> QED BY <2>1, <2>2, <2>3, SleepsOn
<1>3. ASSUME NEW t \in Turns, IntentExpires(t) PROVE Asleep
    BY <1>3, SleepsOn DEF IntentExpires, db
<1> QED BY <1>1, <1>2, <1>3 DEF TimePasses

(* Work that is due is left to no drain, timer, capture or binding only by *)
(* a capture that throws after it sealed a turn.                           *)
THEOREM WorkIsAwakened == Spec => NewWorkWakes
<1>1. OutboxInv /\ [Next]_vars => [Asleep' => Asleep \/ CaptureThrows]_vars
    <2> SUFFICES ASSUME OutboxInv, Next, Asleep' PROVE Asleep \/ CaptureThrows
        OBVIOUS
    <2>1. ASSUME Crash \/ CrashBeforeRemoval PROVE FALSE
        BY <2>1 DEF Crash, CrashBeforeRemoval, Dead, Asleep
    <2> QED BY <2>1, DrainWakes, CaptureWakes, HostWakes, TimeWakes DEF Next
<1>2. Spec => [][Asleep' => Asleep \/ CaptureThrows]_vars
    BY <1>1, OutboxInvariant, PTL DEF Spec
<1> QED BY <1>2 DEF NewWorkWakes

-----------------------------------------------------------------------------
(* Where a turn's events are, whatever faults happen: in the spool until   *)
(* the Backend has all of them.  Only an upload of something else than the *)
(* spool breaks this (WholeNext), so that no other fault loses an event.   *)
Whole == \A t \in Turns :
    /\ row[t].state \in {"OPEN"} \cup Uploading => spool[t] >= row[t].size
    /\ row[t].state = "COMMITTED" => committed[t] >= row[t].size
    /\ row[t].state \in {"none", "COMMITTED"} => committed[t] >= spool[t]
\* Rows that are not committed may change their state; events are added to open ones.
Lasts(t) ==
    /\ row'[t].size = row[t].size
    /\ \/ row'[t].state = row[t].state
       \/ row[t].state \in {"OPEN"} \cup Uploading /\ row'[t].state \in Uploading
    /\ spool'[t] = spool[t] \/ (row[t].state = "OPEN" /\ spool'[t] >= spool[t])
    /\ committed'[t] = committed[t] \/ row[t].state \in Uploading

LEMMA WholeLasts ==
    ASSUME Types, Types', Whole, \A t \in Turns : Lasts(t)
    PROVE  Whole'
<1> SUFFICES ASSUME NEW t \in Turns
             PROVE  /\ row'[t].state \in {"OPEN"} \cup Uploading => spool'[t] >= row'[t].size
                    /\ row'[t].state = "COMMITTED" => committed'[t] >= row'[t].size
                    /\ row'[t].state \in {"none", "COMMITTED"} => committed'[t] >= spool'[t]
    BY DEF Whole
<1>1. /\ spool[t] \in Nat /\ spool'[t] \in Nat /\ row[t].size \in Nat
      /\ committed[t] \in Nat /\ committed'[t] \in Nat
    BY TurnConstants DEF Types, Row
<1> QED BY <1>1 DEF Whole, Lasts, Uploading

LEMMA WholeRests ==
    ASSUME Types, Types', Whole, Rests, UNCHANGED <<spool, committed>>
    PROVE  Whole'
BY WholeLasts DEF Rests, Lasts

LEMMA WholeBecomes ==
    ASSUME Types, Types', Whole, NEW t \in Turns, NEW x \in Uploading, Becomes(t, x),
           row[t].state \in {"OPEN"} \cup Uploading, UNCHANGED <<spool, committed>>
    PROVE  Whole'
BY WholeLasts DEF Becomes, Lasts

(* A commit of the whole spool has every event the row counts.             *)
LEMMA WholeReceipt ==
    ASSUME Types, Types', Whole, NEW t \in Turns, row[t].state \in Uploading, Becomes(t, "COMMITTED"),
           committed'[t] = spool[t], spool'[t] \in {0, spool[t]},
           \A u \in Turns : u # t => spool'[u] = spool[u] /\ committed'[u] = committed[u]
    PROVE  Whole'
<1>1. ASSUME NEW u \in Turns
      PROVE  spool[u] \in Nat /\ spool'[u] \in Nat /\ row[u].size \in Nat /\ committed'[u] \in Nat
    BY TurnConstants DEF Types, Row
<1>2. spool[t] >= row[t].size
    BY DEF Whole
<1> QED BY <1>1, <1>2 DEF Whole, Becomes, Uploading

LEMMA WholeReceives ==
    ASSUME OutboxInv, Types', Whole, ObjectMatchesSpool, NEW t \in Turns, t = drain.on,
           drain.pc \in {"prepare", "put", "commit"}, Receives(t),
           committed'[t] = object[t], \A u \in Turns : u # t => committed'[u] = committed[u]
    PROVE  Whole'
<1>1. row[t].state \in Uploading /\ object[t] = spool[t]
    BY DEF OutboxInv, DrainInv, Stage, Uploading, ObjectMatchesSpool
<1>2. \A u \in Turns : spool'[u] = IF u = t THEN 0 ELSE spool[u]
    BY DEF Receives, Unspool
<1> QED BY <1>1, <1>2, WholeReceipt DEF Receives, OutboxInv

LEMMA WholeAdvances ==
    ASSUME OutboxInv, Types', Whole, ObjectMatchesSpool, AdvanceSteps
    PROVE  Whole'
<1>1. Types /\ OrderInv /\ DrainInv
    BY DEF OutboxInv
<1>2. UNCHANGED db => Rests
    BY <1>1, SameWork DEF db
<1>3. ASSUME drain.pc \in {"prepare", "put", "commit"}
      PROVE  drain.on \in Turns /\ row[drain.on].state \in Uploading
    BY <1>1, <1>3 DEF DrainInv, Stage, Uploading
<1>4. CASE PickTurn
    BY <1>1, <1>2, <1>4, PickOutcome, WholeRests DEF PickTurn, disk, cloud
<1>5. CASE \E s \in Sessions : PickFinalization(s)
    BY <1>1, <1>2, <1>5, FinalizationPicked, WholeRests DEF PickFinalization, disk, cloud
<1>6. CASE DrainEnds
    BY <1>1, <1>2, <1>6, WholeRests DEF DrainEnds, disk, cloud
<1>7. CASE FilePrepared
    BY <1>1, <1>2, <1>7, FileOutcome, WholeRests DEF FilePrepared, cloud
<1>8. CASE PrepareAnswers
    <2>1. /\ drain.pc = "prepare" /\ UNCHANGED committed
        BY <1>8 DEF PrepareAnswers
    <2>2. CASE committed[drain.on] = object[drain.on] /\ Receives(drain.on)
        BY <1>3, <2>1, <2>2, WholeReceives
    <2>3. CASE Proceeds(drain.on, "PREPARED", "put")
        BY <1>1, <1>3, <2>1, <2>3, WholeBecomes DEF Proceeds, disk, Uploading
    <2>4. CASE Rests /\ UNCHANGED disk
        BY <1>1, <2>1, <2>4, WholeRests DEF disk
    <2> QED BY <1>1, <1>8, <2>2, <2>3, <2>4, PrepareOutcome
<1>9. CASE CredentialExpired
    <2>1. Becomes(drain.on, "SEALED") /\ drain.pc = "put" /\ UNCHANGED <<disk, cloud>>
        BY <1>1, <1>9, FailedUnprepared DEF CredentialExpired
    <2> QED BY <1>1, <1>3, <2>1, WholeBecomes DEF disk, cloud, Uploading
<1>10. CASE PutAnswers
    <2>1. drain.pc = "put" /\ UNCHANGED <<disk, committed>>
        BY <1>10 DEF PutAnswers
    <2>2. CASE Becomes(drain.on, "UPLOADED")
        BY <1>1, <1>3, <2>1, <2>2, WholeBecomes DEF disk, Uploading
    <2>3. CASE Rests
        BY <1>1, <2>1, <2>3, WholeRests DEF disk
    <2> QED BY <1>1, <1>10, <2>2, <2>3, PutOutcome DEF Proceeds
<1>11. CASE CommitAnswers
    <2>1. PICK t \in Turns : t = drain.on /\ drain.pc = "commit" /\ row[t].state \in Uploading
        BY <1>3, <1>11 DEF CommitAnswers
    <2>2. CASE Becomes(t, "SEALED") /\ UNCHANGED <<disk, committed>>
        BY <1>1, <2>1, <2>2, WholeBecomes DEF disk, Uploading
    <2>3. CASE committed' = [committed EXCEPT ![t] = object[t]] /\ Receives(t)
        BY <1>1, <2>1, <2>3, WholeReceives DEF Types
    <2>4. CASE /\ committed' = [committed EXCEPT ![t] = IF <<t, object[t]>> \in stored THEN object[t] ELSE @]
               /\ Rests /\ UNCHANGED disk
        <3>1. \A u \in Turns : Lasts(u)
            BY <1>1, <2>1, <2>4 DEF Lasts, Rests, Types, disk
        <3> QED BY <1>1, <3>1, WholeLasts
    <2> QED BY <1>1, <1>11, <2>1, <2>2, <2>3, <2>4, CommitOutcome
<1>12. CASE CallFails
    BY <1>1, <1>12, FailedAsItWas, WholeRests DEF CallFails, disk, cloud
<1>13. CASE FinalizationAnswers
    BY <1>1, <1>13, FinalizationOutcome, WholeRests DEF FinalizationAnswers, disk
<1> QED BY <1>4, <1>5, <1>6, <1>7, <1>8, <1>9, <1>10, <1>11, <1>12, <1>13 DEF AdvanceSteps

(* Events that are written are counted only then.                          *)
LEMMA WholeCaptures ==
    ASSUME OutboxInv, Types', Whole, CaptureSteps
    PROVE  Whole'
<1>1. Types
    BY DEF OutboxInv
<1>2. \A t \in Turns : /\ spool[t] \in Nat /\ spool'[t] \in Nat /\ row[t].size \in Nat
                       /\ committed[t] \in Nat /\ row[t] \in Row
    BY <1>1, TurnConstants DEF Types, Row
<1>3. ASSUME NEW t \in Turns, AppendBegins(t) PROVE Whole'
    <2>1. OpenRow.state = "OPEN" /\ OpenRow.size = 0
        BY DEF OpenRow, NoRow
    <2>2. /\ row'[t] = row[t] \/ row'[t] = OpenRow
          /\ \A u \in Turns : u # t => row'[u] = row[u]
          /\ UNCHANGED <<spool, committed>>
        BY <1>1, <1>3 DEF AppendBegins, Types, disk, cloud
    <2> QED BY <1>2, <2>1, <2>2 DEF Whole, Uploading
<1>4. ASSUME NEW t \in Turns, NEW ended \in BOOLEAN, AppendEnds(t, ended) PROVE Whole'
    <2>1. /\ row'[t].size = row[t].size + 1 /\ row'[t].state \in {"OPEN", "SEALED"}
          /\ \A u \in Turns : u # t => row'[u] = row[u]
        BY <1>1, <1>4 DEF AppendEnds, Types, Row
    <2>2. /\ spool'[t] >= row[t].size + 1
          /\ \A u \in Turns : u # t => spool'[u] = spool[u]
          /\ UNCHANGED committed
        BY <1>1, <1>2, <1>4 DEF AppendEnds, AtLeast, Types, cloud
    <2> QED BY <1>2, <2>1, <2>2 DEF Whole, Uploading
<1>5. ASSUME NEW t \in Turns, AppendFails(t) PROVE Whole'
    <2>0. /\ row[t].state = "OPEN" /\ UNCHANGED <<row, committed>>
          /\ spool' = [spool EXCEPT ![t] = IF t \in torn' THEN AtLeast(@, 1) ELSE @]
        BY <1>5, TurnConstants DEF AppendFails, OutboxInv, OpenInv, db, cloud
    <2>1. spool'[t] >= spool[t] /\ \A u \in Turns : u # t => spool'[u] = spool[u]
        BY <1>1, <1>2, <2>0 DEF AtLeast, Types
    <2>2. \A u \in Turns : Lasts(u)
        BY <2>0, <2>1 DEF Lasts
    <2> QED BY <1>1, <2>2, WholeLasts
<1>6. ASSUME NEW t \in Turns, SealInterrupted(t) PROVE Whole'
    <2>1. /\ row[t].state = "OPEN" /\ UNCHANGED <<spool, committed>>
          /\ row' = [row EXCEPT ![t].state = "SEALED", ![t].next = "now"]
        BY <1>6 DEF SealInterrupted, disk, cloud
    <2>2. Becomes(t, "SEALED")
        BY <1>1, <2>1 DEF Becomes, Types, Types, Row
    <2> QED BY <1>1, <2>1, <2>2, WholeBecomes DEF Uploading
<1>7. ASSUME NEW s \in Sessions, CaptureDefers(s) PROVE Whole'
    BY <1>1, <1>7, DeferFacts, WholeRests DEF CaptureDefers, disk, cloud
<1>8. ASSUME NEW s \in Sessions, CaptureBegins(s) PROVE Whole'
    BY <1>8 DEF CaptureBegins, Whole, db, disk, cloud
<1>9. ASSUME CaptureEnds PROVE Whole'
    BY <1>9 DEF CaptureEnds, Whole, db, disk, cloud
<1> QED BY <1>3, <1>4, <1>5, <1>6, <1>7, <1>8, <1>9 DEF CaptureSteps

(* A start removes the files of receipts and of what it drops, and counts  *)
(* what it finds of the open turns; a receipt that a binding drops leaves  *)
(* files that the Backend has.                                             *)
LEMMA WholeStart ==
    ASSUME OutboxInv, Types', Whole, Start
    PROVE  Whole'
<1>1. Types
    BY DEF OutboxInv
<1>2. PICK expired \in SUBSET {t \in Settled : row[t].state = "COMMITTED"} :
          /\ row' = [t \in Turns |-> IF t \in expired \cup Unrecoverable THEN NoRow ELSE Recovered(row[t], t)]
          /\ Unspool(Settled \cup Unrecoverable)
    BY DEF Start
<1>3. committed' = committed
    BY DEF Start, cloud
<1>4. ASSUME NEW t \in Turns
      PROVE  /\ row'[t].state \in {"OPEN"} \cup Uploading => spool'[t] >= row'[t].size
             /\ row'[t].state = "COMMITTED" => committed'[t] >= row'[t].size
             /\ row'[t].state \in {"none", "COMMITTED"} => committed'[t] >= spool'[t]
    <2>1. PICK r \in Row : r = row[t]
        BY <1>1 DEF Types
    <2>2. /\ spool[t] \in Nat /\ committed[t] \in Nat /\ r.size \in Nat
        BY <1>1, <2>1, TurnConstants DEF Types, Row
    <2>3. spool'[t] = IF t \in Settled \cup Unrecoverable THEN 0 ELSE spool[t]
        BY <1>2 DEF Unspool
    <2>4. CASE t \in expired \cup Unrecoverable
        <3>1. row'[t].state = "none"
            BY <1>2, <2>4 DEF NoRow
        <3>2. spool'[t] = 0
            BY <2>3, <2>4
        <3> QED BY <1>3, <2>2, <3>1, <3>2 DEF Uploading
    <2>5. CASE t \notin expired \cup Unrecoverable
        <3>1. row'[t] = Recovered(r, t) /\ t \notin Unrecoverable
            BY <1>2, <2>1, <2>5
        <3>2. CASE r.state = "OPEN"
            <4>1. row'[t].state = "OPEN" /\ row'[t].size = spool[t]
                BY <3>1, <3>2 DEF Recovered, Row
            <4>2. spool'[t] = spool[t]
                BY <2>1, <2>3, <3>1, <3>2 DEF Settled
            <4> QED BY <2>2, <4>1, <4>2
        <3>3. CASE r.state \in Uploading
            <4>1. row'[t].state = "SEALED" /\ row'[t].size = r.size
                BY <3>1, <3>3 DEF Recovered, Row, Reset, Uploading
            <4>2. spool'[t] = spool[t]
                BY <2>1, <2>3, <3>1, <3>3 DEF Settled, Uploading
            <4> QED BY <2>1, <2>2, <3>3, <4>1, <4>2 DEF Whole
        <3>4. CASE r.state \in {"none", "COMMITTED"}
            <4>1. row'[t] = r
                BY <3>1, <3>4 DEF Recovered
            <4> QED BY <1>3, <2>1, <2>2, <2>3, <3>4, <4>1 DEF Whole, Uploading
        <3> QED BY <3>2, <3>3, <3>4 DEF Row, Uploading
    <2> QED BY <2>4, <2>5
<1> QED BY <1>4 DEF Whole

LEMMA WholeHosts ==
    ASSUME OutboxInv, Types', Whole, HostSteps
    PROVE  Whole'
<1>1. Types
    BY DEF OutboxInv
<1>2. UNCHANGED row => Rests
    BY <1>1, SameWork
<1>3. \A t \in Turns : spool[t] \in Nat /\ committed[t] \in Nat /\ row[t].size \in Nat
    BY <1>1, TurnConstants DEF Types, Row
<1>4. NoRow.state = "none" /\ NoRow.size = 0
    BY DEF NoRow
<1>5. ASSUME NEW s \in Sessions, RestoreHistoryReceipts(s) PROVE Whole'
    <2>1. PICK lost \in SUBSET Turns :
            /\ lost = {t \in Of(s) : ~Exists(t) /\ committed[t] > 0}
            /\ row' = [t \in Turns |-> IF t \in lost
                                       THEN [NoRow EXCEPT !.state = "COMMITTED", !.size = committed[t]]
                                       ELSE row[t]]
            /\ UNCHANGED <<disk, cloud>>
        BY Zenon, <1>5 DEF RestoreHistoryReceipts, Of
    <2>2. \A t \in lost : row'[t].state = "COMMITTED" /\ row'[t].size = committed[t] /\ row[t].state = "none"
        BY Zenon, <2>1 DEF NoRow, Exists
    <2>3. \A t \in Turns \ lost : row'[t] = row[t]
        BY Zenon, <2>1
    <2>4. UNCHANGED <<spool, committed>>
        BY <2>1 DEF disk, cloud
    <2>5. ASSUME NEW t \in lost
          PROVE  t \in Turns /\ committed'[t] >= row'[t].size /\ committed'[t] >= spool'[t]
        BY <1>3, <2>2, <2>4 DEF Whole
    <2> QED BY <2>2, <2>3, <2>4, <2>5 DEF Whole, Uploading
<1>6. ASSUME NEW s \in Sessions, ResumePublished(s) PROVE Whole'
    <2>1. PICK found : row' = [t \in Turns |-> IF t \in found
                               THEN [Reset(row[t]) EXCEPT !.missing = FALSE] ELSE row[t]]
        BY <1>6 DEF ResumePublished
    <2>2. \A t \in Turns : /\ [Reset(row[t]) EXCEPT !.missing = FALSE].state = row[t].state
                          /\ [Reset(row[t]) EXCEPT !.missing = FALSE].size = row[t].size
        BY <1>1 DEF Types, Row, Reset
    <2>3. Rests
        BY <2>1, <2>2 DEF Rests, Types
    <2> QED BY <1>1, <1>6, <2>3, WholeRests DEF ResumePublished, disk, cloud
<1>7. ASSUME BindingEnds PROVE Whole'
    <2>1. UNCHANGED <<spool, committed>>
        BY <1>7 DEF BindingEnds, disk, cloud
    <2>2. CASE phase # "active"
        BY <1>1, <1>2, <1>7, <2>1, <2>2, WholeRests DEF BindingEnds, db
    <2>3. CASE phase = "active"
        <3>1. row' = [t \in Turns |->
                  IF t \notin Of(binding) THEN row[t]
                  ELSE CASE row[t].state = "COMMITTED" -> NoRow
                         [] row[t].state \in Uploading -> [Reset(row[t]) EXCEPT !.state = "SEALED"]
                         [] OTHER -> row[t]]
            BY <1>7, <2>3 DEF BindingEnds
        <3>2. ASSUME NEW t \in Turns
              PROVE  \/ row'[t] = row[t]
                     \/ row[t].state = "COMMITTED" /\ row'[t].state = "none"
                     \/ row[t].state \in Uploading /\ row'[t].state = "SEALED" /\ row'[t].size = row[t].size
            <4>1. PICK r \in Row : r = row[t]
                BY <1>1 DEF Types
            <4>2. /\ [Reset(r) EXCEPT !.state = "SEALED"].state = "SEALED"
                  /\ [Reset(r) EXCEPT !.state = "SEALED"].size = r.size
                BY DEF Row, Reset
            <4>3. \/ row'[t] = r
                  \/ r.state = "COMMITTED" /\ row'[t] = NoRow
                  \/ r.state \in Uploading /\ row'[t] = [Reset(r) EXCEPT !.state = "SEALED"]
                BY <3>1, <4>1 DEF Uploading
            <4> QED BY <1>4, <4>1, <4>2, <4>3
        <3> QED BY <1>3, <2>1, <3>2 DEF Whole, Uploading
    <2> QED BY <2>2, <2>3
<1>8. ASSUME UNCHANGED <<row, spool, committed>> PROVE Whole'
    BY <1>1, <1>2, <1>8, WholeRests
<1>9. ASSUME NEW s \in Sessions, QueueHistoryFinalization(s) \/ BindingBegins(s) \/ HandedOver(s)
      PROVE  Whole'
    BY <1>8, <1>9 DEF QueueHistoryFinalization, BindingBegins, HandedOver, db, disk, cloud
<1>10. ASSUME Close \/ Aborted \/ Closed PROVE Whole'
    BY <1>8, <1>10 DEF Close, Aborted, Closed, db, disk, cloud
<1> QED BY <1>5, <1>6, <1>7, <1>9, <1>10, WholeStart DEF HostSteps

LEMMA WholeNext ==
    ASSUME OutboxInv, Types', Whole, ObjectMatchesSpool, [Next]_vars
    PROVE  Whole'
<1>1. Types
    BY DEF OutboxInv
<1>2. CASE TimePasses
    <2>1. Rests /\ UNCHANGED <<spool, committed>>
        BY <1>1, <1>2, TimeRests DEF TimePasses, TimerFires, DeadlinePasses, IntentExpires, disk, cloud
    <2> QED BY <1>1, <2>1, WholeRests
<1>3. CASE Crash
    <2>1. UNCHANGED <<row, committed>>
        BY <1>3 DEF Crash, db, cloud
    <2>2. CASE UNCHANGED spool
        BY <1>1, <2>1, <2>2, SameWork, WholeRests
    <2>3. CASE /\ capturing \in Turns
               /\ spool' = [spool EXCEPT ![capturing] = AtLeast(@, row[capturing].size + 1)]
        <3>1. PICK t \in Turns : t = capturing /\ row[t].state = "OPEN"
            BY <2>3 DEF OutboxInv, Types, OpenInv
        <3>2. spool[t] \in Nat /\ row[t].size \in Nat
            BY <1>1, TurnConstants DEF Types, Row
        <3>3. spool'[t] >= spool[t] /\ \A u \in Turns : u # t => spool'[u] = spool[u]
            BY <1>1, <2>3, <3>1, <3>2 DEF AtLeast, Types
        <3>4. \A u \in Turns : Lasts(u)
            BY <2>1, <3>1, <3>3 DEF Lasts
        <3> QED BY <1>1, <3>4, WholeLasts
    <2> QED BY <1>3, <2>2, <2>3 DEF Crash
<1>4. CASE CrashBeforeRemoval
    <2>1. PICK t \in Turns : t = drain.on /\ row[t].state \in Uploading /\ object[t] = spool[t]
        BY <1>4 DEF CrashBeforeRemoval, OutboxInv, DrainInv, Stage, Uploading, ObjectMatchesSpool
    <2>2. Becomes(t, "COMMITTED")
        BY <1>1, <1>4, <2>1, MarkedFacts DEF CrashBeforeRemoval
    <2>3. committed' = [committed EXCEPT ![t] = object[t]] /\ UNCHANGED spool
        BY <1>4, <2>1 DEF CrashBeforeRemoval, disk
    <2> QED BY <1>1, <2>1, <2>2, <2>3, WholeReceipt DEF Types
<1>5. CASE UNCHANGED vars
    BY <1>1, <1>5, SameWork, WholeRests DEF vars, db, disk, cloud
<1> QED BY <1>2, <1>3, <1>4, <1>5, WholeAdvances, WholeCaptures, WholeHosts DEF Next

LEMMA WholeInvariant == Spec => ([]ObjectMatchesSpool => []Whole)
<1>1. Init => Whole
    BY DEF Init, Whole, NoRow, Uploading
<1>2. OutboxInv => Types
    BY DEF OutboxInv
<1>3. OutboxInv /\ Types' /\ Whole /\ ObjectMatchesSpool /\ [Next]_vars => Whole'
    BY WholeNext
<1> QED BY <1>1, <1>2, <1>3, OutboxInvariant, PTL DEF Spec

(* What an upload takes from the disk is what the Backend committed. *)
LEMMA ReceivesSafely ==
    ASSUME OutboxInv, NEW d \in Turns, object[d] = spool[d],
           committed'[d] = object[d], Receives(d), NEW t \in Turns, spool'[t] # spool[t]
    PROVE  committed'[t] >= spool[t]
<1>1. t = d
    BY UnspoolFrame DEF Receives, OutboxInv
<1>2. spool[d] \in Nat
    BY TurnConstants DEF OutboxInv, Types
<1> QED BY <1>1, <1>2

LEMMA SafeStep ==
    ASSUME OutboxInv, Whole, ObjectMatchesSpool, Next, NEW t \in Turns, spool[t] > 0, spool'[t] = 0
    PROVE  committed'[t] >= spool[t] \/ (row[t].state = "OPEN" /\ t \in torn)
<1> DEFINE Safe == committed'[t] >= spool[t] \/ (row[t].state = "OPEN" /\ t \in torn)
<1>1. spool[t] \in Nat /\ spool'[t] # spool[t]
    BY TurnConstants DEF OutboxInv, Types
<1>2. row[t].state = "COMMITTED" => committed[t] >= spool[t]
    BY DEF Whole
<1>3. ASSUME Start PROVE Safe
    <2>1. t \in Settled \cup Unrecoverable
        BY <1>1, <1>3, StartRows, UnspoolTypes DEF OutboxInv, Settled, Unrecoverable
    <2>2. committed' = committed
        BY <1>3 DEF Start, cloud
    <2> QED BY <1>1, <1>2, <2>1, <2>2 DEF Settled, Unrecoverable
<1>4. ASSUME PrepareAnswers PROVE Safe
    <2>1. PICK d \in Turns : d = drain.on /\ row[d].state \in Uploading /\ object[d] = spool[d]
        BY <1>4 DEF PrepareAnswers, OutboxInv, DrainInv, Stage, Uploading, ObjectMatchesSpool
    <2>2. committed[d] = object[d] /\ Receives(d) /\ committed' = committed
        BY <1>1, <1>4, <2>1, PrepareOutcome DEF PrepareAnswers, OutboxInv, Proceeds, disk
    <2> QED BY <1>1, <2>1, <2>2, ReceivesSafely
<1>5. ASSUME CommitAnswers PROVE Safe
    <2>1. PICK d \in Turns : d = drain.on /\ row[d].state \in Uploading /\ object[d] = spool[d]
        BY <1>5 DEF CommitAnswers, OutboxInv, DrainInv, Stage, Uploading, ObjectMatchesSpool
    <2>2. committed' = [committed EXCEPT ![d] = object[d]] /\ Receives(d)
        BY <1>1, <1>5, <2>1, CommitOutcome DEF OutboxInv, disk
    <2> QED BY <1>1, <2>1, <2>2, ReceivesSafely DEF OutboxInv, Types
<1>6. ASSUME NEW u \in Turns, NEW n \in Nat, spool' = [spool EXCEPT ![u] = AtLeast(@, n)] PROVE FALSE
    BY <1>1, <1>6, TurnConstants DEF AtLeast, OutboxInv, Types
<1>7. ASSUME NEW u \in Turns, AppendFails(u) PROVE FALSE
    BY <1>1, <1>7, <1>6 DEF AppendFails, OutboxInv, Types
<1>8. ASSUME NEW u \in Turns, NEW ended \in BOOLEAN, AppendEnds(u, ended) PROVE FALSE
    <2>1. PICK n \in Nat : n = row[u].size + 1
        BY TurnConstants DEF OutboxInv, Types, Row
    <2> QED BY <1>6, <1>8, <2>1 DEF AppendEnds
<1>9. ASSUME Crash PROVE FALSE
    <2>1. capturing \in Turns /\ spool' = [spool EXCEPT ![capturing] = AtLeast(@, row[capturing].size + 1)]
        BY <1>1, <1>9 DEF Crash
    <2>2. PICK u \in Turns : u = capturing
        BY <2>1 DEF OutboxInv, Types
    <2>3. PICK n \in Nat : n = row[u].size + 1
        BY TurnConstants DEF OutboxInv, Types, Row
    <2> QED BY <1>6, <2>1, <2>2, <2>3
<1>10. ASSUME AdvanceSteps PROVE Safe
    BY <1>1, <1>4, <1>5, <1>10 DEF AdvanceSteps, PickTurn, PickFinalization, DrainEnds, FilePrepared,
       CredentialExpired, PutAnswers, CallFails, FinalizationAnswers, disk
<1>11. ASSUME CaptureSteps PROVE Safe
    BY <1>1, <1>7, <1>8, <1>11 DEF CaptureSteps, AppendBegins, SealInterrupted, CaptureDefers,
       CaptureBegins, CaptureEnds, disk
<1>12. ASSUME HostSteps PROVE Safe
    BY Zenon, <1>1, <1>3, <1>12 DEF HostSteps, QueueHistoryFinalization, RestoreHistoryReceipts, ResumePublished,
       BindingBegins, HandedOver, BindingEnds, Close, Aborted, Closed, disk
<1>13. ASSUME TimePasses \/ CrashBeforeRemoval PROVE Safe
    BY <1>1, <1>13 DEF TimePasses, TimerFires, DeadlinePasses, IntentExpires, CrashBeforeRemoval, disk
<1> QED BY <1>9, <1>10, <1>11, <1>12, <1>13 DEF Next

(* A receipt stands for an object that the Backend committed and that      *)
(* holds every event the row counts, whatever fails, unless an upload took *)
(* another object than that of the spool.                                  *)
THEOREM WholeUploadsKeepReceipts == Spec => ([]ObjectMatchesSpool => []ReceiptsTrue)
<1>1. OutboxInv /\ Whole => ReceiptsTrue
    BY DEF ReceiptsTrue, OutboxInv, CloudInv, Whole
<1> QED BY <1>1, OutboxInvariant, WholeInvariant, PTL

(* The events of a turn leave the disk only when the Backend has committed *)
(* all of them, or with an open turn whose spool was cut short, whatever   *)
(* fails, unless an upload took another object than that of the spool.     *)
THEOREM WholeUploadsKeepPayloads == Spec => ([]ObjectMatchesSpool => PayloadSafe)
<1> DEFINE Safe == \A t \in Turns : spool[t] > 0 /\ spool'[t] = 0 =>
          \/ committed'[t] >= spool[t]
          \/ row[t].state = "OPEN" /\ t \in torn
<1>1. OutboxInv /\ Whole /\ ObjectMatchesSpool /\ [Next]_vars => [Safe]_vars
    <2> SUFFICES ASSUME OutboxInv, Whole, ObjectMatchesSpool, Next PROVE Safe
        OBVIOUS
    <2> QED BY SafeStep
<1>2. Spec => ([]ObjectMatchesSpool => [][Safe]_vars)
    <2> HIDE DEF Safe
    <2> QED BY <1>1, OutboxInvariant, WholeInvariant, PTL DEF Spec
<1> QED BY <1>2 DEF PayloadSafe

(* Unless crashes and bindings mix, what is uploaded is the whole spool.   *)
THEOREM UploadsAreWhole == Tidy => (Spec => []ObjectMatchesSpool)
<1> SUFFICES ASSUME Tidy PROVE Spec => []ObjectMatchesSpool
    OBVIOUS
<1>1. ASSUME OutboxInv, drain.pc \in {"prepare", "put", "commit"} PROVE object[drain.on] = spool[drain.on]
    <2>1. PICK t \in Turns : t = drain.on
        BY <1>1 DEF OutboxInv, DrainInv
    <2>2. row[t].state \in Uploading /\ object[t] > 0
        BY <1>1, <2>1 DEF OutboxInv, DrainInv, CloudInv, Stage, Uploading
    <2> QED BY <1>1, <2>1, <2>2 DEF OutboxInv, Kept, KeptOf
<1>2. OutboxInv => ObjectMatchesSpool
    BY <1>1 DEF ObjectMatchesSpool
<1> QED BY <1>2, OutboxInvariant, PTL

(* Unless crashes and bindings mix, a receipt stands for a commit of every *)
(* event the row counts.                                                   *)
THEOREM ReceiptsStandForCommits == Tidy => (Spec => []ReceiptsTrue)
<1> SUFFICES ASSUME Tidy PROVE Spec => []ReceiptsTrue
    OBVIOUS
<1>1. Spec => []ObjectMatchesSpool
    BY UploadsAreWhole
<1> QED BY <1>1, WholeUploadsKeepReceipts, PTL

(* Unless crashes and bindings mix, the events of a turn leave the disk    *)
(* only when the Backend has them, or with an open turn that was cut short.*)
THEOREM PayloadsAreSafe == Tidy => (Spec => PayloadSafe)
<1> SUFFICES ASSUME Tidy PROVE Spec => PayloadSafe
    OBVIOUS
<1>1. Spec => []ObjectMatchesSpool
    BY UploadsAreWhole
<1> QED BY <1>1, WholeUploadsKeepPayloads

-----------------------------------------------------------------------------
(* The capacity that is charged: the events of the rows that are not       *)
(* committed.  A row that is gone has none, so that a receipt may take its *)
(* place, and a binding a receipt's, without a change of the charge.       *)
Owes(rows) == [t \in Turns |-> IF rows[t].state = "COMMITTED" THEN 0 ELSE rows[t].size]
ChargeInv ==
    /\ \A t \in Turns : row[t].state = "none" => row[t].size = 0
    /\ pending \in Nat /\ PendingExact

LEMMA UnpaidColumns ==
    ASSUME NEW rows \in [Turns -> Row]
    PROVE  /\ Owes(rows) \in [Turns -> Nat] /\ IsFiniteSet(Columns(Turns, Owes(rows)))
           /\ Unpaid(rows) = Cardinality(Columns(Turns, Owes(rows))) /\ Unpaid(rows) \in Nat
<1>1. \A t \in Turns : rows[t].size \in 0..MaxEvents
    BY DEF Row
<1>2. MaxEvents \in Nat /\ IsFiniteSet(Turns)
    BY TurnConstants
<1>3. Owes(rows) \in [Turns -> Nat]
    BY <1>1, <1>2 DEF Owes
<1> DEFINE all == Turns \X (1..MaxEvents)
           owed == {e \in all : rows[e[1]].state # "COMMITTED" /\ e[2] <= rows[e[1]].size}
<1>4. IsFiniteSet(all)
    <2>1. IsFiniteSet(1..MaxEvents)
        BY <1>2, FS_Interval
    <2> QED BY <1>2, <2>1, FS_Product
<1>5. IsFiniteSet(owed)
    BY <1>4, FS_Subset
<1>6. ASSUME NEW t \in Turns, NEW i PROVE <<t, i>> \in owed <=> i \in 1..Owes(rows)[t]
    BY <1>1, <1>2, <1>6 DEF Owes
<1>7. owed = Columns(Turns, Owes(rows))
    <2>1. ASSUME NEW e PROVE e \in owed <=> e \in Columns(Turns, Owes(rows))
        <3>1. e \in owed => \E t \in Turns : \E i : e = <<t, i>> /\ <<t, i>> \in owed
            OBVIOUS
        <3> HIDE DEF owed
        <3> DEFINE len == Owes(rows)
        <3> HIDE DEF len
        <3>2. e \in Columns(Turns, len) <=> \E t \in Turns : \E i \in 1..len[t] : e = <<t, i>>
            BY InColumns
        <3>3. \A t \in Turns : \A i : <<t, i>> \in owed <=> i \in 1..len[t]
            BY <1>6 DEF len
        <3>4. e \in owed <=> e \in Columns(Turns, len)
            BY <3>1, <3>2, <3>3
        <3> QED BY <3>4 DEF len
    <2> HIDE DEF owed
    <2> QED BY <2>1
<1>8. Unpaid(rows) = Cardinality(owed)
    BY DEF Unpaid
<1> HIDE DEF owed
<1> QED BY <1>3, <1>5, <1>7, <1>8, FS_CardinalityType

(* What is charged depends on the events of each row and on which rows are *)
(* committed, and it is forgotten when the instance goes down.             *)
LEMMA ChargeAlike ==
    ASSUME Types, row' \in [Turns -> Row], ChargeInv, pending' = pending,
           phase = "down" => phase' = "down",
           \A t \in Turns : /\ row'[t].state = "none" => row'[t].size = 0
                           /\ Owes(row')[t] = Owes(row)[t]
    PROVE  ChargeInv'
<1>1. Owes(row') = Owes(row)
    BY DEF Owes
<1>2. Unpaid(row') = Unpaid(row)
    BY <1>1, UnpaidColumns DEF Types
<1>3. phase' # "down" => pending' = Unpaid(row')
    BY <1>2 DEF ChargeInv, PendingExact
<1>4. Unpaid(row)' = Unpaid(row')
    BY DEF Unpaid
<1> QED BY <1>3, <1>4 DEF ChargeInv, PendingExact

LEMMA ChargeRests ==
    ASSUME Types, Rests, ChargeInv, pending' = pending, phase = "down" => phase' = "down"
    PROVE  ChargeInv'
<1>1. \A t \in Turns : /\ row'[t].state = "none" => row'[t].size = 0
                      /\ Owes(row')[t] = Owes(row)[t]
    BY DEF Rests, Owes, ChargeInv
<1> QED BY <1>1, ChargeAlike DEF Rests

LEMMA ChargeBecomes ==
    ASSUME Types, NEW t \in Turns, NEW x \in Uploading, Becomes(t, x), row[t].state # "COMMITTED",
           ChargeInv, pending' = pending, phase = "down" => phase' = "down"
    PROVE  ChargeInv'
<1>1. \A u \in Turns : /\ row'[u].state = "none" => row'[u].size = 0
                      /\ Owes(row')[u] = Owes(row)[u]
    BY DEF Becomes, Owes, ChargeInv, Uploading
<1> QED BY <1>1, ChargeAlike DEF Becomes

LEMMA ChargeGone ==
    ASSUME ChargeInv, phase' = "down", pending' = 0,
           \A t \in Turns : row'[t].state = "none" => row[t].state = "none" /\ row'[t].size = row[t].size
    PROVE  ChargeInv'
BY DEF ChargeInv, PendingExact

(* An event that is counted is charged; a row that is committed gives back *)
(* what it was charged for.                                                *)
LEMMA ChargeCaptured ==
    ASSUME OutboxInv, ChargeInv, NEW t \in Turns, NEW ended \in BOOLEAN, AppendEnds(t, ended), Types'
    PROVE  ChargeInv'
<1>1. row[t].state = "OPEN" /\ phase # "down" /\ row[t].size \in Nat
    BY TurnConstants DEF OutboxInv, OpenInv, AppendEnds, Types, Row
<1>2. pending' = pending + 1 /\ phase' = phase
    BY DEF AppendEnds
<1>3. /\ row'[t].size = row[t].size + 1 /\ row'[t].state \in {"OPEN", "SEALED"}
      /\ \A u \in Turns : u # t => row'[u] = row[u]
    BY DEF AppendEnds, OutboxInv, Types, Row
<1>4. Owes(row')[t] = Owes(row)[t] + 1 /\ \A u \in Turns : u # t => Owes(row')[u] = Owes(row)[u]
    BY <1>1, <1>3 DEF Owes
<1>5. Unpaid(row') = Unpaid(row) + 1
    <2>1. row \in [Turns -> Row] /\ row' \in [Turns -> Row]
        BY DEF OutboxInv, Types
    <2> QED BY <1>4, <2>1, UnpaidColumns, ColumnGrows
<1>6. Unpaid(row)' = Unpaid(row')
    BY DEF Unpaid
<1>7. pending' = Unpaid(row') /\ pending' \in Nat
    BY <1>1, <1>2, <1>5 DEF ChargeInv, PendingExact
<1>8. \A u \in Turns : row'[u].state = "none" => row'[u].size = 0
    BY <1>3 DEF ChargeInv
<1> QED BY <1>6, <1>7, <1>8 DEF ChargeInv, PendingExact

LEMMA ChargeMarked ==
    ASSUME OutboxInv, ChargeInv, NEW t \in Turns, row[t].state \in Uploading, MarkCommitted(t),
           phase # "down", UNCHANGED phase
    PROVE  ChargeInv'
<1>1. Becomes(t, "COMMITTED") /\ row[t].size \in Nat
    BY MarkedFacts, TurnConstants DEF MarkCommitted, OutboxInv, Types, Row
<1>2. /\ row \in [Turns -> Row] /\ row' \in [Turns -> Row]
      /\ Owes(row)[t] = row[t].size /\ Owes(row')[t] = 0
      /\ \A u \in Turns : u # t => Owes(row')[u] = Owes(row)[u]
    BY <1>1 DEF Becomes, Owes, Uploading, OutboxInv, Types
<1>3. Unpaid(row') = Unpaid(row) - row[t].size /\ row[t].size <= Unpaid(row)
    <2>1. PICK n : n = row[t].size
        OBVIOUS
    <2>2. n \in 0..Owes(row)[t] /\ Owes(row')[t] = Owes(row)[t] - n
        BY <1>1, <1>2, <2>1
    <2> QED BY <1>2, <2>1, <2>2, UnpaidColumns, ColumnShrinks
<1>4. pending = Unpaid(row) /\ Unpaid(row) \in Nat
    BY <1>2, UnpaidColumns DEF ChargeInv, PendingExact
<1>5. pending' = IF pending < row[t].size THEN 0 ELSE pending - row[t].size
    BY DEF MarkCommitted
<1>6. pending' = Unpaid(row') /\ pending' \in Nat
    BY <1>1, <1>3, <1>4, <1>5
<1>7. Unpaid(row)' = Unpaid(row')
    BY DEF Unpaid
<1>8. \A u \in Turns : row'[u].state = "none" => row'[u].size = 0
    BY <1>1 DEF Becomes, ChargeInv
<1> QED BY <1>6, <1>7, <1>8 DEF ChargeInv, PendingExact

LEMMA ChargeAdvances ==
    ASSUME OutboxInv, ChargeInv, AdvanceSteps
    PROVE  ChargeInv'
<1>1. Types /\ OrderInv /\ DrainInv
    BY DEF OutboxInv
<1>2. UNCHANGED db => Rests
    BY <1>1, SameWork DEF db
<1>3. CASE PickTurn
    BY <1>1, <1>2, <1>3, PickOutcome, ChargeRests DEF PickTurn
<1>4. CASE \E s \in Sessions : PickFinalization(s)
    BY <1>1, <1>2, <1>4, FinalizationPicked, ChargeRests DEF PickFinalization
<1>5. CASE DrainEnds
    BY <1>1, <1>2, <1>5, ChargeRests DEF DrainEnds
<1>6. CASE FilePrepared
    BY <1>1, <1>2, <1>6, FileOutcome, ChargeRests DEF FilePrepared
<1>7. CASE PrepareAnswers
    <2>1. PICK t \in Turns : t = drain.on /\ row[t].state \in Uploading
        BY <1>1, <1>7 DEF PrepareAnswers, DrainInv, Stage, Uploading
    <2>2. phase # "down" /\ UNCHANGED phase
        BY <1>7, DrainsUp DEF PrepareAnswers, Idle, At
    <2>3. CASE MarkCommitted(t)
        BY <2>1, <2>2, <2>3, ChargeMarked
    <2>4. CASE row' = [row EXCEPT ![t].state = "PREPARED"] /\ UNCHANGED pending
        <3>1. "PREPARED" \in Uploading /\ row[t].state # "COMMITTED"
            BY <2>1 DEF Uploading
        <3> QED BY <1>1, <2>2, <2>4, <3>1, StateFacts, ChargeBecomes
    <2>5. CASE AttemptFails(t, row, FALSE, FALSE) /\ UNCHANGED pending
        BY <1>1, <1>7, <2>1, <2>2, <2>5, FailedAsItWas, ChargeRests DEF PrepareAnswers
    <2> QED BY <1>7, <2>1, <2>3, <2>4, <2>5 DEF PrepareAnswers
<1>8. CASE CredentialExpired
    <2>1. PICK t \in Turns : t = drain.on /\ row[t].state \in Uploading
        BY <1>1, <1>8 DEF CredentialExpired, DrainInv, Stage, Uploading
    <2>2. Becomes(t, "SEALED") /\ UNCHANGED <<pending, phase>>
        BY <1>1, <1>8, <2>1, FailedUnprepared DEF CredentialExpired
    <2> QED BY <1>1, <2>1, <2>2, ChargeBecomes DEF Uploading
<1>9. CASE PutAnswers
    <2>1. PICK t \in Turns : t = drain.on /\ row[t].state \in Uploading
        BY <1>1, <1>9 DEF PutAnswers, DrainInv, Stage, Uploading
    <2>2. UNCHANGED <<pending, phase>>
        BY <1>9 DEF PutAnswers
    <2>3. CASE Becomes(t, "UPLOADED")
        BY <1>1, <2>1, <2>2, <2>3, ChargeBecomes DEF Uploading
    <2>4. CASE Rests
        BY <1>1, <2>2, <2>4, ChargeRests
    <2> QED BY <1>1, <1>9, <2>1, <2>3, <2>4, PutOutcome DEF Proceeds
<1>10. CASE CommitAnswers
    <2>1. PICK t \in Turns : t = drain.on /\ row[t].state \in Uploading
        BY <1>1, <1>10 DEF CommitAnswers, DrainInv, Stage, Uploading
    <2>2. phase # "down" /\ UNCHANGED phase
        BY <1>10, DrainsUp DEF CommitAnswers, Idle, At
    <2>3. CASE MarkCommitted(t)
        BY <2>1, <2>2, <2>3, ChargeMarked
    <2>4. CASE AttemptFails(t, row, TRUE, FALSE) /\ UNCHANGED pending
        BY <1>1, <1>10, <2>1, <2>2, <2>4, FailedAsItWas, ChargeRests DEF CommitAnswers
    <2>5. CASE AttemptFails(t, Unprepared, TRUE, FALSE) /\ UNCHANGED pending
        <3>1. Becomes(t, "SEALED")
            BY <1>1, <1>10, <2>1, <2>5, FailedUnprepared DEF CommitAnswers
        <3> QED BY <1>1, <2>1, <2>2, <2>5, <3>1, ChargeBecomes DEF Uploading
    <2> QED BY <1>10, <2>1, <2>3, <2>4, <2>5 DEF CommitAnswers
<1>11. CASE CallFails
    BY <1>1, <1>11, FailedAsItWas, ChargeRests DEF CallFails
<1>12. CASE FinalizationAnswers
    BY <1>1, <1>12, FinalizationOutcome, ChargeRests DEF FinalizationAnswers
<1> QED BY <1>3, <1>4, <1>5, <1>6, <1>7, <1>8, <1>9, <1>10, <1>11, <1>12 DEF AdvanceSteps

LEMMA ChargeCaptures ==
    ASSUME OutboxInv, Types', ChargeInv, CaptureSteps
    PROVE  ChargeInv'
<1>1. Types
    BY DEF OutboxInv
<1>2. ASSUME NEW t \in Turns, AppendBegins(t) PROVE ChargeInv'
    <2>1. /\ UNCHANGED <<phase, pending>>
          /\ row' = [row EXCEPT ![t] = IF Exists(t) THEN @ ELSE OpenRow]
        BY <1>2 DEF AppendBegins
    <2>2. OpenRow.state = "OPEN" /\ OpenRow.size = 0
        BY DEF OpenRow, NoRow
    <2>3. row'[t] = row[t] \/ (row[t].state = "none" /\ row'[t] = OpenRow)
        BY <1>1, <2>1 DEF Types, Exists
    <2>4. \A u \in Turns : u # t => row'[u] = row[u]
        BY <1>1, <2>1 DEF Types
    <2>5. \A u \in Turns : /\ row'[u].state = "none" => row'[u].size = 0
                          /\ Owes(row')[u] = Owes(row)[u]
        BY <2>2, <2>3, <2>4 DEF ChargeInv, Owes
    <2>6. row' \in [Turns -> Row]
        BY DEF Types
    <2> QED BY <1>1, <2>1, <2>5, <2>6, ChargeAlike
<1>3. ASSUME NEW t \in Turns, AppendFails(t) PROVE ChargeInv'
    BY <1>1, <1>3, SameWork, ChargeRests DEF AppendFails, db
<1>4. ASSUME NEW t \in Turns, SealInterrupted(t) PROVE ChargeInv'
    <2>1. /\ UNCHANGED <<phase, pending>> /\ row[t].state = "OPEN"
          /\ row' = [row EXCEPT ![t].state = "SEALED", ![t].next = "now"]
        BY <1>4 DEF SealInterrupted, memory
    <2>2. Becomes(t, "SEALED")
        BY <1>1, <2>1 DEF Becomes, Types, Row
    <2> QED BY <1>1, <2>1, <2>2, ChargeBecomes DEF Uploading
<1>5. ASSUME NEW s \in Sessions, CaptureDefers(s) PROVE ChargeInv'
    BY <1>1, <1>5, DeferFacts, ChargeRests DEF CaptureDefers
<1>6. ASSUME NEW s \in Sessions, CaptureBegins(s) PROVE ChargeInv'
    BY <1>1, <1>6, SameWork, ChargeRests DEF CaptureBegins, db
<1>7. ASSUME CaptureEnds PROVE ChargeInv'
    BY <1>1, <1>7, SameWork, ChargeRests DEF CaptureEnds, db
<1> QED BY <1>2, <1>3, <1>4, <1>5, <1>6, <1>7, ChargeCaptured DEF CaptureSteps

(* activate() counts what it finds; the receipts that are restored and the *)
(* ones that a binding drops were not charged.                             *)
LEMMA ChargeHosts ==
    ASSUME OutboxInv, Types', ChargeInv, HostSteps
    PROVE  ChargeInv'
<1>1. Types
    BY DEF OutboxInv
<1>2. UNCHANGED row => Rests
    BY <1>1, SameWork
<1>3. NoRow.state = "none" /\ NoRow.size = 0
    BY DEF NoRow
<1>4. row' \in [Turns -> Row]
    BY DEF Types
<1>5. ASSUME NEW s \in Sessions, RestoreHistoryReceipts(s) PROVE ChargeInv'
    <2>1. PICK lost \in SUBSET Turns :
            /\ lost = {t \in Of(s) : ~Exists(t) /\ committed[t] > 0}
            /\ row' = [t \in Turns |-> IF t \in lost
                                       THEN [NoRow EXCEPT !.state = "COMMITTED", !.size = committed[t]]
                                       ELSE row[t]]
            /\ UNCHANGED memory
        BY Zenon, <1>5 DEF RestoreHistoryReceipts, Of
    <2>2. \A t \in lost : row'[t].state = "COMMITTED" /\ row[t].state = "none"
        BY Zenon, <2>1 DEF NoRow, Exists
    <2>3. \A t \in Turns \ lost : row'[t] = row[t]
        BY Zenon, <2>1
    <2>4. \A t \in Turns : /\ row'[t].state = "none" => row'[t].size = 0
                          /\ Owes(row')[t] = Owes(row)[t]
        BY <2>2, <2>3 DEF ChargeInv, Owes
    <2> QED BY <1>1, <1>4, <2>1, <2>4, ChargeAlike DEF memory
<1>6. ASSUME NEW s \in Sessions, ResumePublished(s) PROVE ChargeInv'
    <2>1. PICK found : row' = [t \in Turns |-> IF t \in found
                               THEN [Reset(row[t]) EXCEPT !.missing = FALSE] ELSE row[t]]
        BY <1>6 DEF ResumePublished
    <2>2. \A t \in Turns : /\ [Reset(row[t]) EXCEPT !.missing = FALSE].state = row[t].state
                          /\ [Reset(row[t]) EXCEPT !.missing = FALSE].size = row[t].size
        BY <1>1 DEF Types, Row, Reset
    <2>3. Rests
        BY <1>4, <2>1, <2>2 DEF Rests
    <2> QED BY <1>1, <1>6, <2>3, ChargeRests DEF ResumePublished
<1>7. ASSUME Start PROVE ChargeInv'
    <2>1. pending' = Unpaid(row') /\ Unpaid(row') \in Nat
        BY <1>4, <1>7, UnpaidColumns DEF Start
    <2>2. PICK dropped : \A t \in Turns : row'[t] = IF t \in dropped THEN NoRow ELSE Recovered(row[t], t)
        BY <1>1, <1>7, StartRows
    <2>3. ASSUME NEW t \in Turns, row'[t].state = "none" PROVE row'[t].size = 0
        <3>1. PICK r \in Row : r = row[t]
            BY <1>1 DEF Types
        <3>2. /\ \A n : [r EXCEPT !.size = n].state = r.state
              /\ Reset(r).state = r.state
              /\ [r EXCEPT !.state = "SEALED", !.next = "now"].state = "SEALED"
            BY DEF Row, Reset
        <3>3. Recovered(r, t).state = "none" => r.state = "none" /\ Recovered(r, t) = r
            BY <3>2 DEF Recovered
        <3> QED BY <1>3, <2>2, <2>3, <3>1, <3>3 DEF ChargeInv
    <2>4. Unpaid(row)' = Unpaid(row')
        BY DEF Unpaid
    <2> QED BY <2>1, <2>3, <2>4 DEF ChargeInv, PendingExact
<1>8. ASSUME BindingEnds PROVE ChargeInv'
    <2>1. UNCHANGED <<phase, pending>>
        BY <1>8 DEF BindingEnds
    <2>2. CASE phase # "active"
        BY <1>1, <1>2, <1>8, <2>1, <2>2, ChargeRests DEF BindingEnds, db
    <2>3. CASE phase = "active"
        <3>1. row' = [t \in Turns |->
                  IF t \notin Of(binding) THEN row[t]
                  ELSE CASE row[t].state = "COMMITTED" -> NoRow
                         [] row[t].state \in Uploading -> [Reset(row[t]) EXCEPT !.state = "SEALED"]
                         [] OTHER -> row[t]]
            BY <1>8, <2>3 DEF BindingEnds
        <3>2. ASSUME NEW t \in Turns
              PROVE  /\ row'[t].state = "none" => row'[t].size = 0
                     /\ Owes(row')[t] = Owes(row)[t]
            <4>1. PICK r \in Row : r = row[t]
                BY <1>1 DEF Types
            <4>2. /\ [Reset(r) EXCEPT !.state = "SEALED"].state = "SEALED"
                  /\ [Reset(r) EXCEPT !.state = "SEALED"].size = r.size
                BY DEF Row, Reset
            <4>3. \/ row'[t] = r
                  \/ r.state = "COMMITTED" /\ row'[t] = NoRow
                  \/ r.state \in Uploading /\ row'[t] = [Reset(r) EXCEPT !.state = "SEALED"]
                BY <3>1, <4>1 DEF Uploading
            <4> QED BY <1>3, <4>1, <4>2, <4>3 DEF ChargeInv, Owes, Uploading
        <3> QED BY <1>1, <1>4, <2>1, <3>2, ChargeAlike
    <2> QED BY <2>2, <2>3
<1>9. ASSUME Closed PROVE ChargeInv'
    BY <1>9, ChargeGone DEF Closed, db
<1>10. ASSUME UNCHANGED <<row, pending>>, phase = "down" => phase' = "down" PROVE ChargeInv'
    BY <1>1, <1>2, <1>10, ChargeRests
<1>11. ASSUME NEW s \in Sessions, QueueHistoryFinalization(s) \/ BindingBegins(s) \/ HandedOver(s)
       PROVE  ChargeInv'
    BY <1>10, <1>11 DEF QueueHistoryFinalization, BindingBegins, HandedOver, db, memory
<1>12. ASSUME Close \/ Aborted PROVE ChargeInv'
    BY <1>10, <1>12 DEF Close, Aborted, db
<1> QED BY <1>5, <1>6, <1>7, <1>8, <1>9, <1>11, <1>12 DEF HostSteps

LEMMA ChargeNext ==
    ASSUME OutboxInv, Types', ChargeInv, [Next]_vars
    PROVE  ChargeInv'
<1>1. Types
    BY DEF OutboxInv
<1>2. CASE TimePasses
    <2>1. Rests
        BY <1>1, <1>2, TimeRests
    <2>2. UNCHANGED <<phase, pending>>
        BY <1>2 DEF TimePasses, TimerFires, DeadlinePasses, IntentExpires, memory
    <2> QED BY <1>1, <2>1, <2>2, ChargeRests
<1>3. CASE Crash
    BY <1>3, ChargeGone DEF Crash, Dead, db
<1>4. CASE CrashBeforeRemoval
    <2>1. PICK t \in Turns : t = drain.on
        BY <1>4 DEF CrashBeforeRemoval, OutboxInv, DrainInv
    <2>2. Becomes(t, "COMMITTED")
        BY <1>1, <1>4, <2>1, MarkedFacts DEF CrashBeforeRemoval
    <2> QED BY <1>4, <2>2, ChargeGone DEF CrashBeforeRemoval, Dead, Becomes
<1>5. CASE UNCHANGED vars
    BY <1>1, <1>5, SameWork, ChargeRests DEF vars, db, memory
<1> QED BY <1>2, <1>3, <1>4, <1>5, ChargeAdvances, ChargeCaptures, ChargeHosts DEF Next

LEMMA ChargeInit == Init => ChargeInv
<1> SUFFICES ASSUME Init PROVE ChargeInv
    OBVIOUS
<1> QED BY DEF Init, NoRow, ChargeInv, PendingExact

LEMMA ChargeInvariant == Spec => []ChargeInv
<1>1. OutboxInv => Types
    BY DEF OutboxInv
<1>2. OutboxInv /\ Types' /\ ChargeInv /\ [Next]_vars => ChargeInv'
    BY ChargeNext
<1> QED BY <1>1, <1>2, ChargeInit, OutboxInvariant, PTL DEF Spec

(* The pending bytes are those of the turns that are not committed: a turn *)
(* that is uploaded gives back exactly what it was charged for, and no     *)
(* fault leaves the outbox refusing captures for turns that are gone.      *)
THEOREM CapacityIsExact == Spec => []PendingExact
<1>1. ChargeInv => PendingExact
    BY DEF ChargeInv
<1> QED BY <1>1, ChargeInvariant, PTL

(* Rows, files, receipts and the drain keep their types.                   *)
THEOREM OutboxTypes == Spec => []TypeOK
<1>1. OutboxInv /\ ChargeInv => TypeOK
    BY DEF OutboxInv, Types, OrderInv, Present, ChargeInv, TypeOK
<1> QED BY <1>1, OutboxInvariant, ChargeInvariant, PTL

=============================================================================
