------------------------------ MODULE SendQueue ------------------------------
(***************************************************************************)
(* The persisted queue of team messages: src/src/services/team-send-queue.ts*)
(* over the account's state file, services/file-transfers.ts (teamSends,   *)
(* mutateTeamSends, save).  A task is a message with its own clientUid; a  *)
(* lane is a conversation, and the map "active" gives a lane to one job at *)
(* a time: a run of the drain, a cancel() or a retry().  A job works on a  *)
(* copy of its task and saves it.                                          *)
(*                                                                         *)
(* External: the server, which knows a message by its clientUid, and the   *)
(* network.  An action is what happens between two awaits; currentUser()   *)
(* answers from the cached session and is no await of its own.             *)
(***************************************************************************)
EXTENDS Naturals, FiniteSets

CONSTANTS Tasks, Lanes,
          LaneOf,       \* the conversation of a task
          Places,       \* runs at a time: 2 in the code
          MaxUploads,   \* bound: uploads that end well, of one task
          MaxTroubles,  \* bound: troubles of any kind
          Faults        \* what may go wrong: see FaultKinds

(* call: a call of the server fails, or its answer is lost; disk: the state*)
(* file is not written; reject: the server refuses a message; restart; and *)
(* signout, of the account the tasks belong to.                            *)
FaultKinds == {"call", "disk", "reject", "restart", "signout"}

ASSUME SendQueueAssumption ==
  /\ LaneOf \in [Tasks -> Lanes]
  /\ Places \in Nat \ {0}
  /\ MaxUploads \in Nat
  /\ MaxTroubles \in Nat
  /\ Faults \subseteq FaultKinds

VARIABLES
  stored,   \* the tasks in the state file
  unsaved,  \* tasks whose enqueue() has not been written yet, though others see them
  job,      \* what holds a lane, and the copy it works on
  drain,    \* the drain that fills the free places
  account,  \* "in" | "leaving": the credentials are gone | "out": pause() was called
  sea,      \* requests under way to the server
  server,   \* what the server has of a message, and the content it was sent with
  uploads,  \* uploads done for a task so far
  troubles  \* what has gone wrong so far

vars == <<stored, unsaved, job, drain, account, sea, server, uploads, troubles>>
tasks == <<stored, unsaved>>
outside == <<sea, server, uploads>>

-------------------------------------------------------------------------------

States == {"absent", "queued", "uploading", "sending", "retrying", "cancelling",
           "sent", "failed", "cancelled"}
Terminal == {"sent", "cancelled"}
Live == {"queued", "uploading", "sending", "retrying", "cancelling"}
Replies == {"preparing", "published", "cancelled"}

(* content: sendContent, numbered by the upload it was built from, 0 while *)
(* there is none; intent: cancelRequested.                                 *)
Records == [state : States, intent : BOOLEAN, content : 0..MaxUploads,
            message : Replies \cup {"none"}]
Absent == [state |-> "absent", intent |-> FALSE, content |-> 0, message |-> "none"]

Calls == {"timeline", "upload", "send", "withdraw"}
Saves == {"uploading", "sending", "intent", "result", "failure", "again", "retry"}

(* A job is in a call of the server, or it saves its copy.                 *)
Jobs == [who : {"run", "cancel", "retry"}, task : Tasks, at : {"call", "save", "saved"},
         step : Calls \cup Saves, copy : Records, aborted : BOOLEAN]
NoJob == [who |-> "none"]

Requests == [task : Tasks, kind : {"send", "cancel"}, content : 0..MaxUploads]

Drains == [at : {"idle", "looking", "waiting", "settling"}, stale : BOOLEAN,
           attempted : SUBSET Tasks]
NoDrain == [at |-> "idle", stale |-> FALSE, attempted |-> {}]

TypeOK ==
  /\ stored \in [Tasks -> Records]
  /\ unsaved \subseteq Tasks
  /\ job \in [Lanes -> Jobs \cup {NoJob}]
  /\ drain \in Drains
  /\ account \in {"in", "leaving", "out"}
  /\ sea \subseteq Requests
  /\ server \in [Tasks -> [state : Replies \cup {"none"}, content : 0..MaxUploads]]
  /\ uploads \in [Tasks -> 0..MaxUploads]
  /\ troubles \in 0..MaxTroubles

Init ==
  /\ stored = [t \in Tasks |-> Absent]
  /\ unsaved = {}
  /\ job = [l \in Lanes |-> NoJob]
  /\ drain = NoDrain
  /\ account = "in"
  /\ sea = {}
  /\ server = [t \in Tasks |-> [state |-> "none", content |-> 0]]
  /\ uploads = [t \in Tasks |-> 0]
  /\ troubles = 0

-------------------------------------------------------------------------------
(* Steps of a job.                                                         *)

Trouble(kind) ==
  /\ kind \in Faults
  /\ troubles < MaxTroubles
  /\ troubles' = troubles + 1

In(l, at, step) == job[l] # NoJob /\ job[l].at = at /\ job[l].step = step
Running == {l \in Lanes : job[l].who = "run"}

(* wake(0), or the end of a run: the drain looks at the tasks again.       *)
Awoken == [drain EXCEPT !.at = IF @ = "waiting" THEN "looking" ELSE @]

Claim(l, who, t, at, step, copy) ==
  job' = [job EXCEPT ![l] = [who |-> who, task |-> t, at |-> at, step |-> step,
                             copy |-> copy, aborted |-> FALSE]]
Goes(l, at, step, copy) ==
  /\ job' = [job EXCEPT ![l].at = at, ![l].step = step, ![l].copy = copy]
  /\ UNCHANGED drain
EndsUnnoticed(l) ==
  /\ job' = [job EXCEPT ![l] = NoJob]
  /\ UNCHANGED drain
Ends(l) ==
  /\ job' = [job EXCEPT ![l] = NoJob]
  /\ drain' = Awoken

(* guard(): the job was not aborted and its account is still there.        *)
Guarded(l) == ~job[l].aborted /\ account = "in"

FailedTask(r, transient) ==
  [r EXCEPT !.state = IF ~transient THEN "failed"
                      ELSE IF r.intent THEN "cancelling" ELSE "retrying"]

(* The catch of run() and of cancel().  A run that has seen its message    *)
(* acknowledged tries to save just that once more.                         *)
Caught(l, transient) ==
  IF ~Guarded(l) THEN Ends(l)
  ELSE IF job[l].who = "run" /\ job[l].copy.state = "sent"
       THEN Goes(l, "save", "again", job[l].copy)
       ELSE Goes(l, "save", "failure", FailedTask(job[l].copy, transient))

(* completeCancellation: a message that was never sent is cancelled here.  *)
LocalIfUnanswered(r) == r.message = "none"
Local(r) == r.content = 0 /\ r.message = "none"
Withdrawal(t) == [task |-> t, kind |-> "cancel", content |-> 0]

-------------------------------------------------------------------------------
(* The interface: enqueue, retry, cancel.                                  *)

(* The task is there for everybody as soon as its write begins, and gone   *)
(* again if the write fails.                                               *)
Enqueue(t) ==
  /\ account = "in"
  /\ unsaved = {}
  /\ stored[t] = Absent
  /\ stored' = [stored EXCEPT ![t].state = "queued"]
  /\ unsaved' = {t}
  /\ UNCHANGED <<job, drain, account, outside, troubles>>

Enqueued(t) ==
  /\ t \in unsaved
  /\ unsaved' = {}
  /\ drain' = Awoken
  /\ UNCHANGED <<stored, job, account, outside, troubles>>

EnqueueFails(t) ==
  /\ Trouble("disk")
  /\ t \in unsaved
  /\ unsaved' = {}
  /\ stored' = [stored EXCEPT ![t] = Absent]
  /\ UNCHANGED <<job, drain, account, outside>>

RetryAsNew(t) ==
  /\ account = "in"
  /\ job[LaneOf[t]] = NoJob
  /\ stored[t].state \in Live \cup {"failed"}
  /\ Claim(LaneOf[t], "retry", t, "save", "retry",
           [stored[t] EXCEPT !.state = "queued", !.intent = FALSE])
  /\ UNCHANGED <<tasks, drain, account, outside, troubles>>

(* A failed task is only retried to carry out its cancellation.            *)
Retry(t) ==
  LET r == stored[t] IN
  /\ account = "in"
  /\ job[LaneOf[t]] = NoJob
  /\ r.state \in Live \/ (r.state = "failed" /\ r.intent)
  /\ Claim(LaneOf[t], "retry", t, "save", "retry",
           [r EXCEPT !.state = IF r.intent THEN "cancelling" ELSE "queued"])
  /\ UNCHANGED <<tasks, drain, account, outside, troubles>>

Cancel(t) ==
  /\ account = "in"
  /\ job[LaneOf[t]] = NoJob
  /\ stored[t].state \notin Terminal \cup {"absent"}
  /\ Claim(LaneOf[t], "cancel", t, "save", "intent",
           [stored[t] EXCEPT !.intent = TRUE, !.state = "cancelling"])
  /\ UNCHANGED <<tasks, drain, account, outside, troubles>>

-------------------------------------------------------------------------------
(* The drain.                                                              *)

(* The timer fires: it is always armed when no drain runs.                 *)
StartDrain ==
  /\ drain.at = "idle"
  /\ account = "in"
  /\ drain' = [NoDrain EXCEPT !.at = "looking"]
  /\ UNCHANGED <<tasks, job, account, outside, troubles>>

EligibleUnlessCancelling(t, r) ==
  /\ r.state \in Live \ {"cancelling"}
  /\ t \notin drain.attempted
  /\ job[LaneOf[t]] = NoJob

(* Whether a retry is due is left open.                                    *)
Eligible(t, r) ==
  /\ r.state \in Live
  /\ t \notin drain.attempted
  /\ job[LaneOf[t]] = NoJob
CanStart(t) == Cardinality(Running) < Places /\ Eligible(t, stored[t])

(* run(): the first step of a task taken in a free place.                  *)
StartRun(t) ==
  LET l == LaneOf[t]
      r == stored[t]
  IN
  /\ drain.at = "looking"
  /\ ~drain.stale
  /\ account = "in"
  /\ CanStart(t)
  /\ drain' = [drain EXCEPT !.attempted = @ \cup {t}]
  /\ IF r.intent
     THEN IF Local(r)
          THEN /\ Claim(l, "run", t, "save", "result", [r EXCEPT !.state = "cancelled"])
               /\ UNCHANGED sea
          ELSE /\ Claim(l, "run", t, "call", "withdraw", r)
               /\ sea' = sea \cup {Withdrawal(t)}
     ELSE /\ Claim(l, "run", t, "call", "timeline", r)
          /\ UNCHANGED sea
  /\ UNCHANGED <<tasks, account, server, uploads, troubles>>

(* Nothing (more) to start: wait for a run to end or for a call of wake(0),*)
(* or leave.  A drain that was paused, or has lost its account, starts     *)
(* nothing and waits for its runs.                                         *)
Look ==
  /\ drain.at = "looking"
  /\ drain' = [drain EXCEPT !.at = IF drain.stale \/ account # "in" \/ Running = {}
                                   THEN "settling" ELSE "waiting"]
  /\ drain.stale \/ account # "in" \/ \A t \in Tasks : ~CanStart(t)
  /\ UNCHANGED <<tasks, job, account, outside, troubles>>

EndDrain ==
  /\ drain.at = "settling"
  /\ Running = {}
  /\ drain' = NoDrain
  /\ UNCHANGED <<tasks, job, account, outside, troubles>>

-------------------------------------------------------------------------------
(* Saving a copy: mutateTeamSends.  Nobody else looks at the task of a     *)
(* lane that is held, so the write is one step; what follows it another.   *)

Save(l) ==
  /\ job[l] # NoJob
  /\ job[l].at = "save"
  /\ unsaved = {}
  /\ account = "in"
  /\ stored[job[l].task] # Absent
  /\ stored' = [stored EXCEPT ![job[l].task] = job[l].copy]
  /\ job' = [job EXCEPT ![l].at = "saved"]
  /\ UNCHANGED <<unsaved, drain, account, outside, troubles>>

(* What a job does when its save is over.                                  *)
Saved(l) ==
  LET j == job[l] IN
  /\ j # NoJob
  /\ j.at = "saved"
  /\ CASE j.step = "uploading" -> Goes(l, "call", "upload", j.copy) /\ UNCHANGED sea
      [] j.step = "sending" /\ Guarded(l) ->
           /\ Goes(l, "call", "send", j.copy)
           /\ sea' = sea \cup {[task |-> j.task, kind |-> "send", content |-> j.copy.content]}
      [] j.step = "intent" /\ Guarded(l) /\ Local(j.copy) ->
           /\ Goes(l, "save", "result", [j.copy EXCEPT !.state = "cancelled"])
           /\ UNCHANGED sea
      [] j.step = "intent" /\ Guarded(l) /\ ~Local(j.copy) ->
           /\ Goes(l, "call", "withdraw", j.copy)
           /\ sea' = sea \cup {Withdrawal(j.task)}
      [] OTHER -> Ends(l) /\ UNCHANGED sea
  /\ UNCHANGED <<tasks, account, server, uploads, troubles>>

(* The failure of a save is no transient error.  Inside the catch, and for *)
(* the intent and a retry, it ends the job.                                *)
SaveFails(l) ==
  /\ job[l] # NoJob
  /\ job[l].at = "save"
  /\ unsaved = {}
  /\ IF account # "in" \/ stored[job[l].task] = Absent THEN UNCHANGED troubles
                                                       ELSE Trouble("disk")
  /\ IF job[l].step \in {"uploading", "sending", "result"} THEN Caught(l, FALSE) ELSE Ends(l)
  /\ UNCHANGED <<tasks, account, outside>>

-------------------------------------------------------------------------------
(* Calls of a job.                                                         *)

TimelineAnswersAfresh(l) ==
  /\ In(l, "call", "timeline")
  /\ Goes(l, "save", "uploading", [job[l].copy EXCEPT !.state = "uploading"])
  /\ UNCHANGED <<tasks, account, outside, troubles>>

(* The conversation can be written to.  Content that was frozen by an      *)
(* earlier attempt is sent again as it is.                                 *)
TimelineAnswers(l) ==
  LET r == job[l].copy
      step == IF r.content = 0 THEN "uploading" ELSE "sending"
  IN
  /\ In(l, "call", "timeline")
  /\ Goes(l, "save", step, [r EXCEPT !.state = step])
  /\ UNCHANGED <<tasks, account, outside, troubles>>

UploadEnds(l) ==
  LET t == job[l].task IN
  /\ In(l, "call", "upload")
  /\ uploads[t] < MaxUploads
  /\ IF Guarded(l)
     THEN Goes(l, "save", "sending", [job[l].copy EXCEPT !.state = "sending",
                                                        !.content = uploads[t] + 1])
     ELSE Ends(l)
  /\ uploads' = [uploads EXCEPT ![t] = @ + 1]
  /\ UNCHANGED <<tasks, account, sea, server, troubles>>

Awaits(l, q) ==
  LET j == job[l] IN
  /\ j # NoJob
  /\ j.at = "call"
  /\ j.task = q.task
  /\ j.step = IF q.kind = "send" THEN "send" ELSE "withdraw"

(* An error of a call, or its timeout; a request may still be under way.   *)
(* It is bound to come when the job was aborted, the account has gone or   *)
(* the answer was lost.                                                    *)
Lost(l) ==
  \/ ~Guarded(l)
  \/ job[l].step \in {"send", "withdraw"} /\ \A q \in sea : ~Awaits(l, q)
CallFails(l) ==
  /\ job[l] # NoJob
  /\ job[l].at = "call"
  /\ IF Lost(l) THEN UNCHANGED troubles ELSE Trouble("call")
  /\ \E transient \in BOOLEAN : Caught(l, transient)
  /\ UNCHANGED <<tasks, account, outside>>

OutcomeKeepsAnyReply(r, reply) ==
  [r EXCEPT !.message = reply,
            !.state = CASE reply = "published" -> "sent"
                        [] reply = "cancelled" -> "cancelled"
                        [] reply = "preparing" -> "retrying"
                        [] OTHER -> "failed"]
OutcomeWithoutWaiting(r, reply) ==
  CASE reply \in {"published", "preparing"} -> [r EXCEPT !.state = "sent", !.message = reply]
    [] reply = "cancelled" -> [r EXCEPT !.state = "cancelled", !.message = reply]
    [] OTHER -> [r EXCEPT !.state = "failed"]

(* The answer to team.app.send or team.app.cancel.                         *)
Outcome(r, reply) ==
  CASE reply = "published" -> [r EXCEPT !.state = "sent", !.message = reply]
    [] reply = "cancelled" -> [r EXCEPT !.state = "cancelled", !.message = reply]
    [] reply = "preparing" -> [r EXCEPT !.state = "retrying", !.message = reply]
    [] reply = "rejected" -> [r EXCEPT !.state = "failed"]

Answered(l, reply) ==
  IF Guarded(l) THEN Goes(l, "save", "result", Outcome(job[l].copy, reply)) ELSE Ends(l)

(* External: the server takes a request and its answer arrives or is lost. *)
(* A message it has is not replaced, a cancelled one is never published.   *)
Taken(q, s) ==
  IF q.kind = "send"
  THEN IF s.state = "none" THEN {[state |-> x, content |-> q.content] : x \in {"preparing", "published"}}
                           ELSE {s}
  ELSE {IF s.state = "published" THEN s ELSE [s EXCEPT !.state = "cancelled"]}

Deliver(q) ==
  /\ q \in sea
  /\ sea' = sea \ {q}
  /\ \E s \in Taken(q, server[q.task]) :
       /\ server' = [server EXCEPT ![q.task] = s]
       /\ IF Awaits(LaneOf[q.task], q)
          THEN \/ Answered(LaneOf[q.task], s.state) /\ UNCHANGED troubles
               \/ Trouble("call") /\ UNCHANGED <<job, drain>>
          ELSE UNCHANGED <<job, drain, troubles>>
  /\ UNCHANGED <<tasks, account, uploads>>

Refused(q) ==
  /\ Trouble("reject")
  /\ q \in sea
  /\ q.kind = "send"
  /\ server[q.task].state = "none"
  /\ Awaits(LaneOf[q.task], q)
  /\ sea' = sea \ {q}
  /\ Answered(LaneOf[q.task], "rejected")
  /\ UNCHANGED <<tasks, account, server, uploads>>

Publish(t) ==
  /\ server[t].state = "preparing"
  /\ server' = [server EXCEPT ![t].state = "published"]
  /\ UNCHANGED <<tasks, job, drain, account, sea, uploads, troubles>>

-------------------------------------------------------------------------------
(* The account and the process.                                            *)

SignOut ==
  /\ Trouble("signout")
  /\ account = "in"
  /\ account' = "leaving"
  /\ UNCHANGED <<tasks, job, drain, outside>>

(* pause(): the jobs are aborted and the drain is woken to leave.          *)
Pause ==
  /\ account = "leaving"
  /\ account' = "out"
  /\ job' = [l \in Lanes |-> IF job[l] = NoJob THEN NoJob ELSE [job[l] EXCEPT !.aborted = TRUE]]
  /\ drain' = IF drain.at = "idle" THEN drain ELSE [Awoken EXCEPT !.stale = TRUE]
  /\ UNCHANGED <<tasks, outside, troubles>>

(* Signed in again; or the sign-out was given up before pause().           *)
SignIn ==
  /\ account # "in"
  /\ account' = "in"
  /\ UNCHANGED <<tasks, job, drain, outside, troubles>>

(* The host restarts, in an orderly way or not: a write may have landed.   *)
Restart ==
  /\ Trouble("restart")
  /\ stored' \in {stored, [t \in Tasks |-> IF t \in unsaved THEN Absent ELSE stored[t]]}
  /\ unsaved' = {}
  /\ job' = [l \in Lanes |-> NoJob]
  /\ drain' = NoDrain
  /\ UNCHANGED <<account, outside>>

-------------------------------------------------------------------------------

JobSteps(l) ==
  \/ Save(l) \/ Saved(l) \/ SaveFails(l) \/ TimelineAnswers(l) \/ UploadEnds(l) \/ CallFails(l)
DrainSteps == StartDrain \/ (\E t \in Tasks : StartRun(t)) \/ Look \/ EndDrain

Next ==
  \/ \E t \in Tasks : Enqueue(t) \/ Enqueued(t) \/ EnqueueFails(t) \/ Retry(t) \/ Cancel(t) \/ Publish(t)
  \/ \E l \in Lanes : JobSteps(l)
  \/ DrainSteps
  \/ \E q \in sea : Deliver(q) \/ Refused(q)
  \/ SignOut \/ Pause \/ SignIn \/ Restart

Spec == Init /\ [][Next]_vars

(* Calls end, by a timeout at the latest, and so do writes; the account    *)
(* comes back.                                                             *)
Fairness ==
  /\ WF_vars(DrainSteps)
  /\ WF_vars(Pause \/ (account = "out" /\ SignIn))
  /\ \A l \in Lanes : WF_vars(JobSteps(l))
  /\ \A t \in Tasks : /\ WF_vars(Publish(t))
                       /\ WF_vars(Enqueued(t) \/ EnqueueFails(t))
                       /\ WF_vars(\E q \in sea : q.task = t /\ Deliver(q))

FairSpec == Spec /\ Fairness

-------------------------------------------------------------------------------
(* Properties.                                                             *)

(* A task the queue calls cancelled is not published, now or later: the    *)
(* server has withdrawn it, or never heard of it and never will            *)
(* (team-send-queue.ts:174-187).                                           *)
CancelledStaysUnsent == \A t \in Tasks : stored[t].state = "cancelled" =>
  \/ server[t].state = "cancelled"
  \/ server[t].state = "none" /\ \A q \in sea : q.task = t => q.kind # "send"

(* A task the queue calls sent was published.                              *)
SentIsPublished == \A t \in Tasks : stored[t].state = "sent" => server[t].state = "published"

(* However often a message is sent, across failures and restarts, it is    *)
(* sent as on its first attempt (team-send-queue.ts:267-285).              *)
FrozenRequest == \A q \in sea :
  q.kind = "send" =>
    /\ \A p \in sea : p.kind = "send" /\ p.task = q.task => p.content = q.content
    /\ server[q.task].content \in {0, q.content}

(* Once the intent to cancel is on disk it is never lost, and the message  *)
(* is not sent any more (team-send-queue.ts:153-158).                      *)
IntentKept == [][\A t \in Tasks : stored[t].intent =>
  /\ stored'[t].intent
  /\ \A q \in sea' \ sea : q.task = t => q.kind # "send"]_vars

(* A drain that waits has nothing it could start: whatever became ready    *)
(* since it looked has woken it (team-send-queue.ts:55-60, 236).           *)
NoIdlePlace ==
  drain.at = "waiting" /\ account = "in" /\ Cardinality(Running) < Places =>
    \A t \in Tasks \ unsaved : ~Eligible(t, stored[t])

(* What the sender reads of a message.                                     *)
Said == [t \in Tasks |-> IF stored[t].state \in Terminal THEN stored[t].state ELSE "open"]

Message == INSTANCE TeamMessage WITH
  Contents <- 1..MaxUploads, Open <- 0,
  content <- [t \in Tasks |-> stored[t].content], intent <- [t \in Tasks |-> stored[t].intent],
  says <- Said,
  fate <- [t \in Tasks |-> server[t].state], shown <- [t \in Tasks |-> server[t].content]

(* Tasks, copies, requests and server together implement one fate for each *)
(* message: what is said of it is final and agrees with the server for     *)
(* good, only what was asked for is withdrawn, and content once fixed is   *)
(* what the server gets (team-send-queue.ts:143-187, 250-303).             *)
OneFate == Message!Spec

(* Every message that is queued is sent, cancelled or reported as failed,  *)
(* once the user leaves the messages alone (team-send-queue.ts:202-249).   *)
LeftAlone == <>[][\A t \in Tasks : ~Retry(t) /\ ~Cancel(t)]_vars
EveryTaskSettles == LeftAlone => \A t \in Tasks :
  stored[t].state \in Live /\ t \notin unsaved ~> stored[t].state \in Terminal \cup {"failed"}

===============================================================================
