--------------------------- MODULE SendQueueProofs ---------------------------
(***************************************************************************)
(* Proofs about SendQueue, for any tasks and lanes and any number of       *)
(* troubles: what a task says is true of the server, a message keeps its   *)
(* content, and an intent to cancel is never lost.                         *)
(***************************************************************************)
EXTENDS SendQueue, TLAPS

-------------------------------------------------------------------------------
(* The inductive invariant.                                                *)

Asked(t) == {q \in sea : q.task = t}
Sends(t) == {q \in sea : q.task = t /\ q.kind = "send"}

(* A record, stored or a copy, is true of the server's state v and of the  *)
(* sends S under way.                                                      *)
True(r, v, S) ==
  /\ r.state = "sent" => v = "published"
  /\ r.state = "cancelled" => v = "cancelled" \/ (v = "none" /\ S = {})
  /\ r.message # "none" => r.content # 0

(* The stored task s of t, the server's message m, the requests A and sends*)
(* S under way.  A task without content was never sent, one with content is*)
(* known to the server by no other; what is not written yet is as new.     *)
Recorded(t, s, m, A, S, N) ==
  /\ True(s, m.state, S)
  /\ s.content = 0 => A = {} /\ m.state = "none"
  /\ \A q \in S : q.content = s.content
  /\ m.content \in {0, s.content}
  /\ t \in N => s = [Absent EXCEPT !.state = "queued"]

(* The steps on the way to a send, which an intent to cancel never takes.  *)
Sending == {"timeline", "upload", "uploading", "sending", "send"}

(* A job of task t, at a step p and a copy c, whose stored task is s: the   *)
(* copy keeps the intent and the content.                                  *)
Doing(t, a, p, c, s, v, S, N) ==
  /\ True(c, v, S)
  /\ c.state # "absent"
  /\ s.intent => c.intent
  /\ s.content # 0 => c.content = s.content
  /\ a = "call" => p \in Calls
  /\ a # "call" => p \in Saves
  /\ a = "saved" => s = c /\ t \notin N
  /\ p \in {"send", "withdraw"} => s.content # 0
  /\ p \in {"upload", "uploading"} => c.content = 0
  /\ p = "sending" => c.content # 0
  /\ p \in Sending => ~c.intent
  /\ c.state \in Terminal => p \in {"result", "again"}
  /\ s.state \in Terminal => a = "saved"

TaskInv(t) == Recorded(t, stored[t], server[t], Asked(t), Sends(t), unsaved)
JobInv(l) ==
  LET j == job[l] IN
  /\ j \in Jobs /\ LaneOf[j.task] = l
  /\ Doing(j.task, j.at, j.step, j.copy,
           stored[j.task], server[j.task].state, Sends(j.task), unsaved)

IInv ==
  /\ TypeOK
  /\ \A t \in Tasks : TaskInv(t)
  /\ \A l \in Lanes : job[l] # NoJob => JobInv(l)

-------------------------------------------------------------------------------
(* Steps and what they leave alone.                                        *)

LEMMA InitInv == Init => IInv
<1> SUFFICES ASSUME Init PROVE IInv  OBVIOUS
<1>1. Absent \in Records
  <2>1. 0 \in 0..MaxUploads  BY SendQueueAssumption
  <2> QED  BY <2>1 DEF Absent, Records, States, Replies
<1>2. TypeOK
  <2>1. MaxUploads \in Nat /\ MaxTroubles \in Nat  BY SendQueueAssumption
  <2>2. NoDrain \in Drains  BY DEF NoDrain, Drains
  <2> QED  BY <1>1, <2>1, <2>2 DEF Init, TypeOK
<1>3. ASSUME NEW t \in Tasks PROVE TaskInv(t)
  <2>1. stored[t] = Absent /\ server[t] = [state |-> "none", content |-> 0] /\ unsaved = {}
    BY DEF Init
  <2>2. Asked(t) = {} /\ Sends(t) = {}  BY DEF Init, Asked, Sends
  <2> QED  BY <2>1, <2>2 DEF TaskInv, Recorded, True, Absent
<1>4. \A l \in Lanes : job[l] = NoJob  BY DEF Init
<1> QED  BY <1>2, <1>3, <1>4 DEF IInv

LEMMA LaneTypes == \A t \in Tasks : LaneOf[t] \in Lanes
BY SendQueueAssumption

LEMMA Kinds ==
  ASSUME NEW l \in Lanes, TypeOK
  PROVE  /\ job[l] = NoJob \/ job[l] \in Jobs
         /\ job[l] \in Jobs => job[l] # NoJob
<1>1. \A j \in Jobs : j # NoJob
  <2>1. \A j \in Jobs : j.who # "none"  BY DEF Jobs
  <2>2. NoJob.who = "none"  BY DEF NoJob
  <2> QED  BY <2>1, <2>2
<1> QED  BY <1>1 DEF TypeOK

Same(t) ==
  /\ stored'[t] = stored[t] /\ server'[t] = server[t]
  /\ Asked(t)' = Asked(t) /\ Sends(t)' = Sends(t)
  /\ t \in unsaved' => t \in unsaved

LEMMA SameTask == ASSUME NEW t \in Tasks, Same(t), TaskInv(t) PROVE TaskInv(t)'
BY DEF Same, TaskInv, Recorded

SameWork(l) ==
  /\ job[l] # NoJob
  /\ job'[l] \in Jobs
  /\ job'[l].task = job[l].task /\ job'[l].at = job[l].at
  /\ job'[l].step = job[l].step /\ job'[l].copy = job[l].copy

LEMMA SameJob == ASSUME NEW l \in Lanes, NEW t \in Tasks, job[l].task = t,
                        SameWork(l), Same(t), JobInv(l)
                 PROVE  JobInv(l)'
<1>1. /\ stored'[t] = stored[t] /\ server'[t] = server[t] /\ Sends(t)' = Sends(t)
      /\ t \notin unsaved => t \notin unsaved'
  BY DEF Same
<1>2. job'[l].task = t  BY DEF SameWork
<1>3. Sends(job[l].task)' = Sends(t)'  BY <1>2 DEF Sends
<1>4. /\ job'[l] \in Jobs /\ LaneOf[t] = l
      /\ Doing(t, job'[l].at, job'[l].step, job'[l].copy, stored[t], server[t].state, Sends(t),
               unsaved)
  BY DEF SameWork, JobInv
<1>5. Doing(t, job'[l].at, job'[l].step, job'[l].copy, stored'[t], server'[t].state, Sends(t)',
            unsaved')
  BY <1>1, <1>4 DEF Doing
<1> QED  BY <1>2, <1>3, <1>4, <1>5 DEF JobInv

LEMMA KeptWork == ASSUME NEW l \in Lanes, job'[l] = job[l], job[l] # NoJob, JobInv(l)
                  PROVE  SameWork(l)
BY DEF SameWork, JobInv

(* A step about one task and the jobs at work on it.                       *)
LEMMA OneTask ==
  ASSUME IInv, TypeOK', NEW t \in Tasks,
         \A x \in Tasks : x # t => Same(x),
         TaskInv(t)',
         \A k \in Lanes : job'[k] # NoJob =>
           JobInv(k)' \/ (SameWork(k) /\ job[k].task # t)
  PROVE  IInv'
<1>1. ASSUME NEW x \in Tasks PROVE TaskInv(x)'
  BY SameTask DEF IInv
<1>2. ASSUME NEW k \in Lanes, job'[k] # NoJob PROVE JobInv(k)'
  <2>1. CASE SameWork(k) /\ job[k].task # t
    <3>1. JobInv(k)  BY <2>1 DEF IInv, SameWork
    <3>2. PICK x \in Tasks : job[k].task = x  BY <3>1 DEF JobInv, Jobs
    <3>3. Same(x)  BY <2>1, <3>2
    <3> QED  BY <2>1, <3>1, <3>2, <3>3, SameJob
  <2> QED  BY <1>2, <2>1
<1> QED  BY <1>1, <1>2 DEF IInv

(* A step that leaves the tasks and the server alone.                      *)
LEMMA JobsOnly ==
  ASSUME IInv, TypeOK', \A t \in Tasks : Same(t),
         \A k \in Lanes : job'[k] # NoJob => JobInv(k)' \/ SameWork(k)
  PROVE  IInv'
<1>1. ASSUME NEW x \in Tasks PROVE TaskInv(x)'
  BY SameTask DEF IInv
<1>2. ASSUME NEW k \in Lanes, job'[k] # NoJob PROVE JobInv(k)'
  <2>1. CASE SameWork(k)
    <3>1. JobInv(k)  BY <2>1 DEF IInv, SameWork
    <3>2. PICK x \in Tasks : job[k].task = x  BY <3>1 DEF JobInv, Jobs
    <3>3. Same(x)  BY <3>2
    <3> QED  BY <2>1, <3>1, <3>2, <3>3, SameJob
  <2> QED  BY <1>2, <2>1
<1> QED  BY <1>1, <1>2 DEF IInv

LEMMA TasksKept == ASSUME UNCHANGED <<tasks, sea, server>> PROVE \A t \in Tasks : Same(t)
BY DEF Same, tasks, Asked, Sends

(* What a task's job was, and what there is to show of what it becomes.    *)
LEMMA JobWas ==
  ASSUME IInv, NEW l \in Lanes, job[l] # NoJob
  PROVE  /\ job[l] \in Jobs /\ job[l].task \in Tasks /\ LaneOf[job[l].task] = l
         /\ job[l].copy \in Records /\ stored[job[l].task] \in Records
         /\ Doing(job[l].task, job[l].at, job[l].step, job[l].copy, stored[job[l].task],
                  server[job[l].task].state, Sends(job[l].task), unsaved)
         /\ TaskInv(job[l].task)
<1>1. JobInv(l)  BY DEF IInv
<1>2. job[l].task \in Tasks /\ job[l].copy \in Records  BY <1>1 DEF JobInv, Jobs
<1> QED  BY <1>1, <1>2 DEF IInv, JobInv, TypeOK

LEMMA JobIs ==
  ASSUME NEW l \in Lanes, NEW t, job'[l] \in Jobs, job'[l].task = t, LaneOf[t] = l,
         NEW a, NEW p, NEW c, job'[l].at = a, job'[l].step = p, job'[l].copy = c,
         Doing(t, a, p, c, stored'[t], server'[t].state, Sends(t)', unsaved')
  PROVE  JobInv(l)'
<1>1. Sends(job[l].task)' = Sends(t)'  BY DEF Sends
<1> QED  BY <1>1 DEF JobInv

-------------------------------------------------------------------------------
(* How jobs come, move on and go.                                          *)

LEMMA Goes3 ==
  ASSUME TypeOK, NEW l \in Lanes, job[l] # NoJob, NEW a \in {"call", "save", "saved"},
         NEW p \in Calls \cup Saves, NEW c \in Records, Goes(l, a, p, c)
  PROVE  /\ job' \in [Lanes -> Jobs \cup {NoJob}] /\ drain' = drain
         /\ job'[l] \in Jobs
         /\ job'[l].task = job[l].task /\ job'[l].at = a /\ job'[l].step = p /\ job'[l].copy = c
         /\ \A k \in Lanes : k # l => job'[k] = job[k]
<1>1. job[l] \in Jobs /\ job \in [Lanes -> Jobs \cup {NoJob}]  BY DEF TypeOK
<1> DEFINE n == [[[job[l] EXCEPT !.at = a] EXCEPT !.step = p] EXCEPT !.copy = c]
<1>2. n \in Jobs /\ n.task = job[l].task /\ n.at = a /\ n.step = p /\ n.copy = c
  BY <1>1 DEF Jobs
<1>3. job' = [job EXCEPT ![l] = n] /\ drain' = drain  BY <1>1 DEF Goes
<1> HIDE DEF n
<1> QED  BY <1>1, <1>2, <1>3

LEMMA Claimed ==
  ASSUME TypeOK, NEW l \in Lanes, NEW w \in {"run", "cancel", "retry"}, NEW t \in Tasks,
         NEW a \in {"call", "save", "saved"},
         NEW p \in Calls \cup Saves, NEW c \in Records, Claim(l, w, t, a, p, c)
  PROVE  /\ job' \in [Lanes -> Jobs \cup {NoJob}]
         /\ job'[l] \in Jobs
         /\ job'[l].task = t /\ job'[l].at = a /\ job'[l].step = p /\ job'[l].copy = c
         /\ \A k \in Lanes : k # l => job'[k] = job[k]
<1> DEFINE n == [who |-> w, task |-> t, at |-> a, step |-> p, copy |-> c, aborted |-> FALSE]
<1>1. n \in Jobs /\ n.task = t /\ n.at = a /\ n.step = p /\ n.copy = c
  BY DEF Jobs
<1>2. job' = [job EXCEPT ![l] = n]  BY DEF Claim
<1> HIDE DEF n
<1> QED  BY <1>1, <1>2 DEF TypeOK

LEMMA AwokenTyped == TypeOK => Awoken \in Drains
BY DEF TypeOK, Awoken, Drains

LEMMA Ended ==
  ASSUME TypeOK, NEW l \in Lanes, Ends(l)
  PROVE  /\ job' \in [Lanes -> Jobs \cup {NoJob}] /\ drain' \in Drains
         /\ job'[l] = NoJob
         /\ \A k \in Lanes : k # l => job'[k] = job[k]
BY AwokenTyped DEF Ends, TypeOK

(* The catch ends a job, or has it save what it knows of its failure.      *)
LEMMA CatchEnds ==
  ASSUME NEW l \in Lanes, NEW x \in BOOLEAN, Caught(l, x)
  PROVE  \/ Ends(l)
         \/ /\ job[l].copy.state = "sent"
            /\ Goes(l, "save", "again", job[l].copy)
         \/ Goes(l, "save", "failure", FailedTask(job[l].copy, x))
BY Zenon DEF Caught

-------------------------------------------------------------------------------
(* Types.                                                                  *)

LEMMA StateSet ==
  ASSUME NEW r \in Records, NEW x \in States
  PROVE  /\ [r EXCEPT !.state = x] \in Records
         /\ [r EXCEPT !.state = x].state = x
         /\ [r EXCEPT !.state = x].intent = r.intent
         /\ [r EXCEPT !.state = x].content = r.content
         /\ [r EXCEPT !.state = x].message = r.message
BY DEF Records

LEMMA TroubleTyped == ASSUME TypeOK, NEW k, Trouble(k) PROVE troubles' \in 0..MaxTroubles
BY SendQueueAssumption DEF TypeOK, Trouble

LEMMA AbsentTyped == Absent \in Records /\ [Absent EXCEPT !.state = "queued"] \in Records
<1>1. 0 \in 0..MaxUploads  BY SendQueueAssumption
<1>2. Absent \in Records  BY <1>1 DEF Absent, Records, States, Replies
<1> QED  BY <1>2, StateSet DEF States

LEMMA TypesKept ==
  ASSUME TypeOK, job' \in [Lanes -> Jobs \cup {NoJob}], drain' \in Drains,
         stored' \in [Tasks -> Records], unsaved' \subseteq Tasks,
         account' \in {"in", "leaving", "out"}, sea' \subseteq Requests,
         server' \in [Tasks -> [state : Replies \cup {"none"}, content : 0..MaxUploads]],
         uploads' \in [Tasks -> 0..MaxUploads], troubles' \in 0..MaxTroubles
  PROVE  TypeOK'
BY DEF TypeOK

(* A job goes on, or ends, and nothing else changes.                       *)
LEMMA TypesOfJob ==
  ASSUME TypeOK, job' \in [Lanes -> Jobs \cup {NoJob}], drain' \in Drains,
         UNCHANGED <<tasks, account, outside>>, troubles' \in 0..MaxTroubles
  PROVE  TypeOK'
BY DEF TypeOK, tasks, outside

(* Changing the task and the job of one lane keeps what is known.          *)
LEMMA JobStep ==
  ASSUME IInv, TypeOK', NEW l \in Lanes,
         \A k \in Lanes : k # l => job'[k] = job[k],
         UNCHANGED <<tasks, sea, server>>,
         job'[l] # NoJob => JobInv(l)'
  PROVE  IInv'
<1>1. \A t \in Tasks : Same(t)  BY TasksKept
<1>2. ASSUME NEW k \in Lanes, job'[k] # NoJob PROVE JobInv(k)' \/ SameWork(k)
  <2>1. CASE k = l  BY <1>2, <2>1
  <2>2. CASE k # l
    <3>1. job'[k] = job[k] /\ job[k] # NoJob  BY <1>2, <2>2
    <3>2. JobInv(k)  BY <3>1 DEF IInv
    <3> QED  BY <3>1, <3>2, KeptWork
  <2> QED  BY <2>1, <2>2
<1> QED  BY <1>1, <1>2, JobsOnly

LEMMA JobMoves ==
  ASSUME IInv, NEW l \in Lanes, job[l] # NoJob, NEW t \in Tasks, job[l].task = t,
         NEW a \in {"call", "save", "saved"}, NEW p \in Calls \cup Saves, NEW c \in Records,
         Goes(l, a, p, c), UNCHANGED <<tasks, account, outside>>,
         troubles' \in 0..MaxTroubles,
         Doing(t, a, p, c, stored[t], server[t].state, Sends(t), unsaved)
  PROVE  IInv'
<1>1. TypeOK /\ LaneOf[t] = l  BY JobWas DEF IInv
<1>2. /\ job' \in [Lanes -> Jobs \cup {NoJob}] /\ drain' = drain
      /\ job'[l] \in Jobs
      /\ job'[l].task = t /\ job'[l].at = a /\ job'[l].step = p /\ job'[l].copy = c
      /\ \A k \in Lanes : k # l => job'[k] = job[k]
  BY <1>1, Goes3
<1>3. drain' \in Drains  BY <1>1, <1>2 DEF TypeOK
<1>4. TypeOK'  BY <1>1, <1>2, <1>3, TypesOfJob
<1>5. /\ stored'[t] = stored[t] /\ server'[t] = server[t] /\ Sends(t)' = Sends(t)
      /\ unsaved' = unsaved
  BY DEF tasks, outside, Sends
<1>6. Doing(t, a, p, c, stored'[t], server'[t].state, Sends(t)', unsaved')  BY <1>5
<1>7. JobInv(l)'  BY <1>1, <1>2, <1>6, JobIs
<1>8. UNCHANGED <<tasks, sea, server>>  BY DEF outside
<1> QED  BY <1>2, <1>4, <1>7, <1>8, JobStep

LEMMA JobEnds ==
  ASSUME IInv, NEW l \in Lanes, Ends(l), UNCHANGED <<tasks, account, outside>>,
         troubles' \in 0..MaxTroubles
  PROVE  IInv'
<1>1. TypeOK  BY DEF IInv
<1>2. /\ job' \in [Lanes -> Jobs \cup {NoJob}] /\ drain' \in Drains
      /\ job'[l] = NoJob
      /\ \A k \in Lanes : k # l => job'[k] = job[k]
  BY <1>1, Ended
<1>3. TypeOK'  BY <1>1, <1>2, TypesOfJob
<1>4. UNCHANGED <<tasks, sea, server>>  BY DEF outside
<1> QED  BY <1>2, <1>3, <1>4, JobStep

LEMMA JobCaught ==
  ASSUME IInv, NEW l \in Lanes, job[l] # NoJob, job[l].at # "saved",
         NEW x \in BOOLEAN, Caught(l, x),
         UNCHANGED <<tasks, account, outside>>, troubles' \in 0..MaxTroubles
  PROVE  IInv'
<1>1. PICK t \in Tasks : job[l].task = t  BY JobWas
<1>2. PICK c \in Records : job[l].copy = c  BY JobWas
<1>3. PICK a \in {"call", "save", "saved"}, p \in Calls \cup Saves :
        job[l].at = a /\ job[l].step = p
  BY JobWas DEF Jobs
<1>4. Doing(t, a, p, c, stored[t], server[t].state, Sends(t), unsaved)
  BY <1>1, <1>2, <1>3, JobWas
<1>5. a # "saved"  BY <1>3
<1>6. ASSUME c.state = "sent", Goes(l, "save", "again", c) PROVE IInv'
  <2>1. Doing(t, "save", "again", c, stored[t], server[t].state, Sends(t), unsaved)
    BY <1>4, <1>5 DEF Doing, Saves, Calls, Sending
  <2> QED  BY <1>1, <1>6, <2>1, JobMoves DEF Saves
<1>7. ASSUME Goes(l, "save", "failure", FailedTask(c, x)) PROVE IInv'
  <2>1. PICK d \in {"failed", "cancelling", "retrying"} :
          FailedTask(c, x) = [c EXCEPT !.state = d]
    BY DEF FailedTask
  <2>2. PICK n \in Records : n = [c EXCEPT !.state = d]  BY StateSet DEF States
  <2>3. n.state = d /\ n.intent = c.intent /\ n.content = c.content /\ n.message = c.message
    BY <2>2, StateSet DEF States
  <2>4. Doing(t, "save", "failure", n, stored[t], server[t].state, Sends(t), unsaved)
    <3>1. True(n, server[t].state, Sends(t))  BY <1>4, <2>3 DEF Doing, True
    <3> QED  BY <1>4, <1>5, <2>3, <3>1 DEF Doing, Saves, Calls, Sending, Terminal
  <2> QED  BY <1>1, <1>7, <2>1, <2>2, <2>4, JobMoves DEF Saves
<1> QED  BY <1>2, <1>6, <1>7, CatchEnds, JobEnds

-------------------------------------------------------------------------------
(* One lemma per action: the interface.                                    *)

(* A task that is not written yet, or no longer there, was never sent and  *)
(* its jobs have saved nothing.                                            *)
LEMMA NewTask ==
  ASSUME IInv, TypeOK', NEW t \in Tasks,
         stored[t] \in {Absent, [Absent EXCEPT !.state = "queued"]},
         \A k \in Lanes : job[k] # NoJob /\ job[k].task = t => job[k].at # "saved",
         NEW s \in {Absent, [Absent EXCEPT !.state = "queued"]}, stored'[t] = s,
         t \in unsaved' => s.state = "queued",
         \A x \in Tasks : x # t => stored'[x] = stored[x] /\ (x \in unsaved' => x \in unsaved),
         UNCHANGED <<job, sea, server>>
  PROVE  IInv'
<1>1. s.state \notin Terminal /\ ~s.intent /\ s.content = 0 /\ s.message = "none"
  BY DEF Absent, Terminal
<1>2. stored[t].content = 0  BY DEF Absent
<1>3. TaskInv(t)'
  <2>1. TaskInv(t)  BY DEF IInv
  <2>2. Asked(t)' = Asked(t) /\ Sends(t)' = Sends(t)  BY DEF Asked, Sends
  <2>3. True(s, server[t].state, Sends(t))  BY <1>1 DEF True, Terminal
  <2>4. t \in unsaved' => s = [Absent EXCEPT !.state = "queued"]  BY DEF Absent
  <2> QED  BY <1>1, <1>2, <2>1, <2>2, <2>3, <2>4 DEF TaskInv, Recorded
<1>4. \A x \in Tasks : x # t => Same(x)  BY DEF Same, Asked, Sends
<1>5. ASSUME NEW k \in Lanes, job'[k] # NoJob
      PROVE  JobInv(k)' \/ (SameWork(k) /\ job[k].task # t)
  <2>1. job'[k] = job[k] /\ job[k] # NoJob  BY <1>5
  <2>2. CASE job[k].task # t  BY <2>1, <2>2, KeptWork DEF IInv
  <2>3. CASE job[k].task = t
    <3>1. PICK a \in {"call", "save", "saved"}, p \in Calls \cup Saves, c \in Records :
            job[k].at = a /\ job[k].step = p /\ job[k].copy = c
      BY <2>1, JobWas DEF Jobs
    <3>2. Doing(t, a, p, c, stored[t], server[t].state, Sends(t), unsaved)
      BY <2>1, <2>3, <3>1, JobWas
    <3>3. a # "saved"  BY <2>1, <2>3, <3>1
    <3>4. Doing(t, a, p, c, s, server[t].state, Sends(t), unsaved')
      BY <1>1, <1>2, <3>2, <3>3 DEF Doing
    <3>5. stored'[t] = s /\ server'[t] = server[t] /\ Sends(t)' = Sends(t)  BY DEF Sends
    <3>6. Doing(t, a, p, c, stored'[t], server'[t].state, Sends(t)', unsaved')  BY <3>4, <3>5
    <3>7. job'[k] \in Jobs /\ LaneOf[t] = k  BY <2>1, <2>3, JobWas
    <3>8. job'[k].task = t /\ job'[k].at = a /\ job'[k].step = p /\ job'[k].copy = c
      BY <2>1, <2>3, <3>1
    <3> QED  BY <3>6, <3>7, <3>8, JobIs
  <2> QED  BY <2>2, <2>3
<1> QED  BY <1>3, <1>4, <1>5, OneTask

LEMMA EnqueueInv == ASSUME IInv, NEW t \in Tasks, Enqueue(t) PROVE IInv'
<1> DEFINE s == [Absent EXCEPT !.state = "queued"]
<1>1. stored \in [Tasks -> Records] /\ unsaved = {} /\ unsaved' = {t}
  BY DEF Enqueue, IInv, TypeOK
<1>2. stored' = [stored EXCEPT ![t] = s]  BY DEF Enqueue
<1>3. stored'[t] = s /\ \A x \in Tasks : x # t => stored'[x] = stored[x]  BY <1>1, <1>2
<1>4. stored[t] = Absent /\ UNCHANGED <<job, sea, server>>  BY DEF Enqueue, outside
<1>5. s \in Records  BY AbsentTyped
<1>6. TypeOK'
  BY <1>1, <1>2, <1>5 DEF Enqueue, IInv, TypeOK, outside
<1>7. ASSUME NEW k \in Lanes, job[k] # NoJob, job[k].task = t PROVE job[k].at # "saved"
  <2>1. job[k].at = "saved" => job[k].copy = stored[t]  BY <1>7, JobWas DEF Doing
  <2>2. job[k].copy.state # "absent"  BY <1>7, JobWas DEF Doing
  <2> QED  BY <1>4, <2>1, <2>2 DEF Absent
<1>8. s.state = "queued"  BY DEF Absent
<1> HIDE DEF s
<1> QED  BY <1>1, <1>3, <1>4, <1>6, <1>7, <1>8, NewTask DEF s

LEMMA EnqueuedInv == ASSUME IInv, NEW t \in Tasks, Enqueued(t) PROVE IInv'
<1>1. Awoken \in Drains  BY AwokenTyped DEF IInv
<1>2. TypeOK'  BY <1>1 DEF Enqueued, IInv, TypeOK, outside
<1>3. \A x \in Tasks : Same(x)  BY DEF Enqueued, Same, Asked, Sends, outside
<1>4. ASSUME NEW k \in Lanes, job'[k] # NoJob PROVE SameWork(k)
  BY <1>4, KeptWork DEF Enqueued, IInv
<1> QED  BY <1>2, <1>3, <1>4, JobsOnly

LEMMA EnqueueFailsInv == ASSUME IInv, NEW t \in Tasks, EnqueueFails(t) PROVE IInv'
<1>1. stored \in [Tasks -> Records] /\ t \in unsaved /\ unsaved' = {}
  BY DEF EnqueueFails, IInv, TypeOK
<1>2. stored' = [stored EXCEPT ![t] = Absent]  BY DEF EnqueueFails
<1>3. stored'[t] = Absent /\ \A x \in Tasks : x # t => stored'[x] = stored[x]  BY <1>1, <1>2
<1>4. stored[t] = [Absent EXCEPT !.state = "queued"]  BY <1>1 DEF IInv, TaskInv, Recorded
<1>5. UNCHANGED <<job, sea, server>>  BY DEF EnqueueFails, outside
<1>6. TypeOK'
  <2>1. troubles' \in 0..MaxTroubles  BY TroubleTyped DEF EnqueueFails, IInv
  <2> QED  BY <1>1, <1>2, <2>1, AbsentTyped DEF EnqueueFails, IInv, TypeOK, outside
<1>7. ASSUME NEW k \in Lanes, job[k] # NoJob, job[k].task = t PROVE job[k].at # "saved"
  BY <1>1, <1>7, JobWas DEF Doing
<1> QED  BY <1>1, <1>3, <1>4, <1>5, <1>6, <1>7, NewTask

(* A job is given a lane, to save a copy of its task or to call for it.    *)
LEMMA JobBegins ==
  ASSUME IInv, NEW t \in Tasks, NEW w \in {"run", "cancel", "retry"},
         NEW a \in {"call", "save", "saved"}, NEW p \in Calls \cup Saves, NEW c \in Records,
         Claim(LaneOf[t], w, t, a, p, c), drain' \in Drains, UNCHANGED <<tasks, account, outside>>,
         troubles' \in 0..MaxTroubles,
         Doing(t, a, p, c, stored[t], server[t].state, Sends(t), unsaved)
  PROVE  IInv'
<1> DEFINE l == LaneOf[t]
<1>1. TypeOK /\ l \in Lanes  BY LaneTypes DEF IInv
<1>2. /\ job' \in [Lanes -> Jobs \cup {NoJob}]
      /\ job'[l] \in Jobs
      /\ job'[l].task = t /\ job'[l].at = a /\ job'[l].step = p /\ job'[l].copy = c
      /\ \A k \in Lanes : k # l => job'[k] = job[k]
  BY <1>1, Claimed
<1>3. TypeOK'  BY <1>1, <1>2, TypesOfJob
<1>4. /\ stored'[t] = stored[t] /\ server'[t] = server[t] /\ Sends(t)' = Sends(t)
      /\ unsaved' = unsaved
  BY DEF tasks, outside, Sends
<1>5. Doing(t, a, p, c, stored'[t], server'[t].state, Sends(t)', unsaved')  BY <1>4
<1>6. JobInv(l)'  BY <1>1, <1>2, <1>5, JobIs
<1>7. UNCHANGED <<tasks, sea, server>>  BY DEF outside
<1> QED  BY <1>1, <1>2, <1>3, <1>6, <1>7, JobStep

LEMMA RetryInv == ASSUME IInv, NEW t \in Tasks, Retry(t) PROVE IInv'
<1>1. PICK r \in Records : r = stored[t]  BY DEF IInv, TypeOK
<1>2. PICK d \in {"cancelling", "queued"} :
        Claim(LaneOf[t], "retry", t, "save", "retry", [r EXCEPT !.state = d])
  BY <1>1 DEF Retry
<1>3. PICK n \in Records : n = [r EXCEPT !.state = d]  BY StateSet DEF States
<1>4. n.state = d /\ n.intent = r.intent /\ n.content = r.content /\ n.message = r.message
  BY <1>3, StateSet DEF States
<1>5. r.state \notin Terminal  BY <1>1 DEF Retry, Live, Terminal
<1>6. Recorded(t, r, server[t], Asked(t), Sends(t), unsaved)  BY <1>1 DEF IInv, TaskInv
<1>7. True(n, server[t].state, Sends(t))  BY <1>4, <1>6 DEF Recorded, True
<1>8. Doing(t, "save", "retry", n, stored[t], server[t].state, Sends(t), unsaved)
  BY <1>1, <1>4, <1>5, <1>7 DEF Doing, Saves, Sending, Terminal
<1>9. /\ drain' \in Drains /\ troubles' \in 0..MaxTroubles /\ UNCHANGED <<tasks, account, outside>>
  BY DEF Retry, IInv, TypeOK
<1>10. "retry" \in Calls \cup Saves  BY DEF Saves
<1> QED  BY <1>2, <1>3, <1>8, <1>9, <1>10, JobBegins

LEMMA CancelInv == ASSUME IInv, NEW t \in Tasks, Cancel(t) PROVE IInv'
<1>1. PICK r \in Records : r = stored[t]  BY DEF IInv, TypeOK
<1>2. Claim(LaneOf[t], "cancel", t, "save", "intent",
            [r EXCEPT !.intent = TRUE, !.state = "cancelling"])
  BY <1>1 DEF Cancel
<1>3. PICK n \in Records : n = [r EXCEPT !.intent = TRUE, !.state = "cancelling"]
  BY DEF Records, States
<1>4. n.state = "cancelling" /\ n.intent /\ n.content = r.content /\ n.message = r.message
  BY <1>3 DEF Records
<1>5. r.state \notin Terminal  BY <1>1 DEF Cancel
<1>6. Recorded(t, r, server[t], Asked(t), Sends(t), unsaved)  BY <1>1 DEF IInv, TaskInv
<1>7. True(n, server[t].state, Sends(t))  BY <1>4, <1>6 DEF Recorded, True
<1>8. Doing(t, "save", "intent", n, stored[t], server[t].state, Sends(t), unsaved)
  BY <1>1, <1>4, <1>5, <1>7 DEF Doing, Saves, Sending, Terminal
<1>9. /\ drain' \in Drains /\ troubles' \in 0..MaxTroubles /\ UNCHANGED <<tasks, account, outside>>
  BY DEF Cancel, IInv, TypeOK
<1>10. "intent" \in Calls \cup Saves  BY DEF Saves
<1> QED  BY <1>2, <1>3, <1>8, <1>9, <1>10, JobBegins

-------------------------------------------------------------------------------
(* The drain.                                                              *)

(* Requests of one task are made or answered, and the job of its lane goes *)
(* on or ends.                                                             *)
LEMMA TaskMoves ==
  ASSUME IInv, TypeOK', NEW t \in Tasks, UNCHANGED tasks,
         \A x \in Tasks : x # t => server'[x] = server[x],
         NEW q, q.task = t, sea' \in {sea \cup {q}, sea \ {q}},
         TaskInv(t)',
         \A k \in Lanes : k # LaneOf[t] => job'[k] = job[k],
         job'[LaneOf[t]] # NoJob => JobInv(LaneOf[t])' \/ (SameWork(LaneOf[t]) /\ job[LaneOf[t]].task # t)
  PROVE  IInv'
<1>1. ASSUME NEW x \in Tasks, x # t PROVE Same(x)
  <2>1. Asked(x)' = Asked(x)  BY <1>1 DEF Asked
  <2>2. Sends(x)' = Sends(x)  BY <1>1 DEF Sends
  <2> QED  BY <1>1, <2>1, <2>2 DEF Same, tasks
<1>2. ASSUME NEW k \in Lanes, job'[k] # NoJob
      PROVE  JobInv(k)' \/ (SameWork(k) /\ job[k].task # t)
  <2>1. CASE k = LaneOf[t]  BY <1>2, <2>1
  <2>2. CASE k # LaneOf[t]
    <3>1. job'[k] = job[k] /\ job[k] # NoJob  BY <1>2, <2>2
    <3>2. JobInv(k) /\ LaneOf[job[k].task] = k  BY <3>1, JobWas DEF IInv
    <3>3. job[k].task # t  BY <2>2, <3>2
    <3> QED  BY <3>1, <3>2, <3>3, KeptWork
  <2> QED  BY <2>1, <2>2
<1> QED  BY <1>1, <1>2, OneTask

(* A job asks the server something about its task.                         *)
LEMMA Asks ==
  ASSUME IInv, NEW t \in Tasks, UNCHANGED <<tasks, account, server, uploads, troubles>>,
         NEW q \in Requests, q.task = t, sea' = sea \cup {q},
         drain' \in Drains, job' \in [Lanes -> Jobs \cup {NoJob}],
         \A k \in Lanes : k # LaneOf[t] => job'[k] = job[k],
         NEW p \in {"send", "withdraw"}, NEW c \in Records,
         job'[LaneOf[t]] \in Jobs, job'[LaneOf[t]].task = t, job'[LaneOf[t]].at = "call",
         job'[LaneOf[t]].step = p, job'[LaneOf[t]].copy = c,
         True(c, server[t].state, Sends(t)),
         stored[t].content # 0, c.content = stored[t].content,
         stored[t].state \notin Terminal, stored[t].intent => c.intent,
         c.state \notin Terminal \cup {"absent"},
         IF q.kind = "send" THEN p = "send" /\ q.content = c.content /\ ~c.intent
                            ELSE p = "withdraw"
  PROVE  IInv'
<1> DEFINE l == LaneOf[t]
<1>1. TypeOK /\ l \in Lanes  BY LaneTypes DEF IInv
<1>2. TypeOK'  BY <1>1 DEF TypeOK, tasks
<1>3. Asked(t)' = Asked(t) \cup {q}  BY DEF Asked
<1>4. Sends(t)' = Sends(t) \cup (IF q.kind = "send" THEN {q} ELSE {})  BY DEF Sends
<1>5. PICK s \in Records : s = stored[t]  BY <1>1 DEF TypeOK
<1>6. stored'[t] = s /\ unsaved' = unsaved /\ server'[t] = server[t]  BY <1>5 DEF tasks
<1>7. Recorded(t, s, server[t], Asked(t), Sends(t), unsaved)  BY <1>5 DEF IInv, TaskInv
<1>8. True(s, server[t].state, Sends(t)')  BY <1>5, <1>7 DEF Recorded, True, Terminal
<1>9. TaskInv(t)'
  <2>1. \A x \in Sends(t)' : x.content = s.content  BY <1>4, <1>5, <1>7 DEF Recorded
  <2>2. Recorded(t, s, server[t], Asked(t)', Sends(t)', unsaved)
    BY <1>5, <1>7, <1>8, <2>1 DEF Recorded
  <2> QED  BY <1>6, <2>2 DEF TaskInv
<1>10. JobInv(l)'
  <2>1. True(c, server[t].state, Sends(t)')  BY DEF True, Terminal
  <2>2. Doing(t, "call", p, c, s, server[t].state, Sends(t)', unsaved)
    BY <1>5, <2>1 DEF Doing, Calls, Sending
  <2>3. Doing(t, "call", p, c, stored'[t], server'[t].state, Sends(t)', unsaved')
    BY <1>6, <2>2
  <2> QED  BY <1>1, <2>3, JobIs
<1> QED  BY <1>2, <1>9, <1>10, TaskMoves

LEMMA StartRunInv == ASSUME IInv, NEW t \in Tasks, StartRun(t) PROVE IInv'
<1> DEFINE l == LaneOf[t]
<1>1. PICK r \in Records : r = stored[t]  BY DEF IInv, TypeOK
<1>2. r.state \in Live /\ r.state \notin Terminal \cup {"absent"}
  BY <1>1 DEF StartRun, CanStart, Eligible, Live, Terminal
<1>3. Recorded(t, r, server[t], Asked(t), Sends(t), unsaved)  BY <1>1 DEF IInv, TaskInv
<1>4. drain' \in Drains  BY DEF StartRun, IInv, TypeOK, Drains
<1>5. UNCHANGED <<tasks, account, server, uploads, troubles>>  BY DEF StartRun
<1>6. troubles' \in 0..MaxTroubles  BY <1>5 DEF IInv, TypeOK
<1>7. ASSUME r.intent, Local(r), UNCHANGED sea,
             Claim(l, "run", t, "save", "result", [r EXCEPT !.state = "cancelled"])
      PROVE  IInv'
  <2>1. PICK n \in Records : n = [r EXCEPT !.state = "cancelled"]  BY StateSet DEF States
  <2>2. n.state = "cancelled" /\ n.intent = r.intent /\ n.content = r.content /\ n.message = r.message
    BY <2>1, StateSet DEF States
  <2>3. Sends(t) = {} /\ server[t].state = "none"
    <3>1. Asked(t) = {} /\ server[t].state = "none"  BY <1>3, <1>7 DEF Recorded, Local
    <3>2. Sends(t) \subseteq Asked(t)  BY DEF Sends, Asked
    <3> QED  BY <3>1, <3>2
  <2>4. True(n, server[t].state, Sends(t))  BY <1>7, <2>2, <2>3 DEF True, Local
  <2>5. Doing(t, "save", "result", n, stored[t], server[t].state, Sends(t), unsaved)
    BY <1>1, <1>2, <2>2, <2>4 DEF Doing, Saves, Sending
  <2>6. "result" \in Calls \cup Saves  BY DEF Saves
  <2>7. UNCHANGED <<tasks, account, outside>>  BY <1>5, <1>7 DEF outside
  <2> QED  BY <1>4, <1>6, <1>7, <2>1, <2>5, <2>6, <2>7, JobBegins
<1>8. ASSUME r.intent, ~Local(r), Claim(l, "run", t, "call", "withdraw", r),
             sea' = sea \cup {Withdrawal(t)}
      PROVE  IInv'
  <2>1. "withdraw" \in Calls \cup Saves  BY DEF Calls
  <2>2. TypeOK /\ l \in Lanes  BY LaneTypes DEF IInv
  <2>3. /\ job' \in [Lanes -> Jobs \cup {NoJob}]
        /\ job'[l] \in Jobs
        /\ job'[l].task = t /\ job'[l].at = "call" /\ job'[l].step = "withdraw" /\ job'[l].copy = r
        /\ \A k \in Lanes : k # l => job'[k] = job[k]
    BY <1>8, <2>1, <2>2, Claimed
  <2>4. PICK q \in Requests : q = Withdrawal(t) /\ q.task = t /\ q.kind # "send"
    <3>1. 0 \in 0..MaxUploads  BY SendQueueAssumption
    <3>2. Withdrawal(t) \in Requests  BY <3>1 DEF Withdrawal, Requests
    <3>3. Withdrawal(t).task = t /\ Withdrawal(t).kind # "send"  BY DEF Withdrawal
    <3> QED  BY <3>2, <3>3
  <2>5. True(r, server[t].state, Sends(t)) /\ r.content # 0
    BY <1>3, <1>8 DEF Recorded, True, Local
  <2>6. sea' = sea \cup {q}  BY <1>8, <2>4
  <2> HIDE DEF l
  <2> QED  BY <1>1, <1>2, <1>4, <1>5, <2>3, <2>4, <2>5, <2>6, Asks DEF l
<1>9. ASSUME ~r.intent, Claim(l, "run", t, "call", "timeline", r), UNCHANGED sea PROVE IInv'
  <2>1. "timeline" \in Calls \cup Saves  BY DEF Calls
  <2>2. Doing(t, "call", "timeline", r, stored[t], server[t].state, Sends(t), unsaved)
    BY <1>1, <1>2, <1>3, <1>9 DEF Doing, Recorded, Calls, Sending
  <2>3. UNCHANGED <<tasks, account, outside>>  BY <1>5, <1>9 DEF outside
  <2> QED  BY <1>4, <1>6, <1>9, <2>1, <2>2, <2>3, JobBegins
<1>10. \/ r.intent /\ Local(r) /\ UNCHANGED sea
          /\ Claim(l, "run", t, "save", "result", [r EXCEPT !.state = "cancelled"])
       \/ r.intent /\ ~Local(r) /\ Claim(l, "run", t, "call", "withdraw", r)
          /\ sea' = sea \cup {Withdrawal(t)}
       \/ ~r.intent /\ Claim(l, "run", t, "call", "timeline", r) /\ UNCHANGED sea
  BY <1>1, Zenon DEF StartRun
<1> QED  BY <1>7, <1>8, <1>9, <1>10

LEMMA NothingMoves ==
  ASSUME IInv, TypeOK', UNCHANGED <<tasks, sea, server, job>>
  PROVE  IInv'
<1>1. \A t \in Tasks : Same(t)  BY TasksKept
<1>2. ASSUME NEW k \in Lanes, job'[k] # NoJob PROVE SameWork(k)  BY <1>2, KeptWork DEF IInv
<1> QED  BY <1>1, <1>2, JobsOnly

LEMMA DrainInv == ASSUME IInv, StartDrain \/ Look \/ EndDrain PROVE IInv'
<1>1. drain' \in Drains
  <2>1. drain \in Drains /\ NoDrain \in Drains  BY DEF IInv, TypeOK, NoDrain, Drains
  <2>2. CASE StartDrain  BY <2>1, <2>2 DEF StartDrain, Drains
  <2>3. CASE Look  BY <2>1, <2>3 DEF Look, Drains
  <2>4. CASE EndDrain  BY <2>1, <2>4 DEF EndDrain
  <2> QED  BY <2>2, <2>3, <2>4
<1>2. UNCHANGED <<tasks, job, account, outside, troubles>>  BY DEF StartDrain, Look, EndDrain
<1>3. TypeOK'  BY <1>1, <1>2 DEF IInv, TypeOK, tasks, outside
<1> QED  BY <1>2, <1>3, NothingMoves DEF outside

-------------------------------------------------------------------------------
(* The steps of a job.                                                     *)

LEMMA SaveInv == ASSUME IInv, NEW l \in Lanes, Save(l) PROVE IInv'
<1>1. job[l] # NoJob /\ job[l].at = "save" /\ unsaved = {} /\ unsaved' = {}  BY DEF Save
<1>2. PICK t \in Tasks : job[l].task = t /\ LaneOf[t] = l  BY <1>1, JobWas
<1>3. PICK c \in Records : job[l].copy = c  BY <1>1, JobWas
<1>4. PICK p \in Calls \cup Saves : job[l].step = p  BY <1>1, JobWas DEF Jobs
<1>5. PICK s \in Records : stored[t] = s  BY DEF IInv, TypeOK
<1>6. Doing(t, "save", p, c, s, server[t].state, Sends(t), unsaved)
  BY <1>1, <1>2, <1>3, <1>4, <1>5, JobWas
<1>7. Recorded(t, s, server[t], Asked(t), Sends(t), unsaved)  BY <1>5 DEF IInv, TaskInv
<1>8. stored' = [stored EXCEPT ![t] = c]  BY <1>2, <1>3 DEF Save
<1>9. UNCHANGED <<drain, account, sea, server, uploads, troubles>>  BY DEF Save, outside
<1>10. job[l] \in Jobs /\ job \in [Lanes -> Jobs \cup {NoJob}]  BY <1>1, JobWas DEF IInv, TypeOK
<1> DEFINE n == [job[l] EXCEPT !.at = "saved"]
<1>11. n \in Jobs /\ n.task = t /\ n.at = "saved" /\ n.step = p /\ n.copy = c
  BY <1>2, <1>3, <1>4, <1>10 DEF Jobs
<1>12. job' = [job EXCEPT ![l] = n]  BY DEF Save
<1> HIDE DEF n
<1>13. job'[l] = n /\ \A k \in Lanes : k # l => job'[k] = job[k]  BY <1>10, <1>12
<1>14. TypeOK'
  BY <1>1, <1>8, <1>9, <1>10, <1>11, <1>12 DEF IInv, TypeOK
<1>15. stored'[t] = c /\ \A x \in Tasks : x # t => stored'[x] = stored[x]
  BY <1>8 DEF IInv, TypeOK
<1>16. server'[t] = server[t] /\ Asked(t)' = Asked(t) /\ Sends(t)' = Sends(t)
  BY <1>9 DEF Asked, Sends
<1>17. TaskInv(t)'
  <2>1. Sends(t) \subseteq Asked(t)  BY DEF Asked, Sends
  <2>2. c.content = 0 => s.content = 0  BY <1>6 DEF Doing
  <2>3. s.content = 0 => Sends(t) = {}  BY <1>7, <2>1 DEF Recorded
  <2>4. s.content # 0 => c.content = s.content  BY <1>6 DEF Doing
  <2>5. \A q \in Sends(t) : q.content = c.content  BY <1>7, <2>3, <2>4 DEF Recorded
  <2>6. server[t].content \in {0, c.content}  BY <1>7, <2>4 DEF Recorded
  <2>7. c.content = 0 => Asked(t) = {} /\ server[t].state = "none"  BY <1>7, <2>2 DEF Recorded
  <2>8. True(c, server[t].state, Sends(t))  BY <1>6 DEF Doing
  <2>9. Recorded(t, c, server[t], Asked(t), Sends(t), unsaved')
    BY <1>1, <2>5, <2>6, <2>7, <2>8 DEF Recorded
  <2> QED  BY <1>15, <1>16, <2>9 DEF TaskInv
<1>18. JobInv(l)'
  <2>1. Doing(t, "saved", p, c, c, server[t].state, Sends(t), unsaved')
    BY <1>1, <1>6 DEF Doing, Calls, Saves
  <2>2. Doing(t, "saved", p, c, stored'[t], server'[t].state, Sends(t)', unsaved')
    BY <1>15, <1>16, <2>1
  <2> QED  BY <1>2, <1>11, <1>13, <2>2, JobIs
<1>19. \A x \in Tasks : x # t => Same(x)  BY <1>1, <1>9, <1>15 DEF Same, Asked, Sends
<1>20. ASSUME NEW k \in Lanes, job'[k] # NoJob
       PROVE  JobInv(k)' \/ (SameWork(k) /\ job[k].task # t)
  <2>1. CASE k = l  BY <1>18, <2>1
  <2>2. CASE k # l
    <3>1. job'[k] = job[k] /\ job[k] # NoJob  BY <1>13, <1>20, <2>2
    <3>2. JobInv(k) /\ LaneOf[job[k].task] = k  BY <3>1, JobWas DEF IInv
    <3>3. job[k].task # t  BY <1>2, <2>2, <3>2
    <3> QED  BY <3>1, <3>2, <3>3, KeptWork
  <2> QED  BY <2>1, <2>2
<1> QED  BY <1>14, <1>17, <1>19, <1>20, OneTask

LEMMA SaveFailsInv == ASSUME IInv, NEW l \in Lanes, SaveFails(l) PROVE IInv'
<1>1. job[l] # NoJob /\ job[l].at # "saved" /\ UNCHANGED <<tasks, account, outside>>
  BY DEF SaveFails
<1>2. troubles' \in 0..MaxTroubles  BY TroubleTyped DEF SaveFails, IInv, TypeOK
<1>3. Ends(l) \/ Caught(l, FALSE)  BY Zenon DEF SaveFails
<1> QED  BY <1>1, <1>2, <1>3, JobEnds, JobCaught

LEMMA CallFailsInv == ASSUME IInv, NEW l \in Lanes, CallFails(l) PROVE IInv'
<1>1. job[l] # NoJob /\ job[l].at # "saved" /\ UNCHANGED <<tasks, account, outside>>
  BY DEF CallFails
<1>2. troubles' \in 0..MaxTroubles  BY TroubleTyped DEF CallFails, IInv, TypeOK
<1>3. PICK x \in BOOLEAN : Caught(l, x)  BY DEF CallFails
<1> QED  BY <1>1, <1>2, <1>3, JobCaught

LEMMA TimelineAnswersInv == ASSUME IInv, NEW l \in Lanes, TimelineAnswers(l) PROVE IInv'
<1>1. job[l] # NoJob /\ job[l].at = "call" /\ job[l].step = "timeline"
  BY DEF TimelineAnswers, In
<1>2. PICK t \in Tasks : job[l].task = t  BY <1>1, JobWas
<1>3. PICK c \in Records : job[l].copy = c  BY <1>1, JobWas
<1>4. PICK p \in {"uploading", "sending"} :
        p = (IF c.content = 0 THEN "uploading" ELSE "sending")
  OBVIOUS
<1>5. PICK n \in Records : n = [c EXCEPT !.state = p]  BY StateSet DEF States
<1>6. n.state = p /\ n.intent = c.intent /\ n.content = c.content /\ n.message = c.message
  BY <1>5, StateSet DEF States
<1>7. Goes(l, "save", p, n)  BY <1>3, <1>4, <1>5 DEF TimelineAnswers
<1>8. Doing(t, "call", "timeline", c, stored[t], server[t].state, Sends(t), unsaved)
  BY <1>1, <1>2, <1>3, JobWas
<1>9. True(n, server[t].state, Sends(t))  BY <1>6, <1>8 DEF Doing, True
<1>10. Doing(t, "save", p, n, stored[t], server[t].state, Sends(t), unsaved)
  BY <1>4, <1>6, <1>8, <1>9 DEF Doing, Saves, Calls, Sending, Terminal
<1>11. /\ UNCHANGED <<tasks, account, outside>> /\ troubles' \in 0..MaxTroubles
       /\ p \in Calls \cup Saves
  BY DEF TimelineAnswers, IInv, TypeOK, Saves
<1> QED  BY <1>1, <1>2, <1>7, <1>10, <1>11, JobMoves

LEMMA UploadEndsInv == ASSUME IInv, NEW l \in Lanes, UploadEnds(l) PROVE IInv'
<1>1. job[l] # NoJob /\ job[l].at = "call" /\ job[l].step = "upload"
  BY DEF UploadEnds, In
<1>2. PICK t \in Tasks : job[l].task = t /\ LaneOf[t] = l  BY <1>1, JobWas
<1>3. PICK c \in Records : job[l].copy = c  BY <1>1, JobWas
<1>4. TypeOK  BY DEF IInv
<1>5. UNCHANGED <<tasks, account, sea, server, troubles>>  BY DEF UploadEnds
<1>6. uploads[t] + 1 \in 0..MaxUploads /\ uploads[t] + 1 # 0
  BY <1>2, <1>4, SendQueueAssumption DEF UploadEnds, TypeOK
<1>7. uploads' \in [Tasks -> 0..MaxUploads]
  BY <1>2, <1>4, <1>6 DEF UploadEnds, TypeOK
<1>8. UNCHANGED <<tasks, sea, server>>  BY <1>5
<1>9. ASSUME Ends(l) PROVE IInv'
  <2>1. /\ job' \in [Lanes -> Jobs \cup {NoJob}] /\ drain' \in Drains
        /\ job'[l] = NoJob
        /\ \A k \in Lanes : k # l => job'[k] = job[k]
    BY <1>4, <1>9, Ended
  <2>2. TypeOK'  BY <1>4, <1>5, <1>7, <2>1 DEF TypeOK, tasks
  <2> QED  BY <1>8, <2>1, <2>2, JobStep
<1>10. PICK n \in Records : n = [c EXCEPT !.state = "sending", !.content = uploads[t] + 1]
  BY <1>6 DEF Records, States
<1>11. ASSUME Goes(l, "save", "sending", n) PROVE IInv'
  <2>1. n.state = "sending" /\ n.intent = c.intent /\ n.content # 0 /\ n.message = c.message
    BY <1>6, <1>10 DEF Records
  <2>2. Doing(t, "call", "upload", c, stored[t], server[t].state, Sends(t), unsaved)
    BY <1>1, <1>2, <1>3, JobWas
  <2>3. True(n, server[t].state, Sends(t))  BY <2>1, <2>2 DEF Doing, True
  <2>4. c.content = 0 /\ stored[t].content = 0  BY <2>2 DEF Doing
  <2>5. Doing(t, "save", "sending", n, stored[t], server[t].state, Sends(t), unsaved)
    BY <2>1, <2>2, <2>3, <2>4 DEF Doing, Saves, Calls, Sending, Terminal
  <2>6. "sending" \in Calls \cup Saves  BY DEF Saves
  <2>7. /\ job' \in [Lanes -> Jobs \cup {NoJob}] /\ drain' = drain
        /\ job'[l] \in Jobs
        /\ job'[l].task = t /\ job'[l].at = "save" /\ job'[l].step = "sending" /\ job'[l].copy = n
        /\ \A k \in Lanes : k # l => job'[k] = job[k]
    BY <1>1, <1>2, <1>4, <1>11, <2>6, Goes3
  <2>8. TypeOK'  BY <1>4, <1>5, <1>7, <2>7 DEF TypeOK, tasks
  <2>9. /\ stored'[t] = stored[t] /\ server'[t] = server[t] /\ Sends(t)' = Sends(t)
        /\ unsaved' = unsaved
    BY <1>5 DEF tasks, Sends
  <2>10. Doing(t, "save", "sending", n, stored'[t], server'[t].state, Sends(t)', unsaved')
    BY <2>5, <2>9
  <2>11. JobInv(l)'  BY <1>2, <2>7, <2>10, JobIs
  <2> QED  BY <1>8, <2>7, <2>8, <2>11, JobStep
<1>12. Ends(l) \/ Goes(l, "save", "sending", n)  BY <1>2, <1>3, <1>10, Zenon DEF UploadEnds
<1> QED  BY <1>9, <1>11, <1>12

LEMMA SavedInv == ASSUME IInv, NEW l \in Lanes, Saved(l) PROVE IInv'
<1>1. /\ job[l] # NoJob /\ job[l].at = "saved"
      /\ UNCHANGED <<tasks, account, server, uploads, troubles>>
  BY DEF Saved
<1>2. PICK t \in Tasks : job[l].task = t /\ LaneOf[t] = l  BY <1>1, JobWas
<1>3. PICK c \in Records : job[l].copy = c  BY <1>1, JobWas
<1>4. PICK p \in Calls \cup Saves : job[l].step = p  BY <1>1, JobWas DEF Jobs
<1>5. Doing(t, "saved", p, c, stored[t], server[t].state, Sends(t), unsaved)
  BY <1>1, <1>2, <1>3, <1>4, JobWas
<1>6. stored[t] = c  BY <1>5 DEF Doing
<1>7. Recorded(t, c, server[t], Asked(t), Sends(t), unsaved)  BY <1>6 DEF IInv, TaskInv
<1>8. TypeOK /\ troubles' \in 0..MaxTroubles  BY <1>1 DEF IInv, TypeOK
<1>9. ASSUME UNCHANGED sea PROVE UNCHANGED <<tasks, account, outside>>
  BY <1>1, <1>9 DEF outside
<1>10. ASSUME p = "uploading", Goes(l, "call", "upload", c), UNCHANGED sea PROVE IInv'
  <2>1. Doing(t, "call", "upload", c, stored[t], server[t].state, Sends(t), unsaved)
    BY <1>5, <1>6, <1>10 DEF Doing, Calls, Sending
  <2>2. "upload" \in Calls \cup Saves  BY DEF Calls
  <2> QED  BY <1>1, <1>2, <1>8, <1>9, <1>10, <2>1, <2>2, JobMoves
<1>11. ASSUME p = "intent", Local(c), UNCHANGED sea,
              Goes(l, "save", "result", [c EXCEPT !.state = "cancelled"])
       PROVE  IInv'
  <2>1. PICK n \in Records : n = [c EXCEPT !.state = "cancelled"]  BY StateSet DEF States
  <2>2. n.state = "cancelled" /\ n.intent = c.intent /\ n.content = c.content /\ n.message = c.message
    BY <2>1, StateSet DEF States
  <2>3. Sends(t) = {} /\ server[t].state = "none"
    <3>1. Asked(t) = {} /\ server[t].state = "none"  BY <1>7, <1>11 DEF Recorded, Local
    <3>2. Sends(t) \subseteq Asked(t)  BY DEF Sends, Asked
    <3> QED  BY <3>1, <3>2
  <2>4. True(n, server[t].state, Sends(t))  BY <1>11, <2>2, <2>3 DEF True, Local
  <2>5. c.state \notin Terminal  BY <1>5, <1>11 DEF Doing
  <2>6. Doing(t, "save", "result", n, stored[t], server[t].state, Sends(t), unsaved)
    BY <1>6, <2>2, <2>4, <2>5 DEF Doing, Saves, Sending
  <2>7. "result" \in Calls \cup Saves  BY DEF Saves
  <2> QED  BY <1>1, <1>2, <1>8, <1>9, <1>11, <2>1, <2>6, <2>7, JobMoves
<1>12. ASSUME NEW w \in {"send", "withdraw"}, NEW q \in Requests, q.task = t,
              Goes(l, "call", w, c), sea' = sea \cup {q},
              c.content # 0, c.state \notin Terminal,
              IF q.kind = "send" THEN w = "send" /\ q.content = c.content /\ ~c.intent
                                 ELSE w = "withdraw"
       PROVE  IInv'
  <2>1. w \in Calls \cup Saves  BY DEF Calls
  <2>2. /\ job' \in [Lanes -> Jobs \cup {NoJob}] /\ drain' = drain
        /\ job'[l] \in Jobs
        /\ job'[l].task = t /\ job'[l].at = "call" /\ job'[l].step = w /\ job'[l].copy = c
        /\ \A k \in Lanes : k # l => job'[k] = job[k]
    BY <1>1, <1>2, <1>8, <1>12, <2>1, Goes3
  <2>3. True(c, server[t].state, Sends(t))  BY <1>7 DEF Recorded
  <2>4. drain' \in Drains  BY <1>8, <2>2 DEF TypeOK
  <2>5. c.state \notin Terminal \cup {"absent"}  BY <1>5, <1>12 DEF Doing
  <2> QED  BY <1>1, <1>2, <1>6, <1>12, <2>2, <2>3, <2>4, <2>5, Asks
<1>13. ASSUME p = "sending", Goes(l, "call", "send", c),
              sea' = sea \cup {[task |-> t, kind |-> "send", content |-> c.content]}
       PROVE  IInv'
  <2>1. c.content # 0 /\ ~c.intent /\ c.state \notin Terminal
    BY <1>5, <1>13 DEF Doing, Sending
  <2>2. c.content \in 0..MaxUploads  BY DEF Records
  <2>3. [task |-> t, kind |-> "send", content |-> c.content] \in Requests
    BY <2>2 DEF Requests
  <2>4. PICK q \in Requests :
          /\ q = [task |-> t, kind |-> "send", content |-> c.content]
          /\ q.task = t /\ q.kind = "send" /\ q.content = c.content
    BY <2>3
  <2>5. sea' = sea \cup {q}  BY <1>13, <2>4
  <2> QED  BY <1>12, <1>13, <2>1, <2>4, <2>5
<1>14. ASSUME p = "intent", ~Local(c), Goes(l, "call", "withdraw", c),
              sea' = sea \cup {Withdrawal(t)}
       PROVE  IInv'
  <2>1. c.state \notin Terminal  BY <1>5, <1>14 DEF Doing
  <2>2. c.content # 0  BY <1>7, <1>14 DEF Recorded, True, Local
  <2>3. PICK q \in Requests : q = Withdrawal(t) /\ q.task = t /\ q.kind # "send"
    <3>1. 0 \in 0..MaxUploads  BY SendQueueAssumption
    <3>2. Withdrawal(t) \in Requests  BY <3>1 DEF Withdrawal, Requests
    <3>3. Withdrawal(t).task = t /\ Withdrawal(t).kind # "send"  BY DEF Withdrawal
    <3> QED  BY <3>2, <3>3
  <2>4. sea' = sea \cup {q}  BY <1>14, <2>3
  <2> QED  BY <1>12, <1>14, <2>1, <2>2, <2>3, <2>4
<1>15. \/ p = "uploading" /\ Goes(l, "call", "upload", c) /\ UNCHANGED sea
       \/ p = "sending" /\ Goes(l, "call", "send", c)
          /\ sea' = sea \cup {[task |-> t, kind |-> "send", content |-> c.content]}
       \/ p = "intent" /\ Local(c) /\ Goes(l, "save", "result", [c EXCEPT !.state = "cancelled"])
          /\ UNCHANGED sea
       \/ p = "intent" /\ ~Local(c) /\ Goes(l, "call", "withdraw", c)
          /\ sea' = sea \cup {Withdrawal(t)}
       \/ Ends(l) /\ UNCHANGED sea
  BY <1>2, <1>3, <1>4 DEF Saved
<1>16. ASSUME Ends(l), UNCHANGED sea PROVE IInv'  BY <1>8, <1>9, <1>16, JobEnds
<1> QED  BY <1>10, <1>11, <1>13, <1>14, <1>15, <1>16

-------------------------------------------------------------------------------
(* The server.                                                             *)

(* Published and cancelled are final, and what was never sent can only be  *)
(* withdrawn.                                                              *)
Advances(v, w, S, U) ==
  /\ U \subseteq S
  /\ v \in {"published", "cancelled"} => w = v
  /\ (v = "none" /\ S = {}) => w \in {"none", "cancelled"}

LEMMA StaysTrue ==
  ASSUME NEW r, NEW v, NEW w, NEW S, NEW U, Advances(v, w, S, U), True(r, v, S)
  PROVE  True(r, w, U)
BY DEF Advances, True

LEMMA StaysDoing ==
  ASSUME NEW t, NEW a, NEW p, NEW c, NEW s, NEW v, NEW w, NEW S, NEW U, NEW N,
         Advances(v, w, S, U), Doing(t, a, p, c, s, v, S, N)
  PROVE  Doing(t, a, p, c, s, w, U, N)
BY StaysTrue DEF Doing

(* The server's state of a message, and the requests for it, move on and   *)
(* no job hears of it.                                                     *)
LEMMA UnheardJob ==
  ASSUME IInv, NEW l \in Lanes, job'[l] = job[l], job[l] # NoJob,
         NEW t \in Tasks, job[l].task = t, UNCHANGED tasks,
         Advances(server[t].state, server'[t].state, Sends(t), Sends(t)')
  PROVE  JobInv(l)'
<1>1. PICK a \in {"call", "save", "saved"}, p \in Calls \cup Saves, c \in Records :
        job[l].at = a /\ job[l].step = p /\ job[l].copy = c
  BY JobWas DEF Jobs
<1>2. Doing(t, a, p, c, stored[t], server[t].state, Sends(t), unsaved)  BY <1>1, JobWas
<1>3. Doing(t, a, p, c, stored[t], server'[t].state, Sends(t)', unsaved)  BY <1>2, StaysDoing
<1>4. Doing(t, a, p, c, stored'[t], server'[t].state, Sends(t)', unsaved')
  BY <1>3 DEF tasks
<1>5. job'[l] \in Jobs /\ LaneOf[t] = l  BY JobWas
<1> QED  BY <1>1, <1>4, <1>5, JobIs

LEMMA UnheardTask ==
  ASSUME IInv, NEW t \in Tasks, UNCHANGED tasks,
         Advances(server[t].state, server'[t].state, Sends(t), Sends(t)'),
         Asked(t)' \subseteq Asked(t),
         stored[t].content = 0 => server'[t].state = server[t].state,
         server'[t].content \in {server[t].content, stored[t].content}
  PROVE  TaskInv(t)'
<1>1. Recorded(t, stored[t], server[t], Asked(t), Sends(t), unsaved)  BY DEF IInv, TaskInv
<1>2. True(stored[t], server'[t].state, Sends(t)')  BY <1>1, StaysTrue DEF Recorded
<1>3. Sends(t)' \subseteq Sends(t)  BY DEF Advances
<1>4. Recorded(t, stored[t], server'[t], Asked(t)', Sends(t)', unsaved)
  BY <1>1, <1>2, <1>3 DEF Recorded
<1> QED  BY <1>4 DEF TaskInv, tasks

LEMMA PublishInv == ASSUME IInv, NEW t \in Tasks, Publish(t) PROVE IInv'
<1>1. server[t].state = "preparing" /\ UNCHANGED <<tasks, job, drain, account, sea, uploads, troubles>>
  BY DEF Publish
<1>2. server \in [Tasks -> [state : Replies \cup {"none"}, content : 0..MaxUploads]]
  BY DEF IInv, TypeOK
<1> DEFINE m == [server[t] EXCEPT !.state = "published"]
<1>3. /\ m \in [state : Replies \cup {"none"}, content : 0..MaxUploads]
      /\ m.state = "published" /\ m.content = server[t].content
  BY <1>2 DEF Replies
<1>4. server' = [server EXCEPT ![t] = m]  BY DEF Publish
<1> HIDE DEF m
<1>5. /\ server' \in [Tasks -> [state : Replies \cup {"none"}, content : 0..MaxUploads]]
      /\ server'[t] = m /\ \A x \in Tasks : x # t => server'[x] = server[x]
  BY <1>2, <1>3, <1>4
<1>6. TypeOK'  BY <1>1, <1>5 DEF IInv, TypeOK, tasks
<1>7. Asked(t)' = Asked(t) /\ Sends(t)' = Sends(t)  BY <1>1 DEF Asked, Sends
<1>8. Advances(server[t].state, server'[t].state, Sends(t), Sends(t)')
  BY <1>1, <1>3, <1>5, <1>7 DEF Advances
<1>9. stored[t].content # 0  BY <1>1 DEF IInv, TaskInv, Recorded
<1>10. TaskInv(t)'  BY <1>1, <1>3, <1>5, <1>7, <1>8, <1>9, UnheardTask
<1>11. \A x \in Tasks : x # t => Same(x)  BY <1>1, <1>5 DEF Same, Asked, Sends, tasks
<1>12. ASSUME NEW k \in Lanes, job'[k] # NoJob
       PROVE  JobInv(k)' \/ (SameWork(k) /\ job[k].task # t)
  <2>1. job'[k] = job[k] /\ job[k] # NoJob  BY <1>1, <1>12
  <2>2. CASE job[k].task = t  BY <1>1, <1>8, <2>1, <2>2, UnheardJob
  <2>3. CASE job[k].task # t  BY <2>1, <2>3, KeptWork DEF IInv
  <2> QED  BY <2>2, <2>3
<1> QED  BY <1>6, <1>10, <1>11, <1>12, OneTask

(* A job hears an answer: its copy says what the server now has.           *)
LEMMA Hears ==
  ASSUME IInv, NEW t \in Tasks, NEW reply \in Replies \cup {"rejected"},
         NEW r \in Records, NEW p \in {"send", "withdraw"}, NEW s, NEW v, NEW w, NEW S, NEW U, NEW N,
         Doing(t, "call", p, r, s, v, S, N), Advances(v, w, S, U),
         reply = "rejected" \/ reply = w
  PROVE  /\ Outcome(r, reply) \in Records
         /\ Doing(t, "save", "result", Outcome(r, reply), s, w, U, N)
<1>1. PICK d \in {"sent", "cancelled", "retrying", "failed"},
           m \in {r.message, reply} :
        /\ Outcome(r, reply) = [r EXCEPT !.state = d, !.message = m]
        /\ d = "sent" => w = "published"
        /\ d = "cancelled" => w = "cancelled"
        /\ m \in Replies \cup {"none"}
  <2>1. CASE reply = "published"
    <3>1. Outcome(r, reply) = [r EXCEPT !.state = "sent", !.message = reply]  BY <2>1 DEF Outcome
    <3> QED  BY <2>1, <3>1 DEF Replies
  <2>2. CASE reply = "cancelled"
    <3>1. Outcome(r, reply) = [r EXCEPT !.state = "cancelled", !.message = reply]
      BY <2>2 DEF Outcome
    <3> QED  BY <2>2, <3>1 DEF Replies
  <2>3. CASE reply = "preparing"
    <3>1. Outcome(r, reply) = [r EXCEPT !.state = "retrying", !.message = reply]
      BY <2>3 DEF Outcome
    <3> QED  BY <2>3, <3>1 DEF Replies
  <2>4. CASE reply = "rejected"
    <3>1. Outcome(r, reply) = [r EXCEPT !.state = "failed"]  BY <2>4 DEF Outcome
    <3>2. [r EXCEPT !.state = "failed"] = [r EXCEPT !.state = "failed", !.message = r.message]
      BY DEF Records
    <3>3. r.message \in Replies \cup {"none"}  BY DEF Records
    <3> QED  BY <3>1, <3>2, <3>3
  <2> QED  BY <2>1, <2>2, <2>3, <2>4 DEF Replies
<1>2. PICK n \in Records : n = [r EXCEPT !.state = d, !.message = m]
  BY <1>1 DEF Records, States
<1>3. n.state = d /\ n.message = m /\ n.intent = r.intent /\ n.content = r.content
  BY <1>2 DEF Records
<1>4. r.content # 0 /\ s.content # 0  BY DEF Doing
<1>5. True(n, w, U)  BY <1>1, <1>3, <1>4 DEF True
<1>6. s.state \notin Terminal  BY DEF Doing
<1>7. Doing(t, "save", "result", n, s, w, U, N)
  BY <1>1, <1>3, <1>4, <1>5, <1>6 DEF Doing, Saves, Sending
<1> QED  BY <1>1, <1>2, <1>7

(* A request arrives, or is refused; the job that asked hears of it, or not.*)
LEMMA Answers ==
  ASSUME IInv, NEW q \in sea, sea' = sea \ {q}, UNCHANGED <<tasks, account, uploads>>,
         troubles' \in 0..MaxTroubles,
         NEW t \in Tasks, q.task = t,
         NEW m \in [state : Replies \cup {"none"}, content : 0..MaxUploads],
         server' = [server EXCEPT ![t] = m],
         Advances(server[t].state, m.state, Sends(t), Sends(t)'),
         m.content \in {server[t].content, stored[t].content},
         NEW reply \in Replies \cup {"rejected"}, reply = "rejected" \/ reply = m.state,
         (Awaits(LaneOf[t], q) /\ Answered(LaneOf[t], reply)) \/ UNCHANGED <<job, drain>>
  PROVE  IInv'
<1> DEFINE l == LaneOf[t]
<1>1. TypeOK /\ l \in Lanes  BY LaneTypes DEF IInv
<1>2. /\ server' \in [Tasks -> [state : Replies \cup {"none"}, content : 0..MaxUploads]]
      /\ server'[t] = m /\ \A x \in Tasks : x # t => server'[x] = server[x]
  BY <1>1 DEF TypeOK
<1>3. Asked(t)' \subseteq Asked(t)  BY DEF Asked
<1>4. stored[t].content # 0
  <2>1. q \in Asked(t)  BY DEF Asked
  <2> QED  BY <2>1 DEF IInv, TaskInv, Recorded
<1>5. Advances(server[t].state, server'[t].state, Sends(t), Sends(t)')  BY <1>2
<1>6. TaskInv(t)'  BY <1>2, <1>3, <1>4, <1>5, UnheardTask
<1>7. sea' \subseteq Requests  BY <1>1 DEF TypeOK
<1>8. ASSUME UNCHANGED <<job, drain>> PROVE IInv'
  <2>1. TypeOK'  BY <1>1, <1>2, <1>7, <1>8 DEF TypeOK, tasks
  <2>2. ASSUME job'[l] # NoJob
        PROVE  JobInv(l)' \/ (SameWork(l) /\ job[l].task # t)
    <3>1. job'[l] = job[l] /\ job[l] # NoJob  BY <1>8, <2>2
    <3>2. CASE job[l].task = t  BY <1>1, <1>5, <3>1, <3>2, UnheardJob
    <3>3. CASE job[l].task # t  BY <1>1, <3>1, <3>3, KeptWork DEF IInv
    <3> QED  BY <3>2, <3>3
  <2>3. \A k \in Lanes : k # l => job'[k] = job[k]  BY <1>8
  <2> QED  BY <1>2, <1>6, <2>1, <2>2, <2>3, TaskMoves
<1>9. ASSUME Awaits(l, q), Ends(l) PROVE IInv'
  <2>1. /\ job' \in [Lanes -> Jobs \cup {NoJob}] /\ drain' \in Drains
        /\ job'[l] = NoJob
        /\ \A k \in Lanes : k # l => job'[k] = job[k]
    BY <1>1, <1>9, Ended
  <2>2. TypeOK'  BY <1>1, <1>2, <1>7, <2>1 DEF TypeOK, tasks
  <2> QED  BY <1>2, <1>6, <2>1, <2>2, TaskMoves
<1>10. ASSUME Awaits(l, q), Goes(l, "save", "result", Outcome(job[l].copy, reply)) PROVE IInv'
  <2>1. job[l] # NoJob /\ job[l].at = "call" /\ job[l].task = t  BY <1>10 DEF Awaits
  <2>2. PICK p \in {"send", "withdraw"} : job[l].step = p  BY <1>10 DEF Awaits
  <2>3. PICK r \in Records : job[l].copy = r  BY <1>1, <2>1, JobWas
  <2>4. Doing(t, "call", p, r, stored[t], server[t].state, Sends(t), unsaved)
    BY <1>1, <2>1, <2>2, <2>3, JobWas
  <2>5. PICK n \in Records : n = Outcome(r, reply)  BY <2>4, Hears
  <2>6. Doing(t, "save", "result", n, stored[t], m.state, Sends(t)', unsaved)
    BY <2>4, <2>5, Hears
  <2>7. "result" \in Calls \cup Saves  BY DEF Saves
  <2>8. /\ job' \in [Lanes -> Jobs \cup {NoJob}] /\ drain' = drain
        /\ job'[l] \in Jobs
        /\ job'[l].task = t /\ job'[l].at = "save" /\ job'[l].step = "result" /\ job'[l].copy = n
        /\ \A k \in Lanes : k # l => job'[k] = job[k]
    BY <1>1, <1>10, <2>1, <2>3, <2>5, <2>7, Goes3
  <2>9. TypeOK'  BY <1>1, <1>2, <1>7, <2>8 DEF TypeOK, tasks
  <2>10. Doing(t, "save", "result", n, stored'[t], server'[t].state, Sends(t)', unsaved')
    BY <1>2, <2>6 DEF tasks
  <2>11. JobInv(l)'  BY <1>1, <2>8, <2>10, JobIs
  <2> QED  BY <1>2, <1>6, <2>8, <2>9, <2>11, TaskMoves
<1>11. Answered(l, reply) => Ends(l) \/ Goes(l, "save", "result", Outcome(job[l].copy, reply))
  BY Zenon DEF Answered
<1> QED  BY <1>8, <1>9, <1>10, <1>11

LEMMA RequestOf ==
  ASSUME IInv, NEW q \in sea
  PROVE  /\ q \in Requests /\ q.task \in Tasks /\ q.kind \in {"send", "cancel"}
         /\ q \in Asked(q.task) /\ (q.kind = "send" => q \in Sends(q.task))
<1>1. q \in Requests  BY DEF IInv, TypeOK
<1> QED  BY <1>1 DEF Requests, Asked, Sends

LEMMA DeliverInv == ASSUME IInv, NEW q \in sea, Deliver(q) PROVE IInv'
<1>1. PICK t \in Tasks : q.task = t  BY RequestOf
<1>2. PICK m \in Taken(q, server[t]) :
        /\ server' = [server EXCEPT ![t] = m]
        /\ IF Awaits(LaneOf[t], q)
           THEN \/ Answered(LaneOf[t], m.state) /\ UNCHANGED troubles
                \/ Trouble("call") /\ UNCHANGED <<job, drain>>
           ELSE UNCHANGED <<job, drain, troubles>>
  BY <1>1 DEF Deliver
<1>3. sea' = sea \ {q} /\ UNCHANGED <<tasks, account, uploads>>  BY DEF Deliver
<1>4. server[t] \in [state : Replies \cup {"none"}, content : 0..MaxUploads]
  BY DEF IInv, TypeOK
<1>5. Recorded(t, stored[t], server[t], Asked(t), Sends(t), unsaved)  BY DEF IInv, TaskInv
<1>6. q \in Requests /\ q.kind \in {"send", "cancel"} /\ (q.kind = "send" => q \in Sends(t))
  BY <1>1, RequestOf
<1>7. /\ m.state \in Replies /\ m.content \in 0..MaxUploads
      /\ m \in [state : Replies \cup {"none"}, content : 0..MaxUploads]
      /\ m.content \in {server[t].content, stored[t].content}
      /\ server[t].state \in {"published", "cancelled"} => m.state = server[t].state
      /\ q.kind # "send" /\ server[t].state = "none" => m.state = "cancelled"
  <2>1. CASE q.kind = "send" /\ server[t].state = "none"
    <3>1. PICK x \in {"preparing", "published"} : m = [state |-> x, content |-> q.content]
      BY <1>2, <2>1 DEF Taken
    <3>2. q.content \in 0..MaxUploads /\ q.content = stored[t].content
      BY <1>5, <1>6, <2>1 DEF Recorded, Requests
    <3> QED  BY <2>1, <3>1, <3>2 DEF Replies
  <2>2. CASE q.kind = "send" /\ server[t].state # "none"
    <3>1. m = server[t]  BY <1>2, <2>2 DEF Taken
    <3> QED  BY <1>4, <2>2, <3>1
  <2>3. CASE q.kind # "send" /\ server[t].state = "published"
    <3>1. m = server[t]  BY <1>2, <2>3 DEF Taken
    <3> QED  BY <1>4, <2>3, <3>1 DEF Replies
  <2>4. CASE q.kind # "send" /\ server[t].state # "published"
    <3>1. m = [server[t] EXCEPT !.state = "cancelled"]  BY <1>2, <2>4 DEF Taken
    <3> QED  BY <1>4, <2>4, <3>1 DEF Replies
  <2> QED  BY <2>1, <2>2, <2>3, <2>4
<1>8. Advances(server[t].state, m.state, Sends(t), Sends(t)')
  <2>1. Sends(t)' \subseteq Sends(t)  BY <1>3 DEF Sends
  <2>2. server[t].state = "none" /\ Sends(t) = {} => m.state = "cancelled"  BY <1>6, <1>7
  <2> QED  BY <1>7, <2>1, <2>2 DEF Advances
<1>9. troubles' \in 0..MaxTroubles  BY <1>2, TroubleTyped DEF IInv, TypeOK
<1>10. (Awaits(LaneOf[t], q) /\ Answered(LaneOf[t], m.state)) \/ UNCHANGED <<job, drain>>
  BY <1>2
<1>11. m.state \in Replies \cup {"rejected"}  BY <1>7
<1> QED  BY <1>1, <1>2, <1>3, <1>7, <1>8, <1>9, <1>10, <1>11, Answers

LEMMA RefusedInv == ASSUME IInv, NEW q \in sea, Refused(q) PROVE IInv'
<1>1. PICK t \in Tasks : q.task = t  BY RequestOf
<1>2. server \in [Tasks -> [state : Replies \cup {"none"}, content : 0..MaxUploads]]
  BY DEF IInv, TypeOK
<1>3. PICK m \in [state : Replies \cup {"none"}, content : 0..MaxUploads] : m = server[t]
  BY <1>2
<1>4. /\ sea' = sea \ {q} /\ UNCHANGED <<tasks, account, server, uploads>>
      /\ Awaits(LaneOf[t], q) /\ Answered(LaneOf[t], "rejected")
  BY <1>1 DEF Refused
<1>5. server' = [server EXCEPT ![t] = m]  BY <1>2, <1>3, <1>4
<1>6. troubles' \in 0..MaxTroubles  BY TroubleTyped DEF Refused, IInv
<1>7. Advances(server[t].state, m.state, Sends(t), Sends(t)')
  <2>1. Sends(t)' \subseteq Sends(t)  BY <1>4 DEF Sends
  <2> QED  BY <1>3, <2>1 DEF Advances
<1> QED  BY <1>1, <1>3, <1>4, <1>5, <1>6, <1>7, Answers

-------------------------------------------------------------------------------
(* The account and the process.                                            *)

LEMMA AccountInv == ASSUME IInv, SignOut \/ SignIn PROVE IInv'
<1>1. UNCHANGED <<tasks, job, drain, outside>> /\ account' \in {"in", "leaving", "out"}
  BY DEF SignOut, SignIn
<1>2. troubles' \in 0..MaxTroubles  BY TroubleTyped DEF SignOut, SignIn, IInv, TypeOK
<1>3. TypeOK'  BY <1>1, <1>2 DEF IInv, TypeOK, tasks, outside
<1> QED  BY <1>1, <1>3, NothingMoves DEF outside

LEMMA PauseInv == ASSUME IInv, Pause PROVE IInv'
<1>1. TypeOK  BY DEF IInv
<1>2. job' = [k \in Lanes |-> IF job[k] = NoJob THEN NoJob ELSE [job[k] EXCEPT !.aborted = TRUE]]
  BY DEF Pause
<1>3. ASSUME NEW k \in Lanes, job[k] # NoJob PROVE SameWork(k)
  <2>1. job[k] \in Jobs  BY <1>3, JobWas
  <2>2. job'[k] = [job[k] EXCEPT !.aborted = TRUE]  BY <1>2, <1>3
  <2> QED  BY <1>3, <2>1, <2>2 DEF SameWork, Jobs
<1>4. \A k \in Lanes : job[k] = NoJob => job'[k] = NoJob  BY <1>2
<1>5. job' \in [Lanes -> Jobs \cup {NoJob}]
  <2>1. \A k \in Lanes : job'[k] \in Jobs \cup {NoJob}  BY <1>3, <1>4 DEF SameWork
  <2> QED  BY <1>2, <2>1
<1>6. drain' \in Drains
  <2>1. Awoken \in Drains /\ drain \in Drains  BY <1>1, AwokenTyped DEF TypeOK
  <2> QED  BY <2>1 DEF Pause, Drains
<1>7. UNCHANGED <<tasks, outside, troubles>> /\ account' = "out"  BY DEF Pause
<1>8. TypeOK'  BY <1>1, <1>5, <1>6, <1>7 DEF TypeOK, tasks, outside
<1>9. \A t \in Tasks : Same(t)  BY <1>7, TasksKept DEF outside
<1> QED  BY <1>3, <1>4, <1>8, <1>9, JobsOnly

(* What a restart may undo is a task that was never sent.                  *)
LEMMA RestartInv == ASSUME IInv, Restart PROVE IInv'
<1>1. TypeOK  BY DEF IInv
<1>2. /\ job' = [k \in Lanes |-> NoJob] /\ drain' = NoDrain /\ unsaved' = {}
      /\ UNCHANGED <<account, outside>>
  BY DEF Restart
<1>3. troubles' \in 0..MaxTroubles  BY <1>1, TroubleTyped DEF Restart
<1>4. stored' \in {stored, [t \in Tasks |-> IF t \in unsaved THEN Absent ELSE stored[t]]}
  BY DEF Restart
<1>5. stored' \in [Tasks -> Records]  BY <1>1, <1>4, AbsentTyped DEF TypeOK
<1>6. NoDrain \in Drains  BY DEF NoDrain, Drains
<1>7. job' \in [Lanes -> Jobs \cup {NoJob}]  BY <1>2
<1>8. TypeOK'  BY <1>1, <1>2, <1>3, <1>5, <1>6, <1>7 DEF TypeOK, outside
<1>9. ASSUME NEW t \in Tasks PROVE TaskInv(t)'
  <2>1. Recorded(t, stored[t], server[t], Asked(t), Sends(t), unsaved)  BY DEF IInv, TaskInv
  <2>2. server'[t] = server[t] /\ Asked(t)' = Asked(t) /\ Sends(t)' = Sends(t)
    BY <1>2 DEF Asked, Sends, outside
  <2>3. stored'[t] = stored[t] \/ (t \in unsaved /\ stored'[t] = Absent)  BY <1>4
  <2>4. CASE stored'[t] = stored[t]
    <3>1. Recorded(t, stored'[t], server[t], Asked(t), Sends(t), unsaved')
      BY <1>2, <2>1, <2>4 DEF Recorded
    <3> QED  BY <2>2, <3>1 DEF TaskInv
  <2>5. CASE t \in unsaved /\ stored'[t] = Absent
    <3>1. stored[t].content = 0  BY <2>1, <2>5 DEF Recorded, Absent
    <3>2. True(Absent, server[t].state, Sends(t))  BY DEF True, Absent
    <3>3. Absent.content = 0  BY DEF Absent
    <3>4. Recorded(t, Absent, server[t], Asked(t), Sends(t), unsaved')
      BY <1>2, <2>1, <3>1, <3>2, <3>3 DEF Recorded
    <3> QED  BY <2>2, <2>5, <3>4 DEF TaskInv
  <2> QED  BY <2>3, <2>4, <2>5
<1> QED  BY <1>2, <1>8, <1>9 DEF IInv

LEMMA StutterInv == ASSUME IInv, UNCHANGED vars PROVE IInv'
<1>1. TypeOK'  BY DEF IInv, TypeOK, vars
<1>2. UNCHANGED <<tasks, sea, server, job>>  BY DEF vars, tasks
<1> QED  BY <1>1, <1>2, NothingMoves

-------------------------------------------------------------------------------
(* The invariant, and what it implies.                                     *)

LEMMA Inductive == IInv /\ [Next]_vars => IInv'
<1> SUFFICES ASSUME IInv, [Next]_vars PROVE IInv'  OBVIOUS
<1>1. ASSUME NEW t \in Tasks,
             Enqueue(t) \/ Enqueued(t) \/ EnqueueFails(t) \/ Retry(t) \/ Cancel(t) \/ Publish(t)
      PROVE  IInv'
  BY <1>1, EnqueueInv, EnqueuedInv, EnqueueFailsInv, RetryInv, CancelInv, PublishInv
<1>2. ASSUME NEW l \in Lanes, JobSteps(l) PROVE IInv'
  BY <1>2, SaveInv, SavedInv, SaveFailsInv, TimelineAnswersInv, UploadEndsInv, CallFailsInv
  DEF JobSteps
<1>3. ASSUME DrainSteps PROVE IInv'
  BY <1>3, DrainInv, StartRunInv DEF DrainSteps
<1>4. ASSUME NEW q \in sea, Deliver(q) \/ Refused(q) PROVE IInv'
  BY <1>4, DeliverInv, RefusedInv
<1>5. ASSUME SignOut \/ Pause \/ SignIn \/ Restart PROVE IInv'
  BY <1>5, AccountInv, PauseInv, RestartInv
<1>6. CASE UNCHANGED vars  BY <1>6, StutterInv
<1> QED  BY <1>1, <1>2, <1>3, <1>4, <1>5, <1>6 DEF Next

(* The inductive invariant of the send queue.                              *)
THEOREM QueueInvariant == Spec => []IInv
BY InitInv, Inductive, PTL DEF Spec

(* The queue's state stays within its types (team-send-queue.ts:25-90).    *)
THEOREM QueueTypes == Spec => []TypeOK
<1>1. IInv => TypeOK  BY DEF IInv
<1> QED  BY <1>1, QueueInvariant, PTL

(* A task the queue calls cancelled is not published, now or later: the    *)
(* server has withdrawn it, or never heard of it and never will            *)
(* (team-send-queue.ts:174-187).                                           *)
THEOREM QueueCancels == Spec => []CancelledStaysUnsent
<1>1. IInv => CancelledStaysUnsent
  <2> SUFFICES ASSUME IInv, NEW t \in Tasks, stored[t].state = "cancelled"
               PROVE  \/ server[t].state = "cancelled"
                      \/ server[t].state = "none" /\ \A q \in sea : q.task = t => q.kind # "send"
    BY DEF CancelledStaysUnsent
  <2>1. server[t].state = "cancelled" \/ (server[t].state = "none" /\ Sends(t) = {})
    BY DEF IInv, TaskInv, Recorded, True
  <2> QED  BY <2>1 DEF Sends
<1> QED  BY <1>1, QueueInvariant, PTL

(* A task the queue calls sent was published (team-send-queue.ts:315-332). *)
THEOREM QueueReportsTruth == Spec => []SentIsPublished
<1>1. IInv => SentIsPublished  BY DEF IInv, TaskInv, Recorded, True, SentIsPublished
<1> QED  BY <1>1, QueueInvariant, PTL

(* However often a message is sent, across failures and restarts, it is    *)
(* sent as on its first attempt (team-send-queue.ts:267-285).              *)
THEOREM QueueFreezes == Spec => []FrozenRequest
<1>1. IInv => FrozenRequest
  <2> SUFFICES ASSUME IInv, NEW q \in sea, q.kind = "send"
               PROVE  /\ \A p \in sea : p.kind = "send" /\ p.task = q.task => p.content = q.content
                      /\ server[q.task].content \in {0, q.content}
    BY DEF FrozenRequest
  <2>1. PICK t \in Tasks : q.task = t  BY RequestOf
  <2>2. Recorded(t, stored[t], server[t], Asked(t), Sends(t), unsaved)  BY DEF IInv, TaskInv
  <2>3. \A p \in sea : p.kind = "send" /\ p.task = t => p.content = stored[t].content
    BY <2>2 DEF Recorded, Sends
  <2> QED  BY <2>1, <2>2, <2>3 DEF Recorded
<1> QED  BY <1>1, QueueInvariant, PTL

-------------------------------------------------------------------------------
(* The intent to cancel.                                                   *)

(* An intent on disk is not of a task whose write could still be undone.   *)
LEMMA IntentWritten ==
  ASSUME IInv, NEW t \in Tasks, stored[t].intent PROVE t \notin unsaved /\ stored[t] # Absent
BY DEF IInv, TaskInv, Recorded, Absent

LEMMA IntentStays ==
  ASSUME IInv, NEW t \in Tasks, stored[t].intent, Next PROVE stored'[t].intent
<1>1. t \notin unsaved /\ stored[t] # Absent  BY IntentWritten
<1>2. stored \in [Tasks -> Records]  BY DEF IInv, TypeOK
<1>3. ASSUME NEW x \in Tasks, Enqueue(x) PROVE stored'[t].intent
  BY <1>1, <1>2, <1>3 DEF Enqueue
<1>4. ASSUME NEW x \in Tasks, EnqueueFails(x) PROVE stored'[t].intent
  BY <1>1, <1>2, <1>4 DEF EnqueueFails
<1>5. ASSUME NEW l \in Lanes, Save(l) PROVE stored'[t].intent
  <2>1. job[l] # NoJob /\ stored' = [stored EXCEPT ![job[l].task] = job[l].copy]
    BY <1>5 DEF Save
  <2>2. stored[job[l].task].intent => job[l].copy.intent  BY <2>1, JobWas DEF Doing
  <2> QED  BY <1>2, <2>1, <2>2
<1>6. ASSUME Restart PROVE stored'[t].intent  BY <1>1, <1>6 DEF Restart
<1>7. ASSUME UNCHANGED stored PROVE stored'[t].intent  BY <1>7
<1>8. \/ UNCHANGED stored
      \/ \E x \in Tasks : Enqueue(x) \/ EnqueueFails(x)
      \/ \E l \in Lanes : Save(l)
      \/ Restart
  <2>1. ASSUME NEW x \in Tasks, Enqueued(x) \/ Retry(x) \/ Cancel(x) \/ Publish(x)
        PROVE  UNCHANGED stored
    BY <2>1 DEF Enqueued, Retry, Cancel, Publish, tasks
  <2>2. ASSUME NEW l \in Lanes, JobSteps(l), ~Save(l) PROVE UNCHANGED stored
    BY <2>2 DEF JobSteps, Saved, SaveFails, TimelineAnswers, UploadEnds, CallFails, tasks
  <2>3. ASSUME DrainSteps PROVE UNCHANGED stored
    BY <2>3 DEF DrainSteps, StartDrain, StartRun, Look, EndDrain, tasks
  <2>4. ASSUME NEW q \in sea, Deliver(q) \/ Refused(q) PROVE UNCHANGED stored
    BY <2>4 DEF Deliver, Refused, tasks
  <2>5. ASSUME SignOut \/ Pause \/ SignIn PROVE UNCHANGED stored
    BY <2>5 DEF SignOut, Pause, SignIn, tasks
  <2> QED  BY <2>1, <2>2, <2>3, <2>4, <2>5 DEF Next
<1> QED  BY <1>3, <1>4, <1>5, <1>6, <1>7, <1>8

LEMMA IntentNotSent ==
  ASSUME IInv, NEW t \in Tasks, stored[t].intent, Next, NEW q \in sea' \ sea, q.task = t
  PROVE  q.kind # "send"
<1>1. ASSUME NEW x \in Tasks, StartRun(x) PROVE q.kind # "send"
  <2>1. sea' = sea \/ sea' = sea \cup {Withdrawal(x)}  BY <1>1 DEF StartRun
  <2> QED  BY <2>1 DEF Withdrawal
<1>2. ASSUME NEW l \in Lanes, Saved(l) PROVE q.kind # "send"
  <2>1. job[l] # NoJob /\ job[l].at = "saved"  BY <1>2 DEF Saved
  <2>2. /\ stored[job[l].task] = job[l].copy
        /\ job[l].step \in Sending => ~job[l].copy.intent
    BY <2>1, JobWas DEF Doing
  <2>3. CASE job[l].step = "sending" /\ Guarded(l)
    <3>1. sea' = sea \cup {[task |-> job[l].task, kind |-> "send", content |-> job[l].copy.content]}
      BY <1>2, <2>3 DEF Saved
    <3>2. q.task = job[l].task  BY <3>1
    <3> QED  BY <2>2, <2>3, <3>2 DEF Sending
  <2>4. CASE ~(job[l].step = "sending" /\ Guarded(l))
    <3>1. sea' = sea \/ sea' = sea \cup {Withdrawal(job[l].task)}  BY <1>2, <2>4 DEF Saved
    <3> QED  BY <3>1 DEF Withdrawal
  <2> QED  BY <2>3, <2>4
<1>3. \/ sea' \subseteq sea
      \/ \E x \in Tasks : StartRun(x)
      \/ \E l \in Lanes : Saved(l)
  <2>1. ASSUME NEW x \in Tasks,
               Enqueue(x) \/ Enqueued(x) \/ EnqueueFails(x) \/ Retry(x) \/ Cancel(x) \/ Publish(x)
        PROVE  sea' = sea
    BY <2>1 DEF Enqueue, Enqueued, EnqueueFails, Retry, Cancel, Publish, outside
  <2>2. ASSUME NEW l \in Lanes, JobSteps(l), ~Saved(l) PROVE sea' = sea
    BY <2>2 DEF JobSteps, Save, SaveFails, TimelineAnswers, UploadEnds, CallFails, outside
  <2>3. ASSUME DrainSteps, ~\E x \in Tasks : StartRun(x) PROVE sea' = sea
    BY <2>3 DEF DrainSteps, StartDrain, Look, EndDrain, outside
  <2>4. ASSUME NEW p \in sea, Deliver(p) \/ Refused(p) PROVE sea' \subseteq sea
    BY <2>4 DEF Deliver, Refused
  <2>5. ASSUME SignOut \/ Pause \/ SignIn \/ Restart PROVE sea' = sea
    BY <2>5 DEF SignOut, Pause, SignIn, Restart, outside
  <2> QED  BY <2>1, <2>2, <2>3, <2>4, <2>5 DEF Next
<1> QED  BY <1>1, <1>2, <1>3

(* Once the intent to cancel is on disk it is never lost, and the message  *)
(* is not sent any more (team-send-queue.ts:153-158).                      *)
THEOREM QueueKeepsIntent == Spec => IntentKept
<1> DEFINE Kept == \A t \in Tasks : stored[t].intent =>
                     /\ stored'[t].intent
                     /\ \A q \in sea' \ sea : q.task = t => q.kind # "send"
<1>1. IInv /\ [Next]_vars => [Kept]_vars
  <2> SUFFICES ASSUME IInv, Next PROVE Kept  OBVIOUS
  <2> QED  BY IntentStays, IntentNotSent
<1>2. Spec => [][Kept]_vars
  <2> HIDE DEF Kept
  <2> QED  BY <1>1, QueueInvariant, PTL DEF Spec
<1> QED  BY <1>2 DEF IntentKept

-------------------------------------------------------------------------------
(* The drain that waits.                                                   *)

(* Of what NoIdlePlace promises nothing depends on the account: a drain    *)
(* begins to wait while the account is there, and a pause wakes it.  One   *)
(* task at most is being written, so a write that ends leaves no other.    *)
Rested ==
  drain.at = "waiting" /\ Cardinality(Running) < Places =>
    \A t \in Tasks \ unsaved : ~Eligible(t, stored[t])
RestInv ==
  /\ \A x, y \in unsaved : x = y
  /\ Rested

(* Nothing became ready, and no run ended.                                 *)
LEMMA StillRested ==
  ASSUME RestInv, drain' = drain, Running' = Running,
         \A t \in Tasks \ unsaved' :
           t \notin unsaved /\ (Eligible(t, stored[t])' => Eligible(t, stored[t]))
  PROVE  Rested'
BY DEF RestInv, Rested

LEMMA NotWaiting == ASSUME drain'.at # "waiting" PROVE Rested'
BY DEF Rested

LEMMA AwokenGoes == ASSUME TypeOK PROVE Awoken.at # "waiting"
BY DEF TypeOK, Awoken, Drains

(* Lanes stay held by what held them, and the tasks stay as they are.      *)
LEMMA LanesHeld ==
  ASSUME RestInv, UNCHANGED <<tasks, drain>>,
         \A k \in Lanes : /\ job'[k] = NoJob <=> job[k] = NoJob
                          /\ job'[k].who = "run" <=> job[k].who = "run"
  PROVE  RestInv'
<1>1. Running' = Running  BY DEF Running
<1>2. UNCHANGED <<stored, unsaved>>  BY DEF tasks
<1>3. \A t \in Tasks : Eligible(t, stored[t])' => Eligible(t, stored[t])
  BY <1>2, LaneTypes DEF Eligible
<1>4. Rested'  BY <1>1, <1>2, <1>3, StillRested
<1> QED  BY <1>2, <1>4 DEF RestInv

(* A job goes on, or ends and wakes the drain.                             *)
LEMMA GoesOnRests ==
  ASSUME IInv, RestInv, UNCHANGED tasks, NEW l \in Lanes, job[l] # NoJob,
         Ends(l) \/ (\E a, p, c : Goes(l, a, p, c))
  PROVE  RestInv'
<1>1. TypeOK  BY DEF IInv
<1>2. CASE Ends(l)
  <2>1. drain'.at # "waiting"  BY <1>1, <1>2, AwokenGoes DEF Ends
  <2> QED  BY <2>1, NotWaiting DEF RestInv, tasks
<1>3. ASSUME NEW a, NEW p, NEW c, Goes(l, a, p, c) PROVE RestInv'
  <2>1. job[l] \in Jobs  BY <1>1, Kinds
  <2> DEFINE n == [[[job[l] EXCEPT !.at = a] EXCEPT !.step = p] EXCEPT !.copy = c]
  <2>2. n.who = job[l].who /\ job[l].who # "none"  BY <2>1 DEF Jobs
  <2>3. n # NoJob  BY <2>2 DEF NoJob
  <2>4. job' = [job EXCEPT ![l] = n] /\ drain' = drain  BY <1>1, <1>3 DEF Goes, TypeOK
  <2> HIDE DEF n
  <2>5. job'[l] = n /\ \A k \in Lanes : k # l => job'[k] = job[k]
    BY <1>1, <2>4 DEF TypeOK
  <2>6. \A k \in Lanes : /\ job'[k] = NoJob <=> job[k] = NoJob
                         /\ job'[k].who = "run" <=> job[k].who = "run"
    BY <2>2, <2>3, <2>5
  <2> QED  BY <2>4, <2>6, LanesHeld
<1> QED  BY <1>2, <1>3

LEMMA CatchRests ==
  ASSUME IInv, RestInv, UNCHANGED tasks, NEW l \in Lanes, job[l] # NoJob, NEW x \in BOOLEAN, Caught(l, x)
  PROVE  RestInv'
BY CatchEnds, GoesOnRests

LEMMA JobRests == ASSUME IInv, RestInv, NEW l \in Lanes, JobSteps(l) PROVE RestInv'
<1>1. CASE Save(l)
  <2> DEFINE t == job[l].task
  <2>1. job[l] # NoJob /\ unsaved = {} /\ UNCHANGED <<unsaved, drain>>
    BY <1>1 DEF Save
  <2>2. /\ job[l] \in Jobs /\ LaneOf[t] = l
        /\ stored' = [stored EXCEPT ![t] = job[l].copy]
        /\ job' = [job EXCEPT ![l] = [job[l] EXCEPT !.at = "saved"]]
    BY <1>1, <2>1, JobWas DEF Save, IInv, TypeOK
  <2>3. job'[l].who = job[l].who /\ job'[l] # NoJob
    <3>1. job'[l] = [job[l] EXCEPT !.at = "saved"]  BY <2>2 DEF IInv, TypeOK
    <3>2. job'[l].who = job[l].who /\ job[l].who # "none"  BY <2>2, <3>1 DEF Jobs
    <3> QED  BY <3>2 DEF NoJob
  <2>4. \A k \in Lanes : k # l => job'[k] = job[k]  BY <2>2 DEF IInv, TypeOK
  <2>5. Running' = Running  BY <2>3, <2>4 DEF Running
  <2>6. ASSUME NEW u \in Tasks, Eligible(u, stored[u])' PROVE Eligible(u, stored[u])
    <3>1. u # t  BY <2>2, <2>3, <2>6 DEF Eligible
    <3>2. stored'[u] = stored[u]  BY <2>2, <3>1 DEF IInv, TypeOK
    <3>3. job'[LaneOf[u]] = NoJob => job[LaneOf[u]] = NoJob  BY <2>3, <2>4, LaneTypes
    <3> QED  BY <2>1, <2>6, <3>2, <3>3 DEF Eligible
  <2>7. Rested'  BY <2>1, <2>5, <2>6, StillRested
  <2> QED  BY <2>1, <2>7 DEF RestInv
<1>2. CASE Saved(l)
  <2>1. job[l] # NoJob /\ UNCHANGED tasks  BY <1>2 DEF Saved
  <2>2. Ends(l) \/ (\E a, p, c : Goes(l, a, p, c))
    <3>1. CASE job[l].step = "uploading"  BY <1>2, <3>1 DEF Saved
    <3>2. CASE job[l].step = "sending" /\ Guarded(l)  BY <1>2, <3>2 DEF Saved
    <3>3. CASE job[l].step = "intent" /\ Guarded(l) /\ Local(job[l].copy)
      BY <1>2, <3>3 DEF Saved
    <3>4. CASE job[l].step = "intent" /\ Guarded(l) /\ ~Local(job[l].copy)
      BY <1>2, <3>4 DEF Saved
    <3>5. CASE /\ job[l].step # "uploading"
               /\ ~(job[l].step = "sending" /\ Guarded(l))
               /\ ~(job[l].step = "intent" /\ Guarded(l))
      BY <1>2, <3>5 DEF Saved
    <3> QED  BY <3>1, <3>2, <3>3, <3>4, <3>5
  <2> QED  BY <2>1, <2>2, GoesOnRests
<1>3. CASE SaveFails(l)
  <2>1. /\ job[l] # NoJob /\ UNCHANGED tasks
        /\ Caught(l, FALSE) \/ Ends(l)
    BY <1>3 DEF SaveFails
  <2> QED  BY <2>1, GoesOnRests, CatchRests
<1>4. CASE TimelineAnswers(l)
  BY <1>4, GoesOnRests DEF TimelineAnswers, In
<1>5. CASE UploadEnds(l)
  <2>1. /\ job[l] # NoJob /\ UNCHANGED tasks
        /\ Ends(l) \/ \E a, p, c : Goes(l, a, p, c)
    BY <1>5 DEF UploadEnds, In
  <2> QED  BY <2>1, GoesOnRests
<1>6. CASE CallFails(l)
  <2>1. job[l] # NoJob /\ UNCHANGED tasks /\ \E x \in BOOLEAN : Caught(l, x)
    BY <1>6 DEF CallFails
  <2> QED  BY <2>1, CatchRests
<1> QED  BY <1>1, <1>2, <1>3, <1>4, <1>5, <1>6 DEF JobSteps

(* The interface only takes tasks away from the drain, or wakes it.        *)
LEMMA InterfaceRests ==
  ASSUME IInv, RestInv, NEW t \in Tasks,
         Enqueue(t) \/ Enqueued(t) \/ EnqueueFails(t) \/ Retry(t) \/ Cancel(t) \/ Publish(t)
  PROVE  RestInv'
<1>1. CASE Enqueue(t)
  <2>1. /\ unsaved = {} /\ unsaved' = {t} /\ UNCHANGED <<job, drain>>
        /\ \A x \in Tasks : x # t => stored'[x] = stored[x]
    BY <1>1 DEF Enqueue, IInv, TypeOK
  <2>2. Running' = Running  BY <2>1 DEF Running
  <2>3. \A x \in Tasks \ unsaved' : Eligible(x, stored[x])' => Eligible(x, stored[x])
    BY <2>1 DEF Eligible
  <2>4. Rested'  BY <2>1, <2>2, <2>3, StillRested
  <2> QED  BY <2>1, <2>4 DEF RestInv
<1>2. CASE Enqueued(t)
  <2>1. unsaved' = {} /\ drain'.at # "waiting"  BY <1>2, AwokenGoes DEF Enqueued, IInv
  <2> QED  BY <2>1, NotWaiting DEF RestInv
<1>3. CASE EnqueueFails(t)
  <2>1. /\ unsaved = {t} /\ unsaved' = {} /\ UNCHANGED <<job, drain>>
        /\ stored'[t] = Absent
        /\ \A x \in Tasks : x # t => stored'[x] = stored[x]
    BY <1>3 DEF EnqueueFails, IInv, TypeOK, RestInv
  <2>2. ~Eligible(t, stored[t])'  BY <2>1 DEF Eligible, Absent, Live
  <2>3. \A x \in Tasks \ {t} : Eligible(x, stored[x])' => Eligible(x, stored[x])
    BY <2>1 DEF Eligible
  <2>4. Running' = Running  BY <2>1 DEF Running
  <2>5. Rested'  BY <2>1, <2>2, <2>3, <2>4 DEF RestInv, Rested
  <2> QED  BY <2>1, <2>5 DEF RestInv
<1>4. CASE Retry(t) \/ Cancel(t)
  <2> DEFINE l == LaneOf[t]
  <2>1. /\ l \in Lanes /\ job[l] = NoJob /\ UNCHANGED <<stored, unsaved, drain>>
        /\ \E w \in {"retry", "cancel"} : \E s, c : Claim(l, w, t, "save", s, c)
    BY <1>4, LaneTypes DEF Retry, Cancel, tasks
  <2>2. /\ job'[l] # NoJob /\ job'[l].who # "run" /\ job[l].who # "run"
        /\ \A k \in Lanes : k # l => job'[k] = job[k]
    BY <2>1 DEF Claim, NoJob, IInv, TypeOK
  <2>3. Running' = Running  BY <2>2 DEF Running
  <2>4. \A x \in Tasks : Eligible(x, stored[x])' => Eligible(x, stored[x])
    BY <2>1, <2>2, LaneTypes DEF Eligible
  <2>5. Rested'  BY <2>1, <2>3, <2>4, StillRested
  <2> QED  BY <2>1, <2>5 DEF RestInv
<1>5. CASE Publish(t)
  BY <1>5, LanesHeld DEF Publish
<1> QED  BY <1>1, <1>2, <1>3, <1>4, <1>5

(* It waits only when its look has found nothing to start.                 *)
LEMMA DrainRests == ASSUME IInv, RestInv, DrainSteps PROVE RestInv'
<1>1. UNCHANGED tasks
  BY DEF DrainSteps, StartDrain, StartRun, Look, EndDrain
<1>2. drain \in Drains  BY DEF IInv, TypeOK
<1>3. CASE StartDrain \/ EndDrain
  <2>1. drain'.at # "waiting"  BY <1>3 DEF StartDrain, EndDrain, NoDrain
  <2> QED  BY <1>1, <2>1, NotWaiting DEF RestInv, tasks
<1>4. ASSUME NEW t \in Tasks, StartRun(t) PROVE RestInv'
  <2>1. drain'.at = "looking"  BY <1>2, <1>4 DEF StartRun, Drains
  <2> QED  BY <1>1, <2>1, NotWaiting DEF RestInv, tasks
<1>5. CASE Look
  <2>1. UNCHANGED <<tasks, job>>  BY <1>5 DEF Look
  <2>2. ASSUME drain'.at = "waiting", Cardinality(Running) < Places, NEW t \in Tasks
        PROVE  ~Eligible(t, stored[t])'
    <3>1. ~CanStart(t) /\ drain'.attempted = drain.attempted
      BY <1>2, <1>5, <2>2 DEF Look, Drains
    <3> QED  BY <2>1, <2>2, <3>1 DEF CanStart, Eligible, tasks
  <2>3. Running' = Running  BY <2>1 DEF Running
  <2>4. Rested'  BY <2>2, <2>3 DEF Rested
  <2> QED  BY <1>1, <2>4 DEF RestInv, tasks
<1> QED  BY <1>3, <1>4, <1>5 DEF DrainSteps

LEMMA AnswerRests == ASSUME IInv, RestInv, NEW q \in sea, Deliver(q) \/ Refused(q) PROVE RestInv'
<1> DEFINE l == LaneOf[q.task]
<1>1. l \in Lanes /\ UNCHANGED tasks  BY RequestOf, LaneTypes DEF Deliver, Refused
<1>2. UNCHANGED <<job, drain>> \/ (Awaits(l, q) /\ \E reply : Answered(l, reply))
  BY DEF Deliver, Refused
<1>3. CASE UNCHANGED <<job, drain>>  BY <1>1, <1>3, LanesHeld
<1>4. ASSUME Awaits(l, q), NEW reply, Answered(l, reply) PROVE RestInv'
  <2>1. job[l] # NoJob  BY <1>4 DEF Awaits
  <2>2. Ends(l) \/ (\E a, p, c : Goes(l, a, p, c))  BY <1>4 DEF Answered
  <2> QED  BY <1>1, <2>1, <2>2, GoesOnRests
<1> QED  BY <1>2, <1>3, <1>4

LEMMA AccountRests ==
  ASSUME IInv, RestInv, SignOut \/ Pause \/ SignIn \/ Restart PROVE RestInv'
<1>1. CASE SignOut \/ SignIn  BY <1>1, LanesHeld DEF SignOut, SignIn
<1>2. CASE Pause
  <2>1. drain'.at # "waiting" /\ UNCHANGED tasks
    <3>1. Awoken \in Drains /\ Awoken.at # "waiting"
      BY AwokenTyped, AwokenGoes DEF IInv
    <3>2. [Awoken EXCEPT !.stale = TRUE].at # "waiting"  BY <3>1 DEF Drains
    <3> QED  BY <1>2, <3>2 DEF Pause
  <2> QED  BY <2>1, NotWaiting DEF RestInv, tasks
<1>3. CASE Restart
  <2>1. drain'.at # "waiting" /\ unsaved' = {}  BY <1>3 DEF Restart, NoDrain
  <2> QED  BY <2>1, NotWaiting DEF RestInv
<1> QED  BY <1>1, <1>2, <1>3

LEMMA RestInductive == ASSUME IInv, RestInv, [Next]_vars PROVE RestInv'
<1>1. CASE UNCHANGED vars  BY <1>1, LanesHeld DEF vars, tasks
<1>2. CASE Next
  BY <1>2, InterfaceRests, JobRests, DrainRests, AnswerRests, AccountRests DEF Next
<1> QED  BY <1>1, <1>2

(* A drain that waits has nothing it could start: whatever became ready    *)
(* since it looked has woken it (team-send-queue.ts:55-60, 236).           *)
THEOREM QueueNeverIdles == Spec => []NoIdlePlace
<1>1. Init => RestInv
  <2>1. Init => unsaved = {} /\ drain.at # "waiting"  BY DEF Init, NoDrain
  <2> QED  BY <2>1 DEF RestInv, Rested
<1>2. IInv /\ RestInv /\ [Next]_vars => RestInv'  BY RestInductive
<1>3. RestInv => NoIdlePlace  BY DEF RestInv, Rested, NoIdlePlace
<1> QED  BY <1>1, <1>2, <1>3, QueueInvariant, PTL DEF Spec
-------------------------------------------------------------------------------
(* One fate for a message.                                                 *)

(* Nothing is withdrawn, or called cancelled, without the intent on disk.  *)
MeantJob(j) ==
  j # NoJob => (j.step = "intent" \/ j.copy.state = "cancelled" => j.copy.intent)
MeantTask(t) == server[t].state = "cancelled" \/ stored[t].state = "cancelled" => stored[t].intent
Meant ==
  /\ \A q \in sea : q.kind = "cancel" => stored[q.task].intent
  /\ \A t \in Tasks : MeantTask(t)
  /\ \A l \in Lanes : MeantJob(job[l])

(* What a job becomes.                                                     *)
LEMMA MeantMove ==
  ASSUME TypeOK, Meant, NEW l \in Lanes, job[l] # NoJob, NEW a, NEW p, NEW c, Goes(l, a, p, c),
         p = "intent" \/ c.state = "cancelled" => c.intent
  PROVE  \A k \in Lanes : MeantJob(job'[k])
<1>1. job[l] \in Jobs  BY Kinds
<1> DEFINE n == [[[job[l] EXCEPT !.at = a] EXCEPT !.step = p] EXCEPT !.copy = c]
<1>2. n.step = p /\ n.copy = c  BY <1>1 DEF Jobs
<1>3. job' = [job EXCEPT ![l] = n]  BY <1>1 DEF Goes, TypeOK
<1> HIDE DEF n
<1>4. job'[l] = n /\ \A k \in Lanes : k # l => job'[k] = job[k]  BY <1>3 DEF TypeOK
<1>5. MeantJob(n)  BY <1>2 DEF MeantJob
<1> QED  BY <1>4, <1>5 DEF Meant

LEMMA MeantEnd ==
  ASSUME TypeOK, Meant, NEW l \in Lanes, Ends(l) PROVE \A k \in Lanes : MeantJob(job'[k])
<1>1. job'[l] = NoJob /\ \A k \in Lanes : k # l => job'[k] = job[k]
  BY DEF Ends, TypeOK
<1> QED  BY <1>1 DEF Meant, MeantJob

LEMMA MeantCatch ==
  ASSUME TypeOK, Meant, NEW l \in Lanes, job[l] # NoJob, NEW x \in BOOLEAN, Caught(l, x)
  PROVE  \A k \in Lanes : MeantJob(job'[k])
<1>1. job[l].copy \in Records  BY Kinds DEF Jobs
<1>2. FailedTask(job[l].copy, x).state # "cancelled"  BY <1>1 DEF FailedTask, Records
<1> QED  BY <1>2, CatchEnds, MeantEnd, MeantMove

LEMMA MeantClaim ==
  ASSUME TypeOK, Meant, NEW l \in Lanes, NEW w, NEW t, NEW a, NEW p, NEW c, Claim(l, w, t, a, p, c),
         p = "intent" \/ c.state = "cancelled" => c.intent
  PROVE  \A k \in Lanes : MeantJob(job'[k])
<1> DEFINE n == [who |-> w, task |-> t, at |-> a, step |-> p, copy |-> c, aborted |-> FALSE]
<1>1. n.step = p /\ n.copy = c  OBVIOUS
<1>2. job' = [job EXCEPT ![l] = n]  BY DEF Claim
<1> HIDE DEF n
<1>3. job'[l] = n /\ \A k \in Lanes : k # l => job'[k] = job[k]  BY <1>2 DEF TypeOK
<1>4. MeantJob(n)  BY <1>1 DEF MeantJob
<1> QED  BY <1>3, <1>4 DEF Meant

-------------------------------------------------------------------------------
(* Steps that change neither the tasks nor the server mean what was meant, *)
(* if the requests and the jobs that are new do.                           *)
LEMMA MeantSame ==
  ASSUME Meant, UNCHANGED <<stored, server>>,
         \A q \in sea' \ sea : q.kind = "cancel" => stored[q.task].intent,
         \A k \in Lanes : MeantJob(job'[k])
  PROVE  Meant'
BY DEF Meant, MeantTask

LEMMA SavedMeant == ASSUME IInv, Meant, NEW l \in Lanes, Saved(l) PROVE Meant'
<1> DEFINE j == job[l]
<1>1. /\ j # NoJob /\ j.at = "saved" /\ TypeOK
      /\ UNCHANGED <<stored, server>>
  BY DEF Saved, IInv, tasks
<1>2. /\ stored[j.task] = j.copy /\ j.copy \in Records /\ MeantJob(j)
  BY <1>1, JobWas DEF Doing, Meant
<1>3. CASE j.step = "uploading"
  <2>1. Goes(l, "call", "upload", j.copy) /\ sea' = sea  BY <1>3 DEF Saved
  <2> QED  BY <1>1, <1>2, <2>1, MeantMove, MeantSame DEF MeantJob
<1>4. CASE j.step = "sending" /\ Guarded(l)
  <2>1. /\ Goes(l, "call", "send", j.copy)
        /\ sea' = sea \cup {[task |-> j.task, kind |-> "send", content |-> j.copy.content]}
    BY <1>4 DEF Saved
  <2> QED  BY <1>1, <1>2, <2>1, MeantMove, MeantSame DEF MeantJob
<1>5. CASE j.step = "intent" /\ Guarded(l) /\ Local(j.copy)
  <2>1. Goes(l, "save", "result", [j.copy EXCEPT !.state = "cancelled"]) /\ sea' = sea
    BY <1>5 DEF Saved
  <2>2. [j.copy EXCEPT !.state = "cancelled"].intent = j.copy.intent  BY <1>2 DEF Records
  <2> QED  BY <1>1, <1>2, <1>5, <2>1, <2>2, MeantMove, MeantSame DEF MeantJob
<1>6. CASE j.step = "intent" /\ Guarded(l) /\ ~Local(j.copy)
  <2>1. Goes(l, "call", "withdraw", j.copy) /\ sea' = sea \cup {Withdrawal(j.task)}
    BY <1>6 DEF Saved
  <2>2. \A k \in Lanes : MeantJob(job'[k])  BY <1>1, <1>2, <2>1, MeantMove DEF MeantJob
  <2>3. \A q \in sea' \ sea : q.task = j.task  BY <2>1 DEF Withdrawal
  <2>4. stored[j.task].intent  BY <1>1, <1>2, <1>6 DEF MeantJob
  <2> QED  BY <1>1, <2>2, <2>3, <2>4, MeantSame
<1>7. CASE /\ j.step # "uploading"
           /\ ~(j.step = "sending" /\ Guarded(l))
           /\ ~(j.step = "intent" /\ Guarded(l))
  <2>1. Ends(l) /\ sea' = sea  BY <1>7 DEF Saved
  <2> QED  BY <1>1, <2>1, MeantEnd, MeantSame
<1> QED  BY <1>3, <1>4, <1>5, <1>6, <1>7

LEMMA SaveMeant == ASSUME IInv, Meant, NEW l \in Lanes, Save(l) PROVE Meant'
<1> DEFINE t == job[l].task
           c == job[l].copy
           n == [job[l] EXCEPT !.at = "saved"]
<1>1. /\ job[l] \in Jobs /\ t \in Tasks /\ (stored[t].intent => c.intent)
      /\ job[l] # NoJob /\ UNCHANGED <<sea, server>>
      /\ stored' = [stored EXCEPT ![t] = c] /\ job' = [job EXCEPT ![l] = n]
  BY JobWas DEF Save, Doing, outside
<1>2. n.step = job[l].step /\ n.copy = c  BY <1>1 DEF Jobs
<1> HIDE DEF n
<1>3. job'[l] = n /\ \A k \in Lanes : k # l => job'[k] = job[k]  BY <1>1 DEF IInv, TypeOK
<1>4. \A k \in Lanes : MeantJob(job'[k])  BY <1>1, <1>2, <1>3 DEF Meant, MeantJob
<1>5. stored'[t] = c /\ \A x \in Tasks : x # t => stored'[x] = stored[x]
  BY <1>1 DEF IInv, TypeOK
<1>6. \A x \in Tasks : stored[x].intent => stored'[x].intent  BY <1>1, <1>5
<1>7. c.state = "cancelled" => c.intent  BY <1>1 DEF Meant, MeantJob
<1>8. \A x \in Tasks : MeantTask(x)'  BY <1>1, <1>5, <1>6, <1>7 DEF Meant, MeantTask
<1>9. \A q \in sea' : q.kind = "cancel" => stored'[q.task].intent
  BY <1>1, <1>6, RequestOf DEF Meant
<1> QED  BY <1>4, <1>8, <1>9 DEF Meant

LEMMA JobMeant == ASSUME IInv, Meant, NEW l \in Lanes, JobSteps(l) PROVE Meant'
<1>1. TypeOK /\ (job[l] # NoJob => job[l].copy \in Records)
  BY JobWas DEF IInv
<1>2. CASE SaveFails(l)
  <2>1. job[l] # NoJob /\ UNCHANGED <<stored, server, sea>> /\ (Caught(l, FALSE) \/ Ends(l))
    BY <1>2 DEF SaveFails, tasks, outside
  <2> QED  BY <1>1, <2>1, MeantCatch, MeantEnd, MeantSame
<1>3. CASE CallFails(l)
  <2>1. job[l] # NoJob /\ UNCHANGED <<stored, server, sea>> /\ \E x \in BOOLEAN : Caught(l, x)
    BY <1>3 DEF CallFails, tasks, outside
  <2> QED  BY <1>1, <2>1, MeantCatch, MeantSame
<1>4. CASE TimelineAnswers(l)
  <2>1. PICK p \in {"uploading", "sending"} :
          /\ job[l] # NoJob /\ UNCHANGED <<stored, server, sea>>
          /\ Goes(l, "save", p, [job[l].copy EXCEPT !.state = p])
    BY <1>4 DEF TimelineAnswers, In, tasks, outside
  <2>2. [job[l].copy EXCEPT !.state = p].state = p  BY <1>1, <2>1 DEF Records
  <2> QED  BY <1>1, <2>1, <2>2, MeantMove, MeantSame
<1>5. CASE UploadEnds(l)
  <2> DEFINE c == [job[l].copy EXCEPT !.state = "sending", !.content = uploads[job[l].task] + 1]
  <2>1. /\ job[l] # NoJob /\ UNCHANGED <<stored, server, sea>>
        /\ Ends(l) \/ Goes(l, "save", "sending", c)
    BY <1>5 DEF UploadEnds, In, tasks
  <2>2. c.state = "sending"  BY <1>1, <2>1 DEF Records
  <2> HIDE DEF c
  <2> QED  BY <1>1, <2>1, <2>2, MeantMove, MeantEnd, MeantSame
<1> QED  BY <1>2, <1>3, <1>4, <1>5, SaveMeant, SavedMeant DEF JobSteps

LEMMA InterfaceMeant ==
  ASSUME IInv, Meant, NEW t \in Tasks, Enqueue(t) \/ Enqueued(t) \/ Retry(t) \/ Cancel(t)
  PROVE  Meant'
<1>1. TypeOK /\ stored[t] \in Records /\ LaneOf[t] \in Lanes  BY LaneTypes DEF IInv, TypeOK
<1>2. CASE Enqueue(t)
  <2>1. /\ \A x \in Tasks : /\ stored'[x].intent = stored[x].intent
                            /\ stored'[x].state = "cancelled" => stored[x].state = "cancelled"
        /\ UNCHANGED <<server, sea, job>>
    BY <1>1, <1>2 DEF Enqueue, TypeOK, Records, outside
  <2>2. \A q \in sea' : q.kind = "cancel" => stored'[q.task].intent  BY <2>1, RequestOf DEF Meant
  <2> QED  BY <2>1, <2>2 DEF Meant, MeantTask
<1>3. CASE Enqueued(t)  BY <1>3, MeantSame DEF Enqueued, outside, Meant
<1>4. CASE Retry(t)
  <2> DEFINE c == [stored[t] EXCEPT !.state = IF stored[t].intent THEN "cancelling" ELSE "queued"]
  <2>1. Claim(LaneOf[t], "retry", t, "save", "retry", c) /\ UNCHANGED <<stored, server, sea>>
    BY <1>4 DEF Retry, tasks, outside
  <2>2. c.state # "cancelled"  BY <1>1 DEF Records
  <2> HIDE DEF c
  <2> QED  BY <1>1, <2>1, <2>2, MeantClaim, MeantSame
<1>5. CASE Cancel(t)
  <2> DEFINE c == [stored[t] EXCEPT !.intent = TRUE, !.state = "cancelling"]
  <2>1. Claim(LaneOf[t], "cancel", t, "save", "intent", c) /\ UNCHANGED <<stored, server, sea>>
    BY <1>5 DEF Cancel, tasks, outside
  <2>2. c.intent = TRUE  BY <1>1 DEF Records
  <2> HIDE DEF c
  <2> QED  BY <1>1, <2>1, <2>2, MeantClaim, MeantSame
<1> QED  BY <1>2, <1>3, <1>4, <1>5

LEMMA StartRunMeant == ASSUME IInv, Meant, NEW t \in Tasks, StartRun(t) PROVE Meant'
<1> DEFINE r == stored[t]
           l == LaneOf[t]
<1>1. /\ TypeOK /\ r \in Records /\ l \in Lanes /\ UNCHANGED <<stored, server>>
      /\ r.state = "cancelled" => r.intent
  BY LaneTypes DEF IInv, TypeOK, StartRun, tasks, Meant, MeantTask
<1>2. CASE r.intent /\ Local(r)
  <2>1. Claim(l, "run", t, "save", "result", [r EXCEPT !.state = "cancelled"]) /\ sea' = sea
    BY <1>2 DEF StartRun
  <2>2. [r EXCEPT !.state = "cancelled"].intent = r.intent  BY <1>1 DEF Records
  <2> QED  BY <1>1, <1>2, <2>1, <2>2, MeantClaim, MeantSame
<1>3. CASE r.intent /\ ~Local(r)
  <2>1. Claim(l, "run", t, "call", "withdraw", r) /\ sea' = sea \cup {Withdrawal(t)}
    BY <1>3 DEF StartRun
  <2>2. \A q \in sea' \ sea : q.task = t  BY <2>1 DEF Withdrawal
  <2> QED  BY <1>1, <1>3, <2>1, <2>2, MeantClaim, MeantSame
<1>4. CASE ~r.intent
  <2>1. Claim(l, "run", t, "call", "timeline", r) /\ sea' = sea  BY <1>4 DEF StartRun
  <2> QED  BY <1>1, <2>1, MeantClaim, MeantSame
<1> QED  BY <1>2, <1>3, <1>4

LEMMA DrainMeant == ASSUME IInv, Meant, DrainSteps PROVE Meant'
<1>1. CASE StartDrain \/ Look \/ EndDrain
  BY <1>1, MeantSame DEF StartDrain, Look, EndDrain, tasks, outside, Meant
<1> QED  BY <1>1, StartRunMeant DEF DrainSteps

(* What the server has of a message after a request.                       *)
LEMMA TakenAs ==
  ASSUME IInv, NEW q \in sea, NEW m \in Taken(q, server[q.task])
  PROVE  \/ m = server[q.task] /\ m.state # "none"
         \/ /\ q.kind = "send" /\ server[q.task].state = "none"
            /\ m \in {[state |-> x, content |-> stored[q.task].content] :
                        x \in {"preparing", "published"}}
         \/ /\ q.kind = "cancel" /\ server[q.task].state # "published"
            /\ m = [server[q.task] EXCEPT !.state = "cancelled"]
<1>1. q.task \in Tasks /\ q.kind \in {"send", "cancel"} /\ (q.kind = "send" => q \in Sends(q.task))
  BY RequestOf
<1>2. q.kind = "send" => q.content = stored[q.task].content
  BY <1>1 DEF IInv, TaskInv, Recorded
<1> QED  BY <1>1, <1>2 DEF Taken

(* A job hears "cancelled" only of a message with an intent.               *)
LEMMA AnsweredMeant ==
  ASSUME IInv, Meant, NEW q \in sea, Awaits(LaneOf[q.task], q), NEW reply,
         Answered(LaneOf[q.task], reply), reply \in Replies \cup {"rejected"},
         reply = "cancelled" => stored[q.task].intent
  PROVE  \A k \in Lanes : MeantJob(job'[k])
<1> DEFINE l == LaneOf[q.task]
           r == job[l].copy
<1>1. l \in Lanes /\ TypeOK  BY RequestOf, LaneTypes DEF IInv
<1>2. job[l] # NoJob /\ job[l].task = q.task  BY DEF Awaits
<1>3. r \in Records /\ (stored[q.task].intent => r.intent)  BY <1>1, <1>2, JobWas DEF Doing
<1>4. Outcome(r, reply).state = "cancelled" => Outcome(r, reply).intent
  <2>1. CASE reply = "published"
    BY <1>3, <2>1 DEF Outcome, Records
  <2>2. CASE reply = "cancelled"
    BY <1>3, <2>2 DEF Outcome, Records
  <2>3. CASE reply = "preparing"
    BY <1>3, <2>3 DEF Outcome, Records
  <2>4. CASE reply = "rejected"
    BY <1>3, <2>4 DEF Outcome, Records
  <2> QED  BY <2>1, <2>2, <2>3, <2>4 DEF Replies
<1>5. Ends(l) \/ Goes(l, "save", "result", Outcome(r, reply))  BY Zenon DEF Answered
<1> QED  BY <1>1, <1>2, <1>4, <1>5, MeantMove, MeantEnd

LEMMA DeliverMeant == ASSUME IInv, Meant, NEW q \in sea, Deliver(q) PROVE Meant'
<1> DEFINE t == q.task
           l == LaneOf[t]
<1>1. t \in Tasks /\ q.kind \in {"send", "cancel"}  BY RequestOf
<1>2. PICK m \in Taken(q, server[t]) :
        /\ server' = [server EXCEPT ![t] = m]
        /\ (Awaits(l, q) /\ Answered(l, m.state)) \/ job' = job
  BY DEF Deliver
<1>3. /\ server'[t] = m /\ \A x \in Tasks : x # t => server'[x] = server[x]
      /\ server[t] \in [state : Replies \cup {"none"}, content : 0..MaxUploads]
  BY <1>1, <1>2 DEF IInv, TypeOK
<1>4. m.state = "cancelled" => stored[t].intent
  BY <1>1, <1>3, TakenAs DEF Meant, MeantTask
<1>5. UNCHANGED stored /\ sea' \subseteq sea  BY DEF Deliver, tasks
<1>6. \A k \in Lanes : MeantJob(job'[k])
  <2>1. CASE job' = job  BY <2>1 DEF Meant
  <2>2. CASE Awaits(l, q) /\ Answered(l, m.state)
    <3>1. m.state \in Replies  BY <1>3, TakenAs DEF Replies
    <3> QED  BY <1>4, <2>2, <3>1, AnsweredMeant
  <2> QED  BY <1>2, <2>1, <2>2
<1>7. \A x \in Tasks : MeantTask(x)'  BY <1>3, <1>4, <1>5 DEF Meant, MeantTask
<1> QED  BY <1>5, <1>6, <1>7 DEF Meant

LEMMA RefusedMeant == ASSUME IInv, Meant, NEW q \in sea, Refused(q) PROVE Meant'
<1>1. /\ UNCHANGED <<stored, server>> /\ sea' \subseteq sea
      /\ Awaits(LaneOf[q.task], q) /\ Answered(LaneOf[q.task], "rejected")
  BY DEF Refused, tasks
<1>2. \A k \in Lanes : MeantJob(job'[k])
  BY <1>1, AnsweredMeant
<1> QED  BY <1>1, <1>2, MeantSame

LEMMA OutsideMeant ==
  ASSUME IInv, Meant, SignOut \/ SignIn \/ Pause \/ \E t \in Tasks : Publish(t) PROVE Meant'
<1>1. CASE SignOut \/ SignIn  BY <1>1, MeantSame DEF SignOut, SignIn, tasks, outside, Meant
<1>2. CASE Pause
  <2>1. ASSUME NEW k \in Lanes PROVE MeantJob(job'[k])
    <3>1. job'[k] = IF job[k] = NoJob THEN NoJob ELSE [job[k] EXCEPT !.aborted = TRUE]
      BY <1>2 DEF Pause
    <3>2. CASE job[k] = NoJob  BY <3>1, <3>2 DEF MeantJob
    <3>3. CASE job[k] # NoJob
      <4>1. job[k] \in Jobs /\ MeantJob(job[k])  BY <3>3, Kinds DEF IInv, Meant
      <4>2. job'[k].step = job[k].step /\ job'[k].copy = job[k].copy
        BY <3>1, <3>3, <4>1 DEF Jobs
      <4> QED  BY <3>3, <4>1, <4>2 DEF MeantJob
    <3> QED  BY <3>2, <3>3
  <2> QED  BY <1>2, <2>1, MeantSame DEF Pause, tasks, outside
<1>3. ASSUME NEW t \in Tasks, Publish(t) PROVE Meant'
  <2>1. /\ UNCHANGED <<stored, sea, job>>
        /\ \A x \in Tasks : server'[x].state = "cancelled" => server[x].state = "cancelled"
    BY <1>3 DEF Publish, tasks, IInv, TypeOK
  <2> QED  BY <2>1 DEF Meant, MeantTask
<1> QED  BY <1>1, <1>2, <1>3

(* A task whose write is undone has been asked nothing and had no job save.*)
LEMMA UndoneMeant ==
  ASSUME IInv, Meant, Restart \/ \E t \in Tasks : EnqueueFails(t)
  PROVE  Meant'
<1>1. /\ \A t \in Tasks : stored'[t] = stored[t] \/ (t \in unsaved /\ stored'[t] = Absent)
      /\ UNCHANGED <<sea, server>>
      /\ \A l \in Lanes : job'[l] \in {job[l], NoJob}
  BY DEF Restart, EnqueueFails, outside, IInv, TypeOK
<1>2. \A t \in Tasks : /\ stored[t].intent => stored'[t].intent
                       /\ stored'[t].state = "cancelled" => stored[t].state = "cancelled"
  BY <1>1, IntentWritten DEF Absent
<1>3. \A q \in sea' : q.kind = "cancel" => stored'[q.task].intent
  BY <1>1, <1>2, RequestOf DEF Meant
<1>4. \A l \in Lanes : MeantJob(job'[l])  BY <1>1 DEF Meant, MeantJob
<1> QED  BY <1>1, <1>2, <1>3, <1>4 DEF Meant, MeantTask

LEMMA MeantInductive == ASSUME IInv, Meant, [Next]_vars PROVE Meant'
<1>1. CASE UNCHANGED vars  BY <1>1, MeantSame DEF vars, Meant
<1>2. CASE Next
  BY <1>2, InterfaceMeant, JobMeant, DrainMeant, DeliverMeant, RefusedMeant, OutsideMeant, UndoneMeant
  DEF Next
<1> QED  BY <1>1, <1>2
-------------------------------------------------------------------------------
(* The refinement.                                                         *)

Simulated == Message!Next \/ UNCHANGED Message!vars

(* What is written of tasks that are as new is not said of a message.      *)
LEMMA NothingSaid ==
  ASSUME UNCHANGED server,
         \A t \in Tasks : /\ stored'[t].content = stored[t].content
                          /\ stored'[t].intent = stored[t].intent
                          /\ \/ stored'[t].state = stored[t].state
                             \/ {stored'[t].state, stored[t].state} \cap Terminal = {}
  PROVE  Simulated
<1>1. Said' = Said  BY DEF Said
<1>2. /\ [t \in Tasks |-> stored'[t].content] = [t \in Tasks |-> stored[t].content]
      /\ [t \in Tasks |-> stored'[t].intent] = [t \in Tasks |-> stored[t].intent]
  OBVIOUS
<1> QED  BY <1>1, <1>2 DEF Simulated, Message!vars

(* A save writes a task whole: it fixes the content once, keeps the intent *)
(* and says what is true.                                                  *)
LEMMA SaveSimulated == ASSUME IInv, Meant, NEW l \in Lanes, Save(l) PROVE Simulated
<1>1. job[l] # NoJob /\ job[l].at = "save" /\ UNCHANGED server  BY DEF Save, outside
<1>2. PICK t \in Tasks, c \in Records : job[l].task = t /\ job[l].copy = c  BY <1>1, JobWas
<1>3. /\ Doing(t, "save", job[l].step, c, stored[t], server[t].state, Sends(t), unsaved)
      /\ stored[t] \in Records
  BY <1>1, <1>2, JobWas
<1>4. stored' = [stored EXCEPT ![t] = c]  BY <1>2 DEF Save
<1>5. stored'[t] = c /\ \A x \in Tasks : x # t => stored'[x] = stored[x]
  BY <1>4 DEF IInv, TypeOK
<1> DEFINE v == IF c.state \in Terminal THEN c.state ELSE "open"
<1>6. /\ c.content \in (1..MaxUploads) \cup {0} /\ c.intent \in BOOLEAN
      /\ v \in {"open", "sent", "cancelled"}
  BY SendQueueAssumption DEF Records, Terminal
<1>7. Said[t] = "open" /\ Said'[t] = v
  BY <1>3, <1>5 DEF Said, Doing
<1>8. /\ stored[t].content \in {0, c.content}
      /\ stored[t].intent => c.intent
  BY <1>3 DEF Doing
<1>9. v = "sent" => server[t].state = "published"
  BY <1>3 DEF Doing, True
<1>10. v = "cancelled" => c.intent /\ server[t].state \in {"none", "cancelled"}
  <2>1. c.state = "cancelled" => c.intent  BY <1>1, <1>2 DEF Meant, MeantJob
  <2> QED  BY <1>3, <2>1 DEF Doing, True
<1> HIDE DEF v
<1>11. /\ [x \in Tasks |-> stored'[x].content]
           = [[x \in Tasks |-> stored[x].content] EXCEPT ![t] = c.content]
       /\ [x \in Tasks |-> stored'[x].intent]
           = [[x \in Tasks |-> stored[x].intent] EXCEPT ![t] = c.intent]
  BY <1>5
<1>12. Said' = [Said EXCEPT ![t] = v]
  <2>1. \A x \in Tasks : x # t => Said'[x] = Said[x]  BY <1>5 DEF Said
  <2> QED  BY <1>7, <2>1 DEF Said
<1>13. /\ [x \in Tasks |-> server'[x].state] = [x \in Tasks |-> server[x].state]
       /\ [x \in Tasks |-> server'[x].content] = [x \in Tasks |-> server[x].content]
  BY <1>1
<1>14. Message!Write(t)
  BY <1>6, <1>7, <1>8, <1>9, <1>10, <1>11, <1>12, <1>13 DEF Message!Write
<1> QED  BY <1>14 DEF Simulated, Message!Next

(* A change of one message at the server, its tasks staying as they are.   *)
LEMMA OnServer ==
  ASSUME IInv, NEW t \in Tasks, NEW m, server' = [server EXCEPT ![t] = m], UNCHANGED stored
  PROVE  /\ Said' = Said
         /\ [x \in Tasks |-> stored'[x].content] = [x \in Tasks |-> stored[x].content]
         /\ [x \in Tasks |-> stored'[x].intent] = [x \in Tasks |-> stored[x].intent]
         /\ [x \in Tasks |-> server'[x].state]
             = [[x \in Tasks |-> server[x].state] EXCEPT ![t] = m.state]
         /\ [x \in Tasks |-> server'[x].content]
             = [[x \in Tasks |-> server[x].content] EXCEPT ![t] = m.content]
<1>1. server'[t] = m /\ \A x \in Tasks : x # t => server'[x] = server[x]
  BY DEF IInv, TypeOK
<1>2. Said' = Said  BY DEF Said
<1>3. /\ [x \in Tasks |-> stored'[x].content] = [x \in Tasks |-> stored[x].content]
      /\ [x \in Tasks |-> stored'[x].intent] = [x \in Tasks |-> stored[x].intent]
  OBVIOUS
<1>4. [x \in Tasks |-> server'[x].state] = [[x \in Tasks |-> server[x].state] EXCEPT ![t] = m.state]
  <2>1. \A x \in Tasks : server'[x].state = IF x = t THEN m.state ELSE server[x].state  BY <1>1
  <2> QED  BY <2>1
<1>5. [x \in Tasks |-> server'[x].content]
        = [[x \in Tasks |-> server[x].content] EXCEPT ![t] = m.content]
  <2>1. \A x \in Tasks : server'[x].content = IF x = t THEN m.content ELSE server[x].content
    BY <1>1
  <2> QED  BY <2>1
<1> QED  BY <1>2, <1>3, <1>4, <1>5

LEMMA DeliverSimulated == ASSUME IInv, Meant, NEW q \in sea, Deliver(q) PROVE Simulated
<1>1. PICK t \in Tasks : q.task = t  BY RequestOf
<1>2. PICK m \in Taken(q, server[t]) : server' = [server EXCEPT ![t] = m]
  BY <1>1 DEF Deliver
<1>3. UNCHANGED stored  BY DEF Deliver, tasks
<1>4. server[t] \in [state : Replies \cup {"none"}, content : 0..MaxUploads]
  BY DEF IInv, TypeOK
<1>5. CASE m = server[t]
  <2>1. server' = server  BY <1>2, <1>4, <1>5 DEF IInv, TypeOK
  <2> QED  BY <1>3, <2>1, NothingSaid
<1>6. CASE /\ q.kind = "send" /\ server[t].state = "none"
           /\ m \in {[state |-> x, content |-> stored[t].content] : x \in {"preparing", "published"}}
  <2>1. m.state \in {"preparing", "published"} /\ m.content = stored[t].content
    BY <1>6
  <2>2. q \in Sends(t) /\ q \in Asked(t)  BY <1>1, <1>6, RequestOf
  <2>3. stored[t].content # 0 /\ stored[t].state # "cancelled"
    BY <1>6, <2>2 DEF IInv, TaskInv, Recorded, True
  <2>4. Said[t] # "cancelled"  BY <2>3 DEF Said
  <2>5. /\ Said' = Said
        /\ [x \in Tasks |-> stored'[x].content] = [x \in Tasks |-> stored[x].content]
        /\ [x \in Tasks |-> stored'[x].intent] = [x \in Tasks |-> stored[x].intent]
        /\ [x \in Tasks |-> server'[x].state] = [[x \in Tasks |-> server[x].state] EXCEPT ![t] = m.state]
        /\ [x \in Tasks |-> server'[x].content] = [[x \in Tasks |-> server[x].content] EXCEPT ![t] = m.content]
    BY <1>2, <1>3, OnServer
  <2>6. Message!Hear(t)
    BY <1>6, <2>1, <2>3, <2>4, <2>5 DEF Message!Hear
  <2> QED  BY <2>6 DEF Simulated, Message!Next
<1>7. CASE /\ m # server[t] /\ q.kind = "cancel" /\ server[t].state # "published"
           /\ m = [server[t] EXCEPT !.state = "cancelled"]
  <2>1. stored[t].intent  BY <1>1, <1>7 DEF Meant
  <2>2. m.state = "cancelled" /\ m.content = server[t].content  BY <1>4, <1>7
  <2>3. server[t].state \in {"none", "preparing"}
    <3>1. server[t].state = "cancelled" => m = server[t]  BY <1>4, <1>7
    <3> QED  BY <1>4, <1>7, <3>1 DEF Replies
  <2>4. [x \in Tasks |-> server'[x].content] = [x \in Tasks |-> server[x].content]
    BY <1>2, <2>2 DEF IInv, TypeOK
  <2>5. /\ Said' = Said
        /\ [x \in Tasks |-> stored'[x].content] = [x \in Tasks |-> stored[x].content]
        /\ [x \in Tasks |-> stored'[x].intent] = [x \in Tasks |-> stored[x].intent]
        /\ [x \in Tasks |-> server'[x].state] = [[x \in Tasks |-> server[x].state] EXCEPT ![t] = m.state]
    BY <1>2, <1>3, OnServer
  <2>6. Message!Withdraw(t)
    BY <2>1, <2>2, <2>4, <2>3, <2>5 DEF Message!Withdraw
  <2> QED  BY <2>6 DEF Simulated, Message!Next
<1> QED  BY <1>1, <1>2, <1>5, <1>6, <1>7, TakenAs

LEMMA PublishSimulated == ASSUME IInv, NEW t \in Tasks, Publish(t) PROVE Simulated
<1> DEFINE m == [server[t] EXCEPT !.state = "published"]
<1>1. server[t] \in [state : Replies \cup {"none"}, content : 0..MaxUploads]
  BY DEF IInv, TypeOK
<1>2. server' = [server EXCEPT ![t] = m] /\ UNCHANGED stored /\ server[t].state = "preparing"
  BY DEF Publish, tasks
<1>3. m.state = "published" /\ m.content = server[t].content  BY <1>1
<1> HIDE DEF m
<1>4. [x \in Tasks |-> server'[x].content] = [x \in Tasks |-> server[x].content]
  BY <1>2, <1>3 DEF IInv, TypeOK
<1>5. /\ Said' = Said
      /\ [x \in Tasks |-> stored'[x].content] = [x \in Tasks |-> stored[x].content]
      /\ [x \in Tasks |-> stored'[x].intent] = [x \in Tasks |-> stored[x].intent]
      /\ [x \in Tasks |-> server'[x].state] = [[x \in Tasks |-> server[x].state] EXCEPT ![t] = m.state]
  BY <1>2, OnServer
<1>6. Message!Publish(t)
  BY <1>2, <1>3, <1>4, <1>5 DEF Message!Publish
<1> QED  BY <1>6 DEF Simulated, Message!Next

(* A task that comes, or whose write is undone, is as new.                 *)
LEMMA FreshSimulated ==
  ASSUME IInv, Restart \/ \E t \in Tasks : Enqueue(t) \/ EnqueueFails(t) PROVE Simulated
<1> DEFINE Fresh == {Absent, [Absent EXCEPT !.state = "queued"]}
<1>1. \A t \in unsaved : stored[t] \in Fresh  BY DEF IInv, TypeOK, TaskInv, Recorded
<1>2. \A t \in Tasks : stored'[t] = stored[t] \/ (stored[t] \in Fresh /\ stored'[t] \in Fresh)
  BY <1>1 DEF Restart, Enqueue, EnqueueFails, IInv, TypeOK
<1>3. \A r \in Fresh : r.content = 0 /\ r.intent = FALSE /\ r.state \notin Terminal
  BY DEF Absent, Terminal
<1> HIDE DEF Fresh
<1>4. ASSUME NEW t \in Tasks
      PROVE  /\ stored'[t].content = stored[t].content
             /\ stored'[t].intent = stored[t].intent
             /\ \/ stored'[t].state = stored[t].state
                \/ {stored'[t].state, stored[t].state} \cap Terminal = {}
  BY <1>2, <1>3
<1>5. UNCHANGED server  BY DEF Restart, Enqueue, EnqueueFails, outside
<1> QED  BY <1>4, <1>5, NothingSaid

(* The queue and the server together implement TeamMessage: a message has  *)
(* one content, is withdrawn only on request, and what is said of it in    *)
(* the end is said once and agrees with the server for good, for any       *)
(* tasks, lanes, places, troubles and uploads.                             *)
THEOREM QueueImplementsMessage == Spec => OneFate
<1>1. Init => Message!Init
  BY DEF Init, Message!Init, Said, Absent, Terminal
<1>2. Init => Meant
  BY DEF Init, Meant, MeantTask, MeantJob, Absent
<1>3. IInv /\ Meant /\ [Next]_vars => Meant'
  BY MeantInductive
<1>4. IInv /\ Meant /\ [Next]_vars => [Message!Next]_(Message!vars)
  <2> SUFFICES ASSUME IInv, Meant, [Next]_vars PROVE Simulated
    BY DEF Simulated
  <2>1. CASE UNCHANGED vars  BY <2>1, NothingSaid DEF vars
  <2>2. CASE UNCHANGED <<stored, server>>  BY <2>2, NothingSaid
  <2>3. ASSUME NEW l \in Lanes, Save(l) PROVE Simulated  BY <2>3, SaveSimulated
  <2>4. ASSUME NEW q \in sea, Deliver(q) PROVE Simulated  BY <2>4, DeliverSimulated
  <2>5. ASSUME NEW t \in Tasks, Publish(t) PROVE Simulated  BY <2>5, PublishSimulated
  <2>6. CASE Restart \/ \E t \in Tasks : Enqueue(t) \/ EnqueueFails(t)
    BY <2>6, FreshSimulated
  <2>7. ASSUME NEW t \in Tasks, Enqueued(t) \/ Retry(t) \/ Cancel(t) PROVE UNCHANGED <<stored, server>>
    BY <2>7 DEF Enqueued, Retry, Cancel, tasks, outside
  <2>8. ASSUME NEW l \in Lanes, JobSteps(l), ~Save(l) PROVE UNCHANGED <<stored, server>>
    BY <2>8 DEF JobSteps, Saved, SaveFails, TimelineAnswers, UploadEnds, CallFails, tasks, outside
  <2>9. ASSUME DrainSteps PROVE UNCHANGED <<stored, server>>
    BY <2>9 DEF DrainSteps, StartDrain, StartRun, Look, EndDrain, tasks, outside
  <2>10. ASSUME NEW q \in sea, Refused(q) PROVE UNCHANGED <<stored, server>>
    BY <2>10 DEF Refused, tasks
  <2>11. ASSUME SignOut \/ Pause \/ SignIn PROVE UNCHANGED <<stored, server>>
    BY <2>11 DEF SignOut, Pause, SignIn, tasks, outside
  <2> QED  BY <2>1, <2>2, <2>3, <2>4, <2>5, <2>6, <2>7, <2>8, <2>9, <2>10, <2>11 DEF Next
<1> QED  BY <1>1, <1>2, <1>3, <1>4, QueueInvariant, PTL DEF Spec, OneFate, Message!Spec
===============================================================================
