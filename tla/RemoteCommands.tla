--------------------------- MODULE RemoteCommands ---------------------------
(***************************************************************************)
(* Remote commands for a session that several hosts of one account can     *)
(* execute.  Every host hears every command on the account channel         *)
(* (src/src/dsh-remote/session-channel.ts, receive and tick), runs those   *)
(* of the sessions it is the writer of (host.ts, dispatchWrite) and        *)
(* records them in one SQLite ledger the hosts share (command-ledger.ts).  *)
(* A host that comes back looks at what was left (reconcileUnsettled).     *)
(*                                                                         *)
(* External: DSH, which takes a command into the history of its session or *)
(* does not, and the channel.  The commands are those DSH answers for by   *)
(* their rpcId, queued prompts, and the hosts those of one computer: each  *)
(* has a copy of the session (readable).  The ledger runs each of its      *)
(* operations in one step.                                                 *)
(***************************************************************************)
EXTENDS Naturals, FiniteSets

CONSTANTS Hosts, Commands,
          NoHost,      \* not a host
          MaxTroubles  \* bound: hosts that leave, and changes of the writer

ASSUME CommandsAssumption ==
  /\ NoHost \notin Hosts
  /\ MaxTroubles \in Nat

VARIABLES
  ledger,    \* the newest event of a command in the ledger
  due,       \* commands whose execute_before has not passed
  host,      \* "off" | "settling": activation reconciles | "on"
  todo,      \* the entries an activation has read and not come to yet
  queue,     \* commands a host has heard and not started
  work,      \* where dispatchWrite is with a command
  writer,    \* the host that executes the session now
  orphans,   \* calls to DSH whose caller has left, or given up
  accepted,  \* how often DSH has taken a command
  answers,   \* responses published so far
  troubles

vars == <<ledger, due, host, todo, queue, work, writer, orphans, accepted, answers, troubles>>
dsh == <<writer, orphans, accepted>>
activation == <<host, todo>>

-------------------------------------------------------------------------------

(* "refused" is the state completed with an error that has a code.         *)
LedgerStates == {"none", "pending", "completed", "refused", "unknown"}
Settled == {"completed", "refused", "unknown"}

(* opening: the host tries to become the writer first; admitted: waiting   *)
(* for requireSessionOwnership; calling and accepted: DSH has been called, *)
(* and has taken the command; reconciling: a duplicate, or an activation,  *)
(* looks for the command in the history.                                   *)
Works == {"none", "opening", "admitted", "calling", "accepted", "reconciling"}

(* The status of a response.  Every error is published as "rejected", with *)
(* the code it has or was given.                                           *)
Replies == {"completed", "rejected"}

TypeOK ==
  /\ ledger \in [Commands -> LedgerStates]
  /\ due \subseteq Commands
  /\ host \in [Hosts -> {"off", "settling", "on"}]
  /\ todo \in [Hosts -> SUBSET Commands]
  /\ queue \in [Hosts -> SUBSET Commands]
  /\ work \in [Hosts -> [Commands -> Works]]
  /\ writer \in Hosts \cup {NoHost}
  /\ orphans \subseteq Commands
  /\ accepted \in [Commands -> Nat]
  /\ answers \subseteq [command : Commands, reply : Replies]
  /\ troubles \in 0..MaxTroubles

Init ==
  /\ ledger = [c \in Commands |-> "none"]
  /\ due = Commands
  /\ host = [h \in Hosts |-> "off"]
  /\ todo = [h \in Hosts |-> {}]
  /\ queue = [h \in Hosts |-> {}]
  /\ work = [h \in Hosts |-> [c \in Commands |-> "none"]]
  /\ writer = NoHost
  /\ orphans = {}
  /\ accepted = [c \in Commands |-> 0]
  /\ answers = {}
  /\ troubles = 0

-------------------------------------------------------------------------------
(* The ledger.                                                             *)

(* complete and completeRejected: the first result stands, and nothing     *)
(* replaces an unknown outcome (there they throw).                         *)
CompletedOverUnknown(state, result) == IF state \in {"pending", "unknown"} THEN result ELSE state
Completed(state, result) == IF state = "pending" THEN result ELSE state

(* markOutcomeUnknown.                                                     *)
Marked(state) == IF state = "pending" THEN "unknown" ELSE state

Record(c, state) == ledger' = [ledger EXCEPT ![c] = state]

(* What an entry says to a controller that asks again.                     *)
ReplyAsRecorded(state) == state
ReplyOf(state) == IF state = "completed" THEN "completed" ELSE "rejected"

-------------------------------------------------------------------------------
(* The channel.                                                            *)

Answer(c, reply) == answers' = answers \cup {[command |-> c, reply |-> reply]}
Answered(c) == \E a \in answers : a.command = c

Goes(h, c, stage) == work' = [work EXCEPT ![h][c] = stage]

(* A command, or the same command again.  A host that is not the writer    *)
(* looks whether it has to become it (recoverOpening).                     *)
Receive(h, c) ==
  /\ host[h] = "on"
  /\ c \in due
  /\ work[h][c] = "none"
  /\ c \notin queue[h]
  /\ queue' = [queue EXCEPT ![h] = @ \cup {c}]
  /\ IF writer = h THEN UNCHANGED work ELSE Goes(h, c, "opening")
  /\ UNCHANGED <<ledger, due, activation, dsh, answers, troubles>>

(* It has a live writer, or has become it (a Move).                        *)
Open(h, c) ==
  /\ work[h][c] = "opening"
  /\ Goes(h, c, "none")
  /\ UNCHANGED <<ledger, due, activation, queue, dsh, answers, troubles>>

(* It could not.  If nobody is the writer then, it answers for everybody,  *)
(* without a look at the ledger.                                           *)
OpenFails(h, c) ==
  /\ work[h][c] = "opening"
  /\ Goes(h, c, "none")
  /\ IF writer = NoHost
     THEN queue' = [queue EXCEPT ![h] = @ \ {c}] /\ Answer(c, "rejected")
     ELSE UNCHANGED <<queue, answers>>
  /\ UNCHANGED <<ledger, due, activation, dsh, troubles>>

(* It has expired, or another host is heard to answer it.                  *)
Drop(h, c) ==
  /\ c \in queue[h]
  /\ c \notin due \/ Answered(c)
  /\ queue' = [queue EXCEPT ![h] = @ \ {c}]
  /\ UNCHANGED <<ledger, due, activation, work, dsh, answers, troubles>>

Start(h, c) ==
  /\ host[h] = "on"
  /\ c \in queue[h] \cap due
  /\ writer = h
  /\ work[h][c] = "none"
  /\ queue' = [queue EXCEPT ![h] = @ \ {c}]
  /\ Goes(h, c, "admitted")
  /\ UNCHANGED <<ledger, due, activation, dsh, answers, troubles>>

Expire(c) ==
  /\ c \in due
  /\ due' = due \ {c}
  /\ UNCHANGED <<ledger, activation, queue, work, dsh, answers, troubles>>

-------------------------------------------------------------------------------
(* dispatchWrite.                                                          *)

(* A check before the ledger fails (requireReady, the capabilities, the    *)
(* deadline, requireSessionOwnership): nothing is recorded.                *)
TurnAway(h, c) ==
  /\ work[h][c] = "admitted"
  /\ Goes(h, c, "none")
  /\ Answer(c, "rejected")
  /\ UNCHANGED <<ledger, due, activation, queue, dsh, troubles>>

(* begin, one transaction over all hosts, and what comes before the next   *)
(* await: the call of DSH, or the answer to a duplicate.                   *)
BeginNew(h, c) ==
  /\ Record(c, "pending")
  /\ Goes(h, c, "calling")
  /\ UNCHANGED answers

BeginLooking(h, c) ==
  /\ Goes(h, c, "reconciling")
  /\ UNCHANGED <<ledger, answers>>

BeginAnswered(h, c) ==
  /\ Goes(h, c, "none")
  /\ Answer(c, ReplyOf(ledger[c]))
  /\ UNCHANGED ledger

Abandoned(h, c) == ledger[c] = "pending" /\ c \notin due /\ writer = h

BeginAgain(h, c) ==
  /\ work[h][c] = "admitted"
  /\ CASE ledger[c] = "none" \/ Abandoned(h, c) -> BeginNew(h, c)
       [] OTHER -> BeginAnswered(h, c)
  /\ UNCHANGED <<due, activation, queue, dsh, troubles>>
Begin(h, c) ==
  /\ work[h][c] = "admitted"
  /\ CASE ledger[c] = "none" -> BeginNew(h, c)
       [] Abandoned(h, c) -> BeginLooking(h, c)
       [] OTHER -> BeginAnswered(h, c)
  /\ UNCHANGED <<due, activation, queue, dsh, troubles>>

(* DSH takes the command, on the host itself or on the writer it routes to.*)
Accept(h, c) ==
  /\ work[h][c] = "calling"
  /\ writer # NoHost
  /\ accepted' = [accepted EXCEPT ![c] = @ + 1]
  /\ Goes(h, c, "accepted")
  /\ UNCHANGED <<ledger, due, activation, queue, writer, orphans, answers, troubles>>

(* complete() throws over an unknown outcome.                              *)
FinishAnyway(h, c) ==
  /\ work[h][c] = "accepted"
  /\ Record(c, Completed(ledger[c], "completed"))
  /\ Answer(c, "completed")
  /\ Goes(h, c, "none")
  /\ UNCHANGED <<due, activation, queue, dsh, troubles>>
Finish(h, c) ==
  /\ work[h][c] = "accepted"
  /\ Record(c, Completed(ledger[c], "completed"))
  /\ Answer(c, IF ledger[c] = "unknown" THEN "rejected" ELSE "completed")
  /\ Goes(h, c, "none")
  /\ UNCHANGED <<due, activation, queue, dsh, troubles>>

(* The call of DSH fails, before or after DSH has taken the command, and   *)
(* may still be on its way.                                                *)
Fails(h, c, state) ==
  /\ work[h][c] \in {"calling", "accepted"}
  /\ Record(c, state)
  /\ Answer(c, "rejected")
  /\ Goes(h, c, "none")
  /\ orphans' \in {orphans, IF work[h][c] = "calling" THEN orphans \cup {c} ELSE orphans}
  /\ UNCHANGED <<due, activation, queue, writer, accepted, troubles>>

(* With a code: DSH's refusal, a check before the call, or whatever went   *)
(* wrong at the peer that the call was routed to (requestPeer makes        *)
(* REMOTE_NOT_FOUND of every answer but 200).                              *)
Refuse(h, c) == Fails(h, c, Completed(ledger[c], "refused"))

(* Without one: a timeout, a broken connection.                            *)
Break(h, c) == Fails(h, c, Marked(ledger[c]))

OrphanEnds(c) ==
  /\ c \in orphans
  /\ orphans' = orphans \ {c}
  /\ \/ writer # NoHost /\ accepted' = [accepted EXCEPT ![c] = @ + 1]
     \/ UNCHANGED accepted
  /\ UNCHANGED <<ledger, due, activation, queue, work, writer, answers, troubles>>

-------------------------------------------------------------------------------
(* reconcileUnsettled: the history proves the command or proves nothing,   *)
(* for it is read to a limited depth and may be unreadable.                *)

Proof(c) == {FALSE, accepted[c] > 0}

Reconciled(c, proven) ==
  IF proven THEN Completed(ledger[c], "completed") ELSE Marked(ledger[c])

(* An activation comes to an entry.  A live peer may still be working on   *)
(* one that has not expired; and only the writer looks.                    *)
Look(h, c) ==
  /\ host[h] = "settling"
  /\ c \in todo[h]
  /\ \A d \in Commands : work[h][d] = "none"
  /\ todo' = [todo EXCEPT ![h] = @ \ {c}]
  /\ IF c \in due \/ writer # h THEN UNCHANGED work ELSE Goes(h, c, "reconciling")
  /\ UNCHANGED <<ledger, due, host, queue, dsh, answers, troubles>>

(* What the history says is recorded, and by a duplicate answered.  When   *)
(* a peer has marked the entry meanwhile complete() throws, and an         *)
(* activation does not look at the rest.                                   *)
Reconcile(h, c) ==
  /\ work[h][c] = "reconciling"
  /\ \E proven \in Proof(c) :
       /\ Record(c, Reconciled(c, proven))
       /\ IF host[h] = "settling"
          THEN /\ todo' = [todo EXCEPT ![h] = IF proven /\ ledger[c] = "unknown" THEN {} ELSE @]
               /\ UNCHANGED answers
          ELSE /\ Answer(c, ReplyOf(Reconciled(c, proven)))
               /\ UNCHANGED todo
  /\ Goes(h, c, "none")
  /\ UNCHANGED <<due, host, queue, dsh, troubles>>

-------------------------------------------------------------------------------
(* Hosts come and go, and the session moves between them.                  *)

Activate(h) ==
  /\ host[h] = "off"
  /\ host' = [host EXCEPT ![h] = "settling"]
  /\ todo' = [todo EXCEPT ![h] = {c \in Commands : ledger[c] = "pending"}]
  /\ UNCHANGED <<ledger, due, queue, work, dsh, answers, troubles>>

Connect(h) ==
  /\ host[h] = "settling"
  /\ todo[h] = {}
  /\ \A c \in Commands : work[h][c] = "none"
  /\ host' = [host EXCEPT ![h] = "on"]
  /\ UNCHANGED <<ledger, due, todo, queue, work, dsh, answers, troubles>>

(* A signed-out account or the end of the process: the ledger is closed    *)
(* and nothing more is recorded or answered, but calls may be on their way.*)
Leave(h) ==
  /\ troubles < MaxTroubles
  /\ host[h] # "off"
  /\ host' = [host EXCEPT ![h] = "off"]
  /\ todo' = [todo EXCEPT ![h] = {}]
  /\ queue' = [queue EXCEPT ![h] = {}]
  /\ work' = [work EXCEPT ![h] = [c \in Commands |-> "none"]]
  /\ \E lost \in SUBSET {c \in Commands : work[h][c] = "calling"} : orphans' = orphans \cup lost
  /\ troubles' = troubles + 1
  /\ UNCHANGED <<ledger, due, writer, accepted, answers>>

(* See SessionHandoff.                                                     *)
Move(h) ==
  /\ troubles < MaxTroubles
  /\ writer # h
  /\ writer' = h
  /\ troubles' = troubles + 1
  /\ UNCHANGED <<ledger, due, activation, queue, work, orphans, accepted, answers>>

-------------------------------------------------------------------------------

Dispatches(h, c) ==
  \/ Open(h, c) \/ OpenFails(h, c) \/ TurnAway(h, c)
  \/ Begin(h, c) \/ Accept(h, c) \/ Finish(h, c) \/ Refuse(h, c) \/ Break(h, c)
  \/ Reconcile(h, c)

Next ==
  \/ \E h \in Hosts, c \in Commands :
       Receive(h, c) \/ Drop(h, c) \/ Start(h, c) \/ Dispatches(h, c) \/ Look(h, c)
  \/ \E c \in Commands : Expire(c) \/ OrphanEnds(c)
  \/ \E h \in Hosts : Activate(h) \/ Connect(h) \/ Leave(h)
  \/ \E h \in Hosts \cup {NoHost} : Move(h)

Spec == Init /\ [][Next]_vars

-------------------------------------------------------------------------------
(* Properties.                                                             *)

(* However often a command is delivered, to however many hosts, and        *)
(* whoever leaves or takes over, DSH takes it once at most.                *)
AcceptedOnce == \A c \in Commands : accepted[c] <= 1

(* What is reported as done is done, and on record: an entry "completed"   *)
(* means that DSH took the command, and no host answers "completed" while  *)
(* the ledger, which every later answer comes from, says something else.   *)
(* A rejection proves nothing: see CommandVerdict.                         *)
ReportsTrue == \A c \in Commands :
  /\ ledger[c] = "completed" => accepted[c] = 1
  /\ [command |-> c, reply |-> "completed"] \in answers => ledger[c] = "completed"

(* What the ledger says of a command, as CommandVerdict puts it.           *)
Judged == [c \in Commands |-> IF ledger[c] \in Settled THEN ledger[c] ELSE "open"]

Verdict == INSTANCE CommandVerdict WITH taken <- accepted, verdict <- Judged, told <- answers

(* All hosts, the ledger and the calls that are still out implement one    *)
(* verdict per command: reconciliation and a dispatch that is still under  *)
(* way cannot replace each other's result, and no response says that a     *)
(* command was completed unless that is the verdict                        *)
(* (command-ledger.ts:140-172, host.ts:2123-2253, 2331-2343).              *)
OneVerdict == Verdict!Spec

(* In particular the ledger never changes its mind.                        *)
SettledStays == [][\A c \in Commands : ledger[c] \in Settled => ledger'[c] = ledger[c]]_vars

===============================================================================
