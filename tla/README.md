# Arkme DSH plugin: TLA+ models and proofs

The Arkme DSH plugin (`src/`, TypeScript) runs inside a Harness host and connects a
desktop to the Arkme Backend: it sends requests, keeps caches, uploads the turns of DSH
agent sessions and lets a phone follow and steer those sessions. This directory models
the parts of it whose correctness depends on order: who may start, who is answered, what
a crash leaves behind. Paths below are relative to `src/src/` unless they start with
`docs/` or `tests/`.

Contents: [inventory](#inventory), [modules](#modules-and-how-they-correspond-to-the-code),
[runs](#runs), [fairness](#fairness), [proofs](#proofs), [findings](#findings),
[plan](#plan), [not modelled](#not-modelled).

## Inventory

All of the plugin's own code runs on one Node event loop: a handler runs to its next
`await` without interruption, so the actors of the models are the continuations, timers
and callbacks that the loop interleaves, the processes that share a disk, and the Backend.

### Request coordinator (`request-coordinator.ts`)

- *State*: per limit (aggregate pool, lane, service, account route) the active count,
  tokens and cooldown; the queue; one drain timer; per key the flight in progress, the
  cached result, the failure cooldown; per scope an epoch and the controllers under way.
- *Operations*: `run` (cache, cooldown, join, start), `execute` with recovery attempts,
  `runStream`, `acquire`/`drain`/`release`, `updateSharedReadPriority`, `invalidateKey`,
  `invalidateScope`, `dispose`.
- *Used by*: every Backend call of the services (`services/service.ts` and others).
- *Hard*: a permit is taken in one continuation and given back in another, while the read
  it belongs to changes lane; subscribers leave a shared read while others join; an
  invalidation overtakes a read; one timer wakes only those waiters that need time.
- *Correct when*: no limit is exceeded or leaks; every call is answered; reads of a key
  share a transport; nothing an invalidation overtook is stored.

### Turn upload outbox (`dsh-remote/turn-upload-outbox.ts`)

- *State*: SQLite rows of turns and of history completions, a spool and an object file per
  turn, `pendingSpoolBytes`, a retry timer, a capture tail, a drain, a binding flight.
- *Operations*: `capture`, `queueHistoryFinalization`, `restoreHistoryReceipts`,
  `resumePublishedSessions`, `reconcileSourceBindings`, `activate`, `close`, the drain
  (build object, prepare, PUT, commit, finalize) and recovery from disk.
- *Interacts with*: the DSH host, which feeds it live batches and backfilled history; the
  Backend and object storage; `index.ts`, which says whether a session may upload here.
- *Hard*: crash between any two writes; lost answers; expired upload intents; a session
  handed to another writer and back; a timer that is replaced; a drain that ends while
  work arrives.
- *Correct when*: events leave the disk only once committed; a row never claims more than
  the Backend has; a history is declared complete only with all its turns; everything
  sealed is uploaded in the end.

### Live event batcher (`dsh-remote/live-event-batcher.ts`)

- *State*: a map of pending sessions (cursor, high-water mark, buffered entries, replay
  flag, two deadlines), counters of the buffer, at most two flights, one timer.
- *Operations*: `enqueue`, `schedule`, `drain`, `consume`, `flush`, `close`.
- *Interacts with*: the event subscription (`api-proxy-adapter.ts`) before it; after it the
  host's `publishSessionEventBatch`, which captures into the outbox and sends to the phone.
- *Hard*: overflow turns a buffered session into a replayed one; failures back off while
  events arrive; subscriptions lose and repeat events; one timer for all sessions.
- *Correct when*: per session nothing is skipped, reordered or captured twice.

### Session handoff (`local-session-*.ts`)

- *State*: one SQLite row per session (owner, epoch, phase, target, transfer) and one per
  instance with its address, shared by all instances on the machine; in each process the
  agents it publishes, fences, commands in flight, releases and acquisition flights.
- *Operations*: `acquire` with the `/release` request to the owner, `activateOwned` with its
  commit, `restoreExited`, `release`, `command`, `resume`, `close`.
- *Interacts with*: DSH, whose writer lock of the journal and whose agents it steers; the
  remote host, which executes a session's commands where its writer is.
- *Hard*: a requester that gives up while the owner goes on releasing; a row that changes
  between its reading and the commit; disposals and flushes that fail; processes that exit.
- *Correct when*: one writer at a time, under a row that names it; nobody's turn or command is
  cut off; terms grow; no prompt waits for ever and a dead owner is replaced.

### Team send queue (`services/team-send-queue.ts`)

- *State*: the tasks in the account's state file; in memory the lanes in use (`active`), the
  drain and its wake-up, the pause.
- *Operations*: `enqueue`, `retry`, `cancel`, `drain` with up to two runs, `pause`, `wake`.
- *Interacts with*: the team server, which knows a message by its clientUid; uploads;
  `account-session-owner.ts` for the account.
- *Hard*: runs work on copies of their tasks; a cancellation meets a send under way; lost
  answers and restarts make messages be sent again; the drain may sleep over a lane that is given up.
- *Correct when*: what a task says is true of the server; a cancelled message is never
  published; a message sent twice has the same content; every message comes to an end.

### Remote commands (`dsh-remote/host.ts`, `command-ledger.ts`, `session-channel.ts`)

- *State*: an append-only SQLite ledger of commands that the account's hosts on a machine share;
  per host the commands heard, under way and to be reconciled.
- *Operations*: `receive`, `recoverOpening` and `tick` of the channel; `dispatchWrite`; `begin`, `complete`,
  `completeRejected`, `markOutcomeUnknown`, `unsettledForReconciliation`; `reconcileUnsettled`.
- *Hard*: every host hears every command, as often as the controller sends it; a host leaves, or
  a call breaks, between DSH's acceptance and the record; the session moves to another writer.
- *Correct when*: a command is taken once at most, the ledger never changes its mind about it, and
  nothing that is reported as completed is belied.

### Other components

| Component | State and operations | Hard behaviour | Status |
|---|---|---|---|
| DSH host (`dsh-remote/host.ts`), the rest | activation, connection, backfill, projections | a backfill replays a history while the same session is live | its calls into the modules above, commands and reconciliation |
| Session ownership (`dsh-remote/session-ownership-store.ts`) | first account to see a session owns it; JSON file | memory changes before the file is written: after a failed write the account owns the session only until a restart | not modelled |
| Channel manager, transports (`dsh-remote/channel-manager.ts`, ...) | two outbound lanes, fragments, wire retries | lease changes while fragments are out | delivery of commands only |
| Recording import (`recording-import-*.ts`) | a job with revisions, phases, one at a time | account switch, cancel, conflict of revisions | not modelled |
| Message sync, realtime (`chat-*.ts`) | cohorts and checkpoints | pages and realtime events cross | not modelled |
| Team Codex (`team-codex-*.ts`) | journals of tasks and their replication | crash, conflicting cloud state | not modelled |
| Outgoing calls (`outgoing-call-broker.ts`) | intents with deadlines, leases | a claim races the deadline | not modelled |
| Extension installs (`extensions/`) | tasks with pause and resume | the old attempt goes on beside the new one | not modelled |
| OpenAPI MCP (`openapi-mcp/`) | lock file between processes, key reconciliation | a stale lock taken over twice | not modelled |
| Plugin update (`plugin-update*.ts`) | download, replace, restart helper | crash while replacing | not modelled |
| Managed AI, OpenClaw, local recorder | calls to models, a tool, a serial device | cancellation | not modelled |
| Services, tools, SDK, client | request wrappers, declarations, user interface | little: they share the request coordinator | not modelled |

`PROJECT.json` lists every component with its files, and under `hazards` each place in the
code where order, failure or a limit can go wrong, with the properties that would notice.

## Modules and how they correspond to the code

`RequestCoordinator` extends `RequestAdmission`, `SessionHandoff` extends `SessionOwnership`. Three
modules implement an abstract specification of what they promise: `SessionHandoff` implements
`SessionWriter`, `SendQueue` implements `TeamMessage`, `RemoteCommands` implements `CommandVerdict`.
Otherwise the components stand alone: `TurnUpload`, `LiveEventBatcher` and
`RemoteCommands` are parts of the DSH remote host that meet only in calls, and what one needs of
the other is in it as an environment step (`TurnUpload` is handed a session over and back, as
`SessionHandoff` does it; the writer of `RemoteCommands` moves). Each `MC...` module only names
constants for TLC, each `...Proofs` module holds theorems, and `FiniteFacts` holds what several of them need of finite
sets: the last element of a strict order, and counts that are sums over a set.

### RequestAdmission

The limits and the queue: `active`, `tokens`, `cooling` are the fields of `LimitState`;
`held[f]` and `ticket[f]` are the permit and the place in the queue of flight `f`; `timer` is
the drain timer. `Drain` is `drain()` with its whole loop (`nextRunnableIndex`, one
permit per turn of the loop, then `scheduleNextDrain`): the set it admits is described by
what the loop guarantees, and `DrainKeeps` in the proofs shows it keeps the budget.
Cooldowns and token refills pass as steps of their own (`CooldownEnds`, `Refill`).

### RequestCoordinator

One *flight* per call of `run()` that starts a transport; a call that joins another's
flight has `via[c]` pointing at it. Phases: `queued`, `granted` (the promise of `acquire`
is resolved but `execute` has not resumed), `running`, `backoff`, `settled`,
`published`, `done`. The steps between them are the continuations of the promise chain, so
an invalidation or a leaving subscriber can come between any two of them. `overtaken` and
`hungUp` are history variables for the properties. A request's profile (`Req`) is a
constant: lane, route, key, recovery attempts, whether it is stored, and so on.

| Code | Actions |
|---|---|
| `run` | `RunAborted`, `RunFromCache`, `RunInCooldown`, `RunJoins`, `RunStarts` |
| `execute` | `Begin`, `BeginTooLate`, `OperationSucceeds`, `RetryableFailure`, `FinalFailure`, `RetryDue`, `DeadlinePasses` |
| the chain after `execute` in `run` | `Publish`, `Retire` |
| `joinFlight`, `joinCaller`, `runStream` | `Answered`, `HangUp`, `Leave`, `StreamOpens` |
| `invalidateScope`, `invalidateKey`, `dispose` | `InvalidateScope`, `InvalidateKeys`, `Dispose` |
| `drain`, timers | `RefillStep`, `CooldownStep`, `TimerStep`, `Expire` |

### TurnUpload

Turns are opaque; a spool, an object or a row is the number of leading events it covers.
Variables are grouped as what survives a crash (`db`, `disk`), what the Backend has
(`cloud`) and what a crash loses (`memory`). `drain.pc` is where `performDrain` waits.
Deadlines are `now`, `later`, `due`, `never`; the timer remembers for which rows it was
armed, because what matters is whether anything will look at a waiting row again.
A call of `capture` is a batch: `capturing` is the session whose batch is under way, or the turn
it is appending to, and any number of appends and seals lie between `CaptureBegins` and
`CaptureEnds`. As in `captureEntries`, only the end of a batch schedules a drain. A batch that
throws before, because `appendFile` fails (`AppendFails`) or the outbox is full (`AppendBegins` at
capacity), leaves what it sealed to whatever looks next.
Which faults may happen is the constant `Faults`.

| Code | Actions |
|---|---|
| `capture` | `CaptureBegins`, `CaptureDefers`, `AppendBegins`, `AppendEnds`, `AppendFails`, `SealInterrupted`, `CaptureEnds` |
| `performDrain`, `advance` | `PickTurn`, `FilePrepared`, `PrepareAnswers`, `CredentialExpired`, `PutAnswers`, `CommitAnswers`, `CallFails`, `DrainEnds` |
| `finalizeHistory` | `PickFinalization`, `FinalizationAnswers` |
| constructor, `activate` | `Start` |
| host calls | `QueueHistoryFinalization`, `RestoreHistoryReceipts`, `ResumePublished`, `BindingBegins`, `BindingEnds`, `Close`, `Aborted`, `Closed` |
| environment | `Crash`, `CrashBeforeRemoval`, `HandedOver`, `IntentExpires`, `TimerFires`, `DeadlinePasses` |

### LiveEventBatcher

Events of a session are 1, 2, ...; `head` is the canonical history. `order` and `pending`
are the `sessions` map (insertion order matters: it is the rotation between sessions),
`flight[s]` is what `consume` of `s` waits for. Time is counted in ticks left until a
deadline. A batch may be cut after any event within the limit of items, which covers the
limit of bytes. A page of the history is any answer that `consume` accepts (`Valid`): full, with
gaps, or empty, as `readRange` answers for a session it does not own (`host.ts:1305`). The cursor passes
over what a page leaves out (`ReplayPasses`, `Published`), so such events are `withheld`, and the
properties speak of the events that are *owed*: taken by `enqueue` and not withheld. `Early` is how many
ticks before its deadline a timer may fire: Node cuts a fractional delay to whole milliseconds, so
it is 1 in both runs. `dozing` records that a timer fired with nothing due, or that `flush()` took it
away, and that nothing has set one since.

| Code | Actions |
|---|---|
| `enqueue` | `EventArrives`, `EventRepeats`; `EventMissed` is an event the subscription loses |
| `schedule`, `drain` | `TimerFires`, `Tick` |
| `consume` | `ReplayAnswers`, `ReplayPasses`, `ReplayAfterClose`, `Published`, `Fails` |
| `flush`, `close` | `Flush`, `FlushGoesOn`, `Close` |

### SessionWriter, SessionOwnership, SessionHandoff

`SessionWriter` is the abstract specification: at most one instance executes the session, a term
belongs to one instance for good, terms only grow. `SessionHandoff` implements it with
`writer <- Executor` (the instance with a live or disposing agent), `term <- row.epoch`,
`titular <- row.owner`. `SessionOwnership` has one pair of operators (test, new row) for each
SQL statement. In `SessionHandoff` an action is what a process does between two awaits:

| Code | Actions |
|---|---|
| `acquire`, `acquireOwned`, `activateOwned` | `Acquire`, `StopAsking`, `Activate`, `ActivateRefused`, `ActivateJoins`, `Commit`, `CommitRefused`, `Acquired`, `AcquiredLate` |
| `restoreExited`, `requestPeer` | `Restore`, `ProbeAnswered`, `ProbeRefused`, `Recover` |
| the `/release` handler, `registry.release` | `Serve`, `Drained`, `DrainFailed`, `Disposed`, `DisposeFailed`, `Acknowledge` |
| `registry.command`, `runtime.ts` | `Admit`, `Attach`, `FinishCommand`, `Route` |
| `create`, `resume`, `close` | `Resume`, `Resumed`, `ResumeFailed`, `Close` |
| DSH and the operating system | `NativeDispose`, `Wake`, `FinishTurn`, `Exit` |

What `acquireOwned` does before its first await is `Proceed`, a part of the three actions that come to
it (`Acquire`, `StopAsking`, `Recover`): throw while this instance releases the session, commit at once
with a published agent, or begin to activate.

Abstractions: one command per instance at a time; the probe of an exited owner is part of the
acquisition flight (`acq[i].pc`), which serializes both; `Route` reads the row and delivers in one
step (the receiver checks the row again); an activation that a release has overtaken is refused before
it takes the lock (`ActivateRefused`), where the code takes the lock and is refused at the commit,
because the release has changed the row; a process that starts again is a new instance, as its
identifier is. A turn starts by itself (`Wake`) only on an agent that can be seen, or while it drains.

### TeamMessage, SendQueue

`TeamMessage` is the abstract specification: each message has a content that is fixed once, an
intent to cancel that is never taken back, what the sender is told of it for good, and its fate at the
server. `SendQueue` implements it with `content` and `intent` of the state file, `says <- Said` (the
state of the stored task if it is final, else open), `fate` and `shown` of the server. The mapping says
nothing of jobs, copies, requests on their way, the drain or the account.

`stored` is the state file, `job[l]` what holds lane `l` (a run, a cancel or a retry) with the copy
it works on, `drain` the drain. A job is in a call (`at = "call"`), about to save, or past a
save. `sea` is the set of requests the server may still hear, also after the caller gave up;
`content` numbers the upload a message's content was built from, so that a message sent
with other content can be told. Faults (`Faults`): a call fails or its answer is lost, a write
fails, the server refuses, the host restarts, the account is signed out.

| Code | Actions |
|---|---|
| `enqueue`, `retry`, `cancel` | `Enqueue`, `Enqueued`, `EnqueueFails`, `Retry`, `Cancel` |
| `drain` | `StartDrain`, `Look`, `StartRun`, `EndDrain` |
| `run`, `completeCancellation` | `TimelineAnswers`, `UploadEnds`, `Answered`, `CallFails`, `Lost`, `Save`, `Saved`, `SaveFails` |
| `pause`, start, account | `SignOut`, `Pause`, `SignIn`, `Restart` |
| server (external) | `Deliver`, `Refused`, `Publish` |

Left out: pruning of old tasks beyond 100 and the refusal of the 101st; `nextAttemptAt` (a retry may
come at any time); the recovery of old reply conflicts; a recalled message (the same as a published
one here); file contents. `currentUser()` answers from the cached session, so the drain's
look at the tasks and its start of a run are one step; with a real await there, a `cancel` that
starts and ends in it would be overwritten by the drain's copy.

### CommandVerdict, RemoteCommands

`CommandVerdict` is the abstract specification: a command is taken once at most, one verdict on it is
given for good, the verdict "completed" is true, and a response says "completed" only if that is the verdict.
A rejection promises nothing: the command may have been taken, or may still be. `RemoteCommands` implements
it with `taken <- accepted`, `verdict <- Judged` (what the ledger says once it is settled), `told <- answers`.

`ledger[c]` is the newest event of a command, `work[h][c]` where `dispatchWrite` of host `h` is with
it, `todo[h]` what an activation has read and not come to, `orphans` the calls to DSH whose
caller has gone, `accepted[c]` how often DSH took it, `answers` what controllers have been told.

| Code | Actions |
|---|---|
| `receive`, `recoverOpening`, `tick` | `Receive`, `Open`, `OpenFails`, `Drop`, `Start`, `Expire` |
| `command` (`host.ts:1631`), `dispatchWrite`, ledger | `TurnAway`, `Begin`, `Accept`, `Finish`, `Refuse`, `Break` |
| `reconcileUnsettled` | `Look`, `Reconcile` |
| `syncSession`, `deactivateAccount` | `Activate`, `Connect`, `Leave` |
| DSH, the handoff (external) | `OrphanEnds`, `Move` |

A response has one of two statuses. The host publishes every error as `rejected` (`host.ts:1640`):
a recovery that failed on a host without the writer, which does not look at the ledger (`OpenFails`), a check
before the ledger (`TurnAway`), an outcome that is unknown, a refusal on record. A refusal on record may itself
follow an acceptance: `requestPeer` makes the code `REMOTE_NOT_FOUND` of every peer answer but 200
(`local-session-coordinator.ts:114`), so `Refuse` may come before or after `Accept`, and DSH may take the
command even later (`orphans`). The ledger keeps "refused" and "unknown" apart; the controller cannot,
except by the code, which the model leaves out.

Commands are those DSH answers for by their rpcId in the history of the session (queued prompts), and the
hosts those of one computer, which have a copy of it each. Each ledger operation is one step: two
processes interleaving the read and the append inside `complete` and `markOutcomeUnknown` are outside
the model.
An expired command that waited for `requireSessionOwnership` is still begun, in the model as in the code.
`cleanup()` is not modelled.

## Runs

| Run | Instance and bounds | Shows |
|---|---|---|
| `rc_stored` | 3 reads of one key over one account route that takes one at a time, stored and put on cooldown, one a refresh, one with a recovery attempt; key invalidations; one account generation with its new route, or one dispose | `StoresCurrent`, `SingleFlight` |
| `rc_live` | a shared read with 2 recovery attempts, a leaving foreground and a background subscriber, and a streamed write; one transport, one queue place, bursts of 1; fair | `TypeOK`, `BudgetKept`, `NoStrandedWaiter`, `QueueBounded`, `SharedReadSurvives`, `PriorityFollowsSubscribers`, `EveryCallReturns` |
| `rc_cooldown` | 3 writes of a service with one place | finding 1 |
| `tu_durable` | 1 turn of up to 2 events, every fault but bindings | `TypeOK`, `ReceiptsTrue`, `PendingExact`, `PayloadSafe` |
| `tu_two` | 2 turns of one session (alike: symmetry), capacity of one event, crashes, batches that throw after a seal because an append fails or the outbox is full, errors, source bindings | `HistoryProven`, `NewWorkWakes` |
| `tu_live` | 2 turns of one session, up to 3 events of a turn and room for 3 in all, so that batches meet the capacity; no other faults, fair | `EverySealedUploads` unless the outbox is full, `HistoryFinalizes` unless a sealed turn cannot be read |
| `tu_lost` | 2 sessions that change hands, fair | finding 2 |
| `lb_live` | a session of 2 events and one of 1, one flight, one buffer place, batches of 2; missed and repeated events, full, partial and empty pages, timers that fire early, failures, flush, close; fair | `BufferExact`, `InOrder`, `OnceEach`, `NothingForgotten`, `EverythingDelivered` unless the batcher dozes |
| `lb_early` | a session of 1 event whose batch fails; fair | finding 3 |
| `sh_two` | 2 instances, epochs to 3, one prepared transfer, one exit, every fault; fair | `TypeOK`, `WriterOwnsRow`, `WorkUndisturbed`, `ReleasedIsQuiet`, `OneWriter` (refinement), `ExitedOwnerReplaced`, `EverySendSettles` |
| `sq_lanes` | 2 messages of two conversations, one place, 2 uploads of a task, one trouble of any kind; fair | `TypeOK`, `CancelledStaysUnsent`, `FrozenRequest`, `NoIdlePlace`, `IntentKept`, `OneFate` (refinement), `EveryTaskSettles` |
| `rm_two` | 2 hosts, 2 commands (both alike: symmetry), 4 departures or moves | `TypeOK`, `AcceptedOnce`, `ReportsTrue`, `OneVerdict` (refinement) |

Why the bounds are enough. In the coordinator the hazards are races between a flight, a
second flight or subscriber of the same key, and one competitor for its place: three calls
have all of them, and limits of one make every wait happen. Longer queues add only more of
the same order, which the proofs cover for any number. In the outbox two events tell a
spool that is ahead of its row from one that is not, and two turns are what a finalization
or the choice of the next row can confuse; capacity 1 makes the outbox full. In `tu_live` three
places let one turn fill the outbox after another was sealed, and be emptied again. In the batcher the other
session fills the one buffer place, so that of two events either may be the one that is omitted.
In the handoff two instances are requester, owner and, in turn, rival; what a third adds is
another requester whose request is refused, and the proofs hold for any number. `MaxEpoch` is
the code's own last epoch, which is 2^53 - 1 there. In the queue two lanes compete for one place;
two lanes per place are what the second place of the code would have too.
For commands two hosts are a dispatch and its duplicate, and two commands what an activation
goes through one after the other.
Named bounds, all of them in guards: `MaxGen`, `MaxEpoch`, `MaxDisposals` (generations of routes, of
which a new account generation and a disposal take one each; account invalidations; disposals), `MaxEvents`
(events of a turn), `MaxSeq` (events of a session), `MaxTransfers`, `MaxExits`, `MaxUploads`, `MaxTroubles`; an
event is repeated at most once. `Capacity` is the code's own limit.

Deadlock is not checked: every instance may stop when its calls, turns or events are used up.
That nothing stops too early is what the liveness properties say.

## Fairness

- *Coordinator*: weak fairness of each flight's and each caller's continuations (the event
  loop runs what is ready; operations end because the transports below carry timeouts) and of the
  clock (`Refill`, `CooldownEnds`, the timer). None for invalidations, hang-ups or expiry.
- *Outbox*: weak fairness of the drain's steps (requests have timeouts, so they are
  answered), appends, ends of batches, start and the timer; strong fairness of `DeadlinePasses`,
  because a deadline that is set again and again still passes each time, and of `BindingEnds`,
  because the tail of captures is a queue: a binding waits only for the batches before it. None for faults.
- *Batcher*: weak fairness of the timer, of ticks, of the flush loop and of each flight
  (a publication is answered one way or another); strong fairness of successful reads (`Reads`) and
  publications (`Publishes`): a batch that is tried again and again is published or passed over in the
  end. Without it a Backend that refuses for ever would be the counterexample.
- *Handoff*: weak fairness of each instance's own steps (requests have timeouts, setups and
  disposals end) and of turns that end; strong fairness of `Commit`: a setup that is tried again and
  again does not always fail. Weak fairness of `Acquire` says that users keep sending, which is what
  replaces an owner that is gone. None for exits of running instances, faults or wake-ups.
- *Send queue*: weak fairness of jobs, of the drain, of the server and of signing in again;
  `EveryTaskSettles` is promised once the user leaves the messages alone (`LeftAlone`).
- *Remote commands*: no liveness is stated. The ledger promises no result in bounded time:
  an entry whose command has not expired when its host is activated is looked at again only when
  the controller sends it again.

## Proofs

`RequestCoordinatorProofs` proves, for every set of calls and every table of limits that
satisfies `AdmissionAssumption` and `RequestAssumption` (finite sets, natural bounds, positive maxima where the
code's `resolveLimit` guarantees them):

| Theorem | States |
|---|---|
| `CoordinatorInvariant` | the inductive invariant `CoordinatorInv` |
| `TypesKept` | `TypeOK`: in particular tokens never go below zero |
| `BudgetAlwaysKept` | `BudgetKept`: counters equal the permits out under each limit and stay within its maximum |
| `NobodyStranded` | `NoStrandedWaiter`: a waiter none of whose limits is full has the timer armed |

`BudgetKept` is not inductive alone. A release is right only if the flight holds the permit it gives
back, under the lane it was counted on, so `PermitsInv` says that exactly `granted` and
`running` flights hold permits, and holds them for what they were admitted with. A drain is right only if it
looks at each waiter once, so tickets are distinct and below `sequence`. Aborting a flight is
right only if it is not yet counted or still holds its permit, so `CallsInv` says that what is queued or
backing off was not aborted. `NoStrandedWaiter` follows a drain from `DrainKeeps`: when the loop stops,
each waiter left lacks a place or a token; those that lack only a token arm the timer.
The lemmas go from one drain (`DrainKeeps`, by counting: `PassFits`, `CountMoves`) to each kind of
step (`AcquireStep`, `ReleaseStep`, `ReprioritizeStep`, `AbortStep`, ...) to each group of actions
(`RunSteps`, `ProgressSteps`, `CallerSteps`, `InvalidationSteps`, `ClockSteps`), and `Inductive` combines them.

`RequestReadsProofs` goes on from that invariant to the shared reads:

| Theorem | States |
|---|---|
| `StoresStayCurrent` | `StoresCurrent`: nothing stored is of a former account generation or was overtaken by an invalidation |
| `ReadsStaySingle` | `SingleFlight`: two transports of one key have an abort or an invalidation between them |
| `SubscribersKeepTheirRead` | `SharedReadSurvives`: nobody's transport is cancelled because others left |
| `LaneFollowsSubscribers` | `PriorityFollowsSubscribers`: the lane of a queued read is the one its subscribers ask for |
| `QueueStaysBounded` | `QueueBounded`: the pool's and every service's queue |

`ReadsInv` ties the record `inFlight` to the flights from both sides: what is on record is under way, of this
key and generation and not overtaken (`Tracked`), and a transport that is under way, not overtaken and not
aborted is the one on record (`Alone`). The first makes what `Publish` stores current (`Fits`), both
together make `RunStarts` the only way to a second transport. Callers that have not left count as subscribers
(`Counted`), so the last one to leave leaves nobody behind. The lane is right for retries too, because it
is kept up to date while a read backs off (`Ranked`). The bound of a queue survives lane changes because
whether a permit waits for the pool or a service depends on its request alone (`LastingNeeds`); the bound of
a lane's queue does not, and is not claimed.

`SessionHandoffProofs`, for any instances and any row that SQL leaves:

| Theorem | States |
|---|---|
| `HandoffInvariant` | the inductive invariant `IInv` |
| `HandoffTypes`, `WriterAlwaysOwnsRow`, `WorkNeverDisturbed`, `ReleasedAlwaysQuiet` | `TypeOK`, `WriterOwnsRow`, `WorkUndisturbed`, `ReleasedIsQuiet` |
| `HandoffImplementsWriter` | every step is a step of `SessionWriter` or a stutter (`OneWriter`) |

That a writer owns the row holds only because a commit checks the row and the lock in one go, so the
invariant carries who holds DSH's lock (`AgentHoldsLock`) and what a release knows: it prepared the row
itself and until a successor takes it over nothing moves it (`ReleasePinsRow`), an agent is disposed by a
release only (`DisposalIsRelease`). `ReleasedIsQuiet` speaks of the lock too: a release that
has disposed the agent gave the lock back, and who holds it while his own row says released is acquiring
anew (`LockGivenBack`). That nobody's work is cut off needs two steps that lie apart: behind a
fence nothing new begins, except what wakes up while the journal drains (`FencedIsQuiet`), and work needs
the published agent (`WorkNeedsAgent`). For the refinement: the row's owner and epoch change only where an agent is
registered or committed (`Resumed`, `Proceed`, `Commit`), and the lock says that no other
instance has an agent then.

`RemoteCommandsProofs`, for any hosts and commands: `CommandsInvariant`, `CommandsTypes` (`TypeOK`),
`CommandsAcceptedOnce` (`AcceptedOnce`), `CommandsReportTruth` (`ReportsTrue`), `CommandsStaySettled`
(`SettledStays`, which is part of `OneVerdict`), and `CommandsImplementVerdict` (`OneVerdict`): every step is a step
of `CommandVerdict` or a stutter. The invariant is a statement about one command, and a step about another
leaves it alone (`SameGood`). A command the ledger does not know was touched by nobody (`Untouched`); at most
one call to DSH is out, as a call or as the orphan of a host that left or gave up (`OneCall`), which is why none
takes it twice; the ledger says "completed" only of what was taken, and "refused" only when no host waits
for a call any more (`Recorded`); an answer "completed" has its entry (`Told`). Steps that come before the ledger
(`EarlyGood`) and calls that fail, with a code or without (`FailsGood`), are two lemmas for several actions each.
For the refinement, a step that settles or answers is one `Conclude` (`Concludes`): what it writes is true when it
is written, it leaves a settled entry as it is, and if it answers "completed" that is then recorded; the steps
that only reject are the simple case (`Rejects`). DSH takes a command only if it has not yet (`TakenOnce`,
by `OneCall`). What a host finds in the ledger when its call fails is `FailsRecorded`: never nothing, and never
a refusal.

`LiveEventBatcherProofs`, for any sessions, limits and delays: `BatcherInvariant`, `BatcherInOrder`
(`InOrder`), `BatcherOnceEach` (`OnceEach`), `BatcherForgetsNothing` (`NothingForgotten`), `BatcherBufferExact` (`BufferExact`).
The invariant
speaks of one session and of the events it is owed (taken, and not left out by an answer of the history): what
was published is in order (`History`), what is buffered lies between cursor and high-water mark and may follow
what was published (`Within`, `Sound`), no owed event is outside both (`Remembered`), and a flight publishes the
front of the buffer or a page that holds all that is owed of its range (`Linked`, `Covers`). The last is what
a publication that ends after more events have arrived depends on. An answer with gaps shrinks what is owed
before its page is published, and every part of the invariant survives that (`Shrinks`).
A session has one place in the map (`OneEach`). `MovedInv` is what becomes of a session whose
cursor moves, after a publication (`PublishedInv`) or over an empty page (`PassesInv`). That `buffered` is what the sessions hold together is proved by counting
columns (`ColumnGrows`, `ColumnShrinks`): one session changes at a time, and one that leaves the
map has nothing buffered any more (`CountInv`).

`SendQueueProofs`, for any tasks, lanes, places and any number of troubles and uploads:

| Theorem | States |
|---|---|
| `QueueInvariant` | the inductive invariant `IInv` |
| `QueueTypes`, `QueueCancels`, `QueueReportsTruth`, `QueueFreezes` | `TypeOK`, `CancelledStaysUnsent`, `SentIsPublished`, `FrozenRequest` |
| `QueueKeepsIntent` | `IntentKept` |
| `QueueNeverIdles` | `NoIdlePlace`: a task that may run and a free place are never left with nobody to look |
| `QueueImplementsMessage` | every step is a step of `TeamMessage` or a stutter (`OneFate`) |

A save writes a copy whole, so whatever is to hold of the stored task must hold of the copies jobs work on
(`Doing`): what a copy says is true of the server (`True`), it has the intent and the content of the stored
task, and the steps that lead to a send are never taken with an intent. `Recorded` says of the stored task that
without content nothing was ever asked of the server, which is why a cancellation may then be local, and
that with content the server knows no other. What is true stays true while the server moves on, because
published and cancelled are final and an unsent message can only be withdrawn (`Advances`, `StaysTrue`).

`NoIdlePlace` is inductive only without its condition on the account: while the drain waits and a place is
free, no task on disk is ready (`RestInv`), which whatever makes a task ready or frees a place keeps by waking the
drain; and one task at most is being written, so the write that ends leaves no other behind. For the refinement one more fact is needed (`Meant`): no copy withdraws
a message, none is written as cancelled, and the server has withdrawn none, without the intent on disk. A save
is then `Write`, because what its copy says is true of the server and the stored content and intent
are those of the copy; the server's steps are `Hear`, `Publish` and `Withdraw`.

`TurnUploadProofs`, for any turns and sessions and every combination of faults:

| Theorem | States |
|---|---|
| `OutboxInvariant` | the inductive invariant `OutboxInv` |
| `OutboxTypes`, `CapacityIsExact` | `TypeOK`, `PendingExact`, whatever faults happen |
| `HistoriesAreProven`, `WorkIsAwakened` | `HistoryProven`, `NewWorkWakes`, whatever faults happen |
| `WholeUploadsKeepReceipts`, `WholeUploadsKeepPayloads` | `ReceiptsTrue`, `PayloadSafe`, whatever faults happen, as long as `ObjectMatchesSpool` holds |
| `UploadsAreWhole` | `ObjectMatchesSpool`, if crashes and bindings are not both among the faults (`Tidy`) |
| `ReceiptsStandForCommits`, `PayloadsAreSafe` | hence `ReceiptsTrue`, `PayloadSafe` under `Tidy` |

The drain waits for a row in the state its call is about, and no other step changes that state
(`DrainInv`); so the answer of a call still fits the row. `HistoryProven` needs that a proof read before the
call stays true during it, hence that receipts go only at a start and in a binding, and then with what
was concluded from them. `PayloadSafe` needs where the events are at any moment (`Whole`): in the spool, which
holds what the row counts, until the Backend has all of it; a spool without a row is one the Backend
has. Every step keeps that if what is committed is the spool, so the one way to lose an event is to upload
another object (`WholeNext`). That objects are copies of their spools is part of the invariant under `Tidy`
(`KeptOf`: no files without a row), and `Tidy` is needed: a crash between commit and removal leaves
files, a binding deletes the receipt, and the turn that is captured again meets the old object (`ObjectMatchesSpool` under [observations](#observations-without-a-run)).
`NewWorkWakes` is proved group by group: a drain ends with its timer set or goes on (`DrainWakes`), a batch
that ends, a finalization and a binding schedule a drain (`CaptureWakes`, `HostWakes`), and what only makes time
pass leaves asleep what was asleep (`TimeWakes`, `SleepsOn`). What is left are batches that throw.
`PendingExact` counts the events of uncommitted rows as columns: a step changes one row, or clears rows whose
events it no longer counts, and a row that is gone has no events (`ChargeInv`); it also bounds `pending`, the part
of `TypeOK` that `Types` lacks. That a drain always finds a next row is `NextReadyExists`, by
`LastElement`, which the queue of the coordinator uses too.

Every invariant and every action property that a passing run checks is stated by a theorem, the three
refinements included. Only model-checked: the liveness properties `EveryCallReturns`, `EverySealedUploads`,
`HistoryFinalizes`, `EverythingDelivered`, `ExitedOwnerReplaced`, `EverySendSettles` and `EveryTaskSettles`
(fairness and ENABLED are beyond the proof system).

## Findings

1. `rc_cooldown`: a failed call releases its permit, and the drain admits the next call of
   the service, before the service's cooldown is set (`request-coordinator.ts:447`), although
   `docs/request-coordination.md:33` says a 429 pauses the whole service.
2. `tu_lost`: `scheduleDrain` replaces the timer of a waiting row with one for new work; the drain
   that follows finds nothing due and arms none, so a session that was handed away and returned is
   not uploaded until some later capture (`turn-upload-outbox.ts:1086`).
3. `lb_early`: `schedule()` hands `setTimeout` a fractional delay, which Node cuts, so the timer may fire before a
   failed session is due; `drain()` compares the clock, starts nothing, and no other timer is set
   (`live-event-batcher.ts:96`). `docs/dsh-remote-liveness.md:40` says a failed preparation is retried
   after two seconds; here it waits for the next event of any session or the end of another flight.

### Observations without a run

What the models show and no document promises otherwise, or what no run has room for:

- `TurnUpload` with `Faults = {"crash", "binding"}` violates `ObjectMatchesSpool`: an object file left by
  a crash after COMMITTED, whose row a source binding deletes, is uploaded for the turn captured
  again (`turn-upload-outbox.ts:907`).
- A batch of `capture` that throws after it sealed a turn schedules nothing
  (`turn-upload-outbox.ts:431`), and the host only records the error (`host.ts:1376`): the sealed turn sleeps
  until the next capture, start or call of the host. `NewWorkWakes` says that nothing else puts due work
  to sleep, and `EverySealedUploads` excepts a full outbox for this reason.
- The batcher's cursor passes over whatever an answer of the history leaves out (`live-event-batcher.ts:141`); the
  host answers for a session that is not owned with an empty page (`host.ts:1305`), so its events are skipped
  and not only delayed. `flush()` disarms the timer of sessions that back off, but only while the account is
  deactivated. `schedule()` keeps an earlier timer, which may then fire with nothing due.
- A response `rejected` does not tell the controller that the command was not taken or will not be: a recovery
  that fails is answered without the ledger (`session-channel.ts:301`), every failed peer answer becomes a code
  that the ledger records as a refusal (`local-session-coordinator.ts:114`), and the host gives every error
  the same status (`host.ts:1640`). No document promises otherwise. `AcceptedOnce` holds all the same.
- The abort of an abandoned shared read is kept as a failure cooldown (`request-coordinator.ts:295`).
- A turn that starts at full capacity gets a row that can never be uploaded once it is sealed
  (`turn-upload-outbox.ts:404`). Of two rows that keep failing the newer one is never tried (`:633`), and a
  row that fails for ever ends every drain before the finalizations are looked at (`HistoryFinalizes`
  excepts it).
- A release that is refused at once leaves its row in `releasing` with the owner alive and fenced off by
  its own row; only a recovery ends it (`local-session-coordinator.ts:79`). A prompt that loses the
  race to a rival fails instead of being routed to it, where
  `docs/dsh-local-session-takeover-plan.md:103` plans routing.
- A release that begins between the publication of an acquired agent and the end of
  `acquireOwned()` loses its fence (`local-session-registry.ts:60`); `WorkUndisturbed` holds all the same,
  because the drain looks again.
- `cleanup()` of the ledger deletes commands over its limit whatever their state; a pending one that is delivered
  again would be executed a second time, after 10000 newer commands (`command-ledger.ts:226`).

## Plan

Done: the six components with a module above, three abstract specifications with their refinements
(`SessionWriter`, `TeamMessage`, `CommandVerdict`), and the proofs of all six. Next, most important first:

1. `TurnCapture`: one journal of start, middle and end events, live delivery and backfill side by side, the spool
   as a set of events. Sealed turns stay as they are, a finalized scan has no holes, a replay never
   seals the live turn. Composes with `TurnUpload`, whose rows it refines, and with
   `LiveEventBatcher`, whose batches it takes.
2. Abstract specifications of the two remaining parts of the remote host: a turn whose events are captured, then
   held by disk or Backend for good, for `TurnUpload`; a log delivered in order, for `LiveEventBatcher`. Their
   safety is proved property by property now.
3. `SessionOwnershipStore`, `ReconcileLock`, `InstallTasks`, `RecordingImport`: small, each with one
   invariant worth having.

## Not modelled

Statistics, logging and wording; the clone of cached values; bytes of payloads and encryption;
the exact lengths of delays; the choice of a batch's size by bytes; the Backend beyond its answers; the
client and the services' request building, which have no protocol of their own; and the
components marked so in the inventory. Inside `TurnUpload` the events of a spool are only
counted, so a spool with a hole cannot be told from a full one: that is the subject of `TurnCapture`.
