---------------------------- MODULE SessionHandoff ----------------------------
(***************************************************************************)
(* The handoff of one local session between the instances that share its   *)
(* journal: src/src/local-session-coordinator.ts (the requester and the    *)
(* /release handler), local-session-registry.ts (fences, admission of      *)
(* commands, release of an agent) and the calls local-session-runtime.ts   *)
(* makes of them.  The row of the session and its SQL statements are in    *)
(* SessionOwnership.                                                       *)
(*                                                                         *)
(* External: the DSH writer lock (taken while an agent is set up, given    *)
(* back when it is disposed or its process ends) and the DSH agent.  An    *)
(* action is what one process does between two awaits.                     *)
(***************************************************************************)
EXTENDS SessionOwnership, FiniteSets

CONSTANTS MaxExits,   \* bound: instances that exit
          Faults      \* faults that may happen: see FaultKinds

(* flush: maintenance or the flush before a release fails; dispose: an     *)
(* agent's dispose rejects; setup: an activation fails or times out; late: *)
(* the 30 s of an acquisition end after its commit; native: DSH disposes   *)
(* the agent for reasons of its own; wake: a background job starts a turn. *)
FaultKinds == {"flush", "dispose", "setup", "late", "native", "wake"}

ASSUME HandoffAssumption ==
  /\ MaxExits \in Nat
  /\ Faults \subseteq FaultKinds

VARIABLES
  row,      \* the shared row of the session
  peers,    \* the instances whose address is published in the same database
  transfers,\* transfers prepared so far
  lock,     \* the instance that holds the DSH writer lock, or Nobody
  up,       \* "running" | "closing" | "gone"
  agent,    \* "none" | "acquiring" | "resuming" | "live" | "disposing"
  busy,     \* instances whose agent is in a turn
  cmd,      \* a command inside registry.command: "none"|"admitted"|"attached"
  fenced,   \* instances that fence the session
  release,  \* the release an instance is carrying out
  asks,     \* /release requests a handler has not come to yet
  acq       \* the acquisition flight of an instance and the row it has seen

vars == <<row, peers, transfers, lock, up, agent, busy, cmd, fenced, release, asks, acq>>
store == <<row, peers, transfers>>
execution == <<lock, agent, busy, cmd>>

-------------------------------------------------------------------------------

Stages == {"none", "draining", "disposing", "disposed"}
Pcs == {"idle", "probing", "recovering", "asking", "activating", "returning", "routing"}

Asks == [from : Instances, to : Instances, epoch : 0..MaxEpoch, waiting : BOOLEAN]

Releases == [stage : Stages, prepared : Rows,
             from : Instances \cup {Nobody}, waiting : BOOLEAN]
Acquisitions == [pc : Pcs, seen : Rows]

NoRelease == [stage |-> "none", prepared |-> NoRow, from |-> Nobody, waiting |-> FALSE]
Idle == [pc |-> "idle", seen |-> NoRow]

TypeOK ==
  /\ row \in Rows
  /\ peers \subseteq Instances
  /\ transfers \in 0..MaxTransfers
  /\ lock \in Instances \cup {Nobody}
  /\ up \in [Instances -> {"running", "closing", "gone"}]
  /\ agent \in [Instances -> {"none", "acquiring", "resuming", "live", "disposing"}]
  /\ busy \subseteq Instances
  /\ cmd \in [Instances -> {"none", "admitted", "attached"}]
  /\ fenced \subseteq Instances
  /\ release \in [Instances -> Releases]
  /\ asks \subseteq Asks
  /\ acq \in [Instances -> Acquisitions]

(* Every instance has started: its address is published, it executes       *)
(* nothing, and the session has no row yet.                                *)
Init ==
  /\ row = NoRow
  /\ peers = Instances
  /\ transfers = 0
  /\ lock = Nobody
  /\ up = [i \in Instances |-> "running"]
  /\ agent = [i \in Instances |-> "none"]
  /\ busy = {}
  /\ cmd = [i \in Instances |-> "none"]
  /\ fenced = {}
  /\ release = [i \in Instances |-> NoRelease]
  /\ asks = {}
  /\ acq = [i \in Instances |-> Idle]

-------------------------------------------------------------------------------
(* What an instance can tell about itself.                                 *)

Running(i) == up[i] = "running"
Mine(i) == row.owner = i /\ row.phase = "active"

(* registry.get: the fence hides a published agent.                        *)
Visible(i) == agent[i] = "live" /\ i \notin fenced

(* assertUnfenced, outside an acquisition.                                 *)
Unfenced(i) == i \notin fenced /\ (row = NoRow \/ Mine(i))

(* registry.release does not reject at once: no command is in flight, this *)
(* instance holds the published agent, and it is idle.                     *)
CanRelease(i) ==
  /\ release[i].stage = "none"
  /\ cmd[i] = "none"
  /\ agent[i] = "live"
  /\ i \notin busy

(* The agent of i is gone and the writer lock with it.  A command that had *)
(* captured the agent fails; one that had not yet goes on looking.         *)
AgentEnds(i) ==
  /\ agent' = [agent EXCEPT ![i] = "none"]
  /\ lock' = IF lock = i THEN Nobody ELSE lock
  /\ busy' = busy \ {i}
  /\ cmd' = [cmd EXCEPT ![i] = IF @ = "attached" THEN "none" ELSE @]

Acq(i, pc, seen) == acq' = [acq EXCEPT ![i] = [pc |-> pc, seen |-> seen]]
Settle(i) == acq' = [acq EXCEPT ![i] = Idle]

(* A 409 reaches a requester that still waits for it: HandoffDenied ends   *)
(* the acquisition and the prompt is routed to the owner instead.          *)
Deny(from, waiting) ==
  acq' = IF waiting THEN [acq EXCEPT ![from].pc = "routing"] ELSE acq

-------------------------------------------------------------------------------
(* The requester: LocalSessionCoordinator.acquire.                         *)

(* The commit callback of activateOwned, at the setup boundary of the      *)
(* agent: what it demands of the row now, and the row it leaves.           *)
CanCommit(i, seen) ==
  IF seen = NoRow THEN CanRegister(row, i)
  ELSE IF seen.owner = i /\ seen.phase = "active" THEN SameOwner(seen, row)
  ELSE IF seen.phase = "released" /\ seen.target = i THEN CanAcquire(row, seen, i)
  ELSE CanRecover(row, seen)

Committed(i, seen) ==
  IF seen = NoRow \/ (seen.owner = i /\ seen.phase = "active")
  THEN Registered(row, i)
  ELSE NextTerm(row, i)

(* acquireOwned, in the same turn of the event loop as the read of the row *)
(* before it: it throws while this instance still releases the session,    *)
(* commits at once with an agent it finds published, or starts activating. *)
Proceed(i) ==
  \/ /\ release[i].stage # "none"
     /\ Settle(i)
     /\ UNCHANGED row
  \/ /\ release[i].stage = "none" /\ Visible(i)
     /\ row' = IF CanCommit(i, row) THEN Committed(i, row) ELSE row
     /\ Settle(i)
  \/ /\ release[i].stage = "none" /\ ~Visible(i)
     /\ Acq(i, "activating", row)
     /\ UNCHANGED row

(* invoke() of a queued prompt.  An acquisition in flight is shared, so    *)
(* one starts only when none runs.  The row is read after the account      *)
(* check; a live, published owner is asked to release, otherwise the       *)
(* activation below has to get the writer lock.                            *)
Acquire(i) ==
  /\ Running(i)
  /\ acq[i].pc = "idle"
  /\ IF row.owner # i /\ row.phase = "active" /\ row.owner \in peers
     THEN /\ asks' = asks \cup {[from |-> i, to |-> row.owner, epoch |-> row.epoch,
                                  waiting |-> TRUE]}
          /\ Acq(i, "asking", row)
          /\ UNCHANGED row
     ELSE Proceed(i) /\ UNCHANGED asks
  /\ UNCHANGED <<peers, transfers, execution, up, fenced, release>>

(* The request to release is over: answered 200, timed out after 5 s, or   *)
(* refused by the network.  None of these is proof of a release: the row   *)
(* is read again.  The handler, if it runs, goes on by itself.             *)
StopAsking(i) ==
  /\ Running(i)
  /\ acq[i].pc = "asking"
  /\ Proceed(i)
  /\ asks' = {IF m.from = i THEN [m EXCEPT !.waiting = FALSE] ELSE m : m \in asks}
  /\ release' = [j \in Instances |->
                   IF release[j].from = i THEN [release[j] EXCEPT !.waiting = FALSE]
                                          ELSE release[j]]
  /\ UNCHANGED <<peers, transfers, execution, up, fenced>>

(* The activation of acquireOwned, up to the writer lock.                  *)
Activate(i) ==
  /\ acq[i].pc = "activating"
  /\ agent[i] # "acquiring"
  /\ Running(i)
  /\ ~Visible(i)
  /\ release[i].stage = "none"
  /\ lock = Nobody
  /\ lock' = i
  /\ agent' = [agent EXCEPT ![i] = "acquiring"]
  /\ UNCHANGED <<store, busy, cmd, up, fenced, release, asks, acq>>

(* Mutant: waits for a lock that somebody holds.                           *)
ActivateRefusedUnlessHeld(i) ==
  /\ acq[i].pc = "activating"
  /\ agent[i] # "acquiring"
  /\ ~Visible(i) \/ ~Running(i)
  /\ release[i].stage # "none" \/ ~Running(i)
  /\ Settle(i)
  /\ UNCHANGED <<store, execution, up, fenced, release, asks>>

(* ... the lock is held, or a release began after acquireOwned did: the    *)
(* row it has seen has changed then, and its commit would be refused.      *)
ActivateRefused(i) ==
  /\ acq[i].pc = "activating"
  /\ agent[i] # "acquiring"
  /\ ~Visible(i) \/ ~Running(i)
  /\ release[i].stage # "none" \/ lock # Nobody \/ ~Running(i)
  /\ Settle(i)
  /\ UNCHANGED <<store, execution, up, fenced, release, asks>>

(* ... a native operation has published the agent meanwhile: activation    *)
(* returns that one, nothing was committed, and the caller disposes it.    *)
ActivateJoins(i) ==
  /\ acq[i].pc = "activating"
  /\ Running(i)
  /\ Visible(i)
  /\ AgentEnds(i)
  /\ Settle(i)
  /\ UNCHANGED <<store, up, fenced, release, asks>>

(* guardSetup's commit inside the acquisition, then register, then the     *)
(* agent is published.                                                     *)
Commit(i) ==
  /\ Running(i)
  /\ agent[i] = "acquiring"
  /\ CanCommit(i, acq[i].seen)
  /\ row' = Committed(i, acq[i].seen)
  /\ agent' = [agent EXCEPT ![i] = "live"]
  /\ Acq(i, "returning", NoRow)
  /\ UNCHANGED <<peers, transfers, lock, busy, cmd, up, fenced, release, asks>>

(* The row is not as it was seen, the instance closes, or the setup fails: *)
(* the agent is disposed before anybody could see it.                      *)
CommitRefused(i) ==
  /\ agent[i] = "acquiring"
  /\ ~CanCommit(i, acq[i].seen) \/ ~Running(i) \/ "setup" \in Faults
  /\ AgentEnds(i)
  /\ Settle(i)
  /\ UNCHANGED <<store, up, fenced, release, asks>>

(* acquireOwned returns the published agent and lifts the fence ...        *)
Acquired(i) ==
  /\ acq[i].pc = "returning"
  /\ Running(i)
  /\ fenced' = IF agent[i] = "live" THEN fenced \ {i} ELSE fenced
  /\ Settle(i)
  /\ UNCHANGED <<store, execution, up, release, asks>>

(* ... too late for its caller: the agent is disposed, the row stays.      *)
AcquiredLate(i) ==
  /\ acq[i].pc = "returning"
  /\ "late" \in Faults \/ ~Running(i)
  /\ IF agent[i] = "live" THEN AgentEnds(i) /\ fenced' = fenced \ {i}
                          ELSE UNCHANGED <<execution, fenced>>
  /\ Settle(i)
  /\ UNCHANGED <<store, up, release, asks>>

-------------------------------------------------------------------------------
(* The owner: the /release handler.                                        *)

(* What the handler finds after the account check, and what it does in the *)
(* same turn of the event loop: prepare, then registry.release up to its   *)
(* first await.  A release that is rejected at once is rolled back only    *)
(* while the registry still shows the agent.                               *)
Serve(i, m) ==
  /\ m.to = i
  /\ Running(i)
  /\ asks' = asks \ {m}
  /\ IF row.owner = i /\ row.epoch = m.epoch /\ row.phase = "active" /\ m.from \in peers
     THEN /\ transfers < MaxTransfers
          /\ transfers' = transfers + 1
          /\ IF CanRelease(i)
             THEN /\ row' = Prepared(row, m.from, transfers + 1)
                  /\ fenced' = fenced \cup {i}
                  /\ release' = [release EXCEPT ![i] =
                       [stage |-> "draining", from |-> m.from, waiting |-> m.waiting,
                        prepared |-> Prepared(row, m.from, transfers + 1)]]
                  /\ UNCHANGED acq
             ELSE /\ row' = IF Visible(i) THEN row
                                          ELSE Prepared(row, m.from, transfers + 1)
                  /\ Deny(m.from, m.waiting)
                  /\ UNCHANGED <<fenced, release>>
     ELSE /\ Deny(m.from, m.waiting)
          /\ UNCHANGED <<row, transfers, fenced, release>>
  /\ UNCHANGED <<peers, execution, up>>

(* Mutant: does not look again whether the agent is idle.                  *)
DrainedUnchecked(i) ==
  /\ release[i].stage = "draining"
  /\ agent[i] = "live"
  /\ agent' = [agent EXCEPT ![i] = "disposing"]
  /\ release' = [release EXCEPT ![i].stage = "disposing"]
  /\ UNCHANGED <<store, lock, busy, cmd, up, fenced, asks, acq>>

(* The journal is flushed under maintenance and the agent is still idle:   *)
(* its disposal begins.                                                    *)
Drained(i) ==
  /\ release[i].stage = "draining"
  /\ agent[i] = "live"
  /\ i \notin busy
  /\ agent' = [agent EXCEPT ![i] = "disposing"]
  /\ release' = [release EXCEPT ![i].stage = "disposing"]
  /\ UNCHANGED <<store, lock, busy, cmd, up, fenced, asks, acq>>

(* Mutant: lifts the fence but leaves the prepare.                         *)
DrainFailedUncancelled(i) ==
  /\ release[i].stage = "draining"
  /\ agent[i] # "live" \/ i \in busy \/ "flush" \in Faults
  /\ fenced' = IF agent[i] = "live" THEN fenced \ {i} ELSE fenced
  /\ Deny(release[i].from, release[i].waiting)
  /\ release' = [release EXCEPT ![i] = NoRelease]
  /\ UNCHANGED <<store, execution, up, asks>>

(* The agent went away or is no longer idle, or maintenance or the flush   *)
(* failed.  While the agent is there the fence is lifted and the prepare   *)
(* is cancelled; the requester is told no.                                 *)
DrainFailed(i) ==
  /\ release[i].stage = "draining"
  /\ agent[i] # "live" \/ i \in busy \/ "flush" \in Faults
  /\ fenced' = IF agent[i] = "live" THEN fenced \ {i} ELSE fenced
  /\ row' = IF agent[i] = "live" /\ CanTransition(row, release[i].prepared)
            THEN Cancelled(row) ELSE row
  /\ Deny(release[i].from, release[i].waiting)
  /\ release' = [release EXCEPT ![i] = NoRelease]
  /\ UNCHANGED <<peers, transfers, execution, up, asks>>

(* Inside dispose: the writer is closed, the promise not yet resolved.     *)
Disposed(i) ==
  /\ release[i].stage = "disposing"
  /\ AgentEnds(i)
  /\ release' = [release EXCEPT ![i].stage = "disposed"]
  /\ UNCHANGED <<store, up, fenced, asks, acq>>

(* Mutant: takes a disposal that was rejected for one that resolved.       *)
DisposeFailedIgnored(i) ==
  /\ release[i].stage = "disposing"
  /\ "dispose" \in Faults
  /\ lock' \in {lock, Nobody}
  /\ agent' = [agent EXCEPT ![i] = "none"]
  /\ release' = [release EXCEPT ![i].stage = "disposed"]
  /\ UNCHANGED <<store, busy, cmd, up, fenced, asks, acq>>

(* Dispose rejects: the writer may have been closed or not, and the fence  *)
(* stays.  The prepare is not rolled back.                                 *)
DisposeFailed(i) ==
  /\ release[i].stage = "disposing"
  /\ "dispose" \in Faults
  /\ lock' \in {lock, Nobody}
  /\ agent' = [agent EXCEPT ![i] = "none"]
  /\ Deny(release[i].from, release[i].waiting)
  /\ release' = [release EXCEPT ![i] = NoRelease]
  /\ UNCHANGED <<store, busy, cmd, up, fenced, asks>>

(* Dispose resolved: the release is recorded, unless a successor that got  *)
(* the lock first has taken the row; then the answer is 409.               *)
Acknowledge(i) ==
  /\ release[i].stage = "disposed"
  /\ LET ok == CanTransition(row, release[i].prepared)
     IN  /\ row' = IF ok THEN Released(row) ELSE row
         /\ IF ok THEN UNCHANGED acq ELSE Deny(release[i].from, release[i].waiting)
  /\ release' = [release EXCEPT ![i] = NoRelease]
  /\ UNCHANGED <<peers, transfers, execution, up, fenced, asks>>

-------------------------------------------------------------------------------
(* Native DSH operations under the registry.                               *)

(* registry.resume or create outside an acquisition, with no agent: its    *)
(* own session (or one without a row) is set up under the writer lock.     *)
Resume(i) ==
  /\ Running(i)
  /\ Unfenced(i)
  /\ agent[i] = "none"
  /\ lock = Nobody
  /\ lock' = i
  /\ agent' = [agent EXCEPT ![i] = "resuming"]
  /\ UNCHANGED <<store, busy, cmd, up, fenced, release, asks, acq>>

(* Its setup commit: unfenced still, and registered.                       *)
Resumed(i) ==
  /\ agent[i] = "resuming"
  /\ Unfenced(i)
  /\ CanRegister(row, i)
  /\ row' = Registered(row, i)
  /\ agent' = [agent EXCEPT ![i] = "live"]
  /\ UNCHANGED <<peers, transfers, lock, busy, cmd, up, fenced, release, asks, acq>>

ResumeFailed(i) ==
  /\ agent[i] = "resuming"
  /\ ~Unfenced(i) \/ "setup" \in Faults
  /\ AgentEnds(i)
  /\ UNCHANGED <<store, up, fenced, release, asks, acq>>

(* registry.resume of somebody else's active session: restoreExited asks   *)
(* whether the owner is there.                                             *)
Restore(i) ==
  /\ Running(i)
  /\ acq[i].pc = "idle"
  /\ i \notin fenced
  /\ row.phase = "active"
  /\ row.owner # i
  /\ Acq(i, "probing", row)
  /\ UNCHANGED <<store, execution, up, fenced, release, asks>>

(* It answers (or the probe times out): SessionAlreadyOwnedError.          *)
ProbeAnswered(i) ==
  /\ acq[i].pc = "probing"
  /\ acq[i].seen.owner \in peers
  /\ Running(acq[i].seen.owner) \/ ~Running(i)
  /\ Settle(i)
  /\ UNCHANGED <<store, execution, up, fenced, release, asks>>

(* It has no address, or the address refuses connections and is removed.   *)
ProbeRefused(i) ==
  /\ acq[i].pc = "probing"
  /\ acq[i].seen.owner \notin peers \/ ~Running(acq[i].seen.owner)
  /\ peers' = peers \ {acq[i].seen.owner}
  /\ Acq(i, "recovering", acq[i].seen)
  /\ UNCHANGED <<row, transfers, execution, up, fenced, release, asks>>

(* activateOwned with the exact exited owner: never a successor of it.     *)
Recover(i) ==
  /\ acq[i].pc = "recovering"
  /\ IF Running(i) /\ SameOwner(acq[i].seen, row)
     THEN Proceed(i)
     ELSE Settle(i) /\ UNCHANGED row
  /\ UNCHANGED <<peers, transfers, execution, up, fenced, release, asks>>

(* DSH disposes the agent itself.                                          *)
NativeDispose(i) ==
  /\ "native" \in Faults
  /\ agent[i] = "live"
  /\ AgentEnds(i)
  /\ UNCHANGED <<store, up, fenced, release, asks, acq>>

(* A job that reports, or a message left in the inbox, starts a turn that  *)
(* no command asked for.                                                   *)
Wake(i) ==
  /\ "wake" \in Faults
  /\ agent[i] = "live"
  /\ i \in fenced => release[i].stage = "draining"
  /\ busy' = busy \cup {i}
  /\ UNCHANGED <<store, lock, agent, cmd, up, fenced, release, asks, acq>>

-------------------------------------------------------------------------------
(* Commands: registry.command, for local callers and forwarded prompts.    *)

Admit(i) ==
  /\ Running(i)
  /\ cmd[i] = "none"
  /\ Unfenced(i)
  /\ cmd' = [cmd EXCEPT ![i] = "admitted"]
  /\ UNCHANGED <<store, lock, agent, busy, up, fenced, release, asks, acq>>

(* A prompt whose handoff was denied goes to the owner, which takes it     *)
(* only while the row still says so; otherwise the prompt fails.           *)
Route(i) ==
  /\ acq[i].pc = "routing"
  /\ LET p == row.owner
     IN  cmd' = IF p \in peers /\ Running(p) /\ cmd[p] = "none" /\ Unfenced(p)
                THEN [cmd EXCEPT ![p] = "admitted"] ELSE cmd
  /\ Settle(i)
  /\ UNCHANGED <<store, lock, agent, busy, up, fenced, release, asks>>

(* The admitted command finds the published agent ...                      *)
Attach(i) ==
  /\ cmd[i] = "admitted"
  /\ Visible(i)
  /\ cmd' = [cmd EXCEPT ![i] = "attached"]
  /\ UNCHANGED <<store, lock, agent, busy, up, fenced, release, asks, acq>>

(* ... and uses it, after its own awaits: a turn may start.  A command may *)
(* also end without.                                                       *)
FinishCommand(i) ==
  /\ cmd[i] # "none"
  /\ cmd' = [cmd EXCEPT ![i] = "none"]
  /\ busy' \in {busy} \cup (IF cmd[i] = "attached" THEN {busy \cup {i}} ELSE {})
  /\ UNCHANGED <<store, lock, agent, up, fenced, release, asks, acq>>

FinishTurn(i) ==
  /\ i \in busy
  /\ agent[i] = "live"
  /\ busy' = busy \ {i}
  /\ UNCHANGED <<store, lock, agent, cmd, up, fenced, release, asks, acq>>

-------------------------------------------------------------------------------
(* Processes come to an end.                                               *)

Exits == Cardinality({i \in Instances : up[i] # "running"})

(* close(): the address is withdrawn and the connections are cut.          *)
Close(i) ==
  /\ Running(i)
  /\ Exits < MaxExits
  /\ up' = [up EXCEPT ![i] = "closing"]
  /\ peers' = peers \ {i}
  /\ asks' = {m \in asks : m.to # i}
  /\ acq' = IF acq[i].pc \in {"asking", "routing"} THEN [acq EXCEPT ![i] = Idle] ELSE acq
  /\ release' = [release EXCEPT ![i].waiting = FALSE]
  /\ UNCHANGED <<row, transfers, execution, fenced>>

(* The process is gone, after close() or by a crash: a crash leaves its    *)
(* address behind.  The operating system gives the writer lock back.       *)
Exit(i) ==
  /\ up[i] # "gone"
  /\ up[i] = "running" => Exits < MaxExits
  /\ up' = [up EXCEPT ![i] = "gone"]
  /\ agent' = [agent EXCEPT ![i] = "none"]
  /\ lock' = IF lock = i THEN Nobody ELSE lock
  /\ busy' = busy \ {i}
  /\ cmd' = [cmd EXCEPT ![i] = "none"]
  /\ fenced' = fenced \ {i}
  /\ release' = [j \in Instances |->
                   IF j = i THEN NoRelease
                   ELSE IF release[j].from = i THEN [release[j] EXCEPT !.waiting = FALSE]
                   ELSE release[j]]
  /\ asks' = {IF m.from = i THEN [m EXCEPT !.waiting = FALSE] ELSE m :
                m \in {n \in asks : n.to # i}}
  /\ acq' = [acq EXCEPT ![i] = Idle]
  /\ UNCHANGED store

-------------------------------------------------------------------------------

Requester(i) ==
  \/ StopAsking(i) \/ Activate(i) \/ ActivateRefused(i) \/ ActivateJoins(i)
  \/ Commit(i) \/ CommitRefused(i) \/ Acquired(i) \/ AcquiredLate(i)
  \/ ProbeAnswered(i) \/ ProbeRefused(i) \/ Recover(i) \/ Route(i)

Owner(i) ==
  \/ \E m \in asks : Serve(i, m)
  \/ Drained(i) \/ DrainFailed(i) \/ Disposed(i) \/ DisposeFailed(i) \/ Acknowledge(i)

Native(i) ==
  Resume(i) \/ Resumed(i) \/ ResumeFailed(i) \/ Restore(i) \/ NativeDispose(i) \/ Wake(i)

Commands(i) == Admit(i) \/ Attach(i) \/ FinishCommand(i) \/ FinishTurn(i)

Next == \E i \in Instances :
  \/ Acquire(i) \/ Requester(i) \/ Owner(i) \/ Native(i) \/ Commands(i)
  \/ Close(i) \/ Exit(i)

Spec == Init /\ [][Next]_vars

(* Every promise the code waits for settles: its own steps, the network    *)
(* (a timeout at the latest), DSH's setup, disposal and commands.  A setup *)
(* that is tried again and again does not fail for ever (the strong        *)
(* fairness), and users keep sending from every running instance.          *)
Fairness == \A i \in Instances :
  /\ WF_vars(Acquire(i))
  /\ WF_vars(Requester(i))
  /\ SF_vars(Commit(i))
  /\ WF_vars(Owner(i))
  /\ WF_vars(Resumed(i) \/ ResumeFailed(i))
  /\ WF_vars(Attach(i) \/ FinishCommand(i))
  /\ WF_vars(FinishTurn(i))
  /\ WF_vars(up[i] = "closing" /\ Exit(i))

FairSpec == Spec /\ Fairness

-------------------------------------------------------------------------------
(* Properties.                                                             *)

(* A published agent writes the journal only under its owner's row: the    *)
(* row names its instance, and if it is not plainly active then a release  *)
(* of this very agent is under way (local-session-registry.ts:64-79,       *)
(* local-session-coordinator.ts:69-81).                                    *)
WriterOwnsRow == \A i \in Instances :
  agent[i] \in {"live", "disposing"} =>
    /\ row.owner = i
    /\ row.phase = "active" \/ (row.phase = "releasing" /\ release[i].stage # "none")

(* A release takes no work with it: no command was admitted before it that *)
(* still runs, none is admitted while it runs, and when the disposal of    *)
(* the agent begins no turn is in progress, whoever started it             *)
(* (local-session-registry.ts:102-115, 136-163).                           *)
WorkUndisturbed == \A i \in Instances :
  /\ release[i].stage # "none" => cmd[i] = "none"
  /\ release[i].stage \in {"disposing", "disposed"} => i \notin busy

(* "released" in the row is an acknowledgement: the agent that gave the    *)
(* session up is no longer writing and its writer lock was given back, so  *)
(* that the old owner holds the lock only to set the session up anew       *)
(* (local-session-ownership.ts:136, local-session-registry.ts:156-164).    *)
ReleasedIsQuiet == \A i \in Instances :
  row.phase = "released" /\ row.owner = i =>
    /\ agent[i] \notin {"live", "disposing"} /\ release[i].stage = "none"
    /\ lock = i => agent[i] = "acquiring"

(* The whole implements the abstract writer: one executor at a time, one   *)
(* owner per term, terms only grow.                                        *)
Executing == {i \in Instances : agent[i] \in {"live", "disposing"}}
Executor == IF Executing = {} THEN Nobody ELSE CHOOSE i \in Executing : TRUE

Writer == INSTANCE SessionWriter WITH
  writer <- Executor,
  term <- row.epoch,
  titular <- row.owner

OneWriter == Writer!Spec

OwnerGone == row.owner \in Instances /\ up[row.owner] = "gone"

(* When the owner of the session is gone, another instance gets it: sooner *)
(* or later the row names an instance that still runs, whatever the old    *)
(* owner left behind - a stale address, a half-done release, a fence.      *)
ExitedOwnerReplaced ==
  (OwnerGone /\ row.epoch < MaxEpoch) ~> (~OwnerGone \/ row.epoch = MaxEpoch)

(* Every prompt that waits for a handoff stops waiting.                    *)
EverySendSettles == \A i \in Instances :
  acq[i].pc = "asking" ~> acq[i].pc = "idle"

===============================================================================
