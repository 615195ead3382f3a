------------------------- MODULE SessionHandoffProofs -------------------------
(***************************************************************************)
(* Theorems about SessionHandoff for every set of instances, every bound   *)
(* and every set of faults.  The argument: whoever has an agent, in any    *)
(* stage, holds the DSH writer lock; the row of the session changes its    *)
(* owner only in the commit of an agent that is being set up under that    *)
(* lock; and a release in progress pins the row, because it is the only    *)
(* one that may move it on.                                                *)
(***************************************************************************)
EXTENDS SessionHandoff, TLAPS

USE OwnershipAssumption, HandoffAssumption

(* An agent, from the first moment of its setup to its disposal, is under  *)
(* the writer lock of its own process.                                     *)
AgentHoldsLock == \A i \in Instances : agent[i] # "none" => lock = i

(* What a release in progress knows: it prepared the row for itself; until *)
(* a successor takes the row over it stays exactly as prepared; no agent   *)
(* is set up meanwhile, and the agent's stage follows the release's.       *)
ReleasePinsRow == \A i \in Instances : release[i].stage # "none" =>
  /\ release[i].prepared.owner = i
  /\ release[i].prepared.phase = "releasing"
  /\ row.owner = i => row = release[i].prepared
  /\ row # NoRow
  /\ release[i].stage = "draining" => agent[i] \in {"none", "live"}
  /\ release[i].stage = "disposing" => agent[i] = "disposing"
  /\ release[i].stage = "disposed" => agent[i] = "none"

DisposalIsRelease == \A i \in Instances :
  agent[i] = "disposing" => release[i].stage = "disposing"

(* Behind a fence nothing is at work that the fence should have kept out,  *)
(* except what wakes up while the journal is drained.                      *)
FencedIsQuiet == \A i \in Instances :
  i \in fenced => cmd[i] = "none" /\ (release[i].stage # "draining" => i \notin busy)

(* A turn and an attached command need the published agent.                *)
WorkNeedsAgent == \A i \in Instances :
  i \in busy \/ cmd[i] = "attached" => agent[i] = "live"

(* The writer lock goes back before a release is recorded.                 *)
LockGivenBack == \A i \in Instances :
  /\ release[i].stage = "disposed" => lock # i
  /\ row.phase = "released" /\ row.owner = i /\ lock = i => agent[i] = "acquiring"

IInv ==
  /\ TypeOK
  /\ AgentHoldsLock
  /\ WriterOwnsRow
  /\ WorkUndisturbed
  /\ WorkNeedsAgent
  /\ ReleasePinsRow
  /\ DisposalIsRelease
  /\ FencedIsQuiet
  /\ LockGivenBack

-------------------------------------------------------------------------------
(* The statements of SessionOwnership leave a row.                         *)
LEMMA RowTypes ==
  ASSUME NEW r \in Rows, NEW i \in Instances
  PROVE  /\ NoRow \in Rows
         /\ Active(i, 1) \in Rows
         /\ Registered(r, i) \in Rows
         /\ Released(r) \in Rows
         /\ Cancelled(r) \in Rows
         /\ r.epoch < MaxEpoch => NextTerm(r, i) \in Rows
         /\ \A t \in 0..MaxTransfers : Prepared(r, i, t) \in Rows
<1>1. NoRow \in Rows /\ Active(i, 1) \in Rows
  BY DEF NoRow, Active, Rows, Phases
<1>2. Registered(r, i) \in Rows
  BY <1>1 DEF Registered
<1>3. Released(r) \in Rows /\ Cancelled(r) \in Rows
  BY DEF Released, Cancelled, Active, Rows, Phases
<1>4. r.epoch < MaxEpoch => NextTerm(r, i) \in Rows
  BY DEF NextTerm, Active, Rows, Phases
<1>5. \A t \in 0..MaxTransfers : Prepared(r, i, t) \in Rows
  BY DEF Prepared, Rows, Phases
<1> QED BY <1>1, <1>2, <1>3, <1>4, <1>5

(* Empty records, and records that lose their waiting requester.           *)
LEMMA RecordTypes ==
  /\ Idle \in Acquisitions
  /\ NoRelease \in Releases
  /\ \A m \in Asks : [m EXCEPT !.waiting = FALSE] \in Asks
  /\ \A r \in Releases : [r EXCEPT !.waiting = FALSE] \in Releases
<1>1. NoRow \in Rows
  BY DEF NoRow, Rows, Phases
<1>2. Idle \in Acquisitions /\ NoRelease \in Releases
  BY <1>1 DEF Idle, Acquisitions, NoRelease, Releases, Pcs, Stages
<1>3. \A m \in Asks : [m EXCEPT !.waiting = FALSE] \in Asks
  BY DEF Asks
<1>4. \A r \in Releases : [r EXCEPT !.waiting = FALSE] \in Releases
  BY DEF Releases
<1> QED BY <1>2, <1>3, <1>4

(* A commit that is allowed leaves a row of its own, active and typed.     *)
LEMMA CommittedRow ==
  ASSUME TypeOK, NEW i \in Instances, NEW seen \in Rows, CanCommit(i, seen)
  PROVE  /\ Committed(i, seen) \in Rows
         /\ Committed(i, seen).owner = i
         /\ Committed(i, seen).phase = "active"
         /\ Committed(i, seen) # NoRow
<1>1. CASE seen = NoRow
  BY <1>1, RowTypes DEF TypeOK, CanCommit, Committed, CanRegister, Registered, Active, NoRow
<1>2. CASE seen # NoRow /\ seen.owner = i /\ seen.phase = "active"
  BY <1>2, RowTypes DEF TypeOK, CanCommit, Committed, SameOwner, Registered, Active, NoRow
<1>3. CASE seen # NoRow /\ ~(seen.owner = i /\ seen.phase = "active")
  <2>1. row.epoch < MaxEpoch
    BY <1>3 DEF CanCommit, CanAcquire, CanRecover
  <2>2. Committed(i, seen) = NextTerm(row, i)
    BY <1>3 DEF Committed
  <2>3. row \in Rows
    BY DEF TypeOK
  <2>4. NextTerm(row, i) \in Rows
    BY <2>1, <2>3, RowTypes
  <2> QED BY <2>2, <2>4 DEF NextTerm, Active, NoRow
<1> QED BY <1>1, <1>2, <1>3

(* acquireOwned with an agent it finds published commits nothing new: the  *)
(* row already is its instance's own.                                      *)
LEMMA ProceedTypes ==
  ASSUME IInv, NEW i \in Instances, Proceed(i)
  PROVE  row' = row /\ acq' \in [Instances -> Acquisitions]
<1>1. row' = row
  <2>1. CASE release[i].stage = "none" /\ Visible(i)
    <3>1. row \in Rows /\ row.owner = i /\ row.phase = "active"
      BY <2>1 DEF IInv, TypeOK, WriterOwnsRow, Visible
    <3>2. row # NoRow
      BY <3>1 DEF NoRow
    <3>3. Committed(i, row) = row
      BY <3>1, <3>2 DEF Committed, Registered
    <3> QED BY <2>1, <3>3 DEF Proceed
  <2>2. CASE ~(release[i].stage = "none" /\ Visible(i))
    BY <2>2 DEF Proceed
  <2> QED BY <2>1, <2>2
<1>2. [pc |-> "activating", seen |-> row] \in Acquisitions /\ Idle \in Acquisitions
  BY RecordTypes DEF IInv, TypeOK, Acquisitions, Pcs
<1>3. acq' \in [Instances -> Acquisitions]
  BY <1>2 DEF Proceed, Acq, Settle, IInv, TypeOK
<1> QED BY <1>1, <1>3

-------------------------------------------------------------------------------
(* One lemma per action: it preserves the invariant.                      *)

LEMMA AcquireKeeps ==
  ASSUME IInv, NEW i \in Instances, Acquire(i)
  PROVE  IInv'
<1> USE DEF IInv, Acquire, execution
<1>0. row' = row /\ acq' \in [Instances -> Acquisitions]
  BY ProceedTypes DEF TypeOK, Acq, Acquisitions, Pcs
<1>1. TypeOK'
  <2>2. row.owner \in peers => row.owner \in Instances /\ row.epoch \in 0..MaxEpoch
    BY DEF TypeOK, Rows
  <2>3. row.owner \in peers =>
          [from |-> i, to |-> row.owner, epoch |-> row.epoch, waiting |-> TRUE] \in Asks
    BY <2>2 DEF Asks
  <2>4. asks' \subseteq Asks
    BY <2>3 DEF TypeOK
  <2> QED BY <1>0, <2>4 DEF TypeOK
<1>2. AgentHoldsLock'
  BY <1>0, <1>1 DEF AgentHoldsLock
<1>3. WriterOwnsRow'
  BY <1>0, <1>1 DEF WriterOwnsRow
<1>4. WorkUndisturbed'
  BY <1>0, <1>1 DEF WorkUndisturbed
<1>5. WorkNeedsAgent'
  BY <1>0, <1>1 DEF WorkNeedsAgent
<1>6. ReleasePinsRow'
  BY <1>0, <1>1 DEF ReleasePinsRow
<1>7. DisposalIsRelease'
  BY <1>0, <1>1 DEF DisposalIsRelease
<1>8. FencedIsQuiet'
  BY <1>0, <1>1 DEF FencedIsQuiet
<1>9. LockGivenBack'
  BY <1>0, <1>1 DEF LockGivenBack
<1> QED BY <1>1, <1>2, <1>3, <1>4, <1>5, <1>6, <1>7, <1>8, <1>9 DEF IInv

LEMMA StopAskingKeeps ==
  ASSUME IInv, NEW i \in Instances, StopAsking(i)
  PROVE  IInv'
<1> USE DEF IInv, StopAsking, execution
<1>0. row' = row /\ acq' \in [Instances -> Acquisitions]
  BY ProceedTypes
<1>1. TypeOK'
  <2>2. asks' \subseteq Asks
    BY RecordTypes DEF TypeOK
  <2>3. release' \in [Instances -> Releases]
    BY RecordTypes DEF TypeOK
  <2> QED BY <1>0, <2>2, <2>3 DEF TypeOK
<1>2. AgentHoldsLock'
  BY <1>0, <1>1 DEF AgentHoldsLock
<1>3. WriterOwnsRow'
  BY <1>0, <1>1 DEF WriterOwnsRow
<1>4. WorkUndisturbed'
  BY <1>0, <1>1 DEF WorkUndisturbed
<1>5. WorkNeedsAgent'
  BY <1>0, <1>1 DEF WorkNeedsAgent
<1>6. ReleasePinsRow'
  BY <1>0, <1>1 DEF ReleasePinsRow
<1>7. DisposalIsRelease'
  BY <1>0, <1>1 DEF DisposalIsRelease
<1>8. FencedIsQuiet'
  BY <1>0, <1>1 DEF FencedIsQuiet
<1>9. LockGivenBack'
  BY <1>0, <1>1 DEF LockGivenBack
<1> QED BY <1>1, <1>2, <1>3, <1>4, <1>5, <1>6, <1>7, <1>8, <1>9 DEF IInv

LEMMA ActivateKeeps ==
  ASSUME IInv, NEW i \in Instances, Activate(i)
  PROVE  IInv'
<1> USE DEF IInv, Activate, store
<1>1. TypeOK'
  BY RowTypes, CommittedRow DEF TypeOK, Pcs, Stages, Asks, Acquisitions, Releases
<1>2. AgentHoldsLock'
  BY <1>1 DEF AgentHoldsLock
<1>3. WriterOwnsRow'
  BY <1>1 DEF WriterOwnsRow
<1>4. WorkUndisturbed'
  BY <1>1 DEF WorkUndisturbed
<1>5. WorkNeedsAgent'
  BY <1>1 DEF TypeOK, WorkNeedsAgent, ReleasePinsRow, WriterOwnsRow, AgentHoldsLock
<1>6. ReleasePinsRow'
  BY <1>1 DEF ReleasePinsRow
<1>7. DisposalIsRelease'
  BY <1>1 DEF DisposalIsRelease
<1>8. FencedIsQuiet'
  BY <1>1 DEF FencedIsQuiet
<1>9. LockGivenBack'
  BY <1>1 DEF TypeOK, LockGivenBack
<1> QED BY <1>1, <1>2, <1>3, <1>4, <1>5, <1>6, <1>7, <1>8, <1>9 DEF IInv

LEMMA ActivateRefusedKeeps ==
  ASSUME IInv, NEW i \in Instances, ActivateRefused(i)
  PROVE  IInv'
<1> USE DEF IInv, ActivateRefused, Settle, Idle, store, execution
<1>1. TypeOK'
  BY RowTypes, CommittedRow DEF TypeOK, Pcs, Stages, Asks, Acquisitions, Releases
<1>2. AgentHoldsLock'
  BY <1>1 DEF AgentHoldsLock
<1>3. WriterOwnsRow'
  BY <1>1 DEF WriterOwnsRow
<1>4. WorkUndisturbed'
  BY <1>1 DEF WorkUndisturbed
<1>5. WorkNeedsAgent'
  BY <1>1 DEF WorkNeedsAgent
<1>6. ReleasePinsRow'
  BY <1>1 DEF ReleasePinsRow
<1>7. DisposalIsRelease'
  BY <1>1 DEF DisposalIsRelease
<1>8. FencedIsQuiet'
  BY <1>1 DEF FencedIsQuiet
<1>9. LockGivenBack'
  BY <1>1 DEF LockGivenBack
<1> QED BY <1>1, <1>2, <1>3, <1>4, <1>5, <1>6, <1>7, <1>8, <1>9 DEF IInv

LEMMA ActivateJoinsKeeps ==
  ASSUME IInv, NEW i \in Instances, ActivateJoins(i)
  PROVE  IInv'
<1> USE DEF IInv, ActivateJoins, Settle, Idle, AgentEnds, store
<1>1. TypeOK'
  BY RowTypes, CommittedRow DEF TypeOK, Pcs, Stages, Asks, Acquisitions, Releases
<1>2. AgentHoldsLock'
  BY <1>1 DEF TypeOK, AgentHoldsLock
<1>3. WriterOwnsRow'
  BY <1>1 DEF WriterOwnsRow
<1>4. WorkUndisturbed'
  BY <1>1 DEF WorkUndisturbed
<1>5. WorkNeedsAgent'
  BY <1>1 DEF TypeOK, WorkNeedsAgent
<1>6. ReleasePinsRow'
  BY <1>1 DEF ReleasePinsRow, Visible
<1>7. DisposalIsRelease'
  BY <1>1 DEF DisposalIsRelease
<1>8. FencedIsQuiet'
  BY <1>1 DEF FencedIsQuiet
<1>9. LockGivenBack'
  BY <1>1 DEF LockGivenBack
<1> QED BY <1>1, <1>2, <1>3, <1>4, <1>5, <1>6, <1>7, <1>8, <1>9 DEF IInv

LEMMA CommitKeeps ==
  ASSUME IInv, NEW i \in Instances, Commit(i)
  PROVE  IInv'
<1> USE DEF IInv, Commit, Acq
<1>1. TypeOK'
  BY RowTypes, CommittedRow DEF TypeOK, Pcs, Stages, Asks, Acquisitions, Releases
<1>2. AgentHoldsLock'
  BY <1>1 DEF AgentHoldsLock
<1>3. WriterOwnsRow'
  <2>1. row'.owner = i /\ row'.phase = "active"
    BY CommittedRow DEF TypeOK, Acquisitions
  <2>2. ASSUME NEW j \in Instances, agent'[j] \in {"live", "disposing"} PROVE j = i
    BY <2>2 DEF TypeOK, AgentHoldsLock
  <2> QED BY <2>1, <2>2 DEF WriterOwnsRow
<1>4. WorkUndisturbed'
  BY <1>1 DEF WorkUndisturbed
<1>5. WorkNeedsAgent'
  BY <1>1 DEF WorkNeedsAgent
<1>6. ReleasePinsRow'
  <2>1. row'.owner = i /\ row' # NoRow
    BY CommittedRow DEF TypeOK, Acquisitions
  <2>2. release[i].stage = "none"
    BY DEF TypeOK, ReleasePinsRow, Releases, Stages
  <2> QED BY <2>1, <2>2 DEF TypeOK, ReleasePinsRow
<1>7. DisposalIsRelease'
  BY <1>1 DEF DisposalIsRelease
<1>8. FencedIsQuiet'
  BY <1>1 DEF FencedIsQuiet
<1>9. LockGivenBack'
  <2>1. row'.phase = "active"
    BY CommittedRow DEF TypeOK, Acquisitions
  <2> QED BY <2>1 DEF LockGivenBack
<1> QED BY <1>1, <1>2, <1>3, <1>4, <1>5, <1>6, <1>7, <1>8, <1>9 DEF IInv

LEMMA CommitRefusedKeeps ==
  ASSUME IInv, NEW i \in Instances, CommitRefused(i)
  PROVE  IInv'
<1> USE DEF IInv, CommitRefused, Settle, Idle, AgentEnds, store
<1>1. TypeOK'
  BY RowTypes, CommittedRow DEF TypeOK, Pcs, Stages, Asks, Acquisitions, Releases
<1>2. AgentHoldsLock'
  BY <1>1 DEF TypeOK, AgentHoldsLock
<1>3. WriterOwnsRow'
  BY <1>1 DEF WriterOwnsRow
<1>4. WorkUndisturbed'
  BY <1>1 DEF WorkUndisturbed
<1>5. WorkNeedsAgent'
  BY <1>1 DEF WorkNeedsAgent
<1>6. ReleasePinsRow'
  BY <1>1 DEF ReleasePinsRow
<1>7. DisposalIsRelease'
  BY <1>1 DEF DisposalIsRelease
<1>8. FencedIsQuiet'
  BY <1>1 DEF FencedIsQuiet
<1>9. LockGivenBack'
  BY <1>1 DEF LockGivenBack
<1> QED BY <1>1, <1>2, <1>3, <1>4, <1>5, <1>6, <1>7, <1>8, <1>9 DEF IInv

LEMMA AcquiredKeeps ==
  ASSUME IInv, NEW i \in Instances, Acquired(i)
  PROVE  IInv'
<1> USE DEF IInv, Acquired, Settle, Idle, store, execution
<1>1. TypeOK'
  BY RowTypes, CommittedRow DEF TypeOK, Pcs, Stages, Asks, Acquisitions, Releases
<1>2. AgentHoldsLock'
  BY <1>1 DEF AgentHoldsLock
<1>3. WriterOwnsRow'
  BY <1>1 DEF WriterOwnsRow
<1>4. WorkUndisturbed'
  BY <1>1 DEF WorkUndisturbed
<1>5. WorkNeedsAgent'
  BY <1>1 DEF WorkNeedsAgent
<1>6. ReleasePinsRow'
  BY <1>1 DEF ReleasePinsRow
<1>7. DisposalIsRelease'
  BY <1>1 DEF DisposalIsRelease
<1>8. FencedIsQuiet'
  BY <1>1 DEF FencedIsQuiet
<1>9. LockGivenBack'
  BY <1>1 DEF LockGivenBack
<1> QED BY <1>1, <1>2, <1>3, <1>4, <1>5, <1>6, <1>7, <1>8, <1>9 DEF IInv

LEMMA AcquiredLateKeeps ==
  ASSUME IInv, NEW i \in Instances, AcquiredLate(i)
  PROVE  IInv'
<1> USE DEF IInv, AcquiredLate, Settle, Idle, AgentEnds, store, execution
<1>1. TypeOK'
  BY RowTypes, CommittedRow DEF TypeOK, Pcs, Stages, Asks, Acquisitions, Releases
<1>2. AgentHoldsLock'
  BY <1>1 DEF TypeOK, AgentHoldsLock
<1>3. WriterOwnsRow'
  BY <1>1 DEF TypeOK, WriterOwnsRow
<1>4. WorkUndisturbed'
  BY <1>1 DEF TypeOK, WorkUndisturbed
<1>5. WorkNeedsAgent'
  BY <1>1 DEF TypeOK, WorkNeedsAgent
<1>6. ReleasePinsRow'
  BY <1>1 DEF TypeOK, ReleasePinsRow
<1>7. DisposalIsRelease'
  BY <1>1 DEF TypeOK, DisposalIsRelease
<1>8. FencedIsQuiet'
  BY <1>1 DEF TypeOK, FencedIsQuiet
<1>9. LockGivenBack'
  BY <1>1 DEF TypeOK, LockGivenBack
<1> QED BY <1>1, <1>2, <1>3, <1>4, <1>5, <1>6, <1>7, <1>8, <1>9 DEF IInv

LEMMA DrainedKeeps ==
  ASSUME IInv, NEW i \in Instances, Drained(i)
  PROVE  IInv'
<1> USE DEF IInv, Drained, store
<1>1. TypeOK'
  <2>1. release' \in [Instances -> Releases]
    BY DEF TypeOK, Releases, Stages
  <2> QED BY <2>1 DEF TypeOK
<1>2. AgentHoldsLock'
  BY <1>1 DEF AgentHoldsLock
<1>3. WriterOwnsRow'
  BY <1>1 DEF WriterOwnsRow
<1>4. WorkUndisturbed'
  BY <1>1 DEF WorkUndisturbed
<1>5. WorkNeedsAgent'
  BY <1>1 DEF TypeOK, WorkNeedsAgent, AgentHoldsLock, WriterOwnsRow, ReleasePinsRow, WorkUndisturbed, DisposalIsRelease
<1>6. ReleasePinsRow'
  BY <1>1 DEF TypeOK, ReleasePinsRow
<1>7. DisposalIsRelease'
  BY <1>1 DEF TypeOK, DisposalIsRelease
<1>8. FencedIsQuiet'
  BY <1>1 DEF FencedIsQuiet
<1>9. LockGivenBack'
  BY <1>1 DEF LockGivenBack
<1> QED BY <1>1, <1>2, <1>3, <1>4, <1>5, <1>6, <1>7, <1>8, <1>9 DEF IInv

LEMMA DrainFailedKeeps ==
  ASSUME IInv, NEW i \in Instances, DrainFailed(i)
  PROVE  IInv'
<1> USE DEF IInv, DrainFailed, Deny, NoRelease, execution
<1>1. TypeOK'
  <2>1. acq' \in [Instances -> Acquisitions]
    BY DEF TypeOK, Releases, Acquisitions, Pcs
  <2>2. release' \in [Instances -> Releases]
    BY RowTypes DEF TypeOK, Releases, Stages
  <2>3. row' \in Rows
    BY RowTypes DEF TypeOK
  <2> QED BY <2>1, <2>2, <2>3 DEF TypeOK
<1>2. AgentHoldsLock'
  BY <1>1 DEF AgentHoldsLock
<1>3. WriterOwnsRow'
  <2>1. CASE agent[i] = "live"
    <3>1. row.owner = i /\ row = release[i].prepared
      BY <2>1 DEF WriterOwnsRow, ReleasePinsRow
    <3>2. CanTransition(row, release[i].prepared)
      BY <3>1 DEF CanTransition, ReleasePinsRow
    <3>3. row'.owner = i /\ row'.phase = "active"
      BY <2>1, <3>1, <3>2 DEF Cancelled, Active
    <3> QED BY <2>1, <3>3 DEF TypeOK, WriterOwnsRow, AgentHoldsLock
  <2>2. CASE agent[i] # "live"
    <3>1. agent[i] = "none"
      BY <2>2 DEF ReleasePinsRow
    <3> QED BY <2>2, <3>1 DEF TypeOK, WriterOwnsRow
  <2> QED BY <2>1, <2>2
<1>4. WorkUndisturbed'
  BY <1>1 DEF WorkUndisturbed
<1>5. WorkNeedsAgent'
  BY <1>1 DEF WorkNeedsAgent
<1>6. ReleasePinsRow'
  <2>1. row' = row \/ (row.owner = i /\ row'.owner = i /\ row' # NoRow)
    BY DEF WriterOwnsRow, Cancelled, Active, NoRow, ReleasePinsRow
  <2>2. release'[i].stage = "none"
    BY DEF TypeOK
  <2> QED BY <2>1, <2>2 DEF TypeOK, ReleasePinsRow
<1>7. DisposalIsRelease'
  BY <1>1 DEF DisposalIsRelease
<1>8. FencedIsQuiet'
  BY <1>1 DEF TypeOK, FencedIsQuiet, ReleasePinsRow, WorkNeedsAgent
<1>9. LockGivenBack'
  <2>1. row' = row \/ row'.phase = "active"
    BY DEF Cancelled, Active
  <2> QED BY <2>1 DEF TypeOK, LockGivenBack, NoRelease
<1> QED BY <1>1, <1>2, <1>3, <1>4, <1>5, <1>6, <1>7, <1>8, <1>9 DEF IInv

LEMMA DisposedKeeps ==
  ASSUME IInv, NEW i \in Instances, Disposed(i)
  PROVE  IInv'
<1> USE DEF IInv, Disposed, AgentEnds, store
<1>1. TypeOK'
  <2>1. release' \in [Instances -> Releases]
    BY DEF TypeOK, Releases, Stages
  <2> QED BY <2>1 DEF TypeOK
<1>2. AgentHoldsLock'
  BY <1>1 DEF TypeOK, AgentHoldsLock
<1>3. WriterOwnsRow'
  BY <1>1 DEF WriterOwnsRow
<1>4. WorkUndisturbed'
  BY <1>1 DEF WorkUndisturbed
<1>5. WorkNeedsAgent'
  BY <1>1 DEF TypeOK, WorkNeedsAgent
<1>6. ReleasePinsRow'
  BY <1>1 DEF TypeOK, ReleasePinsRow
<1>7. DisposalIsRelease'
  BY <1>1 DEF TypeOK, DisposalIsRelease
<1>8. FencedIsQuiet'
  BY <1>1 DEF FencedIsQuiet
<1>9. LockGivenBack'
  BY <1>1 DEF LockGivenBack
<1> QED BY <1>1, <1>2, <1>3, <1>4, <1>5, <1>6, <1>7, <1>8, <1>9 DEF IInv

LEMMA DisposeFailedKeeps ==
  ASSUME IInv, NEW i \in Instances, DisposeFailed(i)
  PROVE  IInv'
<1> USE DEF IInv, DisposeFailed, Deny, NoRelease, store
<1>1. TypeOK'
  <2>1. acq' \in [Instances -> Acquisitions]
    BY DEF TypeOK, Releases, Acquisitions, Pcs
  <2>2. release' \in [Instances -> Releases]
    BY RowTypes DEF TypeOK, Releases, Stages
  <2> QED BY <2>1, <2>2 DEF TypeOK
<1>2. AgentHoldsLock'
  BY <1>1 DEF TypeOK, AgentHoldsLock, ReleasePinsRow, WorkNeedsAgent
<1>3. WriterOwnsRow'
  BY <1>1 DEF TypeOK, WriterOwnsRow
<1>4. WorkUndisturbed'
  BY <1>1 DEF WorkUndisturbed
<1>5. WorkNeedsAgent'
  BY <1>1 DEF TypeOK, WorkNeedsAgent, ReleasePinsRow
<1>6. ReleasePinsRow'
  BY <1>1 DEF TypeOK, ReleasePinsRow
<1>7. DisposalIsRelease'
  BY <1>1 DEF TypeOK, DisposalIsRelease
<1>8. FencedIsQuiet'
  BY <1>1 DEF FencedIsQuiet
<1>9. LockGivenBack'
  <2>1. row.owner = i /\ row.phase # "released"
    BY DEF WriterOwnsRow, ReleasePinsRow
  <2> QED BY <2>1 DEF TypeOK, LockGivenBack, NoRelease
<1> QED BY <1>1, <1>2, <1>3, <1>4, <1>5, <1>6, <1>7, <1>8, <1>9 DEF IInv

LEMMA AcknowledgeKeeps ==
  ASSUME IInv, NEW i \in Instances, Acknowledge(i)
  PROVE  IInv'
<1> USE DEF IInv, Acknowledge, Deny, NoRelease, execution
<1>1. TypeOK'
  <2>1. acq' \in [Instances -> Acquisitions]
    BY DEF TypeOK, Releases, Acquisitions, Pcs
  <2>2. release' \in [Instances -> Releases]
    BY RowTypes DEF TypeOK, Releases, Stages
  <2>3. row' \in Rows
    BY RowTypes DEF TypeOK
  <2> QED BY <2>1, <2>2, <2>3 DEF TypeOK
<1>2. AgentHoldsLock'
  BY <1>1 DEF AgentHoldsLock
<1>3. WriterOwnsRow'
  <2>1. agent[i] = "none"
    BY DEF ReleasePinsRow
  <2>2. row' = row \/ row.owner = i
    BY DEF CanTransition, ReleasePinsRow
  <2>3. ASSUME NEW j \in Instances, j # i, agent[j] \in {"live", "disposing"} PROVE row.owner = j
    BY <2>3 DEF WriterOwnsRow
  <2> QED BY <2>1, <2>2, <2>3 DEF TypeOK, WriterOwnsRow
<1>4. WorkUndisturbed'
  BY <1>1 DEF WorkUndisturbed
<1>5. WorkNeedsAgent'
  BY <1>1 DEF WorkNeedsAgent
<1>6. ReleasePinsRow'
  <2>1. row' = row \/ (row.owner = i /\ row'.owner = i /\ row' # NoRow)
    <3>1. row' = row \/ (CanTransition(row, release[i].prepared) /\ row' = Released(row))
      OBVIOUS
    <3>2. CanTransition(row, release[i].prepared) => row.owner = i
      BY DEF CanTransition, ReleasePinsRow
    <3>3. row \in Rows
      BY DEF TypeOK
    <3> QED BY <3>1, <3>2, <3>3 DEF Released, NoRow, Rows
  <2>2. release'[i].stage = "none"
    BY DEF TypeOK
  <2> QED BY <2>1, <2>2 DEF TypeOK, ReleasePinsRow
<1>7. DisposalIsRelease'
  BY <1>1 DEF DisposalIsRelease
<1>8. FencedIsQuiet'
  BY <1>1 DEF FencedIsQuiet
<1>9. LockGivenBack'
  <2>1. row' = row \/ row'.owner = i
    BY DEF Released, CanTransition, ReleasePinsRow, TypeOK, Rows
  <2>2. lock # i
    BY DEF LockGivenBack
  <2> QED BY <2>1, <2>2 DEF TypeOK, LockGivenBack, NoRelease
<1> QED BY <1>1, <1>2, <1>3, <1>4, <1>5, <1>6, <1>7, <1>8, <1>9 DEF IInv

LEMMA ResumeKeeps ==
  ASSUME IInv, NEW i \in Instances, Resume(i)
  PROVE  IInv'
<1> USE DEF IInv, Resume, store, Unfenced, Mine
<1>1. TypeOK'
  BY RowTypes, CommittedRow DEF TypeOK, Pcs, Stages, Asks, Acquisitions, Releases
<1>2. AgentHoldsLock'
  BY <1>1 DEF AgentHoldsLock
<1>3. WriterOwnsRow'
  BY <1>1 DEF WriterOwnsRow
<1>4. WorkUndisturbed'
  BY <1>1 DEF WorkUndisturbed
<1>5. WorkNeedsAgent'
  BY <1>1 DEF WorkNeedsAgent
<1>6. ReleasePinsRow'
  BY <1>1 DEF ReleasePinsRow
<1>7. DisposalIsRelease'
  BY <1>1 DEF DisposalIsRelease
<1>8. FencedIsQuiet'
  BY <1>1 DEF FencedIsQuiet
<1>9. LockGivenBack'
  <2>1. row = NoRow \/ (row.owner = i /\ row.phase = "active")
    BY DEF Unfenced, Mine
  <2>2. release[i].stage # "disposed"
    BY <2>1 DEF ReleasePinsRow
  <2>3. ~(row.phase = "released" /\ row.owner = i)
    BY <2>1 DEF NoRow
  <2> QED BY <2>2, <2>3 DEF TypeOK, LockGivenBack
<1> QED BY <1>1, <1>2, <1>3, <1>4, <1>5, <1>6, <1>7, <1>8, <1>9 DEF IInv

LEMMA ResumedKeeps ==
  ASSUME IInv, NEW i \in Instances, Resumed(i)
  PROVE  IInv'
<1> USE DEF IInv, Resumed, Unfenced, Mine
<1>1. TypeOK'
  BY RowTypes, CommittedRow DEF TypeOK, Pcs, Stages, Asks, Acquisitions, Releases
<1>2. AgentHoldsLock'
  BY <1>1 DEF AgentHoldsLock
<1>3. WriterOwnsRow'
  <2>1. row'.owner = i /\ row'.phase = "active"
    BY DEF TypeOK, Acquisitions, CanRegister, Registered, Active
  <2>2. ASSUME NEW j \in Instances, agent'[j] \in {"live", "disposing"} PROVE j = i
    BY <2>2 DEF TypeOK, AgentHoldsLock
  <2> QED BY <2>1, <2>2 DEF WriterOwnsRow
<1>4. WorkUndisturbed'
  BY <1>1 DEF WorkUndisturbed
<1>5. WorkNeedsAgent'
  BY <1>1 DEF WorkNeedsAgent
<1>6. ReleasePinsRow'
  <2>1. row'.owner = i /\ row' # NoRow
    BY DEF TypeOK, Acquisitions, CanRegister, Registered, Active, NoRow
  <2>2. release[i].stage = "none"
    BY DEF TypeOK, ReleasePinsRow
  <2> QED BY <2>1, <2>2 DEF TypeOK, ReleasePinsRow
<1>7. DisposalIsRelease'
  BY <1>1 DEF DisposalIsRelease
<1>8. FencedIsQuiet'
  BY <1>1 DEF FencedIsQuiet
<1>9. LockGivenBack'
  <2>1. row'.phase = "active"
    BY DEF CanRegister, Registered, Active, NoRow
  <2> QED BY <2>1 DEF LockGivenBack
<1> QED BY <1>1, <1>2, <1>3, <1>4, <1>5, <1>6, <1>7, <1>8, <1>9 DEF IInv

LEMMA ResumeFailedKeeps ==
  ASSUME IInv, NEW i \in Instances, ResumeFailed(i)
  PROVE  IInv'
<1> USE DEF IInv, ResumeFailed, AgentEnds, store
<1>1. TypeOK'
  BY RowTypes, CommittedRow DEF TypeOK, Pcs, Stages, Asks, Acquisitions, Releases
<1>2. AgentHoldsLock'
  BY <1>1 DEF TypeOK, AgentHoldsLock
<1>3. WriterOwnsRow'
  BY <1>1 DEF WriterOwnsRow
<1>4. WorkUndisturbed'
  BY <1>1 DEF WorkUndisturbed
<1>5. WorkNeedsAgent'
  BY <1>1 DEF WorkNeedsAgent
<1>6. ReleasePinsRow'
  BY <1>1 DEF ReleasePinsRow
<1>7. DisposalIsRelease'
  BY <1>1 DEF DisposalIsRelease
<1>8. FencedIsQuiet'
  BY <1>1 DEF FencedIsQuiet
<1>9. LockGivenBack'
  BY <1>1 DEF LockGivenBack
<1> QED BY <1>1, <1>2, <1>3, <1>4, <1>5, <1>6, <1>7, <1>8, <1>9 DEF IInv

LEMMA RestoreKeeps ==
  ASSUME IInv, NEW i \in Instances, Restore(i)
  PROVE  IInv'
<1> USE DEF IInv, Restore, Acq, store, execution
<1>1. TypeOK'
  BY RowTypes, CommittedRow DEF TypeOK, Pcs, Stages, Asks, Acquisitions, Releases
<1>2. AgentHoldsLock'
  BY <1>1 DEF AgentHoldsLock
<1>3. WriterOwnsRow'
  BY <1>1 DEF WriterOwnsRow
<1>4. WorkUndisturbed'
  BY <1>1 DEF WorkUndisturbed
<1>5. WorkNeedsAgent'
  BY <1>1 DEF WorkNeedsAgent
<1>6. ReleasePinsRow'
  BY <1>1 DEF ReleasePinsRow
<1>7. DisposalIsRelease'
  BY <1>1 DEF DisposalIsRelease
<1>8. FencedIsQuiet'
  BY <1>1 DEF FencedIsQuiet
<1>9. LockGivenBack'
  BY <1>1 DEF LockGivenBack
<1> QED BY <1>1, <1>2, <1>3, <1>4, <1>5, <1>6, <1>7, <1>8, <1>9 DEF IInv

LEMMA ProbeAnsweredKeeps ==
  ASSUME IInv, NEW i \in Instances, ProbeAnswered(i)
  PROVE  IInv'
<1> USE DEF IInv, ProbeAnswered, Settle, Idle, store, execution
<1>1. TypeOK'
  BY RowTypes, CommittedRow DEF TypeOK, Pcs, Stages, Asks, Acquisitions, Releases
<1>2. AgentHoldsLock'
  BY <1>1 DEF AgentHoldsLock
<1>3. WriterOwnsRow'
  BY <1>1 DEF WriterOwnsRow
<1>4. WorkUndisturbed'
  BY <1>1 DEF WorkUndisturbed
<1>5. WorkNeedsAgent'
  BY <1>1 DEF WorkNeedsAgent
<1>6. ReleasePinsRow'
  BY <1>1 DEF ReleasePinsRow
<1>7. DisposalIsRelease'
  BY <1>1 DEF DisposalIsRelease
<1>8. FencedIsQuiet'
  BY <1>1 DEF FencedIsQuiet
<1>9. LockGivenBack'
  BY <1>1 DEF LockGivenBack
<1> QED BY <1>1, <1>2, <1>3, <1>4, <1>5, <1>6, <1>7, <1>8, <1>9 DEF IInv

LEMMA ProbeRefusedKeeps ==
  ASSUME IInv, NEW i \in Instances, ProbeRefused(i)
  PROVE  IInv'
<1> USE DEF IInv, ProbeRefused, Acq, execution
<1>1. TypeOK'
  BY RowTypes, CommittedRow DEF TypeOK, Pcs, Stages, Asks, Acquisitions, Releases
<1>2. AgentHoldsLock'
  BY <1>1 DEF AgentHoldsLock
<1>3. WriterOwnsRow'
  BY <1>1 DEF WriterOwnsRow
<1>4. WorkUndisturbed'
  BY <1>1 DEF WorkUndisturbed
<1>5. WorkNeedsAgent'
  BY <1>1 DEF WorkNeedsAgent
<1>6. ReleasePinsRow'
  BY <1>1 DEF ReleasePinsRow
<1>7. DisposalIsRelease'
  BY <1>1 DEF DisposalIsRelease
<1>8. FencedIsQuiet'
  BY <1>1 DEF FencedIsQuiet
<1>9. LockGivenBack'
  BY <1>1 DEF LockGivenBack
<1> QED BY <1>1, <1>2, <1>3, <1>4, <1>5, <1>6, <1>7, <1>8, <1>9 DEF IInv

LEMMA RecoverKeeps ==
  ASSUME IInv, NEW i \in Instances, Recover(i)
  PROVE  IInv'
<1> USE DEF IInv, Recover, execution
<1>0. row' = row /\ acq' \in [Instances -> Acquisitions]
  BY ProceedTypes, RecordTypes DEF TypeOK, Settle
<1>1. TypeOK'
  BY <1>0 DEF TypeOK
<1>2. AgentHoldsLock'
  BY <1>0, <1>1 DEF AgentHoldsLock
<1>3. WriterOwnsRow'
  BY <1>0, <1>1 DEF WriterOwnsRow
<1>4. WorkUndisturbed'
  BY <1>0, <1>1 DEF WorkUndisturbed
<1>5. WorkNeedsAgent'
  BY <1>0, <1>1 DEF WorkNeedsAgent
<1>6. ReleasePinsRow'
  BY <1>0, <1>1 DEF ReleasePinsRow
<1>7. DisposalIsRelease'
  BY <1>0, <1>1 DEF DisposalIsRelease
<1>8. FencedIsQuiet'
  BY <1>0, <1>1 DEF FencedIsQuiet
<1>9. LockGivenBack'
  BY <1>0, <1>1 DEF LockGivenBack
<1> QED BY <1>1, <1>2, <1>3, <1>4, <1>5, <1>6, <1>7, <1>8, <1>9 DEF IInv

LEMMA NativeDisposeKeeps ==
  ASSUME IInv, NEW i \in Instances, NativeDispose(i)
  PROVE  IInv'
<1> USE DEF IInv, NativeDispose, AgentEnds, store
<1>1. TypeOK'
  BY RowTypes, CommittedRow DEF TypeOK, Pcs, Stages, Asks, Acquisitions, Releases
<1>2. AgentHoldsLock'
  BY <1>1 DEF TypeOK, AgentHoldsLock
<1>3. WriterOwnsRow'
  BY <1>1 DEF WriterOwnsRow
<1>4. WorkUndisturbed'
  BY <1>1 DEF WorkUndisturbed
<1>5. WorkNeedsAgent'
  BY <1>1 DEF TypeOK, WorkNeedsAgent
<1>6. ReleasePinsRow'
  BY <1>1 DEF ReleasePinsRow
<1>7. DisposalIsRelease'
  BY <1>1 DEF DisposalIsRelease
<1>8. FencedIsQuiet'
  BY <1>1 DEF FencedIsQuiet
<1>9. LockGivenBack'
  BY <1>1 DEF LockGivenBack
<1> QED BY <1>1, <1>2, <1>3, <1>4, <1>5, <1>6, <1>7, <1>8, <1>9 DEF IInv

LEMMA WakeKeeps ==
  ASSUME IInv, NEW i \in Instances, Wake(i)
  PROVE  IInv'
<1> USE DEF IInv, Wake, store
<1>1. TypeOK'
  BY RowTypes, CommittedRow DEF TypeOK, Pcs, Stages, Asks, Acquisitions, Releases
<1>2. AgentHoldsLock'
  BY <1>1 DEF AgentHoldsLock
<1>3. WriterOwnsRow'
  BY <1>1 DEF WriterOwnsRow
<1>4. WorkUndisturbed'
  BY <1>1 DEF TypeOK, WorkUndisturbed, ReleasePinsRow, WorkNeedsAgent
<1>5. WorkNeedsAgent'
  BY <1>1 DEF WorkNeedsAgent
<1>6. ReleasePinsRow'
  BY <1>1 DEF ReleasePinsRow
<1>7. DisposalIsRelease'
  BY <1>1 DEF DisposalIsRelease
<1>8. FencedIsQuiet'
  BY <1>1 DEF FencedIsQuiet
<1>9. LockGivenBack'
  BY <1>1 DEF LockGivenBack
<1> QED BY <1>1, <1>2, <1>3, <1>4, <1>5, <1>6, <1>7, <1>8, <1>9 DEF IInv

LEMMA AdmitKeeps ==
  ASSUME IInv, NEW i \in Instances, Admit(i)
  PROVE  IInv'
<1> USE DEF IInv, Admit, store, Unfenced, Mine
<1>1. TypeOK'
  BY RowTypes, CommittedRow DEF TypeOK, Pcs, Stages, Asks, Acquisitions, Releases
<1>2. AgentHoldsLock'
  BY <1>1 DEF AgentHoldsLock
<1>3. WriterOwnsRow'
  BY <1>1 DEF WriterOwnsRow
<1>4. WorkUndisturbed'
  BY <1>1 DEF TypeOK, WorkUndisturbed, ReleasePinsRow, WorkNeedsAgent
<1>5. WorkNeedsAgent'
  BY <1>1 DEF WorkNeedsAgent
<1>6. ReleasePinsRow'
  BY <1>1 DEF ReleasePinsRow
<1>7. DisposalIsRelease'
  BY <1>1 DEF DisposalIsRelease
<1>8. FencedIsQuiet'
  BY <1>1 DEF FencedIsQuiet
<1>9. LockGivenBack'
  BY <1>1 DEF LockGivenBack
<1> QED BY <1>1, <1>2, <1>3, <1>4, <1>5, <1>6, <1>7, <1>8, <1>9 DEF IInv

LEMMA RouteKeeps ==
  ASSUME IInv, NEW i \in Instances, Route(i)
  PROVE  IInv'
<1> USE DEF IInv, Route, Settle, Idle, store, Unfenced, Mine
<1>1. TypeOK'
  BY RowTypes, CommittedRow DEF TypeOK, Pcs, Stages, Asks, Acquisitions, Releases
<1>2. AgentHoldsLock'
  BY <1>1 DEF AgentHoldsLock
<1>3. WriterOwnsRow'
  BY <1>1 DEF WriterOwnsRow
<1>4. WorkUndisturbed'
  BY <1>1 DEF TypeOK, WorkUndisturbed, ReleasePinsRow, WorkNeedsAgent
<1>5. WorkNeedsAgent'
  BY <1>1 DEF WorkNeedsAgent
<1>6. ReleasePinsRow'
  BY <1>1 DEF ReleasePinsRow
<1>7. DisposalIsRelease'
  BY <1>1 DEF DisposalIsRelease
<1>8. FencedIsQuiet'
  BY <1>1 DEF FencedIsQuiet
<1>9. LockGivenBack'
  BY <1>1 DEF LockGivenBack
<1> QED BY <1>1, <1>2, <1>3, <1>4, <1>5, <1>6, <1>7, <1>8, <1>9 DEF IInv

LEMMA AttachKeeps ==
  ASSUME IInv, NEW i \in Instances, Attach(i)
  PROVE  IInv'
<1> USE DEF IInv, Attach, store, Visible
<1>1. TypeOK'
  BY RowTypes, CommittedRow DEF TypeOK, Pcs, Stages, Asks, Acquisitions, Releases
<1>2. AgentHoldsLock'
  BY <1>1 DEF AgentHoldsLock
<1>3. WriterOwnsRow'
  BY <1>1 DEF WriterOwnsRow
<1>4. WorkUndisturbed'
  BY <1>1 DEF WorkUndisturbed
<1>5. WorkNeedsAgent'
  BY <1>1 DEF WorkNeedsAgent
<1>6. ReleasePinsRow'
  BY <1>1 DEF ReleasePinsRow
<1>7. DisposalIsRelease'
  BY <1>1 DEF DisposalIsRelease
<1>8. FencedIsQuiet'
  BY <1>1 DEF FencedIsQuiet
<1>9. LockGivenBack'
  BY <1>1 DEF LockGivenBack
<1> QED BY <1>1, <1>2, <1>3, <1>4, <1>5, <1>6, <1>7, <1>8, <1>9 DEF IInv

LEMMA FinishCommandKeeps ==
  ASSUME IInv, NEW i \in Instances, FinishCommand(i)
  PROVE  IInv'
<1> USE DEF IInv, FinishCommand, store
<1>1. TypeOK'
  BY RowTypes, CommittedRow DEF TypeOK, Pcs, Stages, Asks, Acquisitions, Releases
<1>2. AgentHoldsLock'
  BY <1>1 DEF AgentHoldsLock
<1>3. WriterOwnsRow'
  BY <1>1 DEF WriterOwnsRow
<1>4. WorkUndisturbed'
  BY <1>1 DEF WorkUndisturbed
<1>5. WorkNeedsAgent'
  BY <1>1 DEF WorkNeedsAgent
<1>6. ReleasePinsRow'
  BY <1>1 DEF ReleasePinsRow
<1>7. DisposalIsRelease'
  BY <1>1 DEF DisposalIsRelease
<1>8. FencedIsQuiet'
  BY <1>1 DEF FencedIsQuiet
<1>9. LockGivenBack'
  BY <1>1 DEF LockGivenBack
<1> QED BY <1>1, <1>2, <1>3, <1>4, <1>5, <1>6, <1>7, <1>8, <1>9 DEF IInv

LEMMA FinishTurnKeeps ==
  ASSUME IInv, NEW i \in Instances, FinishTurn(i)
  PROVE  IInv'
<1> USE DEF IInv, FinishTurn, store
<1>1. TypeOK'
  BY RowTypes, CommittedRow DEF TypeOK, Pcs, Stages, Asks, Acquisitions, Releases
<1>2. AgentHoldsLock'
  BY <1>1 DEF AgentHoldsLock
<1>3. WriterOwnsRow'
  BY <1>1 DEF WriterOwnsRow
<1>4. WorkUndisturbed'
  BY <1>1 DEF WorkUndisturbed
<1>5. WorkNeedsAgent'
  BY <1>1 DEF WorkNeedsAgent
<1>6. ReleasePinsRow'
  BY <1>1 DEF ReleasePinsRow
<1>7. DisposalIsRelease'
  BY <1>1 DEF DisposalIsRelease
<1>8. FencedIsQuiet'
  BY <1>1 DEF FencedIsQuiet
<1>9. LockGivenBack'
  BY <1>1 DEF LockGivenBack
<1> QED BY <1>1, <1>2, <1>3, <1>4, <1>5, <1>6, <1>7, <1>8, <1>9 DEF IInv

LEMMA CloseKeeps ==
  ASSUME IInv, NEW i \in Instances, Close(i)
  PROVE  IInv'
<1> USE DEF IInv, Close, Idle, execution
<1>1. TypeOK'
  <2>1. acq' \in [Instances -> Acquisitions]
    BY RecordTypes DEF TypeOK, Idle
  <2>2. release' \in [Instances -> Releases]
    BY DEF TypeOK, Releases
  <2> QED BY <2>1, <2>2 DEF TypeOK
<1>2. AgentHoldsLock'
  BY <1>1 DEF AgentHoldsLock
<1>3. WriterOwnsRow'
  BY <1>1 DEF WriterOwnsRow
<1>4. WorkUndisturbed'
  BY <1>1 DEF WorkUndisturbed
<1>5. WorkNeedsAgent'
  BY <1>1 DEF WorkNeedsAgent
<1>6. ReleasePinsRow'
  BY <1>1 DEF ReleasePinsRow
<1>7. DisposalIsRelease'
  BY <1>1 DEF DisposalIsRelease
<1>8. FencedIsQuiet'
  BY <1>1 DEF FencedIsQuiet
<1>9. LockGivenBack'
  BY <1>1 DEF LockGivenBack
<1> QED BY <1>1, <1>2, <1>3, <1>4, <1>5, <1>6, <1>7, <1>8, <1>9 DEF IInv

LEMMA ExitKeeps ==
  ASSUME IInv, NEW i \in Instances, Exit(i)
  PROVE  IInv'
<1> USE DEF IInv, Exit, Idle, NoRelease, store
<1>1. TypeOK'
  <2>1. acq' \in [Instances -> Acquisitions]
    BY RecordTypes DEF TypeOK, Idle
  <2>2. release' \in [Instances -> Releases]
    BY RecordTypes DEF TypeOK, NoRelease
  <2>3. asks' \subseteq Asks
    BY RecordTypes DEF TypeOK
  <2> QED BY <2>1, <2>2, <2>3 DEF TypeOK
<1>2. AgentHoldsLock'
  BY <1>1 DEF TypeOK, AgentHoldsLock
<1>3. WriterOwnsRow'
  BY <1>1 DEF TypeOK, WriterOwnsRow
<1>4. WorkUndisturbed'
  BY <1>1 DEF WorkUndisturbed
<1>5. WorkNeedsAgent'
  BY <1>1 DEF TypeOK, WorkNeedsAgent
<1>6. ReleasePinsRow'
  BY <1>1 DEF ReleasePinsRow
<1>7. DisposalIsRelease'
  BY <1>1 DEF TypeOK, DisposalIsRelease
<1>8. FencedIsQuiet'
  BY <1>1 DEF FencedIsQuiet
<1>9. LockGivenBack'
  BY <1>1 DEF LockGivenBack
<1> QED BY <1>1, <1>2, <1>3, <1>4, <1>5, <1>6, <1>7, <1>8, <1>9 DEF IInv

LEMMA ServeKeeps ==
  ASSUME IInv, NEW i \in Instances, NEW m \in asks, Serve(i, m)
  PROVE  IInv'
<1> USE DEF IInv
<1>a. m \in Asks /\ m.from \in Instances /\ m.waiting \in BOOLEAN
  BY DEF TypeOK, Asks
<1>b. UNCHANGED <<peers, lock, agent, busy, cmd, up>>
  BY DEF Serve, execution
<1>c. acq' \in [Instances -> Acquisitions]
  BY <1>a DEF Serve, Deny, TypeOK, Acquisitions, Pcs
<1>d. asks' \subseteq Asks
  BY DEF Serve, TypeOK
<1> DEFINE prepared == Prepared(row, m.from, transfers + 1)
<1>e. ASSUME transfers < MaxTransfers
      PROVE  /\ prepared \in Rows /\ prepared # NoRow
             /\ prepared.owner = row.owner /\ prepared.phase = "releasing"
  <2>1. transfers + 1 \in 0..MaxTransfers /\ row \in Rows
    BY <1>e DEF TypeOK
  <2>2. prepared \in Rows
    BY <2>1, <1>a, RowTypes
  <2> QED BY <2>1, <2>2 DEF Prepared, NoRow, Rows
<1>1. CASE UNCHANGED <<row, transfers, fenced, release>>
  BY <1>1, <1>b, <1>c, <1>d DEF TypeOK, AgentHoldsLock, WriterOwnsRow, WorkUndisturbed,
     WorkNeedsAgent, ReleasePinsRow, DisposalIsRelease, FencedIsQuiet, LockGivenBack
<1>2. CASE /\ row.owner = i /\ row.phase = "active" /\ transfers < MaxTransfers
           /\ transfers' = transfers + 1 /\ CanRelease(i)
           /\ row' = prepared /\ fenced' = fenced \cup {i}
           /\ release' = [release EXCEPT ![i] =
                [stage |-> "draining", from |-> m.from, waiting |-> m.waiting,
                 prepared |-> prepared]]
  <2>1. release'[i].stage = "draining" /\ release'[i].prepared = prepared
    BY <1>2 DEF TypeOK
  <2>2. \A j \in Instances \ {i} : release'[j] = release[j]
    BY <1>2 DEF TypeOK
  <2>3. [stage |-> "draining", from |-> m.from, waiting |-> m.waiting,
         prepared |-> prepared] \in Releases
    BY <1>2, <1>a, <1>e DEF Releases, Stages
  <2>4. transfers' \in 0..MaxTransfers
    BY <1>2 DEF TypeOK
  <2>5. TypeOK'
    BY <1>2, <1>b, <1>c, <1>d, <1>e, <2>3, <2>4 DEF TypeOK
  <2>6. \A j \in Instances \ {i} : agent[j] = "none" \/ row.owner = j \/ agent[j] \in {"acquiring", "resuming"}
    BY DEF TypeOK, WriterOwnsRow
  <2>7. WriterOwnsRow'
    BY <1>2, <1>b, <1>e, <2>1, <2>6 DEF WriterOwnsRow
  <2>8. ReleasePinsRow'
    BY <1>2, <1>b, <1>e, <2>1, <2>2 DEF ReleasePinsRow, CanRelease
  <2>9. WorkUndisturbed' /\ DisposalIsRelease' /\ FencedIsQuiet'
    BY <1>2, <1>b, <2>1, <2>2 DEF CanRelease, WorkUndisturbed, DisposalIsRelease, FencedIsQuiet
  <2>10. AgentHoldsLock' /\ WorkNeedsAgent'
    BY <1>b DEF AgentHoldsLock, WorkNeedsAgent
  <2>11. LockGivenBack'
    BY <1>2, <1>b, <1>e, <2>1, <2>2 DEF LockGivenBack
  <2> QED BY <2>5, <2>7, <2>8, <2>9, <2>10, <2>11
<1>3. CASE /\ row.owner = i /\ row.phase = "active" /\ transfers < MaxTransfers
           /\ transfers' = transfers + 1 /\ ~CanRelease(i)
           /\ row' = IF Visible(i) THEN row ELSE prepared
           /\ UNCHANGED <<fenced, release>>
  <2>1. release[i].stage = "none"
    BY <1>3 DEF ReleasePinsRow
  <2>2. ~Visible(i) => agent[i] \notin {"live", "disposing"}
    BY <1>3, <2>1 DEF CanRelease, Visible, FencedIsQuiet, DisposalIsRelease
  <2>3. transfers' \in 0..MaxTransfers
    BY <1>3 DEF TypeOK
  <2>4. TypeOK'
    BY <1>3, <1>b, <1>c, <1>d, <1>e, <2>3 DEF TypeOK
  <2>5. row' = row \/ (row'.owner = i /\ row' # NoRow)
    BY <1>3, <1>e
  <2>6. WriterOwnsRow'
    BY <1>3, <1>b, <2>2 DEF WriterOwnsRow
  <2>7. ReleasePinsRow'
    BY <1>3, <1>b, <2>1, <2>5 DEF ReleasePinsRow
  <2>8. LockGivenBack'
    BY <1>3, <1>b, <1>e DEF LockGivenBack
  <2> QED BY <1>3, <1>b, <2>4, <2>6, <2>7, <2>8 DEF AgentHoldsLock, WorkUndisturbed,
             WorkNeedsAgent, DisposalIsRelease, FencedIsQuiet
<1> QED BY <1>1, <1>2, <1>3 DEF Serve

-------------------------------------------------------------------------------

LEMMA InitHolds == Init => IInv
<1> SUFFICES ASSUME Init PROVE IInv
  OBVIOUS
<1>1. TypeOK
  <2>1. NoRow \in Rows
    BY DEF NoRow, Rows, Phases
  <2> QED BY <2>1, RecordTypes DEF Init, TypeOK
<1> QED BY <1>1 DEF Init, IInv, AgentHoldsLock, WriterOwnsRow, WorkUndisturbed,
     WorkNeedsAgent, ReleasePinsRow, DisposalIsRelease, FencedIsQuiet, LockGivenBack, NoRelease

LEMMA NextKeeps == IInv /\ [Next]_vars => IInv'
<1> SUFFICES ASSUME IInv, [Next]_vars PROVE IInv'
  OBVIOUS
<1>1. CASE UNCHANGED vars
  BY <1>1 DEF vars, IInv, TypeOK, AgentHoldsLock, WriterOwnsRow, WorkUndisturbed,
     WorkNeedsAgent, ReleasePinsRow, DisposalIsRelease, FencedIsQuiet, LockGivenBack
<1>2. ASSUME NEW i \in Instances, Requester(i) PROVE IInv'
  BY <1>2, StopAskingKeeps, ActivateKeeps, ActivateRefusedKeeps, ActivateJoinsKeeps,
     CommitKeeps, CommitRefusedKeeps, AcquiredKeeps, AcquiredLateKeeps,
     ProbeAnsweredKeeps, ProbeRefusedKeeps, RecoverKeeps, RouteKeeps DEF Requester
<1>3. ASSUME NEW i \in Instances, Owner(i) PROVE IInv'
  BY <1>3, ServeKeeps, DrainedKeeps, DrainFailedKeeps, DisposedKeeps,
     DisposeFailedKeeps, AcknowledgeKeeps DEF Owner
<1>4. ASSUME NEW i \in Instances, Native(i) \/ Commands(i) PROVE IInv'
  BY <1>4, ResumeKeeps, ResumedKeeps, ResumeFailedKeeps, RestoreKeeps,
     NativeDisposeKeeps, WakeKeeps, AdmitKeeps, AttachKeeps, FinishCommandKeeps,
     FinishTurnKeeps DEF Native, Commands
<1>5. ASSUME NEW i \in Instances, Acquire(i) \/ Close(i) \/ Exit(i) PROVE IInv'
  BY <1>5, AcquireKeeps, CloseKeeps, ExitKeeps
<1> QED BY <1>1, <1>2, <1>3, <1>4, <1>5 DEF Next

(* The invariant the theorems below rest on.                               *)
THEOREM HandoffInvariant == Spec => []IInv
BY InitHolds, NextKeeps, PTL DEF Spec

(* Every variable keeps its type: the rows that SQL leaves, the flights,   *)
(* the fences and the releases.                                            *)
THEOREM HandoffTypes == Spec => []TypeOK
BY HandoffInvariant, PTL DEF IInv

(* A published agent writes only under a row that names its instance.      *)
THEOREM WriterAlwaysOwnsRow == Spec => []WriterOwnsRow
BY HandoffInvariant, PTL DEF IInv

(* No release takes a command or a turn with it.                           *)
THEOREM WorkNeverDisturbed == Spec => []WorkUndisturbed
BY HandoffInvariant, PTL DEF IInv

(* The row says "released" only when the agent is gone.                    *)
THEOREM ReleasedAlwaysQuiet == Spec => []ReleasedIsQuiet
<1>1. IInv => ReleasedIsQuiet
  BY DEF IInv, ReleasedIsQuiet, WriterOwnsRow, ReleasePinsRow, LockGivenBack
<1> QED BY <1>1, HandoffInvariant, PTL

-------------------------------------------------------------------------------
(* Refinement.  At most one instance executes, so the mapping names it.    *)
LEMMA OneExecutes ==
  ASSUME IInv
  PROVE  /\ Executing = {} => Executor = Nobody
         /\ Executing # {} => Executor \in Executing
         /\ \A j \in Executing : j = Executor
<1>1. \A j, k \in Executing : j = k
  BY DEF IInv, AgentHoldsLock, Executing
<1> QED BY <1>1 DEF Executor

(* A step that publishes no agent and leaves the owner and the epoch of    *)
(* the row alone: the executor leaves, or nothing happens.                 *)
LEMMA NothingTaken ==
  ASSUME IInv, IInv', Executing' \subseteq Executing,
         row'.owner = row.owner, row'.epoch = row.epoch
  PROVE  Writer!Leave \/ UNCHANGED Writer!vars
<1>1. \/ Executing' = Executing
      \/ Executing' = {} /\ Executing # {}
  BY OneExecutes
<1>2. CASE Executing' = Executing
  BY <1>2 DEF Executor, Writer!vars
<1>3. CASE Executing' = {} /\ Executing # {}
  <2>1. Executor' = Nobody /\ Executor # Nobody
    BY <1>3, OneExecutes DEF Executor, Executing
  <2> QED BY <2>1 DEF Writer!Leave
<1> QED BY <1>1, <1>2, <1>3

(* The commit of i, with nobody else executing.                            *)
LEMMA CommitTakes ==
  ASSUME IInv, IInv', NEW i \in Instances, Executing \subseteq {i}, Executing' = {i},
         row'.owner = i,
         row'.epoch = row.epoch + 1 \/ (row.owner = i /\ row'.epoch = row.epoch)
  PROVE  Writer!Take(i)
<1>1. Executor' = i
  BY DEF Executor
<1>2. Executor \in {Nobody, i}
  BY OneExecutes
<1> QED BY <1>1, <1>2 DEF Writer!Take

(* What a commit does to the term.                                         *)
LEMMA CommitTerm ==
  ASSUME TypeOK, NEW i \in Instances, NEW seen \in Rows, CanCommit(i, seen)
  PROVE  /\ Committed(i, seen).owner = i
         /\ \/ Committed(i, seen).epoch = row.epoch + 1
            \/ row.owner = i /\ Committed(i, seen).epoch = row.epoch
<1>1. CASE seen = NoRow
  BY <1>1 DEF CanCommit, Committed, CanRegister, Registered, Active, NoRow
<1>2. CASE seen # NoRow /\ seen.owner = i /\ seen.phase = "active"
  BY <1>2 DEF CanCommit, Committed, SameOwner, Registered, Active, NoRow
<1>3. CASE seen # NoRow /\ ~(seen.owner = i /\ seen.phase = "active")
  BY <1>3 DEF Committed, NextTerm, Active
<1> QED BY <1>1, <1>2, <1>3

LEMMA RequesterSimulates ==
  ASSUME IInv, IInv', NEW i \in Instances, Requester(i)
  PROVE  Writer!Next \/ UNCHANGED Writer!vars
<1>1. CASE Commit(i)
  <2>1. Executing \subseteq {i} /\ Executing' = {i}
    BY <1>1 DEF Commit, Executing, IInv, TypeOK, AgentHoldsLock
  <2>2. acq[i].seen \in Rows
    BY DEF IInv, TypeOK, Acquisitions
  <2>3. Writer!Take(i)
    BY <1>1, <2>1, <2>2, CommitTerm, CommitTakes DEF Commit, IInv
  <2> QED BY <2>3 DEF Writer!Next
<1>2. CASE StopAsking(i) \/ ActivateRefused(i) \/ Acquired(i) \/ ProbeAnswered(i)
           \/ ProbeRefused(i) \/ Recover(i) \/ Route(i)
  <2>1. row' = row /\ agent' = agent
    BY <1>2, ProceedTypes DEF StopAsking, ActivateRefused, Acquired, ProbeAnswered,
       ProbeRefused, Recover, Route, store, execution
  <2>2. Executing' = Executing
    BY <2>1 DEF Executing
  <2> QED BY <2>1, <2>2, NothingTaken DEF Writer!Next
<1>3. CASE Activate(i) \/ ActivateJoins(i) \/ CommitRefused(i) \/ AcquiredLate(i)
  <2>1. row' = row
    BY <1>3 DEF Activate, ActivateJoins, CommitRefused, AcquiredLate, store
  <2>2. Executing' \subseteq Executing
    BY <1>3 DEF Activate, ActivateJoins, CommitRefused, AcquiredLate, AgentEnds, execution,
       Executing, IInv, TypeOK
  <2> QED BY <2>1, <2>2, NothingTaken DEF Writer!Next
<1> QED BY <1>1, <1>2, <1>3 DEF Requester

LEMMA OwnerSimulates ==
  ASSUME IInv, IInv', NEW i \in Instances, Owner(i)
  PROVE  Writer!Next \/ UNCHANGED Writer!vars
<1>1. row'.owner = row.owner /\ row'.epoch = row.epoch
  <2>1. row \in Rows
    BY DEF IInv, TypeOK
  <2>2. \A r \in {row, Cancelled(row), Released(row)} : r.owner = row.owner /\ r.epoch = row.epoch
    BY <2>1 DEF Cancelled, Released, Active, Rows
  <2>3. \A j, t : Prepared(row, j, t).owner = row.owner /\ Prepared(row, j, t).epoch = row.epoch
    BY <2>1 DEF Prepared, Rows
  <2>4. ASSUME NEW m \in asks, Serve(i, m) PROVE row'.owner = row.owner /\ row'.epoch = row.epoch
    BY <2>3, <2>4 DEF Serve
  <2>5. ~(\E m \in asks : Serve(i, m)) => row' \in {row, Cancelled(row), Released(row)}
    BY DEF Owner, Drained, DrainFailed, Disposed, DisposeFailed, Acknowledge, store
  <2> QED BY <2>2, <2>4, <2>5
<1>2. Executing' \subseteq Executing
  BY DEF Owner, Serve, Drained, DrainFailed, Disposed, DisposeFailed, Acknowledge,
     AgentEnds, execution, Executing, IInv, TypeOK
<1> QED BY <1>1, <1>2, NothingTaken DEF Writer!Next

LEMMA OthersSimulate ==
  ASSUME IInv, IInv', NEW i \in Instances,
         Acquire(i) \/ Native(i) \/ Commands(i) \/ Close(i) \/ Exit(i)
  PROVE  Writer!Next \/ UNCHANGED Writer!vars
<1>1. CASE Resumed(i)
  <2>1. Executing \subseteq {i} /\ Executing' = {i}
    BY <1>1 DEF Resumed, Executing, IInv, TypeOK, AgentHoldsLock
  <2>2. /\ row'.owner = i
        /\ row'.epoch = row.epoch + 1 \/ (row.owner = i /\ row'.epoch = row.epoch)
    BY <1>1 DEF Resumed, CanRegister, Registered, Active, NoRow
  <2>3. Writer!Take(i)
    BY <2>1, <2>2, CommitTakes
  <2> QED BY <2>3 DEF Writer!Next
<1>2. CASE ~Resumed(i)
  <2>1. row' = row
    BY <1>2, ProceedTypes DEF Acquire, Native, Commands, Close, Exit, Resume, ResumeFailed, Restore,
       NativeDispose, Wake, Admit, Attach, FinishCommand, FinishTurn, store
  <2>2. Executing' \subseteq Executing
    BY <1>2 DEF Acquire, Native, Commands, Close, Exit, Resume, ResumeFailed, Restore,
       NativeDispose, Wake, Admit, Attach, FinishCommand, FinishTurn, AgentEnds, execution,
       Executing, IInv, TypeOK
  <2> QED BY <2>1, <2>2, NothingTaken DEF Writer!Next
<1> QED BY <1>1, <1>2

(* The handoff implements the abstract writer: at any moment at most one   *)
(* instance executes the session, every term has one owner, terms grow.    *)
THEOREM HandoffImplementsWriter == Spec => OneWriter
<1>1. Init => Writer!Init
  BY DEF Init, Writer!Init, NoRow, Executor, Executing
<1>2. IInv /\ IInv' /\ [Next]_vars => [Writer!Next]_(Writer!vars)
  <2> SUFFICES ASSUME IInv, IInv', [Next]_vars PROVE Writer!Next \/ UNCHANGED Writer!vars
    OBVIOUS
  <2>1. CASE UNCHANGED vars
    <3>1. row' = row /\ Executing' = Executing
      BY <2>1 DEF vars, Executing
    <3> QED BY <3>1, NothingTaken DEF Writer!Next
  <2>2. CASE Next
    BY <2>2, RequesterSimulates, OwnerSimulates, OthersSimulate DEF Next
  <2> QED BY <2>1, <2>2
<1> QED BY <1>1, <1>2, HandoffInvariant, PTL DEF Spec, OneWriter, Writer!Spec

===============================================================================
