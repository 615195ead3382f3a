--------------------------- MODULE SessionOwnership ---------------------------
(***************************************************************************)
(* src/src/local-session-ownership.ts: the row of one session in the       *)
(* SQLite table "owners" that the instances of an account share.  Each     *)
(* operator stands for one SQL statement: a test (the WHERE clause, against*)
(* a row the caller read earlier) and the row the statement leaves.  The   *)
(* statement is atomic; nothing holds a transaction across two of them.    *)
(***************************************************************************)
EXTENDS Naturals

CONSTANTS Instances,    \* instances of the application
          Nobody,       \* the value of a NULL target and of an absent owner
          MaxEpoch,     \* 9007199254740991 in the code: no epoch after it
          MaxTransfers  \* bound: transfers that are prepared

ASSUME OwnershipAssumption ==
  /\ Nobody \notin Instances
  /\ MaxEpoch \in Nat \ {0}
  /\ MaxTransfers \in Nat

Phases == {"none", "active", "releasing", "released"}

(* transfer is a random UUID in the code; here the number of the prepare.  *)
Rows == [owner : Instances \cup {Nobody}, epoch : 0..MaxEpoch, phase : Phases,
         target : Instances \cup {Nobody}, transfer : 0..MaxTransfers]

NoRow == [owner |-> Nobody, epoch |-> 0, phase |-> "none",
          target |-> Nobody, transfer |-> 0]

Active(i, e) == [owner |-> i, epoch |-> e, phase |-> "active",
                 target |-> Nobody, transfer |-> 0]

(* register: INSERT OR IGNORE, then the row must be the caller's.          *)
CanRegister(r, i) == r = NoRow \/ (r.owner = i /\ r.phase = "active")
Registered(r, i) == IF r = NoRow THEN Active(i, 1) ELSE r

(* prepare: a fresh transfer to the target, if the row is still as read.   *)
Prepared(r, i, t) == [r EXCEPT !.phase = "releasing", !.target = i, !.transfer = t]

(* released and cancel: only the very transfer that was prepared.          *)
CanTransition(r, prepared) ==
  /\ r.phase = "releasing"
  /\ r.owner = prepared.owner
  /\ r.epoch = prepared.epoch
  /\ r.transfer = prepared.transfer
Released(r) == [r EXCEPT !.phase = "released"]
Cancelled(r) == Active(r.owner, r.epoch)

(* acquired: the named target takes a released row.                        *)
CanAcquire(r, seen, i) ==
  /\ r.owner = seen.owner
  /\ r.epoch = seen.epoch
  /\ r.epoch < MaxEpoch
  /\ r.phase = "released"
  /\ r.target = i
  /\ r.transfer = seen.transfer

(* Mutants of recovered and of the epoch acquired and recovered give.      *)
CanRecoverAnyEpoch(r, seen) ==
  r.owner = seen.owner /\ r.epoch = seen.epoch /\ r.phase = seen.phase
CanRecoverActiveOnly(r, seen) ==
  /\ r = seen
  /\ r.epoch < MaxEpoch
  /\ r.phase = "active"
NextTermUnnumbered(r, i) == Active(i, r.epoch)

(* recovered: the row is exactly as it was seen, in whatever phase.        *)
CanRecover(r, seen) ==
  /\ r.owner = seen.owner
  /\ r.epoch = seen.epoch
  /\ r.epoch < MaxEpoch
  /\ r.phase = seen.phase
  /\ r.transfer = seen.transfer

NextTerm(r, i) == Active(i, r.epoch + 1)

(* The comparison the coordinator makes before it trusts its own row.      *)
SameOwner(seen, r) ==
  /\ r.owner = seen.owner
  /\ r.epoch = seen.epoch
  /\ r.phase = "active"

===============================================================================
