------------------------------ MODULE JobTable ------------------------------
(***************************************************************************)
(* The rows of the durable Job table (prisma/schema.prisma, src/lib/jobs): *)
(* the status groups, what makes a row claimable, and what each guarded    *)
(* UPDATE writes. Every operator here is a function of one row; the        *)
(* modules that extend this one say who runs the UPDATE and when.          *)
(*                                                                         *)
(* Time is relative. `wait` is the time left until runAfter (0 once it has *)
(* passed) and `lockAge` the time since lockedAt, saturated just above the *)
(* lock TTL: the code compares runAfter and lockedAt with now and nothing  *)
(* else. Rows are independent of payload, priority, errorHistory and the   *)
(* timestamps nothing decides on.                                          *)
(*                                                                         *)
(* A name with an underscore (Exhausted_OffByOne) is a deliberately wrong  *)
(* form of the definition that follows it: the property it is paired with  *)
(* in PROJECT.json fails when it takes that definition's place.            *)
(***************************************************************************)
EXTENDS Naturals

CONSTANTS
    Worker,       \* worker identities; generateWorkerId never repeats one
    None,         \* SQL NULL: no lock holder, no key, no row
    MaxAttempts,  \* Job.maxAttempts of every row (the type's retry policy)
    LockTtl,      \* lock lease length, in ticks
    MaxDelay      \* bound on backoff and on a requested start delay, in ticks

ASSUME NoneAssumption == None \notin Worker
ASSUME MaxAttemptsAssumption == MaxAttempts \in Nat \ {0}
ASSUME LockTtlAssumption == LockTtl \in Nat \ {0}
ASSUME MaxDelayAssumption == MaxDelay \in Nat

-----------------------------------------------------------------------------
(* Status groups *)

RUNNABLE_STATUSES == {"PENDING", "FAILED"}
RECLAIMABLE_STATUSES == {"CLAIMED", "RUNNING"}
ACTIVE_STATUSES == RUNNABLE_STATUSES \cup RECLAIMABLE_STATUSES
TERMINAL_STATUSES == {"COMPLETED", "DEAD_LETTER"}
RETRYABLE_STATUSES == {"FAILED", "DEAD_LETTER"}

\* UNBORN: an id not handed out yet. DELETED: a row that was removed; ids are
\* never reused (cuid).
ABSENT == {"UNBORN", "DELETED"}

Row == [status   : ACTIVE_STATUSES \cup TERMINAL_STATUSES \cup ABSENT,
        attempts : 0..MaxAttempts,
        lockedBy : Worker \cup {None},
        lockAge  : 0..(LockTtl + 1),
        wait     : 0..MaxDelay]

RowOf(status, attempts, lockedBy, lockAge, wait) ==
    [status |-> status, attempts |-> attempts, lockedBy |-> lockedBy,
     lockAge |-> lockAge, wait |-> wait]

UnbornRow == RowOf("UNBORN", 0, None, 0, 0)

-----------------------------------------------------------------------------
(* Guards *)

Claimable_NoReclaim(r) == r.status \in RUNNABLE_STATUSES /\ r.wait = 0

\* The WHERE of both claim adapters: a runnable row whose runAfter has passed,
\* or a leased row whose lock is older than the TTL.
Claimable(r) == \/ r.status \in RUNNABLE_STATUSES /\ r.wait = 0
                \/ r.status \in RECLAIMABLE_STATUSES /\ r.lockAge > LockTtl

OwnedClaimed(r, w) == r.status = "CLAIMED" /\ r.lockedBy = w
OwnedRunning_AnyOwner(r, w) == r.status = "RUNNING"
OwnedRunning(r, w) == r.status = "RUNNING" /\ r.lockedBy = w

-----------------------------------------------------------------------------
(* Writes *)

\* A row whose lock is released: lockedBy and lockedAt are NULL.
UnlockedRow(status, attempts, wait) == RowOf(status, attempts, None, 0, wait)

PendingRow(delay) == UnlockedRow("PENDING", 0, delay)

\* A claim leases the row; it does not count an attempt, stale or not.
ClaimedRow(r, w) == RowOf("CLAIMED", r.attempts, w, 0, r.wait)

StartedRow(r) == RowOf("RUNNING", r.attempts, r.lockedBy, 0, r.wait)

HeartbeatRow_NoRefresh(r) == r
HeartbeatRow(r) == RowOf(r.status, r.attempts, r.lockedBy, 0, r.wait)

CompletedRow(r) == UnlockedRow("COMPLETED", r.attempts, r.wait)

\* failJob with the attempt count it read before the UPDATE.
Exhausted_OffByOne(seen) == seen + 1 > MaxAttempts
Exhausted(seen) == seen + 1 >= MaxAttempts

DeadLetteredRow(r, seen) == UnlockedRow("DEAD_LETTER", seen + 1, r.wait)

FailedRow(seen, delay) == UnlockedRow("FAILED", seen + 1, delay)

RetriedRow == UnlockedRow("PENDING", 0, 0)

CancelledRow_KeepsLock(r) ==
    RowOf("DEAD_LETTER", r.attempts, r.lockedBy, r.lockAge, r.wait)
CancelledRow(r) == UnlockedRow("DEAD_LETTER", r.attempts, r.wait)

DeletedRow == UnlockedRow("DELETED", 0, 0)

\* One tick of the clock, seen by a row.
OlderRow(r) ==
    RowOf(r.status, r.attempts, r.lockedBy,
          IF r.lockedBy = None \/ r.lockAge > LockTtl THEN r.lockAge ELSE r.lockAge + 1,
          IF r.wait = 0 THEN 0 ELSE r.wait - 1)
=============================================================================
