------------------------------ MODULE WorkQueue ------------------------------
(***************************************************************************)
(* What the job queue promises about each piece of work, with the worker    *)
(* loops, the heartbeats, the clock and the enqueue races left out: work    *)
(* waits, is leased to one worker at a time, and settles; a lease may pass  *)
(* to another worker; a failure that gives the work back is counted, and    *)
(* only while tries are left; settled work comes back solely as fresh work, *)
(* and only settled work disappears. JobQueue implements this module.       *)
(***************************************************************************)
EXTENDS Naturals

CONSTANTS Job, Worker, None, MaxAttempts

VARIABLES
    phase,   \* new, waiting, leased, settled or gone
    holder,  \* the worker a piece of work is leased to
    tries    \* failures counted since the work was fresh

vars == <<phase, holder, tries>>

Init ==
    /\ phase = [j \in Job |-> "new"]
    /\ holder = [j \in Job |-> None]
    /\ tries = [j \in Job |-> 0]

Becomes(j, p, h, n) ==
    /\ phase' = [phase EXCEPT ![j] = p]
    /\ holder' = [holder EXCEPT ![j] = h]
    /\ tries' = [tries EXCEPT ![j] = n]

Unsettled(j) == phase[j] \in {"waiting", "leased"}

\* Fresh work: new, resubmitted after it settled, or retried by an operator
\* while nobody holds it.
Submit(j) == phase[j] \in {"new", "waiting", "settled"} /\ Becomes(j, "waiting", None, 0)

Lease(j, w) == Unsettled(j) /\ Becomes(j, "leased", w, tries[j])

GiveBack(j) ==
    /\ phase[j] = "leased" /\ tries[j] + 1 < MaxAttempts
    /\ Becomes(j, "waiting", None, tries[j] + 1)

Settle(j) ==
    /\ phase[j] = "leased"
    /\ \E n \in {tries[j], tries[j] + 1} : Becomes(j, "settled", None, n)

Withdraw(j) == phase[j] = "waiting" /\ Becomes(j, "settled", None, tries[j])

Remove(old) ==
    /\ \A j \in old : phase[j] = "settled"
    /\ phase' = [j \in Job |-> IF j \in old THEN "gone" ELSE phase[j]]
    /\ tries' = [j \in Job |-> IF j \in old THEN 0 ELSE tries[j]]
    /\ UNCHANGED holder

Next ==
    \/ \E j \in Job :
        \/ Submit(j) \/ GiveBack(j) \/ Settle(j) \/ Withdraw(j)
        \/ \E w \in Worker : Lease(j, w)
    \/ \E old \in SUBSET Job : Remove(old)

Spec == Init /\ [][Next]_vars
=============================================================================
