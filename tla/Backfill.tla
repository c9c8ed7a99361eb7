------------------------------- MODULE Backfill -------------------------------
(***************************************************************************)
(* A historical backfill: an administrator approves a run over identities   *)
(* that discovery has left inert, and every worker process that finds it    *)
(* RUNNING advances it, batch by batch, until the scan is drained or its    *)
(* item cap is reached. Operators pause, resume and cancel it meanwhile.    *)
(*                                                                          *)
(* A batch is read outside the transaction that applies it; the transaction *)
(* looks at each identity again and moves the cursor only from where the     *)
(* batch was read. The ledger (status, job) is discovery's.                  *)
(***************************************************************************)
EXTENDS Integers, FiniteSetsExt

CONSTANTS
    Worker, None,
    Item,       \* the identities of the provider, in the order of their ids
    Dated,      \* those published, by a trusted date, within the run's window
    ItemCap,    \* maxItems of the approved run
    BatchSize

VARIABLES
    status, job,
    backfill,   \* the BackfillRun row: its status, checkpointCursor and reactivatedCount
    batch       \* the batch each worker has read and not applied

NoBackfill == [status |-> "none", cursor |-> 0, reactivated |-> 0]

Init == /\ backfill = NoBackfill
        /\ batch = [w \in Worker |-> None]

\* What may be reactivated: never what has work, an Article or was deleted.
Reactivatable(x) == status[x] \in {"BASELINE", "DISCOVERED", "SKIPPED_OUTSIDE_WINDOW"}

\* createBackfillRun
Create ==
    /\ backfill.status = "none"
    /\ backfill' = [NoBackfill EXCEPT !.status = "RUNNING"]
    /\ UNCHANGED <<status, job, batch>>

\* The reads of advanceBackfillRun: the first identities beyond the cursor, no
\* more than the cap has left.
ReadBatch(w) ==
    LET found == {x \in Dated : x > backfill.cursor /\ Reactivatable(x)}
        take == Min({BatchSize, ItemCap - backfill.reactivated})
    IN  /\ batch[w] = None /\ backfill.status = "RUNNING"
        /\ batch' = [batch EXCEPT ![w] =
                       [cursor |-> backfill.cursor,
                        items |-> {x \in found : Cardinality({y \in found : y < x}) < take}]]
        /\ UNCHANGED <<status, job, backfill>>

\* The guard of every write of a batch.
Stands(w) == /\ batch[w] # None
             /\ backfill.status = "RUNNING" /\ backfill.cursor = batch[w].cursor

\* Mutant: the identities of a batch are not looked at again.
Reactivated_AsRead(w) == batch[w].items

\* Those of the batch that are still eligible.
Reactivated(w) == {x \in batch[w].items : Reactivatable(x)}

\* One transaction: the identities are queued with their jobs, and the cursor
\* moves past the batch. A job that exists already, done or not, stays as it is.
ApplyBatch(w) ==
    /\ Stands(w) /\ batch[w].items # {}
    /\ status' = [x \in Item |-> IF x \in Reactivated(w) THEN "QUEUED" ELSE status[x]]
    /\ job' = [x \in Item |-> IF x \in Reactivated(w) /\ job[x] = "none"
                              THEN "PENDING" ELSE job[x]]
    /\ backfill' = [backfill EXCEPT !.cursor = Max(batch[w].items),
                                    !.reactivated = @ + Cardinality(Reactivated(w))]
    /\ batch' = [batch EXCEPT ![w] = None]

\* markRunCompleted: nothing is left, or nothing is left of the cap.
Complete(w) ==
    /\ Stands(w) /\ batch[w].items = {}
    /\ backfill' = [backfill EXCEPT !.status = "COMPLETED"]
    /\ batch' = [batch EXCEPT ![w] = None]
    /\ UNCHANGED <<status, job>>

\* The transaction is rolled back because the run has moved on, or for any other
\* reason: the batch has no effect, and the next poll reads another.
DropBatch(w) ==
    /\ batch[w] # None
    /\ batch' = [batch EXCEPT ![w] = None]
    /\ UNCHANGED <<status, job, backfill>>

\* The controls that apply to a run; the guard of the write is the status read.
Controls == {<<"RUNNING", "PAUSED">>, <<"PAUSED", "RUNNING">>,
             <<"RUNNING", "CANCELLED">>, <<"PAUSED", "CANCELLED">>}

\* applyBackfillControl: it touches the status and nothing else.
Control ==
    /\ \E c \in Controls : /\ backfill.status = c[1]
                           /\ backfill' = [backfill EXCEPT !.status = c[2]]
    /\ UNCHANGED <<status, job, batch>>

Advance(w) == ReadBatch(w) \/ ApplyBatch(w) \/ Complete(w) \/ DropBatch(w)

-----------------------------------------------------------------------------

\* The row and the batches are well formed; no sequence of overlapping batches,
\* pauses and resumptions takes the run over its item cap.
TypeOK ==
    /\ backfill.status \in {"none", "RUNNING", "PAUSED", "CANCELLED", "COMPLETED"}
    /\ backfill.cursor \in Item \cup {0}
    /\ backfill.reactivated \in 0 .. ItemCap
    /\ \A w \in Worker :
         batch[w] # None => batch[w].cursor \in Item \cup {0} /\ batch[w].items \subseteq Dated
=============================================================================
