--------------------------- MODULE CandidateLedger ---------------------------
(***************************************************************************)
(* What discovery promises the rest of the system: a ledger of the          *)
(* identities of a provider that is only added to. An identity is admitted  *)
(* once, with the status its first observer gives it; work is enqueued for  *)
(* it at most once; for one that was admitted as part of a baseline or as   *)
(* published before the window, only when a backfill reactivates it.        *)
(***************************************************************************)
EXTENDS Naturals

CONSTANTS Item   \* the provisional identities of one provider

VARIABLES
    status,   \* CrawlCandidate.status of each identity, "none" without a row
    job       \* its ARTICLE_INGEST job at the current processing version

ledger == <<status, job>>

Inert == {"BASELINE", "SKIPPED_OUTSIDE_WINDOW"}
Admissible == Inert \cup {"DISCOVERED"}
Status == Admissible \cup {"none", "QUEUED", "INGESTING"}
JobState == {"none", "PENDING", "TAKEN", "CANCELLED"}

TypeOK == /\ status \in [Item -> Status]
          /\ job \in [Item -> JobState]

Init == /\ status = [x \in Item |-> "none"]
        /\ job = [x \in Item |-> "none"]

-----------------------------------------------------------------------------

\* A page is committed: some unknown identities get a status, and work is
\* enqueued for some of those that are DISCOVERED now.
Admit ==
    /\ status' \in [Item -> Status] /\ job' \in [Item -> JobState]
    /\ \A x \in Item :
         /\ status'[x] # status[x] => status[x] = "none" /\ status'[x] \in Admissible
         /\ job'[x] # job[x] => job[x] = "none" /\ job'[x] = "PENDING" /\ status'[x] = "DISCOVERED"

\* An activation queues discovered identities.
Queue ==
    /\ status' \in [Item -> Status]
    /\ \A x \in Item : status'[x] # status[x] => status[x] = "DISCOVERED" /\ status'[x] = "QUEUED"
    /\ UNCHANGED job

\* A backfill reactivates identities: they are queued, with work unless they had
\* some already.
Reactivate ==
    /\ status' \in [Item -> Status] /\ job' \in [Item -> JobState]
    /\ \A x \in Item :
         /\ status'[x] # status[x] => /\ status[x] \in Admissible /\ status'[x] = "QUEUED"
                                     /\ job'[x] # "none"
         /\ job'[x] # job[x] => /\ job[x] = "none" /\ job'[x] = "PENDING"
                               /\ status'[x] # status[x]

\* A rollback cancels work nobody has taken.
Cancel ==
    /\ job' \in [Item -> JobState]
    /\ \A x \in Item : job'[x] # job[x] =>
         job[x] = "PENDING" /\ job'[x] = "CANCELLED" /\ status[x] \in {"DISCOVERED", "QUEUED"}
    /\ UNCHANGED status

\* A worker takes the work; what it makes of the identity is CandidateIngest's.
Take(x) ==
    /\ job[x] = "PENDING"
    /\ job' = [job EXCEPT ![x] = "TAKEN"]
    /\ status' = [status EXCEPT ![x] = "INGESTING"]

Next ==
    \/ Admit \/ Queue \/ Reactivate \/ Cancel
    \/ \E x \in Item : Take(x)

Spec == Init /\ [][Next]_ledger

-----------------------------------------------------------------------------

\* An identity of a baseline, or published before the window, has no work: it
\* is never fetched by an incremental run.
InertHasNoJob == \A x \in Item : status[x] \in Inert => job[x] = "none"
=============================================================================
