# Verification of ReadWise

TLA+ models of the concurrent and failure-prone parts of ReadWise, TLC
configurations that check them on small instances, and theorems about them
checked by TLAPS for every value of the constants.

Run from this directory: `tlc -workers 2 -config JobQueue_safety.cfg
MC_JobQueue.tla` checks one run, `tlapm JobQueue_proofs.tla` the proofs of one
module; the modules with proofs are `LeastElement` and those named `..._proofs`.
`PROJECT.json` lists the runs, the lines of the repository each definition
models, the hazards and the properties that cover them, the findings and the
theorems. Paths below are relative to `src/src/lib/`.

## 1. The system

ReadWise is a Next.js application over a SQL database (PostgreSQL, or SQLite in
development), with worker processes that share the database with the web
processes. Nothing is shared in memory between processes: every protocol goes
through rows, guarded `UPDATE`s and transactions. In the browser, an offline
queue in IndexedDB is shared by several tabs.

| Component | State | Operations | Interacts with | What is hard | What makes it correct |
|---|---|---|---|---|---|
| Job table and lifecycle (`jobs/`) | `Job` rows: status, attempts, maxAttempts, runAfter, lockedBy, lockedAt, dedupeKey | claim, start, heartbeat, complete, fail, retry, cancel, archive, prune | worker runtime, enqueuers, admins | stale locks, read-then-CAS, admins acting on leased rows | a row is locked exactly while leased; only the latest run records a result; attempts bounded; every job settles |
| Enqueueing (`jobs/enqueue.ts`) | rows by dedupe key | find, reset, re-read, create, re-read after P2002; in-transaction upsert | all producers of work | find/reset/create race with each other, with archive and prune | a call that returns a job has seen the key served |
| Worker runtime (`worker/`) | the loop, one execution in hand, its abort scope and heartbeat timer | poll, claim, execute, heartbeat, stop | Job table, handlers, sibling loops | crash, stall, throwing statements, stop signals between awaits | one handler per job while timely; no lost results |
| Discovery (`scraper/incremental/discovery-*`, `page-commit.ts`, `frontier-commit.ts`) | `DiscoverySource` lease, schedule, streak; candidates | claim source, read and commit a page, commit frontier, demote, finalise, request a run | candidate ingestion, operators | no lease heartbeat, a run is many statements, crash between them | the candidate ledger only grows; an overtaken run is inert; a due source is run |
| Source lifecycle and trust (`scraper/incremental/*-commit.ts`) | mode, activation generation, trust flag | begin and complete a baseline, activate, pause, resume, roll back, disable, retire; promote, demote | discovery, ingestion | operators decide from a read; runs demote by themselves | no way past the baseline; a source that must not run is not scheduled |
| Candidate ingestion (`worker/registry.ts`, `scraper/incremental/ingest-*`, `article-save-commit.ts`) | `CrawlCandidate` rows, their ingest job, `Article` | attempt, classify, recover, reactivate, save, cancel | Job table, discovery | two rows advanced in separate transactions, versions of a job, unique conflicts | Article, link and follow-up job stand or fall together; nothing is saved for a settled candidate |
| Article processing, AI cache, publication, takedown, forced re-scrape (`processing/`, `ai/cache.ts`, `article-library/`, `scraper/incremental/force-rescrape-*`, `derived-regeneration.ts`) | article status and takedown state, stored outputs per feature, content versions | enrich, generate on demand, publish, withdraw, restore, rebuild, re-scrape, regenerate, reconcile | Job table, AI provider, readers, editors | long awaits between what is read and what is stored; several writers of one status | withdrawn means down; a provider's draft is published whole; outputs of a replaced text are regenerated |
| Account admission (`account-admission/`) | invitations, pending registrations, reset links, the mail outbox | create, rotate, revoke, accept, register, confirm, reset, set password; queue, claim, check, acknowledge, prune | an external mail sender | two isolation levels, lost and late acknowledgements | a link works once; no link is mailed twice; dead links are not mailed |
| Offline sync (`offline/`) | IndexedDB queue, owner, purge generation; each tab's actor | submit, queue, replay, retry, drop, change of account, sign-out, purge | server routes, other tabs | several tabs, account switch and purge while a request is awaited | for the right account, in order of dependence, nothing after a purge, nothing acknowledged lost |
| Historical backfill (`scraper/incremental/backfill-*.ts`, `worker/backfill-loop.ts`) | `BackfillRun`: status, cursor, counts | create, advance by a batch, pause, resume, cancel | discovery's candidates, the Job table | every worker advances the same run; controls, discovery and ingestion act between the reads of a batch and its transaction | an identity is reactivated once and only while the run is RUNNING; the item cap holds |
| Hostname rate governor | windows, circuit state per host | reserve, record response | discovery, ingestion | concurrent reservations at the limit | not modelled |
| Reminders, rate limits, Today session | delivery health, counters, sessions | tick, consume, apply | | overlapping ticks, fallbacks | not modelled |

The rest (learning algorithms, media, CRUD libraries, permissions,
observability, the web application) is listed in `PROJECT.json` and under "Not
modelled" below.

How the parts interact: discovery admits candidates and enqueues their ingest
jobs; ingestion turns a candidate into an Article and enqueues its enrichment job;
enrichment fills in the outputs and publishes; operators and editors act on all
three. All jobs go through the one Job table. `WorkQueue` is the contract between
them: `JobQueue` implements it, and `CandidateIngest` and `ArticleContent` run
over it. `CandidateLedger` is the contract between discovery and ingestion.

## 2. Modules

| Module | What it is |
|---|---|
| `JobTable` | the rows of the Job table: status groups, the claim's `WHERE`, what each guarded `UPDATE` writes. Functions of one row, no variables |
| `JobQueue` | workers, callers of `enqueueJob`, operators, the clock and the faults over one Job table |
| `WorkQueue` | the abstract queue: new, waiting, leased, settled, gone |
| `CandidateLedger` | the abstract ledger of a provider's identities: admitted once, given work at most once, and when inert only by a backfill |
| `Backfill` | a historical backfill: operators who control it, workers who advance it |
| `Discovery` | workers that lease due sources and admit what their pages list, operators who move sources through their lifecycle; with `Backfill` |
| `CandidateIngest` | from a discovered candidate to at most one Article, over the job table `WorkQueue` promises |
| `ArticleContent` | one public article: enrichment, publication, takedown, re-scrape and regeneration, over `WorkQueue` |
| `Admission` | links that admit people to accounts, and the outbox that mails them |
| `OfflineSync` | the offline queue of one browser with several tabs, and the server's side of it |
| `MC_...` | instances for TLC |
| `JobQueue_proofs` | the inductive invariant of `JobQueue`; its rows and results |
| `JobQueuePromises_proofs` | what the queue promises callers and handlers, and that it implements `WorkQueue` |
| `Discovery_proofs` | the ledger, leases, schedule and lifecycle of `Discovery` with its `Backfill` |
| `CandidateIngest_proofs`, `Admission_proofs`, `ArticleContent_proofs`, `OfflineSync_proofs` | the invariant and the theorems of the module of that name |
| `LeastElement` | every non-empty set of naturals has a least element, for the models' `Min` and `CHOOSE`s |

Common to all modules: one database statement, or one transaction that commits
only if what it read still stands, is one step. What reads and then writes
without such a guard is two steps, and anybody may act in between. A process that
awaits keeps what it has read in a variable of its own. History variables say so
in their comments; no action's guard reads them.

### JobTable and JobQueue

**State.** `job` is the Job table. `worker` is what each worker process has in
memory: where its loop and the claimed-job executor stand (`pc`), the job in
hand, the state of `handlerAbort` (`scope`: live, aborted, or aborted with
`ownershipLost`), the ticks to its next heartbeat, the class of the error in hand
and the attempt count `failJob` has read. `stopping` is the stop signal, `call`
the `enqueueDeduped` calls in progress. `starter` and `served` are history
variables: no action reads them, only properties do.

**Steps.** One database statement is one step; a process that awaits between two
statements takes two steps, and everybody else may run in between. So `failJob`
is `FailRead` and `FailWrite`, `enqueueDeduped` is six statements, and the
executor is claim, start, heartbeats, handler, complete or fail.

| Code | Actions |
|---|---|
| `worker/loop.ts` | `Poll`, `Stop`, `Claim`, `ClaimNothing`, `ClaimThrows` |
| `jobs/claim*.ts` | `Claim`, `Claimable`, `ClaimedRow` |
| `worker/claimed-execution.ts` | `Start`, `StartSkipped`, `Heartbeat`, `HandlerReturns`, `HandlerThrows`, `HandlerAborts`, `AfterError`, `Shutdown` and the `...Throws` actions |
| `jobs/lifecycle.ts` | `Start`, `Heartbeat`, `Complete`, `FailRead`, `FailWrite`, `Retry`, `Cancel`, `Archive` |
| `jobs/retention.ts` | `PruneTerminalJobs` |
| `jobs/enqueue.ts` | `EnqueuePlain`, `EnqueueInTx`, `EnqueueFind`, `EnqueueReset`, `EnqueueConfirm`, `EnqueueReread`, `EnqueueCreate`, `EnqueueConflict`, `EnqueueWinner` |

**Abstractions.**

- Time is relative: a row carries the time to `runAfter` and the age of its lock,
  because the code compares both with now and nothing else. `Tick` ages all rows
  and counts down all heartbeat timers. The age saturates just above the TTL.
- A claim takes any claimable row: `ORDER BY` and `SKIP LOCKED` pick one of them.
  This only adds behaviour, and the fairness below restores the order's effect.
- Backoff is any delay from 0 to `MaxDelay`; whether an error is permanent is a
  Boolean choice. Payload, priority, error history, metrics and the timestamps
  nothing decides on are left out. Every row has the same `MaxAttempts`.
- The `findUnique` that `startJob`, `completeJob` and the admin functions do after
  their `UPDATE` only fetches the row to return. It can find nothing only if the
  row was cancelled and archived in between; the caller then takes the path of a
  lost CAS, which writes nothing either.
- A statement that throws may have taken effect or not (`ClaimThrows`,
  `StartThrows`, `HeartbeatThrows`, `CompleteThrows`, `FailThrows`).
- Row ids and worker ids are never reused (cuid, random suffix). The prune cutoff
  may fall anywhere among the terminal rows.
- A heartbeat already sent when the handler returns is not modelled: it can only
  refresh the lock of a row the worker still owns. `once` mode is left out.

`Env` says which faults and operators exist in an instance, so that one
specification serves runs that assume a calm environment and runs that do not.

**Properties.**

- `RowConsistent`: locked exactly while leased; attempts left while it may run.
- `SeenCurrent`: when `failJob`'s CAS can succeed, the count it read is current.
- `ResultFromLatestRun`: only the worker that started a job last records a result.
- `EnqueueServed`: a call that returned a job has seen its key active.
- `ImplementsWorkQueue`: refinement of `WorkQueue`. The mapping is the status group
  of a row, its lock holder and its attempts; heartbeats, worker loops and the
  clock are stuttering.
- `OneRunPerJob`: no two handlers run one job.
- `EveryJobSettles`: an active job eventually is not active any more.

### CandidateIngest

**State.** `source` is the discovery source's mode and activation generation.
`candidate` holds the `CrawlCandidate` rows: status, linked Article, canonical
key, recorded prose, failed attempts, version and the deletion stamp. `article`
and `process` are the addresses with a public Article and with its
`ARTICLE_PROCESS` job. `phase`, `holder` and `tries` are the `ARTICLE_INGEST`
jobs, one per candidate and version, as `WorkQueue` keeps them. `run` is what
each worker holds in memory: how far its attempt has come, the attempt number and
the generation it read, the decision of a transaction that has not written yet,
and the candidate it will save (`target`: a merge may elect another one than the
job's). `outdated` is a history variable.

**Steps.** The transactions run at READ COMMITTED. One that reads, decides and
then writes is two steps, `ReadIdentity` and `CommitIdentity` for instance, and
other runs may commit between them; the second step looks again only where the
code's `UPDATE` has a guard or a unique index. A transaction whose single write
is guarded by all it has read is one step. A handler's consecutive reads with no
write between them (`Load`) are one step, and so is the convergence after a
conflict, whose only write is guarded.

| Code | Actions |
|---|---|
| `worker/registry.ts` (the ingest handler) | `Load`, `FetchFails` |
| `ingest-outcome.ts`, `ingest-recovery.ts` | `Disposition`, `Recovered` in `FetchFails` |
| `ingest-runner.ts` | `Load`, `FetchStops`, `FetchDraft` |
| `final-identity.ts`, `final-identity-commit.ts` | `MergeWinner`; `FetchDraft`, `RouteToReview`, `ReadIdentity`, `CommitIdentity`, `ReadProse`, `CommitProse`, `PickSurvivor` |
| `article-save-commit.ts` | `CheckSave`, `CommitSave`, `Converge` |
| `page-commit.ts`, `lifecycle-commit.ts`, `rollback-commit.ts` | `Discover`, `Activate`, `Rollback` |
| `article-library/admin.ts`, `candidate-deletion-stamp.ts`, `deleted-article-recovery.ts` | `DeleteArticle`, `RecoverDeleted` |
| the worker and the job table | `Claim`, `Throws`, `Completes`, `FailsJob`, `Crashes` |

**Abstractions.**

- The job table is `WorkQueue`, which `JobQueue` is proved to implement: a worker
  finds waiting jobs and leases gone stale, and records a result only while it
  holds the lease. A job is PENDING when it waits and has never failed, FAILED
  when it waits after a failure. Only a `Mortal` worker loses a lease, by a crash
  or by going silent; retention is left out, since a pruned key only makes a
  recovery enqueue, as a higher version does.
- A page's final address, canonical key and prose do not change between fetches.
  A draft, a failure of any class and a stop are possible at every fetch; times
  (backoff, Retry-After, grace window) are left out.
- One provider and one source: no transfer, no cross-provider match. Nothing is
  observed in a baseline. `activatedAt` is set once, before any job exists, so the
  generation alone tells runs of different activations apart.
- `Activate` may move any discovered candidates to QUEUED (the code bounds their
  age and number). Its preconditions (exit gates, credentials, leases) are left out.
- Statuses that no code sets (INGESTING, FAILED) are left out, and so are the
  review, skip and backfill statuses that only operators' reviews reach.
- The production wiring does not yet inject the fetch step (`runIngestAttempt`), so
  the model follows the runner the code composes for it.

**Properties.**

- `ArticlesAreWhole`: links point to Articles, every Article has a candidate and
  its enrichment job.
- `StaleRunSavesNothing`: a run overtaken by a rollback creates no Article, not even
  when the source is active again.
- `SettledGetsNoArticle`, `SetAsideHasNoJob`: a candidate that was rejected,
  quarantined, folded or parked gets no Article, and one that was folded or parked
  has no job left, whatever a run in progress still holds.
- `OneArticlePerIdentity`, `KnownArticleUntouched`: variants of a page and identical
  prose have one Article between them, and a merge leaves the candidate that has
  it alone. Both hold when attempts do not overlap (see known divergences), the first
  also only if nobody readmits a candidate while a run settles: `OrderlySpec` is `Spec`
  without such a readmission.

A race the model shares with the code: `Rollback` may commit between a save's last
check and its write, and the Article is then saved (`StaleRunSavesNothing` counts
a run as overtaken only up to its check). `Activate` moves candidates to QUEUED
without enqueuing jobs, and a run that stops or finds its generation stale leaves
an open candidate with no job; the code documents both, so no property forbids
a candidate without work.

### CandidateLedger, Discovery and Backfill

**State.** `mode`, `window` (was a baseline completed, and which articles were out
by then), `trusted`, `streak` and `generation` are what a `DiscoverySource` row says
about policy; `owner` and `expired` its lease; `backoff`, `due` and `parked` its
schedule: `nextRunAt` is past (`due`; `before` orders those sources by it, two that came
due together not at all), null (`parked`) or to come. `status`,
`origin` and `job` are the ledger: candidates of the provider, and their jobs. `run` is
what a worker's run holds in memory: how far it is, the mode, trust and streak it
read at the claim, and the decisions of a page not yet committed. `op` is an operator's
action between its reads and its write. `published` is the site.
`backfill` is a `BackfillRun` row (status, cursor, identities reactivated) and `batch`
what each worker has read of it and not applied; `Discovery` instantiates `Backfill`
over its own ledger.

| Code | Actions |
|---|---|
| `worker/discovery-loop.ts` | `Claim`, `Abort`, `Stop` |
| `discovery-claim*.ts` | `Ready`, `Pick`, `Claim` |
| `nextRunAt`, wherever it is written | `Without`, `Last`, `NotDue`, `DueNow`, `DueLater`, `Park` |
| `discovery-run.ts` | `Claim`, `Defer`, `Progress`, `FinalizeSuccess`, `FinalizeFailure`, `LeaseLost`, `Release` |
| `classify.ts`, `page-commit.ts` | `Unknown`, `Outcome`, `ReadPage`, `Eligible`, `Admitted`, `Enqueued`, `CommitPage` |
| `frontier-commit.ts` | `CommitFrontier` |
| `observability-query.ts`, `lifecycle-commit.ts` | `Demote`, `Degrade`, `SkipDemotion` |
| `source-trust-commit.ts` | `RevokeTrust`, `RollToShadow`, `SetTrust` |
| `lifecycle.ts`, `lifecycle-actions.ts`, `rollback-commit.ts` | `Allowed`, `Target`, `Accepts`, `Selections`, `Idling`, `OpRead`, `OpLoad`, `OpConflict`, `OpCommit`, `Cancellable` |
| `incremental-run-request.ts` | `Requested`, `Request` |
| `backfill-commit.ts` (`Backfill`) | `Create`, `ReadBatch`, `Stands`, `Reactivated`, `ApplyBatch`, `Complete`, `DropBatch`, `Control` |
| `backfill-query.ts`, `backfill-policy.ts`, `worker/backfill-loop.ts` | `Reactivatable`; `Controls`; `Advance`, `Backfills` |
| time, the site, the ingest workers | `Expire`, `BackoffEnds`, `ComesDue`, `Publish`, `TakeJob` |

An operator's action reads twice before it writes: `applyLifecycleAction` reads the row to
choose the target (`OpRead`), and `transitionDiscoveryLifecycle` or one of the special
commits reads it again to check the transition (`OpLoad`). The write that follows is
guarded by what the second read saw, and by no more (`OpCommit`).

**Abstractions.** The claim and the re-read of the claimed row are one step. A page
is the identities it lists that the provider has no row for; observations, aliases
and page contents are left out, and so are the watermark and gap decisions of
`frontier.ts`, since production runs commit neither. Whether a page reached its
boundary, whether the watermark stalled and whether a trusted source drifted are
free choices (`Boundary`, `Stalls`, `Drifts`). A run reads one page: the multi-page
adapters, the governor's gate (`Governed`), credential pauses and definition versions
have no production caller. `completeBaseline` has none either (`LIFECYCLE_ACTIONS` in
`lifecycle-action-meta.ts:15-23` does not offer it): only tests complete a baseline, and
the model has it as an operator's action, since without it no source leaves its
baseline. What an ingest worker makes of a job is `CandidateIngest`'s.

Of a backfill there is one run at most. The ids of candidates, which order its scan, are
taken to follow publication; its window is the set `Dated`. `DropBatch` stands for a lost
compare-and-set and for a transaction that fails or a worker that dies before it commits:
none leaves a trace. Nothing sets the status FAILED. Candidate ingestion is enabled, so
that a reactivated identity is always enqueued.

**Properties.**

- `ImplementsLedger`: every step of `Discovery` is a step of `CandidateLedger`. The
  ledger says that an identity is admitted once, that work is enqueued at most once,
  by a page only for DISCOVERED identities and by a backfill only together with a
  change to QUEUED, whatever runs, operators and batches overlap.
- `InertHasNoJob`: baseline and outdated identities get no work, even when two
  sources in different modes read one identity at the same time.
- `OvertakenRunIsInert`: a run whose lease was taken over changes nothing any more.
- `WorkIsWanted`: a page checks the mode before its transaction, not in it;
  nevertheless pages create work for ACTIVE sources only, because every operator action
  waits until the source is idle. A batch creates work only while its run is RUNNING,
  although it was read earlier and the run may have been paused or cancelled since.
- `PausedIsNotScheduled`: a source in a mode that must not run has no due time,
  although `finalizeSuccess` writes one computed from what it read long before.
- `BaselinedBeforeShadow`: no sequence of pause, resume, rollback and disable brings
  a source past its baseline, as long as operators act one at a time. With two it is not
  so (`ResumeKeepsBaseline`, under Findings).
- `DueIsRun`: a due source is run (liveness).

Observed in the model and accepted by the code: candidates that an activation
moves to QUEUED have no job; a cancelled job is not enqueued again, not even by a backfill
that reactivates its identity; a crash between
page commit and finalisation loses the reset of the streak; `resume` of an ACTIVE
source demotes it without parking it; a request made during a run is absorbed when
that run finalises.

### ArticleContent

**State.** `status`, `withdrawn` and `trust` are what decides whether readers see the
article; `text` is the number of the content version readers read; `stored` says
from which text each required output (difficulty, tags, vocabulary, quiz) was made;
`version`, `stamped` and `claimed` are the `ArticleContentVersion` rows and their
regeneration marks; `phase`, `holder` and `tries` the enrichment jobs, as `WorkQueue`
keeps them. `run`, `reading`, `op`, `scrape` and `swept` are what enrichment runs,
readers, operators, re-scrapes and the reconciler have read and not yet written.
`cast` says who takes part in a behaviour.

| Code | Actions |
|---|---|
| `processing/processor.ts` | `Load`, `Recheck`, `Publish`, `Completes`, `FailsJob` |
| `ai/cache.ts` | `ReadText`, `Store`, `Made` for runs; `Open`, `Answered` for readers |
| `processing/publication-policy.ts` | `MayPublish`, `ChangeTrust` |
| `article-library/review.ts` | `Decide`, `EditorPublishes`, `EditorUnpublishes` |
| `article-library/takedown.ts` | `Decide`, `Withdraw`, `Restore` |
| `processing/backfill.ts` | `BeginRebuild`, `ClearForRebuild`, `EnqueueRebuild` |
| `force-rescrape-runner.ts`, `force-rescrape-commit.ts` | `Ask`, `Materialise`, `ClaimPending`, `Reject`, `Activate`, `Regenerate` |
| `derived-regeneration.ts`, `rescrape-regen-reconcile.ts` | `Clear`, `RequestRegen`, `Unclaimed`, `Scan`, `Redrive` |
| the worker and its process | `Claim`, `Crashes`, `Dies` |

**Abstractions.** Step rows decide nothing but what is displayed. Optional features
(speech, translations, grammar), payload lists, articles of organisations and users,
and the statuses FAILED and ARCHIVED are left out. How annotations move to a new text
is a gate that refuses or not (`Reject`), at will. The reconciler's grace period is left
out: the sweep may come at any time. The production draft preparation of a re-scrape
fails closed, so activation has no production path yet; the model follows the
functions it is composed of.

**Properties.**

- `WithdrawnIsDown`: a withdrawn article is not published, however decisions of
  runs, editors and moderators on stale reads interleave.
- `AutoPublishedIsWhole`: a run publishes a provider's draft only with all required
  outputs stored, unless they were cleared after its last check.
- `StaleIsOvertaken`: an output made from an old text is either one whose
  regeneration is still owed or one that a generation overtaken by the new text
  stored.
- `RegeneratedOnce`: a runner and a sweep that regenerate one version clear it once.
- `SwapIsRegenerated`: a text put in place gets its regeneration enqueued, though
  the re-scrape dies or fails before (liveness).

Observed and accepted: a generation under way when the outputs are cleared stores
what it made of the old text; activation does not look at a takedown; a re-scrape that
dies leaves its pending version, which blocks later re-scrapes of the article; trust
revoked during a run is not noticed; a rebuild clears before it enqueues, so a crash or
a running job that absorbs the enqueue leaves the outputs missing until a reader asks.

### Admission

**State.** `account`, `invitation`, `pending` and `reset` are the rows that hold links;
`issued` and `lapsed` say which links exist and which have expired; `mail` and `overdue`
are the outbox. `call` is what each request has read and decided, `sender` what each
mail sender has in hand. `mailed` and `used` are histories.

| Code | Actions |
|---|---|
| `serializable-transaction.ts` | `Begin`, `Conflicts`, `Writes`, `Fail` |
| `invitations.ts` | `Invite`, `Rotate`, `Revoke`, `Inspect`, `Expire` and their `Begin...` |
| `registration.ts` | `Accept`, `ExpireAccepting`, `Register`, `Confirm`, `Drop` |
| `credentials.ts` | `Request`, `Reset`, `Clear`, `SetPassword` |
| `account-removal.ts`, `retention.ts` | `Remove`, `Prune` |
| `account-mail-outbox.ts` | `Issue`, `Live`, `Swept`, `Sweep`, `ClaimRow`, `Check`, `Acknowledge`, `TimeOut` |
| the external sender | `Deliver`, `Finish`, `Die` |

A serializable transaction commits only if the tables it read are unchanged for the
address; a retry is another request. Requests outside one (`Revoke`, `Inspect`, the
outbox) have only the guards of their `UPDATE`s. Passwords, hashing, sign-in,
sessions, audit rows and roles are left out, and so is an acceptance for an address
other than the invited one.

**Properties.** `LinkWorksOnce`: a link takes effect once, and only while a row holds it.
`SettledInvitationIsFinal`: the first to accept, revoke or expire an invitation settles
it. `ExpiredIsLapsed`: looking at an old link never expires a rotated invitation.
`MailedAtMostOnce`: senders overlap, die and answer late, and no link is mailed twice.
`StaleMailIsNotSent`: a link that dies while its mail waits is not mailed.
`EveryMailSettles`: every queued message comes to an end (liveness).

### OfflineSync

**State.** `session` is the cookie; `owner`, `blocked` and `gen` are the keys of
localStorage; `queue` the set of rows in IndexedDB, each with its `createdAt` (`at`, taken
from the counter `puts`). Per tab: the session it has rendered
(`view`), its actor and whether it is established, the account changes it has under way
(`shift`), its sign-out (`leaving`), the edit it is submitting and its replay (`flush`).
`wire` and `applied` are the network and the server. `acked`, `gone` and `purged` are
histories: edits whose user was told they are queued; edits answered, replaced, cleared,
discarded with a late row of their id or dropped by another account's replay; edits made
before a purge that is over.

| Code | Actions |
|---|---|
| `sync-runtime.ts` `setOfflineSyncActor` | `SetActorUnknown`, `SetActorAdopts`, `SetActorAgain`, `SetActorBegins`, `Shift...`, `Establish`, `Invalidate` |
| `sync-runtime.ts` `purgeOfflineUserData`, sign-out, account deletion | `LeaveBegins`, `LeaveClears`, `LeaveCleared`, `SignedOut`, `Clears`, `Cleared` |
| `sync-runtime.ts` `submitMutation`, `queueMutation` | `Make`, `Submit`, `Answered`, `NewRow`, `Put`, `Confirm` |
| `sync-runtime.ts` `flushOfflineQueue`, `todayMutationReplayHandler` | `FlushBegins`, `FlushTurns`, `Listed`, `Starts`, `FlushSettles` |
| `offline-sync.ts` | `Pass`, `Row`, `FlushNext`, `Goes`, `Awaited`, `Terminal`, `Retried` |
| `mutation-store.ts` | `Put`, `Rows`, `Clears`, `Dropped`, `Update` |
| `api-handler.ts`, route handlers | `Serve` |
| the browser and the session | `Reload`, `SessionChanges` |

**Abstractions.** `submitMutation` looks at the generation before each of its effects; each
look and the effect that follows it synchronously are one step. A pass of a replay lists
the queue and removes the rows of other generations and accounts in one step (`Starts`):
each removal is fenced by the row that was read, and the replay gives up when the
generation has changed. Writes to browser
storage succeed, so the local copy of the generation carries nothing more. A
browser without Web Locks does not replay. A request of a living tab is served or lost;
one of a closed tab may arrive later. What an edit does on the server is a member of a
set: handlers are idempotent by client id.

**Properties.** `PurgeIsFinal`: once a purge is over, nothing made before it is sent, not
even when the same account is back. `AppliedAsMade`: an edit reaches the account it was
made for only, and not before what it depends on was answered or cleared.
`AcknowledgedIsKept`: an edit whose user was told that it is queued stays so until it is
answered, replaced by a newer one of its key, discarded with a late one of its id, dropped
by a replay of another account, or purged: no late step of a replay takes a newer row with it.

Observed and accepted by the code: a session that lapses (401) marks queued rows as
failed for good; a refused Today action is sent again until its tries are used up; an
answer 204 for another account's session counts as delivered, so that edit is lost; a
direct edit may be overtaken by an older queued one; a tab that dies between its write and
its discard leaves a foreign row, which the next replay removes unsent; the discard of a
late row is by id only and may take a newer Today row of that id with it; a late clear of one
tab may remove rows a newly established owner has queued.

## 3. Runs

| Run | Instance | Shows |
|---|---|---|
| `queue_safety` | 2 workers (1 mortal), 2 jobs, 2 attempts, TTL 1; every fault and operator | types, `RowConsistent`, `SeenCurrent`, `ResultFromLatestRun` |
| `queue_timely` | 2 workers (1 mortal), 2 callers, 1 key with 2 row ids, 2 attempts, TTL 2, heartbeat every tick, delay up to 1; crash, remove; fair | `OneRunPerJob`, `EnqueueServed`, `ImplementsWorkQueue`, `EveryJobSettles` |
| `ingest_fold` | 1 worker, 3 candidates at their own addresses, 2 attempts, 2 versions, 1 deletable; no readmission while a run settles | types, `OneArticlePerIdentity`, `KnownArticleUntouched` |
| `ingest_crash` | 2 workers (1 mortal), 2 candidates at one address, 1 attempt, 1 rollback, 1 deletable | `ArticlesAreWhole`, `SetAsideHasNoJob`, `StaleRunSavesNothing`, `SettledGetsNoArticle` |
| `discovery_lifecycle` | 2 workers, 2 items; an active source beside one in its baseline, with a fault; one source with 4 operator actions from DISABLED on, or 2 from ACTIVE on; an active source with 1 action and a fault; an active source, or one in its baseline, with a backfill of 1 identity in batches of up to 2 | types, `InertHasNoJob`, `PausedIsNotScheduled`, `BaselinedBeforeShadow`, `ImplementsLedger`, `OvertakenRunIsInert`, `WorkIsWanted` |
| `discovery_resume` | an active source, 2 operators, 4 actions: begin a baseline, pause, resume, roll back | violates `ResumeKeepsBaseline` |
| `discovery_due` | an active and a shadowed source, 2 workers, 1 item, 1 fault; fair | `DueIsRun` |
| `admission_links` | 1 address, 2 requests at once beside 1 sender or 1 beside 2 senders, 2 links, 2 invitations | types, `MailedAtMostOnce`, `LinkWorksOnce`, `SettledInvitationIsFinal`, `ExpiredIsLapsed` |
| `admission_mail` | 1 request at a time, 1 sender that dies once, 2 links; fair | `StaleMailIsNotSent`, `EveryMailSettles` |
| `content` | 2 outputs, 2 re-scrapes, 4 casts (below); fair | types, `WithdrawnIsDown`, `StaleIsOvertaken`, `AutoPublishedIsWhole`, `RegeneratedOnce`, `SwapIsRegenerated` |
| `content_republish` | 1 run, 1 operator | violates `EditorRepublishes` |
| `offline_queue` | 2 tabs, 2 accounts, 4 edits, 2 tries, 4 casts (below) | types, `PurgeIsFinal`, `AppliedAsMade`, `AcknowledgedIsKept` |

### Bounds

**JobQueue.** Two workers are enough for every race of an owner with a reclaimer,
two attempts for a counted retry and an exhausted one, two row ids of one key
for archive-and-create under two concurrent calls. A lock age of TTL + 1 is
stale, so TTL 1 or 2 is enough for fresh, ageing and stale locks. Rows are
independent of each other except through their key, so the safety run treats
jobs as symmetric. An unborn row may be born once: the number of jobs bounds the
run. The theorems of section 4 need none of these bounds.

**CandidateIngest.** A merge involves two candidates by their key and any number by
their prose; three candidates, two of them variants, give a merge that hands over to
a candidate a second merge folds in turn. Two attempts give a retried and an exhausted
failure, two versions a readmission under a fresh key, one rollback a stale run. The
address whose Article is deleted is the later variant's, so that a page can be folded, lost
and readmitted. The
runs divide these dimensions: retries and three candidates in `ingest_fold`,
concurrency, crashes and rollback in `ingest_crash` (with `MaxAttempts` 1; a second
attempt there multiplies the states by ten and adds the paths `ingest_fold` has).

**Discovery.** Two items: one out before the baseline, one after, both dated.
Two sources read the same item in different modes; four actions take a source from
DISABLED to ACTIVE and back, or through any other sequence of that length, with runs in
between that do not fail; one action meets a failing run of an active source. One fault
overtakes a run, kills a worker, or splits a demotion; two at once add no new pair of
steps. A streak of one is at its limit at once. A backfill needs no operator action or
fault beside it: it reads neither the sources nor their leases, and a batch may be dropped
at any point. Its cap of one identity is reached by one batch, or missed by one that was
overtaken, and two workers read one batch at once. `discovery_due` needs two sources,
since the order of `due` decides who waits.

**Admission.** Two links are one and its replacement. Two requests of every pair of
kinds overlap on one address; links of different addresses share nothing. Mail is
configured in both runs. Either two requests overlap beside
one sender, or two senders beside one request: three senders or requests at once were
beyond the time a run has.

**ArticleContent.** The casts are: one run against two operators with three decisions;
two runs, one of which may die, against one operator; two re-scrapes, one of which may
die, against one run; a re-scrape, a run, a reader and an operator. Two outputs tell
"some stored" from "all stored"; two versions make a text that is replaced in turn.

**OfflineSync.** The edits are a highlight, its removal, which depends on it, and two
Today actions of one day. The casts are: one tab with all four; two tabs on the dependent
pair with two acts (session changes, account changes, closed tabs); two tabs on the
replacing pair with one act; two tabs on one edit with three acts, a whole change of account
there and back. Two tries are a retry and a last one. Nothing tells the tabs or the accounts
apart, so both are symmetric, and the run checks no liveness.

Every bound is a constant named in its module. Bounded instances of all modules but
`JobQueue` end when their actions are used up, so their runs do not check for
deadlock; `queue_*` runs do.

### Fairness

- `JobQueue`: weak fairness of each worker's own next step: promises settle and
  timers fire in a live Node process, and handlers end (they run under time-outs).
  A crashed worker has no next step. The clock ticks for ever (strong fairness,
  because `Tick` waits for the statements in flight). Strong fairness of `Claim` per
  job: claims take the highest priority and the oldest `runAfter` first, so only
  finitely many rows go before a given one at the same priority; a constant stream of
  higher-priority work could starve a job, and the model says nothing about that case.
- `Discovery`: weak fairness of each worker's claims and of its run when nothing goes
  wrong; time passes (a lease expires, a backoff ends, a source comes due). `Claim`
  takes the oldest due source, as the `ORDER BY` does, so no source is starved.
  Operators and requests owe nothing.
- `Admission`: an external sender polls every five minutes
  (`docs/access/account-admission.md`) and goes on with what it has; claims time out.
- `ArticleContent`: the reconciler is run by a scheduler
  (`docs/operations/admin-operations.md:330`). Runs, readers and re-scrapes owe nothing.
- `OfflineSync` states none: a replay needs a tab in front and a connection, and
  nothing schedules it.

**Timeliness.** `KeepsUp` says what a worker that keeps up does: it sends a
heartbeat when it is due, and waits for a statement less than a tick, far below
the TTL (10 minutes by default, never below one minute). Without it (`stall` in
`Env`) a lock may be reclaimed under a live owner. `queue_safety` includes that,
and shows that only `OneRunPerJob` depends on time.

### Findings

`content_republish`: `takedown.ts:115-116` says that restoring leaves the status
untouched, "an editor must re-publish deliberately". An enrichment run decides on the
status it loaded before its provider calls, and its guarded write
(`processing/processor.ts:383-390`) asks only that the article be a DRAFT and not
withdrawn now. An article published by an editor, withdrawn and restored during the run
is published again by the run.

`discovery_resume`: `lifecycle-actions.ts:97-98` says that "a source paused BEFORE baseline
completion re-enters BASELINE so it never skips its baseline". The target of a resume is
chosen from one read of the row (`lifecycle-actions.ts:113-123`), and the commit reads the
row again and accepts any allowed edge from the mode it finds (`lifecycle-commit.ts:472-476`).
A source paused after its baseline, which one operator resumes while another rolls it back
to DISABLED and begins its baseline again, is taken out of the new baseline to SHADOW.
The counterexample came from the attempt to prove `BaselinedBeforeShadow` for any number
of operators.

### Known divergences

Other places where the code does less than a comment says. The models make these
steps, and the properties are stated so that they are true of the code; each of
these was seen as a counterexample to the stronger statement.

1. `worker/index.ts:117` promises that the lock keeps two workers from running one
   job. Cancel (`jobs/lifecycle.ts:237`) and retry of a running job break this without
   any fault: the first handler goes on until its next heartbeat. `OneRunPerJob` is
   proved without stalls, statements that throw, shutdowns and cancellations, and checked
   without operators' retries as well.
2. `jobs/lifecycle.ts:252-255`: a running job must not be archived. `archiveJob`
   (line 261) looks at the status only; cancel first, and it can be.
3. `jobs/retry-policy.ts:12` documents `maxAttempts` as the total of attempts. A restart
   after a crash (`jobs/claim-postgres.ts:63`) is not counted, so a job that kills its
   worker is restarted for ever.
4. `final-identity-commit.ts:6-10` promises to fold variants before any Article is
   created and never to touch a known identity. The fold (line 243) is by id: a holder
   that saves its Article after the merge has read it is folded all the same, and the
   winner saves a second Article. With one address for both variants the unique index
   on public addresses prevents the second Article (`ingest_crash`). One worker is not
   enough either: a run whose candidate is folded on its prose is handed a survivor
   (line 653), any candidate with the prose that is open by then. If an operator readmits
   a deleted duplicate (`deleted-article-recovery.ts:86`) after the run has matched the prose, the run
   saves for it a second Article of the prose, although the one it was folded onto has one.
   `OneArticlePerIdentity` is therefore checked and proved of `OrderlySpec`.
5. `deleted-article-recovery.ts:70-72` promises a fresh dedupe key. A candidate saved
   at its first attempt has a null `extractorVersion`, the bumped version (line 89) is
   1 again, and the settled job of version 1 is left as it is: nothing is enqueued.
6. `deleted-article-recovery.ts:5-6`: a deleted identity is never recreated
   automatically. A merge (`final-identity-commit.ts:122`) looks at `articleId` only, so a
   variant first seen earlier wins over the deleted candidate and saves the page again.
7. `rollback-commit.ts:90-91`: a rolled back source is not claimed until an operator
   re-activates it. A request for a run (`incremental-run-request.ts:43`) schedules every
   source of the provider in a claimable mode, SHADOW included.
8. `discovery-run.ts:336-339`: a drifted trusted source has its flag revoked and is
   returned to SHADOW. Two statements do this (`source-trust-commit.ts:312` and `:330`);
   a stop between them leaves the source untrusted and ACTIVE, and no later run repairs
   it (`:294`).
9. `mutation-store.ts:172-176` (under `offline/`) explains why a discard must be fenced by
   the row read; the discard of a late submission is by id.
10. `docs/reader/offline-sync.md:126` says that account transitions purge the private stores
   before the new actor is enabled. A transition that was overtaken does not look at the
   shared state again: one tab begins a transition to account a and purges, the session
   changes to b, another tab establishes b and an edit of b is acknowledged, then the first
   tab's transition finishes and establishes a, and a's replay drops the row of b, which is
   of the current generation. `AcknowledgedIsKept` counts such an edit as gone. It takes
   four acts; the run has three, the theorem any number.

## 4. Proofs

A theorem holds for every value of the module's constants: any number of workers, jobs,
callers, sources, operators, candidates, addresses, senders, readers, re-scrapes, tabs
and accounts, and any bound on faults and actions. The assumptions are the named ones of
the modules (`None` is no member of any set, limits are natural numbers, a TTL is longer
than the heartbeat interval, ...) and, for four theorems, one or two stated in the theorem.

Every safety property of the passing runs is a theorem, and so are both refinements. Each proof module states the inductive invariant first (`IInv`), proves
each action to keep it, one lemma per action or group of actions, and ends with `Invariance`
(`Invariant` in `JobQueue_proofs`) and the theorems. Action properties are proved in the
same pass: the lemmas also show `Sound`, or what each step may do, or the theorem has a
step per action.

| Module | Theorems |
|---|---|
| `JobQueue_proofs` | `TypeCorrect`; `RowsStayConsistent` (`RowConsistent`); `FailReadsCurrent` (`SeenCurrent`); `OnlyLatestRunRecords` (`ResultFromLatestRun`) |
| `JobQueuePromises_proofs` | `EnqueueServesItsCaller` (`EnqueueServed`); `OneRunAtATime` (`OneRunPerJob`, if `Timely`); `QueueImplementsWorkQueue` (`ImplementsWorkQueue`) |
| `Discovery_proofs` | `TypeCorrect`; `DiscoveryKeepsTheLedger` (`ImplementsLedger`); `InertStaysIdle` (`InertHasNoJob`); `NoUnwantedWork` (`WorkIsWanted`); `OvertakenRunsChangeNothing` (`OvertakenRunIsInert`); `NeverScheduledWhilePaused` (`PausedIsNotScheduled`); `NoShadowBeforeBaseline` (`BaselinedBeforeShadow`, if `OneOperator`) |
| `CandidateIngest_proofs` | `TypeCorrect`; `ArticlesStayWhole` (`ArticlesAreWhole`); `SetAsideIsJobless` (`SetAsideHasNoJob`); `SettledStaysWithout` (`SettledGetsNoArticle`); `StaleRunsSaveNothing` (`StaleRunSavesNothing`); `KnownStaysUntouched` (`KnownArticleUntouched`, if `OneAtATime`); `OneArticleEach` (`OneArticlePerIdentity` of `OrderlySpec`, if `OneAtATime` and `OneText`) |
| `Admission_proofs` | `TypeCorrect`; `LinksWorkOnce` (`LinkWorksOnce`); `SettledIsFinal` (`SettledInvitationIsFinal`); `ExpiryNeedsLapse` (`ExpiredIsLapsed`); `MailGoesOutOnce` (`MailedAtMostOnce`); `NoStaleMail` (`StaleMailIsNotSent`) |
| `ArticleContent_proofs` | `TypeCorrect`; `WithdrawnStaysDown` (`WithdrawnIsDown`); `StaleOutputsAreOwed` (`StaleIsOvertaken`); `ProvidersDraftsAreWhole` (`AutoPublishedIsWhole`); `RegenerationIsOnce` (`RegeneratedOnce`) |
| `OfflineSync_proofs` | `TypeCorrect`; `AppliedForItsAccount` (`AppliedAsMade`); `AcknowledgedStays` (`AcknowledgedIsKept`); `PurgesAreFinal` (`PurgeIsFinal`) |

### Arguments

**JobQueue, the rows.** `TypeOK` is not inductive: `failJob` writes `seen + 1` attempts, which
stays in range only if `seen` is the row's count and the row is not exhausted. So
`IInv` adds `RowConsistent` (attempts are left while a row is active),
`SeenCurrent` (`seen` is current whenever the CAS can succeed) and `HandsFull` (an
execution has a job in hand, and the holder of a running row is who started it).
`SeenCurrent` is preserved because no step changes the attempts of a row that
stays RUNNING with the same holder. `RowWrites` proves once that every guarded
`UPDATE` turns an allowed row into an allowed row; `WorkerInv` and `TableInv`
reduce each action to what it writes. The result is recorded by the latest starter
because the CAS demands the lock and `HandsFull` says that the lock of a running row is
its starter's (`WritesOwnRow` says what the steps of one worker can do to rows and to
other workers).

**JobQueue, the promises.** `CallsServed` says what a call that has not seen its key active
knows between two of its statements: no row of the key but the terminal one it found. It
rests on `OneRowPerKey` (the unique index) and on the lemmas that a worker's or an
operator's step makes no terminal row active (`NothingNew`).
`LeaseKept` is a lease argument: the age of a running row's lock and the ticks to the next
heartbeat add up to the heartbeat interval at most, which is below the TTL, so that no claim
reclaims the row. It needs `Timely`: `Env` holds no stall, no statement that throws, no
shutdown and no cancellation. Each of these lets a handler go on without its lock.
For the refinement, `IsWork` says which piece of work a row stands for, each
guarded `UPDATE` gets a lemma that names the move of `WorkQueue` it makes
(`ClaimSimulates` a `Lease`, `CompleteSimulates` a `Settle`, ...), and
`NextSimulates` assembles them under `IInv`. `failJob`'s write is a `GiveBack` or a `Settle`
with one more try only because `SeenCurrent` holds, and a removed row has no holder because
`RowConsistent` holds.

**Discovery.** `IInv` says of the three parties what they remember: a run that still holds its
lease remembers the mode its source is in (`Running`), because an operator's write demands
that the source is not leased; an operator's action remembers a transition that was allowed
when it was read (`Acting`); a batch that the cursor has not passed fits what is left of the
cap (`Filling`). `Leased`: only a source in a mode that runs is leased, so that a release
never schedules a paused one. `StepsOfTheLedger` maps each step to one of
`CandidateLedger` or a stutter. `NoShadowBeforeBaseline` assumes `OneOperator`: with two, TLC
has the counterexample of `discovery_resume`.

**CandidateIngest.** The decisions of a run are taken from rows that others may have changed
by the time it writes. `IInv` therefore says little of a run: which candidates it has in hand
and, if it is outdated, that its generation is behind and it is not past the check of the
save. The rest is carried by the guards of the writes. `KnownStaysUntouched` assumes
`OneAtATime`, one worker and finitely many candidates, and adds `Known`: the candidates a run
is about to fold are not linked. With two workers the fold by id may take a candidate that
has just got its Article (known divergence 4), and TLC refutes the property.
`OneArticleEach` also assumes `OneText`, that pages with one canonical key have one prose, so
that the prose is the identity. To `Known` it adds `Sole`: what the rows record of a candidate
is its own (`Rows`); whoever a run has chosen is of its identity (`SameText`); a match names
every candidate with the prose that is not folded or rejected (`Matched`), hence also the one
with the Article, if there is one, and that one is no loser, so it is the winner; a
run that goes on to save has a target that cannot be linked, or an identity without an
Article (`Elected`, `Saves`). A readmission would falsify `Matched` and `Elected` after the
fact: the attempt to prove it led to the counterexample above.

**Admission.** A transaction of two steps is proved from what it saw: a serializable one writes
only while the tables it read are as they were, so what held when it decided holds when it
writes (`CallIs`). `HeldOnce` says that a link is held by one row, `Unused` that a link a row
holds has not been used, `Posted` that a link is with at most one sender and only from its
claim until it is mailed. `NoStaleMail` first shows that a link no row holds, or that has
lapsed, stays so (`StaysDead`), and then that its message never reaches a sender's hand.

**ArticleContent.** A pending version is one scraper's and is not claimed, so that the version
a swap puts in place is still owed its regeneration; a claim of any version clears every
output in the same transaction (`Versions`). With it `StaleIsOvertaken` is inductive. A run
that found every output, and had none cleared since, would find them still (`RunIs`).

**OfflineSync.** The generation never goes back, and no edit or row carries one that is still to
come: what is not of the present generation never will be, and each request was checked
against the present one when it was sent. A row, in the store or in the snapshot of a
replay, is of the account its edit was made for (`IsRow`), and what it depends on is
delivered, gone or known to the same replay (`Listing`).

**LeastElement.** The models take the first of what waits. That a set of naturals has a least
element is derived from the finite sets of smaller elements, since the provers cannot
instantiate an induction theorem.

### Only model-checked

- Liveness (`EveryJobSettles`, `DueIsRun`, `EveryMailSettles`, `SwapIsRegenerated`): fairness
  and `ENABLED` are out of the prover's reach.
- `ResumeKeepsBaseline` and `EditorRepublishes` are false of the code.

## 5. Plan

Done: `JobQueue`, `CandidateIngest`, `Discovery` and `Backfill` over `CandidateLedger`,
`ArticleContent`, `Admission`, `OfflineSync`, with the theorems of section 4.

To come, in order of importance:

1. `OneRunPerJob` with cancellations: no two handlers run one job longer than one
   heartbeat interval.
2. The abstract contract of `OfflineSync`, an outbox per account and generation, as a
   specification that it implements.

### Not modelled

- **Hostname rate governor**: `makeDiscoveryGovernorGate` has no production caller, and
  neither have the functions that record responses. By reading: `reserveHostnameRequest`
  (`rate-governor-commit.ts:166-225`) counts and inserts at READ COMMITTED, so two
  reservations can both pass the check of the minimum interval; `recordHostnameResponse`
  (`:334-370`) writes what it computed from an unguarded read, and a signal below the
  threshold clears an active pause.
- **Push reminders**: a tick reads what is due, sends and records only the health of
  subscriptions; nothing it writes is read by a later tick, and only the tag of the
  notification, which the browser collapses, tells repeats apart.
- **Rate limits**: single upserts with a documented fallback to a counter per process.
- **Today session, reading progress**: idempotent upserts keyed by day; their replay is
  `OfflineSync`'s.
- **Review approvals, operator conflict resolutions**: one guarded update each.
- **Learning algorithms**: real numbers and dates, which TLC cannot evaluate.
- **Media, speech, article library, annotations, import, recommendations, classrooms,
  organisations, permissions, observability, configuration, web application**: single
  statements or transactions within one request, or I/O; no protocol between requests.
