------------------------------ MODULE Discovery ------------------------------
(***************************************************************************)
(* Incremental discovery of one provider: workers lease its due sources,    *)
(* read one page of the site, admit what is new to the candidate ledger and *)
(* release the source with its next due time, while operators move sources  *)
(* through their lifecycle and ask for extra runs.                          *)
(*                                                                          *)
(* A run keeps no transaction open across its calls: the claim, the page,   *)
(* the frontier, the demotions and the release are separate statements, each *)
(* guarded on the lease, and a lease may expire and be claimed again between *)
(* any two of them. The claim and its re-read of the row are one step: the   *)
(* re-read is assumed to fall within the lease it follows. The governor, and *)
(* the multi-page adapters, are seams production leaves unused: Governed and *)
(* Boundary say which way an instance goes.                                  *)
(***************************************************************************)
EXTENDS Integers, FiniteSets

CONSTANTS
    Source, Worker, Operator, None,
    Items,        \* the number of articles the site ever publishes
    Published0,   \* those it has published before anything runs
    Dated,        \* those with a trusted publication date
    Starts,       \* what an instance begins with: the modes, the actions and faults left
    ItemCap,      \* the item cap of a backfill, and the size of its batches
    BatchSize,
    MaxStreak,    \* maxZeroDiscoveryStreak
    CatchUp,      \* the count limit of an activation's catch-up
    Boundary,     \* what a page may report of its boundary
    Stalls,       \* whether the watermark may have stalled for too long
    Drifts,       \* whether a trusted source may have drifted
    Governed,     \* whether a rate governor is installed
    Acts,         \* the lifecycle actions operators take
    MaxActs,      \* bound: operators' actions and requests
    MaxFaults     \* bound: crashes, shutdowns, failed demotions, runs that outlive a lease

Mode == {"DISABLED", "BASELINE", "SHADOW", "ACTIVE", "PAUSED", "RETIRED"}
LifecycleAction == {"begin-baseline", "complete-baseline", "activate", "pause",
                    "resume", "rollback", "disable", "retire"}
Item == 1 .. Items    \* in the order of publication

ASSUME DiscoveryAssumption ==
    /\ Items \in Nat \ {0} /\ Published0 \in 0 .. Items
    /\ Dated \subseteq Item
    /\ Starts \subseteq [mode : [Source -> Mode], acts : 0 .. MaxActs, faults : 0 .. MaxFaults,
                         backfills : BOOLEAN]
    /\ ItemCap \in Nat \ {0} /\ BatchSize \in Nat \ {0}
    /\ MaxStreak \in Nat \ {0} /\ CatchUp \in Nat
    /\ Boundary \subseteq BOOLEAN /\ Boundary # {}
    /\ Stalls \in BOOLEAN /\ Drifts \in BOOLEAN /\ Governed \in BOOLEAN
    /\ Acts \subseteq LifecycleAction
    /\ MaxActs \in Nat /\ MaxFaults \in Nat
    /\ None \notin Worker \cup Source \cup Mode

VARIABLES
    mode,      \* DiscoverySource.lifecycleMode
    window,    \* the newest article out when baselineCompletedAt was set, or -1
    trusted,   \* autoPublishTrusted
    streak,    \* consecutiveZeroDiscoveryRuns, up to MaxStreak
    generation,\* activationGeneration
    owner,     \* leaseOwner
    expired,   \* leaseExpiresAt is past
    backoff,   \* backoffUntil is in the future
    due,       \* the sources with nextRunAt <= now
    before,    \* <<r, s>>: both are due, and nextRunAt of r is before that of s
    parked,    \* the sources with nextRunAt null; the others are due later
    status, origin, job,  \* the ledger: candidate, the source it belongs to, work
    run,       \* what each worker is doing
    op,        \* what each operator is doing
    backfill, batch, \* the historical backfill, and the batches workers apply
    backfills, \* whether one may be approved in this behaviour
    published, \* the articles the site has published so far
    acts, faults  \* bound: actions and faults so far

policyVars == <<mode, window, trusted, streak, generation>>
leaseVars == <<owner, expired>>
whenVars == <<backoff, due, before, parked>>
ledgerVars == <<status, origin, job>>
boundVars == <<acts, faults>>
elsewhere == <<published, backfill, batch, backfills>>
vars == <<policyVars, leaseVars, whenVars, ledgerVars, run, op,
          elsewhere, boundVars>>

Ledger == INSTANCE CandidateLedger
Fill == INSTANCE Backfill

-----------------------------------------------------------------------------
(* The lifecycle graph and the schedule.                                    *)

Claimable == {"SHADOW", "BASELINE", "ACTIVE"}

Forward == {<<"DISABLED", "BASELINE">>, <<"BASELINE", "SHADOW">>, <<"SHADOW", "ACTIVE">>}
Backward == {<<"ACTIVE", "SHADOW">>, <<"SHADOW", "BASELINE">>,
             <<"BASELINE", "DISABLED">>, <<"PAUSED", "DISABLED">>}

\* classifyLifecycleTransition(from, to) is not null.
Allowed(from, to) ==
    /\ from # to /\ from # "RETIRED"
    /\ \/ to = "RETIRED"
       \/ <<from, to>> \in Forward \cup Backward
       \/ to = "PAUSED" /\ from \in Claimable
       \/ from = "PAUSED" /\ to \in Claimable

Without(S) == {p \in before : p[1] \notin S /\ p[2] \notin S}

\* Sources get one nextRunAt, later than that of any other that is due.
Last(S) == /\ due' = due \cup S
           /\ before' = Without(S) \cup ((due \ S) \X S)

NotDue(S) == due' = due \ S /\ before' = Without(S)

\* nextRunAt := now.
DueNow(s) == Last({s}) /\ parked' = parked \ {s}

\* nextRunAt := a time to come, at or after backoffUntil.
DueLater(s) == NotDue({s}) /\ parked' = parked \ {s}

\* Mutant: the source keeps its place among those that are due.
Park_StillDue(s) == parked' = parked \cup {s} /\ UNCHANGED <<due, before>>

\* nextRunAt := null.
Park(s) == NotDue({s}) /\ parked' = parked \cup {s}

\* Mutant: the claim predicate never reclaims a lease that has expired.
Ready_NoStaleReclaim(s) ==
    mode[s] \in Claimable /\ owner[s] = None /\ ~backoff[s]

\* The claim predicate, but for nextRunAt.
Ready(s) == /\ mode[s] \in Claimable
            /\ owner[s] = None \/ expired[s]
            /\ ~backoff[s]

\* A source the claim may pick: none that is ready has been due for longer.
Pick(s) == /\ s \in due /\ Ready(s)
           /\ \A r \in due : <<r, s>> \in before => ~Ready(r)

-----------------------------------------------------------------------------
(* Runs. A run remembers the row its claim read: its mode, trust and streak. *)

Unknown == {x \in Item : status[x] = "none"}

Idle == [pc |-> "idle", source |-> None, mode |-> "DISABLED", trusted |-> FALSE,
         streak |-> 0, pageMode |-> "DISABLED", plan |-> <<>>,
         boundary |-> TRUE]

Init ==
    /\ \E start \in Starts :
         /\ mode = start.mode /\ backfills = start.backfills
         /\ acts = MaxActs - start.acts /\ faults = MaxFaults - start.faults
    /\ Fill!Init
    /\ window = [s \in Source |-> IF mode[s] \in {"SHADOW", "ACTIVE"} THEN Published0 ELSE -1]
    /\ trusted = [s \in Source |-> FALSE]
    /\ streak = [s \in Source |-> 0]
    /\ generation = [s \in Source |-> 0]
    /\ owner = [s \in Source |-> None]
    /\ expired = [s \in Source |-> FALSE]
    /\ backoff = [s \in Source |-> FALSE]
    /\ due = {s \in Source : mode[s] \in Claimable} /\ before = {}
    /\ parked = {s \in Source : mode[s] \notin Claimable}
    /\ status = [x \in Item |-> "none"]
    /\ origin = [x \in Item |-> None]
    /\ job = [x \in Item |-> "none"]
    /\ run = [w \in Worker |-> Idle]
    /\ op = [o \in Operator |-> None]
    /\ published = Published0

\* The guard of every write a run makes: the source is still leased to it.
\* (definitionVersion never changes on a row: a new definition is a new row.)
Holds(w) == owner[run[w].source] = w

Stop(w) == run' = [run EXCEPT ![w] = Idle]

\* The lease columns of a released source.
Release(s) == /\ owner' = [owner EXCEPT ![s] = None]
              /\ expired' = [expired EXCEPT ![s] = FALSE]

\* Any guarded write that matches no row ends the run: it changes nothing and
\* leaves the source to whoever holds it.
LeaseLost(w) ==
    /\ run[w].pc \notin {"idle", "frontier", "degraded", "flagged"}
    /\ ~Holds(w)
    /\ Stop(w)
    /\ UNCHANGED <<policyVars, leaseVars, whenVars, ledgerVars, op, elsewhere, boundVars>>

Claim(w) ==
    /\ run[w].pc = "idle"
    /\ \E s \in Source :
         /\ Pick(s)
         /\ owner' = [owner EXCEPT ![s] = w]
         /\ expired' = [expired EXCEPT ![s] = FALSE]
         /\ run' = [run EXCEPT ![w] =
                      [Idle EXCEPT !.pc = "claimed", !.source = s, !.mode = mode[s],
                                   !.trusted = trusted[s], !.streak = streak[s]]]
    /\ UNCHANGED <<policyVars, whenVars, ledgerVars, op, elsewhere, boundVars>>

\* The governor has no slot for the hostname: the source is released unread.
Defer(w) ==
    /\ Governed /\ run[w].pc = "claimed" /\ Holds(w)
    /\ DueLater(run[w].source)
    /\ Release(run[w].source)
    /\ Stop(w)
    /\ UNCHANGED <<policyVars, backoff, ledgerVars, op, elsewhere, boundVars>>

\* The outcome of an unknown identity: what its candidate would be created as.
Outcome(x, m, start) ==
    CASE m = "BASELINE"                  -> "BASELINE"
      [] m # "BASELINE" /\ m # "ACTIVE"  -> "DISCOVERED"
      [] m = "ACTIVE" /\ x <= start      -> "SKIPPED_OUTSIDE_WINDOW"
      [] OTHER                           -> "DISCOVERED"

\* The page is fetched and classified against the identities known by then.
\* Known ones are only touched, undated ones wait for review: neither is in the
\* plan. The mode and the window are not read again when the page commits.
ReadPage(w) ==
    LET s == run[w].source
        fresh == {x \in Unknown : x <= published /\ (mode[s] = "ACTIVE" => x \in Dated)}
    IN  /\ run[w].pc = "claimed" /\ Holds(w)
        /\ \E page \in SUBSET fresh, b \in Boundary :
             run' = [run EXCEPT ![w] =
                       [@ EXCEPT !.pc = "read", !.pageMode = mode[s], !.boundary = b,
                                 !.plan = [x \in page |-> Outcome(x, mode[s], window[s])]]]
        /\ UNCHANGED <<policyVars, leaseVars, whenVars, ledgerVars, op, elsewhere, boundVars>>

\* The items of the plan that were classified eligible.
Eligible(r) == {x \in DOMAIN r.plan : r.pageMode = "ACTIVE" /\ r.plan[x] = "DISCOVERED"}

\* The upserts: an identity another source admitted meanwhile is left as it is.
Admitted(r) ==
    [x \in Item |-> IF x \in DOMAIN r.plan /\ status[x] = "none"
                    THEN r.plan[x] ELSE status[x]]

\* Mutant: the enqueue trusts the classifier and not the status of the row.
Enqueued_NoStatusGuard(r) == {x \in Eligible(r) : job[x] = "none"}

\* Those whose job the page creates. One that has a job, done or not, keeps it.
Enqueued(r) == {x \in Eligible(r) : Admitted(r)[x] = "DISCOVERED" /\ job[x] = "none"}

\* One transaction: the candidates, their jobs and the guarded checkpoint.
\* The run counts its eligible items by the classification it made before.
CommitPage(w) ==
    LET r == run[w]
        counted == IF ~r.boundary THEN r.streak
                   ELSE IF Eligible(r) # {} THEN 0
                   ELSE IF r.streak < MaxStreak THEN r.streak + 1 ELSE r.streak
    IN  /\ r.pc = "read" /\ Holds(w)
        /\ status' = Admitted(r)
        /\ origin' = [x \in Item |-> IF x \in DOMAIN r.plan /\ status[x] = "none"
                                     THEN r.source ELSE origin[x]]
        /\ job' = [x \in Item |-> IF x \in Enqueued(r) THEN "PENDING" ELSE job[x]]
        /\ run' = [run EXCEPT ![w] =
                     [r EXCEPT !.pc = "paged", !.plan = <<>>, !.streak = counted]]
        /\ UNCHANGED <<policyVars, leaseVars, whenVars, op, elsewhere, boundVars>>

\* Production commits a frontier of health and run time only.
CommitFrontier(w) ==
    /\ run[w].pc = "paged" /\ Holds(w)
    /\ run' = [run EXCEPT ![w].pc = "frontier"]
    /\ UNCHANGED <<policyVars, leaseVars, whenVars, ledgerVars, op, elsewhere, boundVars>>

\* transitionDiscoveryLifecycle(ACTIVE -> SHADOW) under the run's own lease;
\* refused, it changes nothing and the run goes on.
Demote(w) ==
    LET s == run[w].source
    IN  IF Holds(w) /\ Allowed(mode[s], "SHADOW")
        THEN mode' = [mode EXCEPT ![s] = "SHADOW"] /\ DueNow(s)
        ELSE UNCHANGED <<mode, due, before, parked>>

\* evaluateAndApplyDegradation: a source that drifts without a discovery, or
\* whose watermark has stalled, is shadowed.
Degrade(w) ==
    LET r == run[w]
        drifts == r.mode = "ACTIVE" /\ (r.streak = MaxStreak \/ Stalls)
    IN  /\ r.pc = "frontier"
        /\ \/ /\ drifts
              /\ Demote(w)
              /\ run' = [run EXCEPT ![w].pc = "degraded",
                                    ![w].mode = IF mode' # mode THEN "SHADOW" ELSE @]
           \/ /\ r.mode = "ACTIVE" => r.streak < MaxStreak
              /\ run' = [run EXCEPT ![w].pc = "degraded"]
              /\ UNCHANGED <<mode, due, before, parked>>
        /\ UNCHANGED <<window, trusted, streak, generation, leaseVars, backoff,
                       ledgerVars, op, elsewhere, boundVars>>

\* evaluateAndApplyTrustDemotion, its first write: the trust flag is revoked.
RevokeTrust(w) ==
    LET s == run[w].source
        drifts == Drifts /\ run[w].trusted /\ trusted[s] /\ Holds(w)
    IN  /\ run[w].pc = "degraded"
        /\ \/ /\ drifts
              /\ trusted' = [trusted EXCEPT ![s] = FALSE]
              /\ run' = [run EXCEPT ![w].pc = IF run[w].mode = "ACTIVE" THEN "flagged" ELSE "final"]
           \/ /\ UNCHANGED trusted
              /\ run' = [run EXCEPT ![w].pc = "final"]
        /\ UNCHANGED <<mode, window, streak, generation, leaseVars, whenVars,
                       ledgerVars, op, elsewhere, boundVars>>

\* Its second write: a source that is ACTIVE is shadowed.
RollToShadow(w) ==
    /\ run[w].pc = "flagged"
    /\ Demote(w)
    /\ run' = [run EXCEPT ![w].pc = "final"]
    /\ UNCHANGED <<window, trusted, streak, generation, leaseVars, backoff,
                   ledgerVars, op, elsewhere, boundVars>>

\* Mutant: the release is not guarded on the lease.
FinalizeSuccess_Unguarded(w) ==
    LET r == run[w]
    IN  /\ r.pc = "final"
        /\ IF r.boundary THEN DueLater(r.source) ELSE DueNow(r.source)
        /\ backoff' = [backoff EXCEPT ![r.source] = FALSE]
        /\ streak' = [streak EXCEPT ![r.source] = r.streak]
        /\ Release(r.source)
        /\ Stop(w)
        /\ UNCHANGED <<mode, window, trusted, generation, ledgerVars, op, elsewhere, boundVars>>

\* finalizeSuccess: due again at once when pages remain, else by the cadence.
FinalizeSuccess(w) ==
    LET r == run[w]
    IN  /\ r.pc = "final" /\ Holds(w)
        /\ IF r.boundary THEN DueLater(r.source) ELSE DueNow(r.source)
        /\ backoff' = [backoff EXCEPT ![r.source] = FALSE]
        /\ streak' = [streak EXCEPT ![r.source] = r.streak]
        /\ Release(r.source)
        /\ Stop(w)
        /\ UNCHANGED <<mode, window, trusted, generation, ledgerVars, op, elsewhere, boundVars>>

\* finalizeFailure: whatever threw, the source backs off; what the run has
\* committed by then stays, and the streak it computed is dropped.
FinalizeFailure(w) ==
    LET s == run[w].source
    IN  /\ run[w].pc \notin {"idle", "frontier", "flagged"} /\ Holds(w)
        /\ DueLater(s)
        /\ backoff' = [backoff EXCEPT ![s] = TRUE]
        /\ Release(s)
        /\ Stop(w)
        /\ UNCHANGED <<policyVars, ledgerVars, op, elsewhere, boundVars>>

\* The demotions never throw: a transition that fails is logged and skipped.
SkipDemotion(w) ==
    /\ run[w].pc \in {"frontier", "flagged"}
    /\ faults < MaxFaults /\ faults' = faults + 1
    /\ run' = [run EXCEPT ![w].pc = IF @ = "frontier" THEN "degraded" ELSE "final"]
    /\ UNCHANGED <<policyVars, leaseVars, whenVars, ledgerVars, op, elsewhere, acts>>

\* A shutdown: the source is released as it is, and stays due.
Abort(w) ==
    /\ run[w].pc \notin {"idle", "frontier", "flagged"} /\ Holds(w)
    /\ faults < MaxFaults /\ faults' = faults + 1
    /\ Release(run[w].source)
    /\ Stop(w)
    /\ UNCHANGED <<policyVars, whenVars, ledgerVars, op, elsewhere, acts>>

\* The worker dies; its lease stays until it expires.
Crash(w) ==
    /\ run[w].pc # "idle" /\ faults < MaxFaults
    /\ faults' = faults + 1
    /\ Stop(w)
    /\ UNCHANGED <<policyVars, leaseVars, whenVars, ledgerVars, op, elsewhere, acts>>

\* What a run does next when nothing goes wrong.
Progress(w) == \/ ReadPage(w) \/ CommitPage(w) \/ CommitFrontier(w) \/ Degrade(w)
               \/ RevokeTrust(w) \/ RollToShadow(w) \/ FinalizeSuccess(w) \/ LeaseLost(w)

-----------------------------------------------------------------------------
(* Operators. An action reads the source and decides where to take it; the   *)
(* commit it calls reads the source again, accepts the transition from where *)
(* it is by then, and writes under the guard that it is idle and still there. *)

\* Mutant: a resumed source skips what is left of its baseline.
Target_ResumeToShadow(s, a) ==
    CASE a = "begin-baseline"    -> "BASELINE"
      [] a = "complete-baseline" -> "SHADOW"
      [] a = "activate"          -> "ACTIVE"
      [] a = "pause"             -> "PAUSED"
      [] a = "resume"            -> "SHADOW"
      [] a = "disable"           -> "DISABLED"
      [] a = "retire"            -> "RETIRED"
      [] a = "rollback"          -> IF mode[s] \in {"BASELINE", "PAUSED"} THEN "DISABLED"
                                    ELSE IF mode[s] = "SHADOW" THEN "BASELINE" ELSE "SHADOW"

\* Where an action takes a source.
Target(s, a) ==
    CASE a = "begin-baseline"    -> "BASELINE"
      [] a = "complete-baseline" -> "SHADOW"
      [] a = "activate"          -> "ACTIVE"
      [] a = "pause"             -> "PAUSED"
      [] a = "resume"            -> IF window[s] = -1 THEN "BASELINE" ELSE "SHADOW"
      [] a = "disable"           -> "DISABLED"
      [] a = "retire"            -> "RETIRED"
      [] a = "rollback"          -> CASE mode[s] \in {"BASELINE", "PAUSED"} -> "DISABLED"
                                      [] mode[s] = "SHADOW"                -> "BASELINE"
                                      [] OTHER                             -> "SHADOW"

\* Whether the commit that serves an action accepts the transition: three of
\* them insist on a forward one, and a retried activation is accepted; so does a
\* rollback of an active source on an active one. Any other takes any edge.
Accepts(q) ==
    LET from == mode[q.source]
    IN  CASE q.act = "activate" -> from = "ACTIVE" \/ <<from, "ACTIVE">> \in Forward
          [] q.act \in {"begin-baseline", "complete-baseline"} -> <<from, q.to>> \in Forward
          [] q.full -> from = "ACTIVE"
          [] OTHER -> Allowed(from, q.to)

\* The shadow candidates an activation may select: the newest of those young
\* enough, up to the limit.
Selections(s) ==
    {S \in SUBSET {x \in Item : status[x] = "DISCOVERED" /\ origin[x] = s} :
        Cardinality(S) <= CatchUp}

\* applyLifecycleAction: the source must be idle, leased is busy, expired or not.
OpRead(o) ==
    /\ op[o] = None /\ acts < MaxActs
    /\ \E s \in Source, a \in Acts :
         /\ owner[s] = None
         /\ a = "rollback" => mode[s] \notin {"DISABLED", "RETIRED"}
         /\ op' = [op EXCEPT ![o] =
                      [act |-> a, source |-> s, to |-> Target(s, a),
                       full |-> a = "rollback" /\ mode[s] = "ACTIVE",
                       from |-> None, queue |-> {}]]
    /\ acts' = acts + 1
    /\ UNCHANGED <<policyVars, leaseVars, whenVars, ledgerVars, run, elsewhere, faults>>

\* Mutant: the commit does not care whether a worker is running the source.
Idling_Always(s) == TRUE

\* The guard on the lease: an action found the source idle, and so it must be.
Idling(s) == owner[s] = None

\* loadSource and the commit's own checks.
OpLoad(o) ==
    LET q == op[o]
    IN  /\ q # None /\ q.from = None
        /\ Idling(q.source) /\ Accepts(q)
        /\ \E S \in IF q.act = "activate" THEN Selections(q.source) ELSE {{}} :
             op' = [op EXCEPT ![o].from = mode[q.source], ![o].queue = S]
        /\ UNCHANGED <<policyVars, leaseVars, whenVars, ledgerVars, run, elsewhere, boundVars>>

\* The commit refuses, or its guarded write matches no row: the source was
\* claimed or has moved.
OpConflict(o) ==
    LET q == op[o]
    IN  /\ q # None
        /\ \/ ~Idling(q.source)
           \/ IF q.from = None THEN ~Accepts(q) ELSE mode[q.source] # q.from
        /\ op' = [op EXCEPT ![o] = None]
        /\ UNCHANGED <<policyVars, leaseVars, whenVars, ledgerVars, run, elsewhere, boundVars>>

\* The jobs a rollback of s cancels: pending ones of its open candidates.
Cancellable(s) ==
    {x \in Item : /\ origin[x] = s /\ status[x] \in {"DISCOVERED", "QUEUED"}
                  /\ job[x] = "PENDING"}

\* The write of an action. Only a rollback of an active source, and a move to
\* a mode that is never run, leave it unscheduled.
OpCommit(o) ==
    LET q == op[o]
        s == q.source
    IN  /\ q # None /\ q.from # None
        /\ Idling(s) /\ mode[s] = q.from
        /\ mode' = [mode EXCEPT ![s] = q.to]
        /\ IF q.to \in Claimable /\ ~q.full THEN DueNow(s) ELSE Park(s)
        /\ window' = CASE q.act = "begin-baseline"    -> [window EXCEPT ![s] = -1]
                       [] q.act = "complete-baseline" -> [window EXCEPT ![s] = published]
                       [] OTHER                       -> window
        /\ generation' = [generation EXCEPT ![s] = IF q.full THEN @ + 1 ELSE @]
        /\ job' = [x \in Item |-> IF q.full /\ x \in Cancellable(s) THEN "CANCELLED" ELSE job[x]]
        /\ status' = [x \in Item |-> IF x \in q.queue /\ status[x] = "DISCOVERED"
                                     THEN "QUEUED" ELSE status[x]]
        /\ op' = [op EXCEPT ![o] = None]
        /\ UNCHANGED <<trusted, streak, leaseVars, backoff, origin, run, elsewhere, boundVars>>

\* Mutant: a request makes every source of the provider due.
Requested_All == Source

\* The sources a request for a run makes due, leased or not.
Requested == {s \in Source : mode[s] \in Claimable}

\* requestIncrementalRun, in one statement.
Request ==
    /\ acts < MaxActs /\ acts' = acts + 1
    /\ Last(Requested)
    /\ parked' = parked \ Requested
    /\ UNCHANGED <<policyVars, leaseVars, backoff, ledgerVars, run, op, elsewhere, faults>>

\* promoteSourceTrust and demoteSourceTrust: the flag of an idle source.
SetTrust(s) ==
    /\ Drifts /\ acts < MaxActs /\ acts' = acts + 1
    /\ owner[s] = None
    /\ trusted' = [trusted EXCEPT ![s] = ~@]
    /\ UNCHANGED <<mode, window, streak, generation, leaseVars, whenVars, ledgerVars,
                   run, op, elsewhere, faults>>

-----------------------------------------------------------------------------
(* Time, the site and the ingestion workers.                                *)

\* A lease runs out: its worker has died or lost it, or its run outlives it,
\* for there is no heartbeat.
Expire(s) ==
    /\ owner[s] # None /\ ~expired[s]
    /\ expired' = [expired EXCEPT ![s] = TRUE]
    /\ IF run[owner[s]].source = s
       THEN faults < MaxFaults /\ faults' = faults + 1
       ELSE UNCHANGED faults
    /\ UNCHANGED <<policyVars, owner, whenVars, ledgerVars, run, op, elsewhere, acts>>

BackoffEnds(s) ==
    /\ backoff[s]
    /\ backoff' = [backoff EXCEPT ![s] = FALSE]
    /\ UNCHANGED <<policyVars, leaseVars, due, before, parked, ledgerVars, run, op, elsewhere,
                   boundVars>>

ComesDue(s) ==
    /\ s \notin parked \cup due /\ ~backoff[s]
    /\ Last({s})
    /\ UNCHANGED <<policyVars, leaseVars, backoff, parked, ledgerVars, run, op, elsewhere,
                   boundVars>>

Publish ==
    /\ published < Items
    /\ published' = published + 1
    /\ UNCHANGED <<policyVars, leaseVars, whenVars, ledgerVars, run, op, backfill, batch, backfills,
                   boundVars>>

\* A worker takes a candidate's job: CandidateIngest says what follows.
TakeJob(x) ==
    /\ job[x] = "PENDING"
    /\ job' = [job EXCEPT ![x] = "TAKEN"]
    /\ status' = [status EXCEPT ![x] = "INGESTING"]
    /\ UNCHANGED <<policyVars, leaseVars, whenVars, origin, run, op, elsewhere, boundVars>>

\* A backfill of the provider: every worker process advances it beside its runs.
Backfills ==
    /\ \/ backfills /\ Fill!Create
       \/ Fill!Control
       \/ \E w \in Worker : Fill!Advance(w)
    /\ UNCHANGED <<policyVars, leaseVars, whenVars, origin, run, op, published, backfills,
                   boundVars>>

WorkerStep(w) == \/ Claim(w) \/ Progress(w) \/ Defer(w) \/ FinalizeFailure(w)
                 \/ SkipDemotion(w) \/ Abort(w) \/ Crash(w)
OperatorStep(o) == OpRead(o) \/ OpLoad(o) \/ OpConflict(o) \/ OpCommit(o)

Next == \/ \E w \in Worker : WorkerStep(w)
        \/ \E o \in Operator : OperatorStep(o)
        \/ \E s \in Source : SetTrust(s) \/ Expire(s) \/ BackoffEnds(s) \/ ComesDue(s)
        \/ \E x \in Item : TakeJob(x)
        \/ Request \/ Publish \/ Backfills

Spec == Init /\ [][Next]_vars

\* A living worker goes on polling and running, and time passes: leases expire,
\* backoffs end, sources come due. Nobody owes a failure, a crash or an action.
Fairness == /\ \A w \in Worker : WF_vars(Claim(w)) /\ WF_vars(Progress(w))
            /\ \A s \in Source : /\ WF_vars(Expire(s)) /\ WF_vars(BackoffEnds(s))
                                   /\ WF_vars(ComesDue(s))

FairSpec == Spec /\ Fairness

-----------------------------------------------------------------------------
(* Properties.                                                              *)

Run == [pc : {"idle", "claimed", "read", "paged", "frontier", "degraded", "flagged", "final"},
        source : Source \cup {None}, mode : Mode, trusted : BOOLEAN, streak : 0 .. MaxStreak,
        pageMode : Mode, plan : UNION {[S -> Ledger!Admissible] : S \in SUBSET Item},
        boundary : BOOLEAN]
Op == [act : LifecycleAction, source : Source, to : Mode, full : BOOLEAN,
       from : Mode \cup {None}, queue : SUBSET Item]

\* The state is well formed; a parked source is not due, and before is a strict order.
TypeOK ==
    /\ mode \in [Source -> Mode] /\ window \in [Source -> -1 .. Items]
    /\ trusted \in [Source -> BOOLEAN] /\ streak \in [Source -> 0 .. MaxStreak]
    /\ generation \in [Source -> Nat]
    /\ owner \in [Source -> Worker \cup {None}] /\ expired \in [Source -> BOOLEAN]
    /\ backoff \in [Source -> BOOLEAN]
    /\ due \subseteq Source /\ parked \subseteq Source \ due
    /\ before \subseteq due \X due
    /\ \A p, q \in before : p[2] = q[1] => p[1] # q[2] /\ <<p[1], q[2]>> \in before
    /\ Ledger!TypeOK /\ origin \in [Item -> Source \cup {None}]
    /\ Fill!TypeOK /\ backfills \in BOOLEAN
    /\ run \in [Worker -> Run] /\ op \in [Operator -> Op \cup {None}]
    /\ published \in 0 .. Items /\ acts \in 0 .. MaxActs /\ faults \in 0 .. MaxFaults

\* Two sources may read one identity at the same time in different modes: what
\* entered the ledger as baseline or as too old still never gets a job.
InertHasNoJob == Ledger!InertHasNoJob

\* Whatever the order of runs, releases, requests and actions, a source in a mode
\* that must not run has no due time for a claim to find.
PausedIsNotScheduled == \A s \in Source : mode[s] \notin Claimable => s \in parked

\* No sequence of lifecycle actions brings a source to SHADOW or ACTIVE without a
\* baseline completed since it last began one. It takes operators who act one at a
\* time: see ResumeKeepsBaseline.
BaselinedBeforeShadow == \A s \in Source : mode[s] \in {"SHADOW", "ACTIVE"} => window[s] # -1

\* lifecycle-actions.ts on resume: "a source paused BEFORE baseline completion
\* re-enters BASELINE so it never skips its baseline".
ResumeKeepsBaseline ==
    [][\A o \in Operator :
          /\ op[o] # None /\ op[o].act = "resume" /\ op'[o] = None
          /\ mode'[op[o].source] = "SHADOW" /\ mode[op[o].source] # "SHADOW"
          => window[op[o].source] # -1]_vars

\* A page reads the mode before its transaction and does not check it there, and
\* a batch is read before its own: no interleaving makes either create work for a
\* source that is no longer ACTIVE, or under a backfill that is not RUNNING.
WorkIsWanted ==
    [][\A x \in Item : job[x] = "none" /\ job'[x] = "PENDING" =>
          \E w \in Worker :
             \/ run[w].pc = "read" /\ run'[w].pc = "paged" /\ mode[run[w].source] = "ACTIVE"
             \/ /\ batch[w] # None /\ batch'[w] = None /\ x \in batch[w].items
                /\ backfill.status = "RUNNING"]_vars

\* A run whose lease was taken over changes neither the source nor the ledger,
\* wherever in its calls it was overtaken.
OvertakenRunIsInert ==
    [][\A w \in Worker :
          run[w].source # None /\ owner[run[w].source] # w /\ run'[w] # run[w] =>
             UNCHANGED <<policyVars, leaseVars, whenVars, ledgerVars>>]_vars

\* Discovery implements the ledger it promises.
ImplementsLedger == Ledger!Spec

Waiting(s) == mode[s] \in Claimable /\ ~backoff[s] /\ s \in due

\* A source that is due is run, whatever workers died holding it, unless it stops
\* being due first.
DueIsRun ==
    \A s \in Source :
        Waiting(s) ~> \/ ~Waiting(s)
                      \/ \E w \in Worker : run[w].pc = "claimed" /\ run[w].source = s
=============================================================================
