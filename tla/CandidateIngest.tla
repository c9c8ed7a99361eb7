--------------------------- MODULE CandidateIngest ---------------------------
(***************************************************************************)
(* How a discovered candidate becomes at most one public Article: worker    *)
(* runs lease a candidate's ARTICLE_INGEST jobs, fetch its page, fold the   *)
(* candidates that turn out to be the same page or the same prose into one  *)
(* winner, and save the winner's Article with its follow-up job.            *)
(*                                                                          *)
(* Every database transaction runs at READ COMMITTED, so one that decides   *)
(* from what it read and then writes is two steps here: other runs may      *)
(* commit in between, and only its guarded writes look again. The job table *)
(* is the one WorkQueue promises and JobQueue implements.                   *)
(***************************************************************************)
EXTENDS Naturals, FiniteSets

CONSTANTS
    Candidate, Worker, None,
    Mortal,        \* workers that may crash, or go silent and lose their lease
    Url, Key, Prose,
    FinalUrl,      \* the address a candidate's page is fetched from, after redirects
    CanonicalKey,  \* the final identity of that page
    ProseOf,       \* the normalised text extracted from it
    FirstSeen,     \* the order of firstObservedAt, createdAt and id
    Deletable,     \* the addresses whose Article an operator may delete
    MaxAttempts,   \* attempts the ARTICLE_INGEST retry policy allows
    MaxVersion,    \* bound: processing versions
    MaxGeneration  \* bound: rollbacks of the source

ASSUME IngestAssumption ==
    /\ FinalUrl \in [Candidate -> Url]
    /\ CanonicalKey \in [Candidate -> Key]
    /\ ProseOf \in [Candidate -> Prose]
    /\ FirstSeen \in [Candidate -> Nat]
    /\ \A c, d \in Candidate : FirstSeen[c] = FirstSeen[d] => c = d
    /\ Deletable \subseteq Url
    /\ Mortal \subseteq Worker
    /\ MaxAttempts \in Nat \ {0}
    /\ MaxVersion \in Nat \ {0}
    /\ MaxGeneration \in Nat
    /\ None \notin Candidate \cup Worker \cup Url \cup Key \cup Prose

VARIABLES
    source,     \* the DiscoverySource: its mode and activation generation
    candidate,  \* the CrawlCandidate rows
    article,    \* the addresses that have a public Article (unique per address)
    process,    \* those of them whose ARTICLE_PROCESS job exists
    phase, holder, tries,  \* the ARTICLE_INGEST jobs, as WorkQueue keeps them
    run         \* what each worker is doing

queueVars == <<phase, holder, tries>>
vars == <<source, candidate, article, process, queueVars, run>>

Version == 1 .. MaxVersion
IngestJob == Candidate \X Version   \* the dedupe key: candidate and version

Queue == INSTANCE WorkQueue WITH Job <- IngestJob

-----------------------------------------------------------------------------
(* Candidates.                                                              *)

Recoverable == {"DISCOVERED", "QUEUED"}
ResolvedTerminal == {"INGESTED", "DUPLICATE_ALIAS", "NEEDS_REVIEW", "REJECTED"}
Terminal == ResolvedTerminal \cup {"QUARANTINED"}

\* version 0 is a null extractorVersion: no attempt has failed yet.
Undiscovered ==
    [status |-> "absent", article |-> None, key |-> None, prose |-> None,
     attempts |-> 0, version |-> 0, deleted |-> FALSE]

HasArticle(c) == candidate[c].article # None

\* Mutant: the status is not looked at again.
Open_AnyStatus(c) == ~HasArticle(c)

Open(c) == ~HasArticle(c) /\ candidate[c].status \in Recoverable

Folded(row) == [row EXCEPT !.status = "DUPLICATE_ALIAS", !.key = None]

\* Mutant: an earlier candidate beats one that has an Article.
MergeWinner_FirstSeen(participants) ==
    CHOOSE c \in participants : \A d \in participants : FirstSeen[c] <= FirstSeen[d]

\* The participant with an Article wins; otherwise the first one seen.
MergeWinner(participants) ==
    LET known == {c \in participants : HasArticle(c)}
        pool == IF known # {} THEN known ELSE participants
    IN  CHOOSE c \in pool : \A d \in pool : FirstSeen[c] <= FirstSeen[d]

\* An update guarded on the candidate having no Article yet.
IfUnlinked(row, changed) == IF row.article = None THEN changed ELSE row

-----------------------------------------------------------------------------
(* Jobs.                                                                    *)

\* An upsert whose update is empty: a job that exists, settled or not, is left.
Enqueue(j) ==
    IF phase[j] = "new" THEN Queue!Submit(j) ELSE UNCHANGED queueVars

\* Mutant: a job that a worker is running is left to it.
Cancel_WaitingOnly(jobs) ==
    /\ phase' = [j \in IngestJob |-> IF j \in jobs /\ phase[j] = "waiting" THEN "settled" ELSE phase[j]]
    /\ UNCHANGED <<holder, tries>>

Cancel(jobs) ==
    /\ phase' = [j \in IngestJob |-> IF j \in jobs THEN "settled" ELSE phase[j]]
    /\ holder' = [j \in IngestJob |-> IF j \in jobs THEN None ELSE holder[j]]
    /\ UNCHANGED tries

JobsOf(cs) == {j \in IngestJob : j[1] \in cs}

ActiveJobsOf(cs) == {j \in JobsOf(cs) : Queue!Unsettled(j)}

-----------------------------------------------------------------------------
(* Worker runs.                                                             *)

Step == {"idle", "claimed", "loaded", "fetched", "merging", "merged",
         "matching", "electing", "saving", "checked", "converging", "done", "failing"}

\* decision is what a transaction settled on from its reads; target is the
\* candidate whose Article the run saves; outdated remembers that the source
\* was rolled back under this run before its save transaction began.
NoDecision == [winner |-> None, losers |-> {}, review |-> FALSE]

Idle ==
    [step |-> "idle", job |-> None, generation |-> 0, attempt |-> 0, target |-> None,
     decision |-> NoDecision, permanent |-> FALSE, outdated |-> FALSE]

Ours(w) == run[w].job[1]

At(w, step) == run[w].step = step

Goto(w, step) == run' = [run EXCEPT ![w].step = step, ![w].decision = NoDecision]

Decide(w, step, winner, losers, review) ==
    run' = [run EXCEPT ![w].step = step,
                       ![w].decision = [winner |-> winner, losers |-> losers,
                                        review |-> review]]

\* The handler returned, or threw: all that is left to do is about the job.
Return(w) == run' = [run EXCEPT ![w] = [Idle EXCEPT !.step = "done", !.job = run[w].job]]

Fail(w, permanent) ==
    run' = [run EXCEPT ![w] = [Idle EXCEPT !.step = "failing", !.job = run[w].job,
                                           !.permanent = permanent]]

Leases(w) == phase[run[w].job] = "leased" /\ holder[run[w].job] = w

Init ==
    /\ source = [mode |-> "SHADOW", generation |-> 0]
    /\ candidate = [c \in Candidate |-> Undiscovered]
    /\ article = {}
    /\ process = {}
    /\ Queue!Init
    /\ run = [w \in Worker |-> Idle]

\* A fresh lease, or the takeover of a lease that went stale.
Claim(w) ==
    /\ At(w, "idle")
    /\ \E j \in IngestJob :
        /\ holder[j] \in Mortal \cup {None}
        /\ Queue!Lease(j, w)
        /\ run' = [run EXCEPT ![w] = [Idle EXCEPT !.step = "claimed", !.job = j]]
    /\ UNCHANGED <<source, candidate, article, process>>

\* The handler's guard on the candidate, and the context the attempt starts from.
Load(w) ==
    /\ At(w, "claimed")
    /\ LET c == Ours(w)
       IN  IF HasArticle(c) \/ candidate[c].status \in Terminal
           THEN Return(w)
           ELSE run' = [run EXCEPT ![w].step = "loaded",
                                   ![w].generation = source.generation,
                                   ![w].attempt = candidate[c].attempts + 1]
    /\ UNCHANGED <<source, candidate, article, process, queueVars>>

-----------------------------------------------------------------------------
(* The fetch, and what becomes of a failed one.                             *)

Disposition(kind, attempt) ==
    CASE kind = "permanent" -> "terminal"
      [] kind = "deterministic" -> "quarantine"
      [] kind = "transient" -> IF attempt >= MaxAttempts THEN "quarantine" ELSE "retry"

\* Mutant: a retry marks the candidate with the status of its job.
Recovered_FailedRetry(row, disposition) ==
    CASE disposition = "retry" -> [row EXCEPT !.status = "FAILED", !.attempts = @ + 1]
      [] disposition = "terminal" -> [row EXCEPT !.status = "REJECTED"]
      [] disposition = "quarantine" -> [row EXCEPT !.status = "QUARANTINED"]

Recovered(row, disposition) ==
    LET tried == [row EXCEPT !.version = 1] IN
    CASE disposition = "retry" -> [tried EXCEPT !.attempts = @ + 1]
      [] disposition = "terminal" -> [tried EXCEPT !.status = "REJECTED"]
      [] disposition = "quarantine" ->
            [tried EXCEPT !.status = "QUARANTINED", !.attempts = @ + 1]

FetchFails(w) ==
    /\ At(w, "loaded")
    /\ \E kind \in {"transient", "deterministic", "permanent"} :
        LET c == Ours(w)
            disposition == Disposition(kind, run[w].attempt)
        IN  /\ candidate' = IF Open(c)
                            THEN [candidate EXCEPT ![c] = Recovered(@, disposition)]
                            ELSE candidate
            /\ Fail(w, disposition # "retry")
    /\ UNCHANGED <<source, article, process, queueVars>>

\* The page is not for us (outside the window): the job completes, nothing else.
FetchStops(w) ==
    /\ At(w, "loaded")
    /\ Return(w)
    /\ UNCHANGED <<source, candidate, article, process, queueVars>>

\* A draft; the resolver first drops a candidate that is already settled.
FetchDraft(w) ==
    /\ At(w, "loaded")
    /\ LET c == Ours(w)
       IN  IF HasArticle(c) \/ candidate[c].status \in ResolvedTerminal
           THEN Return(w)
           ELSE run' = [run EXCEPT ![w].step = "fetched", ![w].attempt = 0]
    /\ UNCHANGED <<source, candidate, article, process, queueVars>>

-----------------------------------------------------------------------------
(* The final identity: one candidate per canonical key, one per prose.      *)

\* The resolver distrusts the page's final address.
RouteToReview(w) ==
    /\ At(w, "fetched")
    /\ LET c == Ours(w) IN
       IF HasArticle(c)
       THEN UNCHANGED <<candidate, queueVars>>
       ELSE /\ candidate' = [candidate EXCEPT ![c].status = "NEEDS_REVIEW"]
            /\ Cancel(ActiveJobsOf({c}))
    /\ Return(w)
    /\ UNCHANGED <<source, article, process>>

\* The merge transaction reads the candidate and the holder of its canonical
\* key, and settles on a winner and losers.
ReadIdentity(w) ==
    /\ At(w, "fetched")
    /\ LET c == Ours(w)
           holders == {d \in Candidate : candidate[d].key = CanonicalKey[c]}
           winner == MergeWinner(holders \cup {c})
       IN  CASE HasArticle(c) \/ candidate[c].status \in ResolvedTerminal -> Return(w)
             [] OTHER ->
                IF holders = {c}
                THEN run' = [run EXCEPT ![w].step = "merged", ![w].target = c]
                ELSE Decide(w, "merging", winner, (holders \cup {c}) \ {winner}, FALSE)
    /\ UNCHANGED <<source, candidate, article, process, queueVars>>

\* Its writes. Only the unique slot is looked at again: taken meanwhile, the
\* transaction rolls back and is tried anew. The fold itself has no guard.
CommitIdentity(w) ==
    /\ At(w, "merging")
    /\ LET winner == run[w].decision.winner
           losers == run[w].decision.losers
           key == CanonicalKey[Ours(w)]
           taken == \E d \in Candidate \ (losers \cup {winner}) : candidate[d].key = key
       IN  IF taken
           THEN /\ Goto(w, "fetched")
                /\ UNCHANGED <<candidate, queueVars>>
           ELSE /\ candidate' = [c \in Candidate |->
                        CASE c = winner -> [candidate[c] EXCEPT !.key = key]
                          [] c \in losers -> Folded(candidate[c])
                          [] OTHER -> candidate[c]]
                /\ Cancel(ActiveJobsOf(losers))
                /\ run' = [run EXCEPT ![w].step = "merged", ![w].target = winner,
                                      ![w].decision = NoDecision]
    /\ UNCHANGED <<source, article, process>>

\* Mutant: candidates that are already ingested are left out of the matches.
ReadProse_OpenOnly(w) ==
    /\ At(w, "merged")
    /\ LET c == run[w].target
           matches == {d \in Candidate \ {c} :
                candidate[d].prose = ProseOf[Ours(w)] /\ Open(d)}
           winner == MergeWinner(matches \cup {c})
       IN  IF ~Open(c)
           THEN Goto(w, "saving")
           ELSE Decide(w, "matching", winner, (matches \cup {c}) \ {winner}, FALSE)
    /\ UNCHANGED <<source, candidate, article, process, queueVars>>

\* The fingerprint transaction reads the winner and the candidates recorded
\* with the same prose.
ReadProse(w) ==
    /\ At(w, "merged")
    /\ LET c == run[w].target
           matches == {d \in Candidate \ {c} :
                         /\ candidate[d].prose = ProseOf[Ours(w)]
                         /\ candidate[d].status \notin {"DUPLICATE_ALIAS", "REJECTED"}}
           linked == {d \in matches \cup {c} : HasArticle(d)}
           winner == MergeWinner(matches \cup {c})
       IN  IF HasArticle(c) \/ candidate[c].status \in ResolvedTerminal
           THEN Goto(w, "saving")
           ELSE Decide(w, "matching", winner, (matches \cup {c}) \ {winner},
                       Cardinality(linked) > 1)
    /\ UNCHANGED <<source, candidate, article, process, queueVars>>

Recorded(rows, cs, prose) ==
    [c \in Candidate |->
        IF c \in cs THEN IfUnlinked(rows[c], [rows[c] EXCEPT !.prose = prose]) ELSE rows[c]]

\* Its writes. Several Articles with this prose: the target is parked for an
\* operator. Otherwise the losers are folded, and the prose is recorded on the
\* target and on the winner.
CommitProse(w) ==
    /\ At(w, "matching")
    /\ LET target == run[w].target
           losers == run[w].decision.losers
           prose == ProseOf[Ours(w)]
           parked == [Recorded(candidate, {target}, prose) EXCEPT ![target] =
                IfUnlinked(@, [@ EXCEPT !.status = "NEEDS_REVIEW"])]
           recorded == Recorded(candidate, {target, run[w].decision.winner}, prose)
       IN  IF run[w].decision.review
           THEN /\ candidate' = parked
                /\ Cancel(ActiveJobsOf({target}))
                /\ Return(w)
           ELSE /\ candidate' = [c \in Candidate |->
                        IF c \in losers THEN Folded(recorded[c]) ELSE recorded[c]]
                /\ Cancel(ActiveJobsOf(losers))
                /\ Goto(w, IF target \in losers THEN "electing" ELSE "saving")
    /\ UNCHANGED <<source, article, process>>

\* A folded target hands over to some candidate with the prose, if one is left.
PickSurvivor(w) ==
    /\ At(w, "electing")
    /\ LET survivors == {c \in Candidate :
                /\ candidate[c].prose = ProseOf[Ours(w)]
                /\ candidate[c].status \notin ResolvedTerminal}
       IN  \E next \in IF survivors = {} THEN {run[w].target} ELSE survivors :
                run' = [run EXCEPT ![w].step = "saving", ![w].target = next]
    /\ UNCHANGED <<source, candidate, article, process, queueVars>>

-----------------------------------------------------------------------------
(* The save.                                                                *)

\* The save transaction's checks, ending with the source's generation.
CheckSave(w) ==
    /\ At(w, "saving")
    /\ LET c == run[w].target
           current == source.mode = "ACTIVE" /\ source.generation = run[w].generation
       IN  IF HasArticle(c) \/ candidate[c].status \in Terminal \/ ~current
           THEN Return(w) ELSE Goto(w, "checked")
    /\ UNCHANGED <<source, candidate, article, process, queueVars>>

Linked(row, url, prose) ==
    [row EXCEPT !.status = "INGESTED", !.article = url, !.prose = prose]

\* Mutant: the Article stays when the link's guard fails.
CommitSave_NoRollback(w) ==
    /\ At(w, "checked")
    /\ LET c == run[w].target
           url == FinalUrl[Ours(w)]
       IN  /\ article' = article \cup {url}
           /\ process' = process \cup {url}
           /\ candidate' = IF url \notin article /\ Open(c)
                           THEN [candidate EXCEPT ![c] = Linked(@, url, ProseOf[Ours(w)])]
                           ELSE candidate
           /\ Return(w)
    /\ UNCHANGED <<source, queueVars>>

\* Its writes: the Article, the guarded link and the follow-up job, or, when the
\* address is taken or the guard fails, none of them.
CommitSave(w) ==
    /\ At(w, "checked")
    /\ LET c == run[w].target
           url == FinalUrl[Ours(w)]
       IN  IF url \notin article /\ Open(c)
           THEN /\ article' = article \cup {url}
                /\ process' = process \cup {url}
                /\ candidate' = [candidate EXCEPT ![c] = Linked(@, url, ProseOf[Ours(w)])]
                /\ Return(w)
           ELSE /\ Goto(w, "converging")
                /\ UNCHANGED <<candidate, article, process>>
    /\ UNCHANGED <<source, queueVars>>

\* Attach to the Article that won the race, or try the transaction again.
Converge(w) ==
    /\ At(w, "converging")
    /\ LET c == run[w].target
           url == FinalUrl[Ours(w)]
       IN  CASE HasArticle(c) ->
                    /\ process' = process \cup {candidate[c].article}
                    /\ Return(w)
                    /\ UNCHANGED candidate
             [] ~HasArticle(c) /\ candidate[c].status \in Terminal ->
                    Return(w) /\ UNCHANGED <<candidate, process>>
             [] ~HasArticle(c) /\ candidate[c].status \notin Terminal /\ url \notin article ->
                    Goto(w, "saving") /\ UNCHANGED <<candidate, process>>
             [] OTHER ->
                    /\ candidate' = [candidate EXCEPT ![c] = Linked(@, url, ProseOf[Ours(w)])]
                    /\ process' = process \cup {url}
                    /\ Return(w)
    /\ UNCHANGED <<source, article, queueVars>>

-----------------------------------------------------------------------------
(* The end of a run.                                                        *)

\* A database error, or a conflict that would not go away: nothing of the open
\* transaction stays, and the job fails without the candidate hearing of it.
Throws(w) ==
    /\ run[w].step \in Step \ {"idle", "done", "failing"}
    /\ Fail(w, FALSE)
    /\ UNCHANGED <<source, candidate, article, process, queueVars>>

Completes(w) ==
    /\ At(w, "done")
    /\ IF Leases(w)
       THEN Queue!Becomes(run[w].job, "settled", None, tries[run[w].job])
       ELSE UNCHANGED queueVars
    /\ run' = [run EXCEPT ![w] = Idle]
    /\ UNCHANGED <<source, candidate, article, process>>

FailsJob(w) ==
    /\ At(w, "failing")
    /\ LET j == run[w].job
           spent == run[w].permanent \/ tries[j] + 1 >= MaxAttempts
       IN  IF Leases(w)
           THEN Queue!Becomes(j, IF spent THEN "settled" ELSE "waiting", None, tries[j] + 1)
           ELSE UNCHANGED queueVars
    /\ run' = [run EXCEPT ![w] = Idle]
    /\ UNCHANGED <<source, candidate, article, process>>

\* The process dies; its lease stays until another worker takes it over.
Crashes(w) ==
    /\ w \in Mortal /\ ~At(w, "idle")
    /\ run' = [run EXCEPT ![w] = Idle]
    /\ UNCHANGED <<source, candidate, article, process, queueVars>>

-----------------------------------------------------------------------------
(* Discovery and the operators.                                             *)

\* A page commit ensures the candidate and, under an active source, its job.
Discover(c) ==
    /\ candidate[c].status = "absent"
    /\ candidate' = [candidate EXCEPT ![c].status = "DISCOVERED"]
    /\ IF source.mode = "ACTIVE" THEN Enqueue(<<c, 1>>) ELSE UNCHANGED queueVars
    /\ UNCHANGED <<source, article, process, run>>

\* The catch-up picks the discovered candidates that are young enough.
Activate ==
    /\ source' = [source EXCEPT !.mode = "ACTIVE"]
    /\ \E picked \in SUBSET {c \in Candidate : candidate[c].status = "DISCOVERED"} :
        candidate' = [c \in Candidate |->
            IF c \in picked THEN [candidate[c] EXCEPT !.status = "QUEUED"] ELSE candidate[c]]
    /\ UNCHANGED <<article, process, queueVars, run>>

\* Mutant: the activation generation stays.
Rollback_SameGeneration ==
    /\ source.mode = "ACTIVE" /\ source.generation < MaxGeneration
    /\ source' = [source EXCEPT !.mode = "SHADOW"]
    /\ run' = [w \in Worker |->
            IF run[w].step \in Step \ {"idle", "claimed", "checked", "done", "failing"}
            THEN [run[w] EXCEPT !.outdated = TRUE] ELSE run[w]]
    /\ UNCHANGED <<candidate, article, process, queueVars>>

Rollback ==
    /\ source.mode = "ACTIVE" /\ source.generation < MaxGeneration
    /\ source' = [mode |-> "SHADOW", generation |-> source.generation + 1]
    /\ Cancel({j \in JobsOf({c \in Candidate : candidate[c].status \in Recoverable}) :
                 phase[j] = "waiting" /\ tries[j] = 0})  \* PENDING, not FAILED
    /\ run' = [w \in Worker |->
            IF run[w].step \in Step \ {"idle", "claimed", "checked", "done", "failing"}
            THEN [run[w] EXCEPT !.outdated = TRUE] ELSE run[w]]
    /\ UNCHANGED <<candidate, article, process>>

\* The candidates that produced the Article survive it, marked.
DeleteArticle(url) ==
    /\ url \in article \cap Deletable
    /\ article' = article \ {url}
    /\ process' = process \ {url}
    /\ candidate' = [c \in Candidate |->
            IF candidate[c].article = url
            THEN [candidate[c] EXCEPT !.article = None, !.deleted = TRUE]
            ELSE candidate[c]]
    /\ UNCHANGED <<source, queueVars, run>>

\* An operator readmits a deleted identity under a higher version.
RecoverDeleted(c) ==
    /\ ~HasArticle(c) /\ candidate[c].deleted
    /\ candidate[c].version < MaxVersion
    /\ LET version == candidate[c].version + 1
       IN  /\ candidate' = [candidate EXCEPT ![c].status = "DISCOVERED", ![c].deleted = FALSE,
                                             ![c].attempts = 0, ![c].version = version]
           /\ Enqueue(<<c, version>>)
    /\ UNCHANGED <<source, article, process, run>>

Next ==
    \/ \E w \in Worker :
        \/ Claim(w) \/ Load(w) \/ FetchFails(w) \/ FetchStops(w) \/ FetchDraft(w)
        \/ RouteToReview(w) \/ ReadIdentity(w) \/ CommitIdentity(w)
        \/ ReadProse(w) \/ CommitProse(w) \/ PickSurvivor(w)
        \/ CheckSave(w) \/ CommitSave(w) \/ Converge(w)
        \/ Throws(w) \/ Completes(w) \/ FailsJob(w) \/ Crashes(w)
    \/ \E c \in Candidate : Discover(c) \/ RecoverDeleted(c)
    \/ Activate \/ Rollback
    \/ \E url \in Url : DeleteArticle(url)

Spec == Init /\ [][Next]_vars

\* A run that has read the prose of others, and has not saved yet.
Settling == {"matching", "electing", "saving", "checked", "converging"}

\* Operators who readmit deleted identities, but none during such a run.
Undisturbed == \A c \in Candidate : RecoverDeleted(c) => \A w \in Worker : run[w].step \notin Settling

OrderlySpec == Init /\ [][Next /\ Undisturbed]_vars

-----------------------------------------------------------------------------
(* Properties.                                                              *)

CandidateRow ==
    [status : {"absent"} \cup Recoverable \cup Terminal,
     article : Url \cup {None}, key : Key \cup {None}, prose : Prose \cup {None},
     attempts : Nat, version : 0 .. MaxVersion, deleted : BOOLEAN]

RunState ==
    [step : Step, job : IngestJob \cup {None}, generation : 0 .. MaxGeneration,
     attempt : Nat, target : Candidate \cup {None},
     decision : [winner : Candidate \cup {None}, losers : SUBSET Candidate, review : BOOLEAN],
     permanent : BOOLEAN, outdated : BOOLEAN]

\* Every variable has its type.
TypeOK ==
    /\ source \in [mode : {"ACTIVE", "SHADOW"}, generation : 0 .. MaxGeneration]
    /\ candidate \in [Candidate -> CandidateRow]
    /\ article \subseteq Url
    /\ process \subseteq Url
    /\ phase \in [IngestJob -> {"new", "waiting", "leased", "settled"}]
    /\ holder \in [IngestJob -> Worker \cup {None}]
    /\ tries \in [IngestJob -> Nat]
    /\ run \in [Worker -> RunState]

\* Whatever races, retries, crashes and deletions happen, a candidate is linked
\* only to an Article that exists, every Article is linked by some candidate,
\* and its enrichment job exists: the Article, the link and the job are one
\* transaction, and convergence makes up for a lost one (article-save-commit.ts).
ArticlesAreWhole ==
    /\ \A c \in Candidate : HasArticle(c) => candidate[c].article \in article
    /\ \A url \in article : \E c \in Candidate : candidate[c].article = url
    /\ article = process

\* A run that was under way when its source was rolled back never creates an
\* Article, even if the source is active again by the time it saves: the
\* activation generation it carries is no longer the source's.
StaleRunSavesNothing ==
    [][\A w \in Worker :
        run[w].outdated /\ run'[w] # run[w] => article' \subseteq article]_vars

\* A candidate that was rejected, quarantined, folded or parked stays without an
\* Article until an operator readmits it, however far a run had come with it.
SettledGetsNoArticle ==
    [][\A c \in Candidate :
        candidate[c].status \in Terminal /\ ~HasArticle(c)
        => candidate'[c].article = None]_vars

\* Candidates that turn out to be the same page, or the same prose, have one
\* Article between them (final-identity-commit.ts: they are folded onto one
\* winning candidate before any Article is created). It takes attempts that do not
\* overlap, with each other or with readmissions (OrderlySpec): a candidate readmitted
\* after a run has matched its prose is elected although another has the Article.
SamePage(c, d) == CanonicalKey[c] = CanonicalKey[d] \/ ProseOf[c] = ProseOf[d]

OneArticlePerIdentity ==
    \A c, d \in Candidate :
        HasArticle(c) /\ HasArticle(d) /\ SamePage(c, d)
        => candidate[c].article = candidate[d].article

\* Once a candidate has an Article, no merge touches it: it stays ingested until
\* the Article is deleted (final-identity-commit.ts, the governing invariant).
KnownArticleUntouched ==
    [][\A c \in Candidate :
        HasArticle(c) /\ candidate'[c].article # None
        => candidate'[c].status = "INGESTED"]_vars

\* A folded or parked candidate has no job left that could run, not even one a
\* worker is still failing or about to give back (final-identity-commit.ts, AC3).
SetAsideHasNoJob ==
    \A c \in Candidate :
        candidate[c].status \in {"DUPLICATE_ALIAS", "NEEDS_REVIEW"}
        => ActiveJobsOf({c}) = {}
=============================================================================
