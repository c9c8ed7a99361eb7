---------------------------- MODULE ArticleContent ----------------------------
(***************************************************************************)
(* One public article while everything that may change what readers see of  *)
(* it is at work: enrichment runs of the worker fill in what is derived from *)
(* the text (difficulty, tags, vocabulary, quiz) and publish a draft;       *)
(* readers fill the same caches; editors publish and unpublish, moderators  *)
(* withdraw and restore; a forced re-scrape replaces the text, version by   *)
(* version, and has what was derived from the old text generated again.     *)
(*                                                                          *)
(* A provider call is a long await: a run reads the text, and stores what it *)
(* made of it in a later step, without looking at the text again. What reads *)
(* and later writes is two steps here for every actor; only the guards of   *)
(* the writes look again. The job table is the one WorkQueue promises.      *)
(***************************************************************************)
EXTENDS Naturals, FiniteSetsExt

CONSTANTS
    Worker, Reader, Operator, Scraper, None,
    Mortal,       \* workers that may crash, or go silent and lose their lease
    Features,     \* the number of required features, taken in registry order
    MaxVersion,   \* bound: forced re-scrapes
    MaxAttempts,  \* attempts the retry policy of the enrichment jobs allows
    Casts         \* who takes part in a behaviour, and how much of it; see Cast

ASSUME ContentAssumption ==
    /\ Features \in Nat \ {0}
    /\ MaxVersion \in Nat
    /\ MaxAttempts \in Nat \ {0}
    /\ Mortal \subseteq Worker
    /\ \A c \in Casts :
        /\ c.workers \subseteq Worker /\ c.readers \subseteq Reader
        /\ c.operators \subseteq Operator /\ c.scrapers \subseteq Scraper
        /\ c.versions \in 0 .. MaxVersion /\ c.acts \in Nat /\ c.deaths \in Nat
    /\ None \notin Worker \cup Reader \cup Operator \cup Scraper \cup Nat

\* A behaviour has a cast: the workers, readers, operators and scrapers in it,
\* and the bounds versions (re-scrapes), acts (decisions of operators, changes of
\* trust, backfills) and deaths (worker and scraper processes that die).
VARIABLES
    cast,       \* fixed in a behaviour
    status,     \* DRAFT or PUBLISHED
    withdrawn,  \* the takedown state is not active
    trust,      \* none: no linked candidate; else what every linked source grants
    text,       \* the readable text: the number of the version it came from
    stored,     \* the text each feature's stored output was made from
    version,    \* the ArticleContentVersion rows; row 0 is the baseline
    stamped,    \* versions whose derived outputs were marked for regeneration
    claimed,    \* versions whose regeneration has been claimed
    phase, holder, tries,  \* the enrichment jobs, as WorkQueue keeps them
    run,        \* what each worker is doing
    reading,    \* the generation each reader is waiting for
    op,         \* the decision each operator has read for and not committed
    scrape,     \* the re-scrape each scraper is in
    swept,      \* the versions a reconcile sweep found unclaimed
    acts, deaths,  \* bounded
    overtaken,  \* history: features stored from a text replaced meanwhile
    editorsTurn \* history: it was withdrawn from readers, and no editor published since

queueVars == <<phase, holder, tries>>
editorial == <<status, withdrawn, trust, editorsTurn>>
ledger == <<text, version, stamped, claimed>>
vars == <<cast, editorial, ledger, stored, queueVars, run, reading, op, scrape, swept,
          acts, deaths, overtaken>>

Feature == 1 .. Features
Version == 0 .. MaxVersion

\* The dedupe keys: the article's own enrichment, a backfill, and one
\* regeneration per version.
Regen(v) == <<"regen", v>>
ArticleJob == {<<"process", 0>>, <<"rebuild", 0>>} \cup {Regen(v) : v \in 1 .. MaxVersion}

Queue == INSTANCE WorkQueue WITH Job <- ArticleJob

Process == <<"process", 0>>
Rebuild == <<"rebuild", 0>>

Present(f) == stored[f] # None

-----------------------------------------------------------------------------
(* An enrichment run.                                                       *)

\* draft is how the run may publish what it loaded: no, as an article nobody
\* delivered (none), or as a trusted provider's; making is the text a generation
\* under way was given; whole is the re-read that comes last.
Idle ==
    [step |-> "idle", job |-> None, draft |-> "no", todo |-> {}, making |-> None,
     failed |-> FALSE, whole |-> FALSE, cleared |-> FALSE]

At(w, step) == run[w].step = step

Leases(w) == phase[run[w].job] = "leased" /\ holder[run[w].job] = w

Init ==
    /\ cast \in Casts
    /\ status = "DRAFT" /\ withdrawn = FALSE
    /\ trust \in {"none", "trusted", "untrusted"}
    /\ text = 0
    /\ stored = [f \in Feature |-> None]
    /\ version = [v \in Version |-> "none"]
    /\ stamped = {} /\ claimed = {}
    /\ phase = [j \in ArticleJob |-> IF j = Process THEN "waiting" ELSE "new"]
    /\ holder = [j \in ArticleJob |-> None]
    /\ tries = [j \in ArticleJob |-> 0]
    /\ run = [w \in Worker |-> Idle]
    /\ reading = [r \in Reader |-> None]
    /\ op = [o \in Operator |-> None]
    /\ scrape = [s \in Scraper |-> None]
    /\ swept = {}
    /\ acts = 0 /\ deaths = 0
    /\ overtaken = {}
    /\ editorsTurn = FALSE

\* A fresh lease, or the takeover of a lease that went stale.
Claim(w) ==
    /\ At(w, "idle")
    /\ \E j \in ArticleJob :
        /\ holder[j] \in Mortal \cup {None}
        /\ Queue!Lease(j, w)
        /\ run' = [run EXCEPT ![w] = [Idle EXCEPT !.step = "claimed", !.job = j]]
    /\ UNCHANGED <<cast, editorial, ledger, stored, reading, op, scrape, swept, acts,
                   deaths, overtaken>>

\* Everything the publication will be decided on is read here, except whether
\* the required outputs are there.
Load(w) ==
    /\ At(w, "claimed")
    /\ run' = [run EXCEPT ![w].step = "enriching",
                          ![w].draft = IF status = "DRAFT" /\ ~withdrawn /\ trust # "untrusted"
                                       THEN trust ELSE "no",
                          ![w].todo = {f \in Feature : ~Present(f)}]
    /\ UNCHANGED <<cast, editorial, ledger, stored, queueVars, reading, op, scrape, swept,
                   acts, deaths, overtaken>>

\* The helper is cache-first: an output someone else stored meanwhile is taken.
ReadText(w) ==
    /\ At(w, "enriching") /\ run[w].todo # {}
    /\ LET f == Min(run[w].todo)
       IN  run' = IF Present(f)
                  THEN [run EXCEPT ![w].todo = @ \ {f}]
                  ELSE [run EXCEPT ![w].step = "making", ![w].making = text]
    /\ UNCHANGED <<cast, editorial, ledger, stored, queueVars, reading, op, scrape, swept,
                   acts, deaths, overtaken>>

\* Upserts: whatever is stored now is overwritten.
Store(f, made) ==
    /\ stored' = [stored EXCEPT ![f] = made]
    /\ overtaken' = IF made = text THEN overtaken \ {f} ELSE overtaken \cup {f}

\* The provider answers; or it does not, and the step is a fallback or failed.
\* The first feature is computed locally and has no fallback.
Made(w) ==
    /\ At(w, "making")
    /\ LET f == Min(run[w].todo)
           next == [run[w] EXCEPT !.step = "enriching", !.making = None, !.todo = @ \ {f}]
       IN  \/ Store(f, run[w].making) /\ run' = [run EXCEPT ![w] = next]
           \/ /\ f # 1
              /\ \E failed \in BOOLEAN :
                    run' = [run EXCEPT ![w] = [next EXCEPT !.failed = @ \/ failed]]
              /\ UNCHANGED <<stored, overtaken>>
    /\ UNCHANGED <<cast, editorial, ledger, queueVars, reading, op, scrape, swept, acts,
                   deaths>>

\* Mutant: a fallback counts as an output.
Recheck_FallbackCounts(w) ==
    /\ At(w, "enriching") /\ run[w].todo = {}
    /\ run' = [run EXCEPT ![w].step = "enriched", ![w].whole = ~run[w].failed,
                          ![w].cleared = FALSE]
    /\ UNCHANGED <<cast, editorial, ledger, stored, queueVars, reading, op, scrape, swept,
                   acts, deaths, overtaken>>

\* The durable re-read: a fallback is not an output.
Recheck(w) ==
    /\ At(w, "enriching") /\ run[w].todo = {}
    /\ run' = [run EXCEPT ![w].step = "enriched", ![w].cleared = FALSE,
                          ![w].whole = ~run[w].failed /\ \A f \in Feature : Present(f)]
    /\ UNCHANGED <<cast, editorial, ledger, stored, queueVars, reading, op, scrape, swept,
                   acts, deaths, overtaken>>

\* An article no provider delivered is published as soon as nothing failed; a
\* provider's draft needs trust and every required output.
MayPublish(w) ==
    CASE run[w].draft = "no" -> FALSE
      [] run[w].draft = "none" -> ~run[w].failed
      [] run[w].draft = "trusted" -> run[w].whole

\* Mutant: the write is not guarded on the takedown state.
Publish_Unguarded(w) ==
    /\ At(w, "enriched")
    /\ status' = IF MayPublish(w) /\ status = "DRAFT" THEN "PUBLISHED" ELSE status
    /\ run' = [run EXCEPT ![w] = [Idle EXCEPT !.step = IF run[w].failed THEN "failing" ELSE "done",
                                             !.job = run[w].job]]
    /\ UNCHANGED <<cast, withdrawn, trust, editorsTurn, ledger, stored, queueVars,
                   reading, op, scrape, swept, acts, deaths, overtaken>>

\* The decision is from before; the write looks at the article again.
Publish(w) ==
    /\ At(w, "enriched")
    /\ status' = IF MayPublish(w) /\ status = "DRAFT" /\ ~withdrawn
                 THEN "PUBLISHED" ELSE status
    /\ run' = [run EXCEPT ![w] = [Idle EXCEPT !.step = IF run[w].failed THEN "failing" ELSE "done",
                                             !.job = run[w].job]]
    /\ UNCHANGED <<cast, withdrawn, trust, editorsTurn, ledger, stored, queueVars,
                   reading, op, scrape, swept, acts, deaths, overtaken>>

Completes(w) ==
    /\ At(w, "done")
    /\ IF Leases(w)
       THEN Queue!Becomes(run[w].job, "settled", None, tries[run[w].job])
       ELSE UNCHANGED queueVars
    /\ run' = [run EXCEPT ![w] = Idle]
    /\ UNCHANGED <<cast, editorial, ledger, stored, reading, op, scrape, swept, acts,
                   deaths, overtaken>>

FailsJob(w) ==
    /\ At(w, "failing")
    /\ LET j == run[w].job
       IN  IF ~Leases(w) THEN UNCHANGED queueVars
           ELSE Queue!Becomes(j, IF tries[j] + 1 >= MaxAttempts THEN "settled" ELSE "waiting",
                              None, tries[j] + 1)
    /\ run' = [run EXCEPT ![w] = Idle]
    /\ UNCHANGED <<cast, editorial, ledger, stored, reading, op, scrape, swept, acts,
                   deaths, overtaken>>

\* The process dies; its lease stays until another worker takes it over.
Crashes(w) ==
    /\ w \in Mortal /\ ~At(w, "idle") /\ deaths < cast.deaths
    /\ deaths' = deaths + 1
    /\ run' = [run EXCEPT ![w] = Idle]
    /\ UNCHANGED <<cast, editorial, ledger, stored, queueVars, reading, op, scrape, swept,
                   acts, overtaken>>

WorkerStep(w) ==
    \/ Claim(w) \/ Load(w) \/ ReadText(w) \/ Made(w) \/ Recheck(w) \/ Publish(w)
    \/ Completes(w) \/ FailsJob(w) \/ Crashes(w)

-----------------------------------------------------------------------------
(* Readers, who generate what they open and is not there yet.               *)

Open(r) ==
    /\ reading[r] = None /\ status = "PUBLISHED"
    /\ \E f \in Feature : ~Present(f) /\ reading' = [reading EXCEPT ![r] = <<f, text>>]
    /\ UNCHANGED <<cast, editorial, ledger, stored, queueVars, run, op, scrape, swept,
                   acts, deaths, overtaken>>

Answered(r) ==
    /\ reading[r] # None
    /\ reading' = [reading EXCEPT ![r] = None]
    /\ \/ Store(reading[r][1], reading[r][2])
       \/ UNCHANGED <<stored, overtaken>>
    /\ UNCHANGED <<cast, editorial, ledger, queueVars, run, op, scrape, swept, acts,
                   deaths>>

-----------------------------------------------------------------------------
(* Editors and moderators: each reads the article, decides, then writes.    *)

Decide(o) ==
    /\ op[o] = None /\ acts < cast.acts
    /\ acts' = acts + 1
    /\ \E act \in {"publish", "unpublish", "withdraw", "restore"} :
        /\ act = "publish" => ~withdrawn /\ status = "DRAFT"
        /\ act = "unpublish" => status = "PUBLISHED"
        /\ op' = [op EXCEPT ![o] = [act |-> act, status |-> IF act = "restore" THEN status
                                                            ELSE "DRAFT"]]
    /\ UNCHANGED <<cast, editorial, ledger, stored, queueVars, run, reading, scrape,
                   swept, deaths, overtaken>>

Deciding(o, act) == op[o] # None /\ op[o].act = act

Commit(o, act) ==
    /\ Deciding(o, act)
    /\ op' = [op EXCEPT ![o] = None]
    /\ UNCHANGED <<cast, trust, ledger, stored, queueVars, run, reading, scrape, swept,
                   acts, deaths, overtaken>>

\* The write is guarded on the takedown state.
EditorPublishes(o) ==
    /\ Commit(o, "publish")
    /\ status' = IF withdrawn THEN status ELSE "PUBLISHED"
    /\ editorsTurn' = (withdrawn /\ editorsTurn)
    /\ UNCHANGED withdrawn

EditorUnpublishes(o) ==
    /\ Commit(o, "unpublish")
    /\ status' = "DRAFT"
    /\ UNCHANGED <<withdrawn, editorsTurn>>

Withdraw(o) ==
    /\ Commit(o, "withdraw")
    /\ status' = "DRAFT" /\ withdrawn' = TRUE
    /\ editorsTurn' = (editorsTurn \/ status = "PUBLISHED")

\* Restoring writes back the status that was read.
Restore(o) ==
    /\ Commit(o, "restore")
    /\ status' = op[o].status /\ withdrawn' = FALSE
    /\ UNCHANGED editorsTurn

\* The sources' grants change, or a source behind the article goes away.
ChangeTrust ==
    /\ acts < cast.acts /\ trust # "none"
    /\ trust' \in {"trusted", "untrusted"} \ {trust}
    /\ acts' = acts + 1
    /\ UNCHANGED <<cast, status, withdrawn, editorsTurn, ledger, stored, queueVars, run,
                   reading, op, scrape, swept, deaths, overtaken>>

-----------------------------------------------------------------------------
(* Clearing and regenerating.                                               *)

\* Mutant: the outputs after the first are forgotten.
Clear_FirstOnly(fs) ==
    /\ stored' = [stored EXCEPT ![1] = None]
    /\ overtaken' = overtaken \ {1}
    /\ run' = [w \in Worker |-> [run[w] EXCEPT !.cleared = At(w, "enriched")]]

\* cleared remembers the runs that had made their last check.
Clear(fs) ==
    /\ stored' = [f \in Feature |-> IF f \in fs THEN None ELSE stored[f]]
    /\ overtaken' = overtaken \ fs
    /\ run' = [w \in Worker |-> [run[w] EXCEPT !.cleared = At(w, "enriched")]]

\* Mutant: the claim is not looked at.
RequestRegen_Unclaimed(v) ==
    /\ claimed' = claimed \cup {v}
    /\ Clear(Feature)
    /\ IF phase[Regen(v)] \in {"new", "waiting", "settled"}
       THEN Queue!Submit(Regen(v)) ELSE UNCHANGED queueVars

\* One transaction: claim the version, clear every output, enqueue the rebuild.
RequestRegen(v) ==
    IF v \in claimed
    THEN UNCHANGED <<claimed, stored, overtaken, run, queueVars>>
    ELSE /\ claimed' = claimed \cup {v}
         /\ Clear(Feature)
         /\ Queue!Submit(Regen(v))

\* A backfill in rebuild mode looks for an active job of its key, clears, and
\* only then enqueues.
BeginRebuild(o) ==
    /\ op[o] = None /\ acts < cast.acts
    /\ ~Queue!Unsettled(Rebuild)
    /\ acts' = acts + 1
    /\ op' = [op EXCEPT ![o] = [act |-> "clear", status |-> "DRAFT"]]
    /\ UNCHANGED <<cast, editorial, ledger, stored, queueVars, run, reading, scrape,
                   swept, deaths, overtaken>>

ClearForRebuild(o) ==
    /\ Deciding(o, "clear")
    /\ \E fs \in SUBSET Feature \ {{}} : Clear(fs)
    /\ op' = [op EXCEPT ![o].act = "enqueue"]
    /\ UNCHANGED <<cast, editorial, ledger, queueVars, reading, scrape, swept, acts,
                   deaths>>

\* An active job of the key absorbs the request.
EnqueueRebuild(o) ==
    /\ Deciding(o, "enqueue")
    /\ IF Queue!Unsettled(Rebuild) THEN UNCHANGED queueVars ELSE Queue!Submit(Rebuild)
    /\ op' = [op EXCEPT ![o] = None]
    /\ UNCHANGED <<cast, editorial, ledger, stored, run, reading, scrape, swept, acts,
                   deaths, overtaken>>

-----------------------------------------------------------------------------
(* A forced re-scrape. Versions are numbered as they are claimed; the text of *)
(* version v is text v.                                                     *)

Pending == {v \in Version : version[v] = "pending"}
Active == {v \in Version : version[v] = "active"}

In(s, step) == scrape[s] # None /\ scrape[s].step = step

\* The article must be readable when the request reads it, not later.
Ask(s) ==
    /\ scrape[s] = None /\ ~withdrawn
    /\ \E v \in 1 .. cast.versions : version[v] = "none"
    /\ scrape' = [scrape EXCEPT ![s] = [step |-> "asked", version |-> 0]]
    /\ UNCHANGED <<cast, editorial, ledger, stored, queueVars, run, reading, op, swept,
                   acts, deaths, overtaken>>

\* The current text becomes the baseline version unless a version is active.
Materialise(s) ==
    /\ In(s, "asked")
    /\ version' = IF Active = {} THEN [version EXCEPT ![0] = "active"] ELSE version
    /\ scrape' = [scrape EXCEPT ![s].step = "based"]
    /\ UNCHANGED <<cast, editorial, text, stamped, claimed, stored, queueVars, run,
                   reading, op, swept, acts, deaths, overtaken>>

\* Mutant: the pending slot is not unique.
ClaimPending_Shared(s) ==
    /\ In(s, "based")
    /\ LET free == {v \in 1 .. cast.versions : version[v] = "none"}
       IN  /\ free # {}
           /\ version' = [version EXCEPT ![Min(free)] = "pending"]
           /\ scrape' = [scrape EXCEPT ![s] = [step |-> "fetching", version |-> Min(free)]]
    /\ UNCHANGED <<cast, editorial, text, stamped, claimed, stored, queueVars, run,
                   reading, op, swept, acts, deaths, overtaken>>

\* The pending slot of the article is unique: a second request is refused.
ClaimPending(s) ==
    /\ In(s, "based")
    /\ LET free == {v \in 1 .. cast.versions : version[v] = "none"}
       IN  IF Pending # {} \/ free = {}
           THEN scrape' = [scrape EXCEPT ![s] = None] /\ UNCHANGED version
           ELSE /\ version' = [version EXCEPT ![Min(free)] = "pending"]
                /\ scrape' = [scrape EXCEPT ![s] = [step |-> "fetching", version |-> Min(free)]]
    /\ UNCHANGED <<cast, editorial, text, stamped, claimed, stored, queueVars, run,
                   reading, op, swept, acts, deaths, overtaken>>

\* The fetch failed, a check or the annotation gate refused, or something threw.
Reject(s) ==
    /\ In(s, "fetching")
    /\ version' = [version EXCEPT ![scrape[s].version] = "rejected"]
    /\ scrape' = [scrape EXCEPT ![s] = None]
    /\ UNCHANGED <<cast, editorial, text, stamped, claimed, stored, queueVars, run,
                   reading, op, swept, acts, deaths, overtaken>>

\* The swap: one transaction guarded on the pending row, which only its own
\* request resolves.
Activate(s) ==
    /\ In(s, "fetching")
    /\ LET v == scrape[s].version
       IN  /\ version' = [u \in Version |-> IF u = v THEN "active"
                                            ELSE IF u \in Active THEN "superseded"
                                            ELSE version[u]]
           /\ text' = v
           /\ stamped' = stamped \cup {v}
    /\ scrape' = [scrape EXCEPT ![s].step = "activated"]
    /\ UNCHANGED <<cast, editorial, claimed, stored, queueVars, run, reading, op, swept,
                   acts, deaths, overtaken>>

\* Mutant: the claim is a write of its own, made before the work.
Regenerate_ClaimFirst(s) ==
    /\ In(s, "activated")
    /\ \/ RequestRegen(scrape[s].version)
       \/ /\ claimed' = claimed \cup {scrape[s].version}
          /\ UNCHANGED <<stored, overtaken, run, queueVars>>
    /\ scrape' = [scrape EXCEPT ![s] = None]
    /\ UNCHANGED <<cast, editorial, text, version, stamped, reading, op, swept, acts,
                   deaths>>

\* Best effort: an error here changes nothing else.
Regenerate(s) ==
    /\ In(s, "activated")
    /\ \/ RequestRegen(scrape[s].version)
       \/ UNCHANGED <<claimed, stored, overtaken, run, queueVars>>
    /\ scrape' = [scrape EXCEPT ![s] = None]
    /\ UNCHANGED <<cast, editorial, text, version, stamped, reading, op, swept, acts,
                   deaths>>

\* The process dies; a pending version it held stays pending.
Dies(s) ==
    /\ scrape[s] # None /\ deaths < cast.deaths
    /\ deaths' = deaths + 1
    /\ scrape' = [scrape EXCEPT ![s] = None]
    /\ UNCHANGED <<cast, editorial, ledger, stored, queueVars, run, reading, op, swept,
                   acts, overtaken>>

ScraperStep(s) ==
    \/ Ask(s) \/ Materialise(s) \/ ClaimPending(s) \/ Reject(s) \/ Activate(s)
    \/ Regenerate(s) \/ Dies(s)

-----------------------------------------------------------------------------
(* The reconcile sweep: what it found is asked for again one by one.        *)

Unclaimed == (Active \cap stamped) \ claimed

Scan ==
    /\ swept = {} /\ Unclaimed # {}
    /\ swept' = Unclaimed
    /\ UNCHANGED <<cast, editorial, ledger, stored, queueVars, run, reading, op, scrape,
                   acts, deaths, overtaken>>

Redrive ==
    /\ swept # {}
    /\ RequestRegen(Min(swept))
    /\ swept' = swept \ {Min(swept)}
    /\ UNCHANGED <<cast, editorial, text, version, stamped, reading, op, scrape, acts,
                   deaths>>

Next ==
    \/ \E w \in cast.workers : WorkerStep(w)
    \/ \E r \in cast.readers : Open(r) \/ Answered(r)
    \/ \E o \in cast.operators :
        \/ Decide(o)
        \/ EditorPublishes(o) \/ EditorUnpublishes(o) \/ Withdraw(o) \/ Restore(o)
        \/ BeginRebuild(o) \/ ClearForRebuild(o) \/ EnqueueRebuild(o)
    \/ ChangeTrust
    \/ \E s \in cast.scrapers : ScraperStep(s)
    \/ Scan \/ Redrive

Spec == Init /\ [][Next]_vars

\* The reconcile sweep runs from a scheduler, again and again.
Fairness == WF_vars(Scan) /\ WF_vars(Redrive)

FairSpec == Spec /\ Fairness

-----------------------------------------------------------------------------
(* Properties.                                                              *)

RunState ==
    [step : {"idle", "claimed", "enriching", "making", "enriched", "done", "failing"},
     job : ArticleJob \cup {None},
     draft : {"no", "none", "trusted"},
     todo : SUBSET Feature, making : Version \cup {None},
     failed : BOOLEAN, whole : BOOLEAN, cleared : BOOLEAN]

\* Every variable has its type, and the article's active and pending slots hold
\* one version each (the unique columns of ArticleContentVersion).
TypeOK ==
    /\ Cardinality(Active) <= 1 /\ Cardinality(Pending) <= 1
    /\ cast \in Casts
    /\ status \in {"DRAFT", "PUBLISHED"} /\ withdrawn \in BOOLEAN
    /\ trust \in {"none", "trusted", "untrusted"} /\ editorsTurn \in BOOLEAN
    /\ text \in Version /\ stamped \subseteq Version /\ claimed \subseteq Version
    /\ version \in [Version -> {"none", "pending", "active", "superseded", "rejected"}]
    /\ stored \in [Feature -> Version \cup {None}]
    /\ phase \in [ArticleJob -> {"new", "waiting", "leased", "settled"}]
    /\ holder \in [ArticleJob -> Worker \cup {None}]
    /\ tries \in [ArticleJob -> Nat]
    /\ run \in [Worker -> RunState]
    /\ reading \in [Reader -> (Feature \X Version) \cup {None}]
    /\ op \in [Operator -> [act : {"publish", "unpublish", "withdraw", "restore",
                                   "clear", "enqueue"},
                            status : {"DRAFT", "PUBLISHED"}] \cup {None}]
    /\ scrape \in [Scraper -> [step : {"asked", "based", "fetching", "activated"},
                               version : Version] \cup {None}]
    /\ swept \subseteq Version
    /\ acts \in 0 .. cast.acts /\ deaths \in 0 .. cast.deaths
    /\ overtaken \subseteq Feature

\* However the writes of runs, editors and moderators interleave, a withdrawn
\* article is not published (takedown.ts: rights win over editorial intent).
WithdrawnIsDown == withdrawn => status = "DRAFT"

\* A run publishes a provider's draft only with every required output stored,
\* unless they were cleared for regeneration after its last check: outputs that
\* fell back do not count (processor.ts, the durable re-read).
AutoPublishedIsWhole ==
    [][\A w \in Worker :
        /\ At(w, "enriched") /\ run[w].draft = "trusted"
        /\ status = "DRAFT" /\ status' = "PUBLISHED" /\ run'[w] # run[w]
        => run[w].cleared \/ \A f \in Feature : Present(f)]_vars

\* What readers get was made from the text they read, unless its regeneration
\* is still owed or the output was stored by a generation that the new text
\* overtook (derived-regeneration.ts: outputs of the old text are stale).
StaleIsOvertaken ==
    \A f \in Feature :
        stored[f] \notin {None, text} => f \in overtaken \/ text \in stamped \ claimed

\* A runner and a sweep that regenerate the same version clear it once and
\* enqueue it once: what is stored goes away only with a new claim or with a
\* rebuild an operator asked for (derived-regeneration.ts, at most once).
RegeneratedOnce ==
    [][/\ \A v \in claimed : phase[Regen(v)] = "settled" => phase'[Regen(v)] = "settled"
       /\ claimed' = claimed /\ op' = op
          => \A f \in Feature : Present(f) => stored'[f] # None]_vars

\* A text that was put in place gets its regeneration enqueued, or is replaced in
\* turn, though the runner may die or fail on the way (the reconcile sweep).
SwapIsRegenerated == []<>(text = 0 \/ phase[Regen(text)] # "new")

\* Once a published article was withdrawn, only an editor publishes it again
\* (takedown.ts: restoring leaves the status, an editor must re-publish).
EditorRepublishes == editorsTurn => status = "DRAFT"
=============================================================================
