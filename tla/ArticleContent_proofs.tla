------------------------ MODULE ArticleContent_proofs ------------------------
(***************************************************************************)
(* What readers are shown, for any number of workers, readers, operators,    *)
(* scrapers, features and versions: a withdrawn article is not published, a  *)
(* provider's draft is published whole, an output of an old text is owed its *)
(* regeneration or was overtaken, and a version is regenerated once.         *)
(*                                                                           *)
(* The argument for the versions: a pending version is one scraper's and not *)
(* claimed, so that the version a swap puts in place is owed a regeneration; *)
(* a claim of any version clears every output in the same transaction.       *)
(***************************************************************************)
EXTENDS ArticleContent, LeastElement

-----------------------------------------------------------------------------
(* The invariant *)

Decision == [act : {"publish", "unpublish", "withdraw", "restore", "clear", "enqueue"},
             status : {"DRAFT", "PUBLISHED"}]

Scrape == [step : {"asked", "based", "fetching", "activated"}, version : Version]

Editing ==
    /\ status \in {"DRAFT", "PUBLISHED"} /\ withdrawn \in BOOLEAN
    /\ trust \in {"none", "trusted", "untrusted"} /\ editorsTurn \in BOOLEAN
    /\ WithdrawnIsDown

Actors ==
    /\ cast \in Casts
    /\ acts \in 0 .. cast.acts /\ deaths \in 0 .. cast.deaths
    /\ reading \in [Reader -> (Feature \X Version) \cup {None}]
    /\ op \in [Operator -> Decision \cup {None}]

Jobs ==
    /\ phase \in [ArticleJob -> {"new", "waiting", "leased", "settled"}]
    /\ holder \in [ArticleJob -> Worker \cup {None}]
    /\ tries \in [ArticleJob -> Nat]

\* A run has a job; one that found every output when it checked, and had none
\* cleared since, would find them still.
RunIs(r) ==
    /\ r.step # "idle" => r.job \in ArticleJob
    /\ r.step = "making" => r.making \in Version /\ r.todo # {}
    /\ r.step = "enriched" /\ r.whole /\ ~r.cleared => \A f \in Feature : Present(f)

Outputs ==
    /\ stored \in [Feature -> Version \cup {None}]
    /\ overtaken \subseteq Feature
    /\ run \in [Worker -> RunState]
    /\ \A w \in Worker : RunIs(run[w])

\* The versions that are or were the text, the baseline apart.
Placed == {v \in Version \ {0} : version[v] \in {"active", "superseded"}}

ScrapeIs(s) ==
    /\ In(s, "fetching") => scrape[s].version # 0 /\ version[scrape[s].version] = "pending"
    /\ In(s, "activated") => scrape[s].version \in Placed

\* A pending version is one scraper's; claims and sweeps are of placed versions.
Versions ==
    /\ text \in Version /\ stamped \subseteq Version \ {0}
    /\ claimed \subseteq Placed /\ swept \subseteq Placed
    /\ version \in [Version -> {"none", "pending", "active", "superseded", "rejected"}]
    /\ \A u, v \in Active : u = v
    /\ \A u, v \in Pending : u = v
    /\ scrape \in [Scraper -> Scrape \cup {None}]
    /\ \A s \in Scraper : ScrapeIs(s)
    /\ \A s, t \in Scraper : In(s, "fetching") /\ In(t, "fetching") => s = t

IInv == Editing /\ Actors /\ Jobs /\ Outputs /\ Versions /\ StaleIsOvertaken

LEMMA AtMostOne ==
    ASSUME NEW S, \A x, y \in S : x = y
    PROVE  Cardinality(S) <= 1
<1>1. CASE S = {}
  BY <1>1, FS_EmptySet
<1>2. ASSUME NEW x \in S PROVE Cardinality(S) <= 1
  <2>1. S = {x}
    BY <1>2
  <2> QED BY <2>1, FS_Singleton
<1> QED BY <1>1, <1>2

LEMMA IInvSuffices == IInv => TypeOK
<1> SUFFICES ASSUME IInv PROVE TypeOK
  OBVIOUS
<1>1. Cardinality(Active) <= 1 /\ Cardinality(Pending) <= 1
  BY AtMostOne DEF IInv, Versions
<1>2. claimed \subseteq Version /\ swept \subseteq Version
  BY DEF IInv, Versions, Placed
<1> QED BY <1>1, <1>2 DEF IInv, Editing, Actors, Jobs, Outputs, Versions, Decision, Scrape, TypeOK

-----------------------------------------------------------------------------
(* What steps have in common *)

\* What a step may do: the action properties, without the brackets.
Whole ==
    \A w \in Worker :
        /\ At(w, "enriched") /\ run[w].draft = "trusted"
        /\ status = "DRAFT" /\ status' = "PUBLISHED" /\ run'[w] # run[w]
        => run[w].cleared \/ \A f \in Feature : Present(f)

Once ==
    /\ \A v \in claimed : phase[Regen(v)] = "settled" => phase'[Regen(v)] = "settled"
    /\ claimed' = claimed /\ op' = op
          => \A f \in Feature : Present(f) => stored'[f] # None

Sound == Whole /\ Once

\* What a step does not touch stays as it is.
LEMMA Untouched ==
    ASSUME IInv
    PROVE  /\ UNCHANGED editorial => Editing'
           /\ UNCHANGED <<cast, acts, deaths, reading, op>> => Actors'
           /\ UNCHANGED queueVars => Jobs'
           /\ UNCHANGED <<stored, overtaken, run>> => Outputs'
           /\ UNCHANGED <<ledger, swept, scrape>> => Versions'
           /\ UNCHANGED <<text, stamped, claimed, stored, overtaken>> => StaleIsOvertaken'
           /\ UNCHANGED status \/ UNCHANGED run => Whole
           /\ UNCHANGED <<queueVars, stored>> => Once
<1>1. UNCHANGED editorial => Editing'
  BY DEF IInv, Editing, editorial, WithdrawnIsDown
<1>2. UNCHANGED <<cast, acts, deaths, reading, op>> => Actors'
  BY DEF IInv, Actors
<1>3. UNCHANGED queueVars => Jobs'
  BY DEF IInv, Jobs, queueVars
<1>4. UNCHANGED <<stored, overtaken, run>> => Outputs'
  BY DEF IInv, Outputs, RunIs, Present
<1>5. UNCHANGED <<ledger, swept, scrape>> => Versions'
  BY DEF IInv, Versions, ledger, Placed, Active, Pending, ScrapeIs, In
<1>6. UNCHANGED <<text, stamped, claimed, stored, overtaken>> => StaleIsOvertaken'
  BY DEF IInv, StaleIsOvertaken
<1>7. UNCHANGED status \/ UNCHANGED run => Whole
  BY DEF Whole
<1>8. UNCHANGED <<queueVars, stored>> => Once
  BY DEF Once, queueVars, Present
<1> QED BY <1>1, <1>2, <1>3, <1>4, <1>5, <1>6, <1>7, <1>8

\* A worker's run moves on, and nothing is cleared.
LEMMA RunMoves ==
    ASSUME IInv, NEW w \in Worker, NEW r \in RunState, run' = [run EXCEPT ![w] = r],
           stored' \in [Feature -> Version \cup {None}], overtaken' \subseteq Feature,
           \A f \in Feature : Present(f) => Present(f)',
           RunIs(r)'
    PROVE  Outputs'
<1>1. run' \in [Worker -> RunState]
  BY DEF IInv, Outputs
<1>2. ASSUME NEW v \in Worker PROVE RunIs(run[v])'
  <2>1. CASE v = w
    <3>1. run'[v] = r
      BY <2>1 DEF IInv, Outputs
    <3> QED BY <3>1 DEF RunIs
  <2>2. CASE v # w
    <3>1. run'[v] = run[v] /\ RunIs(run[v])
      BY <2>2 DEF IInv, Outputs
    <3> QED BY <3>1 DEF RunIs
  <2> QED BY <2>1, <2>2
<1> QED BY <1>1, <1>2 DEF Outputs

\* An output is stored: of the present text, or overtaken.
LEMMA Storing ==
    ASSUME IInv, NEW f \in Feature, NEW made \in Version, Store(f, made),
           UNCHANGED <<text, stamped, claimed>>
    PROVE  /\ stored' \in [Feature -> Version \cup {None}] /\ overtaken' \subseteq Feature
           /\ \A g \in Feature : Present(g) => Present(g)'
           /\ StaleIsOvertaken'
<1>1. None \notin Version
  BY ContentAssumption DEF Version
<1>2. /\ stored' \in [Feature -> Version \cup {None}] /\ stored'[f] = made
      /\ \A g \in Feature : g # f => stored'[g] = stored[g]
  BY DEF Store, IInv, Outputs
<1>3. /\ overtaken' \subseteq Feature
      /\ made # text => f \in overtaken'
      /\ \A g \in Feature : g # f => (g \in overtaken' <=> g \in overtaken)
  BY DEF Store, IInv, Outputs
<1>4. StaleIsOvertaken'
  BY <1>2, <1>3 DEF IInv, StaleIsOvertaken
<1> QED BY <1>1, <1>2, <1>3, <1>4 DEF Present

\* Outputs are cleared, all of them when a version is claimed.
LEMMA Clearing ==
    ASSUME IInv, NEW fs \in SUBSET Feature, Clear(fs), UNCHANGED <<text, stamped>>,
           claimed' = claimed \/ fs = Feature
    PROVE  Outputs' /\ StaleIsOvertaken'
<1>1. /\ stored' = [f \in Feature |-> IF f \in fs THEN None ELSE stored[f]]
      /\ overtaken' = overtaken \ fs
      /\ run' = [w \in Worker |-> [run[w] EXCEPT !.cleared = At(w, "enriched")]]
  BY DEF Clear
<1>2. stored' \in [Feature -> Version \cup {None}] /\ overtaken' \subseteq Feature
  BY <1>1 DEF IInv, Outputs
<1>3. ASSUME NEW w \in Worker
      PROVE  run'[w] \in RunState /\ RunIs(run[w])'
  <2> DEFINE r == [run[w] EXCEPT !.cleared = At(w, "enriched")]
  <2>1. run[w] \in RunState /\ RunIs(run[w]) /\ run'[w] = r
    BY <1>1 DEF IInv, Outputs
  <2>2. /\ r \in RunState /\ r.step = run[w].step /\ r.job = run[w].job
        /\ r.making = run[w].making /\ r.todo = run[w].todo
        /\ r.step = "enriched" => r.cleared
    BY <2>1 DEF RunState, At
  <2> HIDE DEF r
  <2> QED BY <2>1, <2>2 DEF RunIs
<1>4. run' = [w \in Worker |-> run'[w]]
  BY <1>1
<1>5. StaleIsOvertaken'
  BY <1>1 DEF IInv, StaleIsOvertaken
<1> QED BY <1>2, <1>3, <1>4, <1>5 DEF Outputs

\* A job changes hands or settles.
LEMMA Becoming ==
    ASSUME IInv, NEW j \in ArticleJob, NEW p \in {"new", "waiting", "leased", "settled"},
           NEW h \in Worker \cup {None}, NEW n \in Nat, Queue!Becomes(j, p, h, n)
    PROVE  /\ Jobs' /\ phase'[j] = p
           /\ \A i \in ArticleJob : i # j => phase'[i] = phase[i]
BY DEF IInv, Jobs, Queue!Becomes

LEMMA JobNames ==
    /\ Process \in ArticleJob /\ Rebuild \in ArticleJob
    /\ \A v \in Placed : Regen(v) \in ArticleJob
    /\ \A u, v : /\ Regen(u) = Regen(v) => u = v
                 /\ Regen(u) # Rebuild
BY DEF Process, Rebuild, ArticleJob, Regen, Placed, Version

\* The first of some features or versions is one of them.
LEMMA FirstIsOne ==
    ASSUME NEW S \in SUBSET Nat, S # {}
    PROVE  Min(S) \in S
BY LeastExists DEF Min

-----------------------------------------------------------------------------
(* Enrichment runs *)

LEMMA RunTyped ==
    ASSUME IInv, NEW w \in Worker
    PROVE  /\ run \in [Worker -> RunState] /\ run[w] \in RunState /\ RunIs(run[w])
           /\ stored \in [Feature -> Version \cup {None}] /\ overtaken \subseteq Feature
           /\ Idle \in RunState /\ Idle.step = "idle"
BY DEF IInv, Outputs, Idle, RunState

\* A step of a run that stores nothing and publishes nothing.
LEMMA OnlyRuns ==
    ASSUME IInv, NEW w \in Worker, NEW r \in RunState, run' = [run EXCEPT ![w] = r], RunIs(r)',
           UNCHANGED <<cast, editorial, ledger, stored, reading, op, scrape, swept, acts,
                       overtaken>>,
           Jobs', deaths' \in 0 .. cast.deaths,
           \A v \in claimed : phase[Regen(v)] = "settled" => phase'[Regen(v)] = "settled"
    PROVE  IInv' /\ Sound
<1>1. Outputs'
  BY RunTyped, RunMoves DEF Present
<1>2. Actors'
  BY DEF IInv, Actors
<1>3. Once
  BY DEF Once, Present
<1>4. UNCHANGED status /\ UNCHANGED editorial /\ UNCHANGED <<ledger, swept, scrape>>
      /\ UNCHANGED <<text, stamped, claimed, stored, overtaken>>
  BY DEF editorial, ledger
<1> QED BY <1>1, <1>2, <1>3, <1>4, Untouched DEF IInv, Sound

LEMMA Claiming ==
    ASSUME IInv, NEW w \in Worker, Claim(w)
    PROVE  IInv' /\ Sound
<1>1. PICK j \in ArticleJob :
        /\ Queue!Lease(j, w)
        /\ run' = [run EXCEPT ![w] = [Idle EXCEPT !.step = "claimed", !.job = j]]
  BY DEF Claim
<1>2. UNCHANGED <<cast, editorial, ledger, stored, reading, op, scrape, swept, acts,
                  deaths, overtaken>>
  BY DEF Claim
<1>3. /\ phase[j] \in {"waiting", "leased"} /\ tries[j] \in Nat
      /\ Queue!Becomes(j, "leased", w, tries[j])
  BY <1>1 DEF Queue!Lease, Queue!Unsettled, IInv, Jobs
<1>4. /\ Jobs' /\ \A i \in ArticleJob : i # j => phase'[i] = phase[i]
  BY <1>3, Becoming
<1>5. \A v \in claimed : phase[Regen(v)] = "settled" => phase'[Regen(v)] = "settled"
  BY <1>3, <1>4, JobNames DEF IInv, Versions
<1> DEFINE r == [Idle EXCEPT !.step = "claimed", !.job = j]
<1>6. r \in RunState /\ r.step = "claimed" /\ r.job = j
  BY DEF Idle, RunState
<1>7. run' = [run EXCEPT ![w] = r]
  BY <1>1
<1> HIDE DEF r
<1>8. RunIs(r)'
  BY <1>6 DEF RunIs
<1>9. deaths' \in 0 .. cast.deaths
  BY <1>2 DEF IInv, Actors
<1> QED BY <1>2, <1>4, <1>5, <1>6, <1>7, <1>8, <1>9, OnlyRuns

\* Loading, reading the text, checking: only the run moves.
LEMMA Preparing ==
    ASSUME IInv, NEW w \in Worker, Load(w) \/ ReadText(w) \/ Recheck(w)
    PROVE  IInv' /\ Sound
<1>1. UNCHANGED <<cast, editorial, ledger, stored, queueVars, reading, op, scrape, swept,
                  acts, deaths, overtaken>>
  BY DEF Load, ReadText, Recheck
<1>2. Jobs' /\ \A v \in claimed : phase[Regen(v)] = "settled" => phase'[Regen(v)] = "settled"
  BY <1>1, Untouched DEF queueVars
<1>3. deaths' \in 0 .. cast.deaths
  BY <1>1 DEF IInv, Actors
<1>4. run \in [Worker -> RunState] /\ run[w] \in RunState /\ RunIs(run[w])
  BY RunTyped
<1>5. \A f \in Feature : Present(f)' <=> Present(f)
  BY <1>1 DEF Present
<1>6. \E r \in RunState : run' = [run EXCEPT ![w] = r] /\ RunIs(r)'
  <2>1. CASE Load(w)
    <3>1. PICK draft, todo :
            /\ draft = IF status = "DRAFT" /\ ~withdrawn /\ trust # "untrusted"
                       THEN trust ELSE "no"
            /\ todo = {f \in Feature : ~Present(f)}
      OBVIOUS
    <3>2. At(w, "claimed") /\ draft \in {"no", "none", "trusted"} /\ todo \in SUBSET Feature
      BY <2>1, <3>1 DEF Load, IInv, Editing
    <3>3. PICK r : r = [run[w] EXCEPT !.step = "enriching", !.draft = draft, !.todo = todo]
      OBVIOUS
    <3>4. run' = [run EXCEPT ![w] = r]
      BY <2>1, <3>1, <3>3 DEF Load
    <3>5. r \in RunState /\ r.step = "enriching" /\ r.job = run[w].job
      BY <1>4, <3>2, <3>3 DEF RunState
    <3>6. run[w].job \in ArticleJob
      BY <1>4, <3>2 DEF RunIs, At
    <3>7. RunIs(r)'
      BY <3>5, <3>6 DEF RunIs
    <3> QED BY <3>4, <3>5, <3>7
  <2>2. CASE ReadText(w)
    <3>1. PICK f : f = Min(run[w].todo)
      OBVIOUS
    <3>2. /\ At(w, "enriching") /\ run[w].todo # {}
          /\ \/ run' = [run EXCEPT ![w].todo = @ \ {f}]
             \/ run' = [run EXCEPT ![w].step = "making", ![w].making = text]
      BY <2>2, <3>1 DEF ReadText
    <3>3. PICK p, q :
            /\ p = [run[w] EXCEPT !.todo = @ \ {f}]
            /\ q = [run[w] EXCEPT !.step = "making", !.making = text]
      OBVIOUS
    <3>4. text \in Version /\ run[w].job \in ArticleJob
      BY <1>4, <3>2 DEF IInv, Versions, RunIs, At
    <3>5. p \in RunState /\ p.step = "enriching" /\ p.job = run[w].job
      BY <1>4, <3>2, <3>3 DEF RunState, At
    <3>6. /\ q \in RunState /\ q.step = "making" /\ q.making = text /\ q.todo = run[w].todo
          /\ q.job = run[w].job
      BY <1>4, <3>4, <3>3 DEF RunState
    <3>7. run' = [run EXCEPT ![w] = p] \/ run' = [run EXCEPT ![w] = q]
      BY <1>4, <3>2, <3>3
    <3>8. RunIs(p)'
      BY <3>4, <3>5 DEF RunIs
    <3>9. RunIs(q)'
      BY <3>2, <3>4, <3>6 DEF RunIs
    <3> QED BY <3>5, <3>6, <3>7, <3>8, <3>9
  <2>3. CASE Recheck(w)
    <3>1. PICK whole : whole = (~run[w].failed /\ \A f \in Feature : Present(f))
      OBVIOUS
    <3>2. PICK r : r = [run[w] EXCEPT !.step = "enriched", !.cleared = FALSE, !.whole = whole]
      OBVIOUS
    <3>3. At(w, "enriching") /\ run' = [run EXCEPT ![w] = r]
      BY <2>3, <3>1, <3>2 DEF Recheck
    <3>4. whole \in BOOLEAN /\ (whole => \A f \in Feature : Present(f)')
      BY <1>5, <3>1
    <3>5. r \in RunState /\ r.step = "enriched" /\ r.job = run[w].job /\ r.whole = whole
      BY <1>4, <3>2, <3>4 DEF RunState
    <3>6. run[w].job \in ArticleJob
      BY <1>4, <3>3 DEF RunIs, At
    <3>7. RunIs(r)'
      BY <3>4, <3>5, <3>6 DEF RunIs
    <3> QED BY <3>3, <3>5, <3>7
  <2> QED BY <2>1, <2>2, <2>3
<1>7. PICK r \in RunState : run' = [run EXCEPT ![w] = r] /\ RunIs(r)'
  BY <1>6
<1> QED BY <1>1, <1>2, <1>3, <1>7, OnlyRuns

\* An answer is stored, or stands for a fallback or a failure.
LEMMA Answering ==
    ASSUME IInv, NEW w \in Worker, Made(w)
    PROVE  IInv' /\ Sound
<1>1. PICK f : f = Min(run[w].todo)
  OBVIOUS
<1> DEFINE next == [run[w] EXCEPT !.step = "enriching", !.making = None, !.todo = @ \ {f}]
<1>2. /\ At(w, "making")
      /\ \/ Store(f, run[w].making) /\ run' = [run EXCEPT ![w] = next]
         \/ /\ \E failed \in BOOLEAN :
                 run' = [run EXCEPT ![w] = [next EXCEPT !.failed = @ \/ failed]]
            /\ UNCHANGED <<stored, overtaken>>
      /\ UNCHANGED <<cast, editorial, ledger, queueVars, reading, op, scrape, swept, acts,
                     deaths>>
  BY <1>1 DEF Made
<1>3. run \in [Worker -> RunState] /\ run[w] \in RunState /\ RunIs(run[w])
  BY RunTyped
<1>4. /\ run[w].job \in ArticleJob /\ run[w].making \in Version /\ run[w].todo # {}
      /\ run[w].todo \in SUBSET Feature
  BY <1>2, <1>3 DEF RunIs, At, RunState
<1>5. f \in Feature
  <2>1. run[w].todo \in SUBSET Nat
    BY <1>4 DEF Feature
  <2> QED BY <1>1, <1>4, <2>1, FirstIsOne
<1>6. /\ next \in RunState /\ next.step = "enriching" /\ next.job = run[w].job
      /\ next.failed \in BOOLEAN
  BY <1>3 DEF RunState
<1> HIDE DEF next
<1>7. PICK r \in RunState : /\ run' = [run EXCEPT ![w] = r]
                            /\ r.step = "enriching" /\ r.job = run[w].job
  <2>1. ASSUME NEW failed \in BOOLEAN
        PROVE  /\ [next EXCEPT !.failed = @ \/ failed] \in RunState
               /\ [next EXCEPT !.failed = @ \/ failed].step = "enriching"
               /\ [next EXCEPT !.failed = @ \/ failed].job = run[w].job
    BY <1>6 DEF RunState
  <2> QED BY <1>2, <1>6, <2>1
<1>8. RunIs(r)'
  BY <1>4, <1>7 DEF RunIs
<1>9. /\ stored' \in [Feature -> Version \cup {None}] /\ overtaken' \subseteq Feature
      /\ \A g \in Feature : Present(g) => Present(g)'
      /\ StaleIsOvertaken'
  <2>1. CASE Store(f, run[w].making)
    BY <1>2, <1>4, <1>5, <2>1, Storing DEF ledger
  <2>2. CASE UNCHANGED <<stored, overtaken>>
    BY <1>2, <2>2, RunTyped DEF Present, ledger, IInv, StaleIsOvertaken
  <2> QED BY <1>2, <2>1, <2>2
<1>10. Outputs'
  BY <1>7, <1>8, <1>9, RunMoves
<1>11. Once
  BY <1>2, <1>9 DEF Once, Present, queueVars
<1>12. UNCHANGED status
  BY <1>2 DEF editorial
<1> QED BY <1>2, <1>9, <1>10, <1>11, <1>12, Untouched DEF IInv, Sound

\* The write looks at the takedown state and the status again; that the outputs
\* are there is what the last check saw.
LEMMA Publishing ==
    ASSUME IInv, NEW w \in Worker, Publish(w)
    PROVE  IInv' /\ Sound
<1>1. /\ At(w, "enriched")
      /\ status' = IF MayPublish(w) /\ status = "DRAFT" /\ ~withdrawn THEN "PUBLISHED" ELSE status
      /\ run' = [run EXCEPT ![w] = [Idle EXCEPT !.step = IF run[w].failed THEN "failing" ELSE "done",
                                               !.job = run[w].job]]
      /\ UNCHANGED <<cast, withdrawn, trust, editorsTurn, ledger, stored, queueVars,
                     reading, op, scrape, swept, acts, deaths, overtaken>>
  BY DEF Publish
<1>2. run \in [Worker -> RunState] /\ run[w] \in RunState /\ RunIs(run[w])
  BY RunTyped
<1>3. run[w].job \in ArticleJob
  BY <1>1, <1>2 DEF RunIs, At
<1>4. PICK r : r = [Idle EXCEPT !.step = IF run[w].failed THEN "failing" ELSE "done",
                               !.job = run[w].job]
  OBVIOUS
<1>5. r \in RunState /\ r.step \in {"done", "failing"} /\ r.job = run[w].job
  BY <1>3, <1>4 DEF Idle, RunState
<1>6. run' = [run EXCEPT ![w] = r]
  BY <1>1, <1>4
<1>7. Outputs'
  <2>1. RunIs(r)'
    BY <1>3, <1>5 DEF RunIs
  <2> QED BY <1>1, <1>5, <1>6, <2>1, RunTyped, RunMoves DEF Present
<1>8. Editing'
  BY <1>1 DEF IInv, Editing, WithdrawnIsDown
<1>9. Whole
  <2>1. ASSUME NEW v \in Worker, At(v, "enriched"), run[v].draft = "trusted",
               status = "DRAFT", status' = "PUBLISHED", run'[v] # run[v]
        PROVE  run[v].cleared \/ \A f \in Feature : Present(f)
    <3>1. v = w
      BY <1>2, <1>6, <2>1
    <3>2. MayPublish(w)
      BY <1>1, <2>1
    <3>3. run[w].whole
      BY <2>1, <3>1, <3>2 DEF MayPublish
    <3> QED BY <1>2, <2>1, <3>1, <3>3 DEF RunIs, At
  <2> QED BY <2>1 DEF Whole
<1>10. UNCHANGED <<text, stamped, claimed, stored, overtaken>> /\ UNCHANGED <<queueVars, stored>>
  BY <1>1 DEF ledger
<1> QED BY <1>1, <1>7, <1>8, <1>9, <1>10, Untouched DEF IInv, Sound

\* The job settles or is given back, if the worker still leases it, and the worker
\* is idle.
LEMMA Ending ==
    ASSUME IInv, NEW w \in Worker, Completes(w) \/ FailsJob(w) \/ Crashes(w)
    PROVE  IInv' /\ Sound
<1>1. /\ run' = [run EXCEPT ![w] = Idle]
      /\ UNCHANGED <<cast, editorial, ledger, stored, reading, op, scrape, swept, acts,
                     overtaken>>
  BY DEF Completes, FailsJob, Crashes
<1>2. deaths' \in 0 .. cast.deaths
  <2>1. deaths' = deaths \/ (deaths < cast.deaths /\ deaths' = deaths + 1)
    BY DEF Completes, FailsJob, Crashes
  <2>2. deaths \in 0 .. cast.deaths /\ cast.deaths \in Nat
    BY ContentAssumption DEF IInv, Actors
  <2> QED BY <2>1, <2>2
<1>3. RunIs(Idle)' /\ Idle \in RunState
  BY RunTyped DEF RunIs
<1>4. /\ Jobs'
      /\ \A v \in claimed : phase[Regen(v)] = "settled" => phase'[Regen(v)] = "settled"
  <2>1. CASE UNCHANGED queueVars
    BY <2>1, Untouched DEF queueVars
  <2>2. ASSUME NEW p \in {"waiting", "settled"}, NEW n \in Nat, NEW j \in ArticleJob,
               phase[j] = "leased" \/ p = "settled", Queue!Becomes(j, p, None, n)
        PROVE  /\ Jobs'
               /\ \A v \in claimed : phase[Regen(v)] = "settled" => phase'[Regen(v)] = "settled"
    <3>1. None \in Worker \cup {None} /\ p \in {"new", "waiting", "leased", "settled"}
      OBVIOUS
    <3>2. Jobs' /\ phase'[j] = p /\ \A i \in ArticleJob : i # j => phase'[i] = phase[i]
      BY <2>2, <3>1, Becoming
    <3> QED BY <2>2, <3>2, JobNames DEF IInv, Versions
  <2>3. CASE Completes(w)
    <3>1. run[w].job \in ArticleJob
      BY <2>3, RunTyped DEF Completes, At, RunIs
    <3>2. tries[run[w].job] \in Nat
      BY <3>1 DEF IInv, Jobs
    <3> QED BY <2>1, <2>2, <2>3, <3>1, <3>2 DEF Completes
  <2>4. CASE FailsJob(w)
    <3>1. PICK j : j = run[w].job
      OBVIOUS
    <3>2. j \in ArticleJob
      BY <2>4, <3>1, RunTyped DEF FailsJob, At, RunIs
    <3>3. tries[j] + 1 \in Nat
      BY <3>2 DEF IInv, Jobs
    <3>4. \/ UNCHANGED queueVars
          \/ /\ phase[j] = "leased"
             /\ \E p \in {"waiting", "settled"} : Queue!Becomes(j, p, None, tries[j] + 1)
      BY <2>4, <3>1 DEF FailsJob, Leases
    <3> QED BY <2>1, <2>2, <3>2, <3>3, <3>4
  <2>5. CASE Crashes(w)
    BY <2>1, <2>5 DEF Crashes
  <2> QED BY <2>3, <2>4, <2>5
<1> QED BY <1>1, <1>2, <1>3, <1>4, OnlyRuns

LEMMA Working ==
    ASSUME IInv, NEW w \in Worker, WorkerStep(w)
    PROVE  IInv' /\ Sound
BY Claiming, Preparing, Answering, Publishing, Ending DEF WorkerStep

-----------------------------------------------------------------------------
(* Readers and operators *)

LEMMA Opening ==
    ASSUME IInv, NEW r \in Reader, Open(r)
    PROVE  IInv' /\ Sound
<1>1. UNCHANGED <<cast, editorial, ledger, stored, queueVars, run, op, scrape, swept,
                  acts, deaths, overtaken>>
  BY DEF Open
<1>2. Actors'
  <2>1. PICK f \in Feature : reading' = [reading EXCEPT ![r] = <<f, text>>]
    BY DEF Open
  <2>2. <<f, text>> \in Feature \X Version
    BY DEF IInv, Versions
  <2> QED BY <1>1, <2>1, <2>2 DEF IInv, Actors
<1> QED BY <1>1, <1>2, Untouched DEF IInv, Sound, editorial, ledger

LEMMA ReaderAnswered ==
    ASSUME IInv, NEW r \in Reader, Answered(r)
    PROVE  IInv' /\ Sound
<1>1. UNCHANGED <<cast, editorial, ledger, queueVars, run, op, scrape, swept, acts, deaths>>
  BY DEF Answered
<1>2. Actors'
  BY <1>1 DEF IInv, Actors, Answered
<1>3. PICK f, made : f = reading[r][1] /\ made = reading[r][2]
  OBVIOUS
<1>4. f \in Feature /\ made \in Version
  <2>1. reading[r] \in Feature \X Version
    BY DEF Answered, IInv, Actors
  <2> QED BY <1>3, <2>1
<1>5. Outputs' /\ StaleIsOvertaken' /\ \A g \in Feature : Present(g) => Present(g)'
  <2>1. CASE Store(f, made)
    <3>1. /\ stored' \in [Feature -> Version \cup {None}] /\ overtaken' \subseteq Feature
          /\ \A g \in Feature : Present(g) => Present(g)'
          /\ StaleIsOvertaken'
      BY <1>1, <1>4, <2>1, Storing DEF ledger
    <3>2. \A w \in Worker : RunIs(run[w])'
      BY <1>1, <3>1 DEF IInv, Outputs, RunIs
    <3> QED BY <1>1, <3>1, <3>2 DEF IInv, Outputs
  <2>2. CASE UNCHANGED <<stored, overtaken>>
    BY <1>1, <2>2, Untouched DEF ledger, Present
  <2> QED BY <1>3, <2>1, <2>2 DEF Answered
<1>6. Once
  BY <1>1, <1>5 DEF Once, Present, queueVars
<1> QED BY <1>1, <1>2, <1>5, <1>6, Untouched DEF IInv, Sound

\* Operators whose decisions stay with the article, not with what is derived.
LEMMA OnlyDecisions ==
    ASSUME IInv, Editing', acts' \in 0 .. cast.acts,
           op' \in [Operator -> Decision \cup {None}],
           UNCHANGED <<cast, ledger, stored, queueVars, run, reading, scrape, swept, deaths,
                       overtaken>>
    PROVE  IInv' /\ Sound
<1>1. Actors'
  BY DEF IInv, Actors
<1> QED BY <1>1, Untouched DEF IInv, Sound, ledger

LEMMA DecidingToAct ==
    ASSUME IInv, NEW o \in Operator, Decide(o) \/ BeginRebuild(o)
    PROVE  IInv' /\ Sound
<1>1. /\ acts < cast.acts /\ acts' = acts + 1
      /\ UNCHANGED <<cast, editorial, ledger, stored, queueVars, run, reading, scrape,
                     swept, deaths, overtaken>>
  BY DEF Decide, BeginRebuild
<1>2. acts' \in 0 .. cast.acts
  <2>1. acts \in 0 .. cast.acts /\ cast.acts \in Nat
    BY ContentAssumption DEF IInv, Actors
  <2> QED BY <1>1, <2>1
<1>3. status \in {"DRAFT", "PUBLISHED"} /\ op \in [Operator -> Decision \cup {None}]
  BY DEF IInv, Editing, Actors
<1>4. \E d \in Decision : op' = [op EXCEPT ![o] = d]
  <2>1. CASE Decide(o)
    <3>1. PICK act \in {"publish", "unpublish", "withdraw", "restore"} :
            op' = [op EXCEPT ![o] = [act |-> act, status |-> IF act = "restore" THEN status
                                                             ELSE "DRAFT"]]
      BY <2>1 DEF Decide
    <3>2. [act |-> act, status |-> IF act = "restore" THEN status ELSE "DRAFT"] \in Decision
      BY <1>3 DEF Decision
    <3> QED BY <3>1, <3>2
  <2>2. CASE BeginRebuild(o)
    <3>1. [act |-> "clear", status |-> "DRAFT"] \in Decision
      BY DEF Decision
    <3> QED BY <2>2, <3>1 DEF BeginRebuild
  <2> QED BY <2>1, <2>2
<1>5. op' \in [Operator -> Decision \cup {None}]
  BY <1>3, <1>4
<1> QED BY <1>1, <1>2, <1>5, OnlyDecisions, Untouched

\* Editors and moderators: publishing is guarded on the takedown state, and what a
\* restored article is given back it had while it was not withdrawn or as a draft.
LEMMA Committing ==
    ASSUME IInv, NEW o \in Operator,
           EditorPublishes(o) \/ EditorUnpublishes(o) \/ Withdraw(o) \/ Restore(o)
    PROVE  IInv' /\ Sound
<1>1. /\ op[o] # None /\ op' = [op EXCEPT ![o] = None]
      /\ UNCHANGED <<cast, trust, ledger, stored, queueVars, run, reading, scrape, swept,
                     acts, deaths, overtaken>>
  BY DEF EditorPublishes, EditorUnpublishes, Withdraw, Restore, Commit, Deciding
<1>2. op' \in [Operator -> Decision \cup {None}] /\ acts' \in 0 .. cast.acts
  BY <1>1 DEF IInv, Actors
<1>3. op[o].status \in {"DRAFT", "PUBLISHED"}
  <2>1. op[o] \in Decision
    BY <1>1 DEF IInv, Actors
  <2> QED BY <2>1 DEF Decision
<1>4. Editing'
  <2>1. CASE EditorPublishes(o)
    BY <1>1, <2>1 DEF EditorPublishes, IInv, Editing, WithdrawnIsDown
  <2>2. CASE EditorUnpublishes(o)
    BY <1>1, <2>2 DEF EditorUnpublishes, IInv, Editing, WithdrawnIsDown
  <2>3. CASE Withdraw(o)
    BY <1>1, <2>3 DEF Withdraw, IInv, Editing, WithdrawnIsDown
  <2>4. CASE Restore(o)
    BY <1>1, <1>3, <2>4 DEF Restore, IInv, Editing, WithdrawnIsDown
  <2> QED BY <2>1, <2>2, <2>3, <2>4
<1> QED BY <1>1, <1>2, <1>4, OnlyDecisions

LEMMA TrustChanging ==
    ASSUME IInv, ChangeTrust
    PROVE  IInv' /\ Sound
<1>1. /\ acts < cast.acts /\ acts' = acts + 1
      /\ UNCHANGED <<cast, ledger, stored, queueVars, run, reading, op, scrape, swept,
                     deaths, overtaken>>
  BY DEF ChangeTrust
<1>2. acts' \in 0 .. cast.acts /\ op' \in [Operator -> Decision \cup {None}]
  <2>1. acts \in 0 .. cast.acts /\ cast.acts \in Nat
    BY ContentAssumption DEF IInv, Actors
  <2> QED BY <1>1, <2>1 DEF IInv, Actors
<1>3. Editing'
  BY DEF ChangeTrust, IInv, Editing, WithdrawnIsDown
<1> QED BY <1>1, <1>2, <1>3, OnlyDecisions

-----------------------------------------------------------------------------
(* Clearing and regenerating *)

\* A claim clears every output and enqueues the version's own job: the others' stay.
LEMMA Regenerating ==
    ASSUME IInv, NEW v \in Placed, RequestRegen(v), UNCHANGED <<text, stamped, status, op>>
    PROVE  Jobs' /\ Outputs' /\ StaleIsOvertaken' /\ Sound /\ claimed' \subseteq Placed
<1>1. CASE v \in claimed
  <2>1. UNCHANGED <<claimed, stored, overtaken, run, queueVars>>
    BY <1>1 DEF RequestRegen
  <2> QED BY <2>1, Untouched DEF Sound, IInv, Versions
<1>2. CASE v \notin claimed
  <2>1. claimed' = claimed \cup {v} /\ Clear(Feature) /\ Queue!Submit(Regen(v))
    BY <1>2 DEF RequestRegen
  <2>2. Outputs' /\ StaleIsOvertaken'
    <3>1. Feature \in SUBSET Feature
      OBVIOUS
    <3> QED BY <2>1, <3>1, Clearing
  <2>3. Jobs' /\ \A i \in ArticleJob : i # Regen(v) => phase'[i] = phase[i]
    <3>1. Regen(v) \in ArticleJob
      BY JobNames
    <3>2. Queue!Becomes(Regen(v), "waiting", None, 0)
      BY <2>1 DEF Queue!Submit
    <3> QED BY <3>1, <3>2, Becoming
  <2>4. Once
    <3>1. \A u \in claimed : Regen(u) \in ArticleJob /\ Regen(u) # Regen(v)
      BY <1>2, JobNames DEF IInv, Versions
    <3> QED BY <1>2, <2>1, <2>3, <3>1 DEF Once
  <2>5. Whole
    BY Untouched
  <2> QED BY <2>1, <2>2, <2>3, <2>4, <2>5 DEF Sound, IInv, Versions
<1> QED BY <1>1, <1>2

LEMMA ClearingForRebuild ==
    ASSUME IInv, NEW o \in Operator, ClearForRebuild(o)
    PROVE  IInv' /\ Sound
<1>1. /\ op[o] # None /\ op[o].act = "clear" /\ op' = [op EXCEPT ![o].act = "enqueue"]
      /\ UNCHANGED <<cast, editorial, ledger, queueVars, reading, scrape, swept, acts, deaths>>
  BY DEF ClearForRebuild, Deciding
<1>2. PICK fs \in SUBSET Feature : Clear(fs)
  BY DEF ClearForRebuild
<1>3. Outputs' /\ StaleIsOvertaken'
  BY <1>1, <1>2, Clearing DEF ledger
<1>4. op[o] \in Decision /\ op \in [Operator -> Decision \cup {None}]
  BY <1>1 DEF IInv, Actors
<1>5. PICK d : d = [op[o] EXCEPT !.act = "enqueue"]
  OBVIOUS
<1>6. d \in Decision /\ d.act = "enqueue" /\ op' = [op EXCEPT ![o] = d]
  BY <1>1, <1>4, <1>5 DEF Decision
<1>7. op'[o] # op[o]
  BY <1>1, <1>4, <1>6
<1>8. Actors'
  BY <1>1, <1>4, <1>6 DEF IInv, Actors
<1>9. Once
  BY <1>1, <1>7 DEF Once, queueVars
<1> QED BY <1>1, <1>3, <1>8, <1>9, Untouched DEF IInv, Sound, editorial

LEMMA EnqueueingRebuild ==
    ASSUME IInv, NEW o \in Operator, EnqueueRebuild(o)
    PROVE  IInv' /\ Sound
<1>1. /\ op' = [op EXCEPT ![o] = None]
      /\ UNCHANGED <<cast, editorial, ledger, stored, run, reading, scrape, swept, acts,
                     deaths, overtaken>>
  BY DEF EnqueueRebuild
<1>2. Actors'
  BY <1>1 DEF IInv, Actors
<1>3. Jobs' /\ Once
  <2>1. CASE UNCHANGED queueVars
    BY <1>1, <2>1, Untouched
  <2>2. CASE Queue!Submit(Rebuild)
    <3>1. Queue!Becomes(Rebuild, "waiting", None, 0)
      BY <2>2 DEF Queue!Submit
    <3>2. Jobs' /\ \A i \in ArticleJob : i # Rebuild => phase'[i] = phase[i]
      BY <3>1, JobNames, Becoming
    <3>3. \A u \in claimed : Regen(u) \in ArticleJob /\ Regen(u) # Rebuild
      BY JobNames DEF IInv, Versions
    <3> QED BY <1>1, <3>2, <3>3 DEF Once, Present
  <2> QED BY <2>1, <2>2 DEF EnqueueRebuild
<1> QED BY <1>1, <1>2, <1>3, Untouched DEF IInv, Sound, editorial, ledger

-----------------------------------------------------------------------------
(* Forced re-scrapes and the sweep *)

LEMMA VersionsTyped ==
    ASSUME IInv
    PROVE  /\ version \in [Version -> {"none", "pending", "active", "superseded", "rejected"}]
           /\ scrape \in [Scraper -> Scrape \cup {None}]
           /\ \A s \in Scraper : scrape[s] # None => scrape[s] \in Scrape
           /\ 0 \in Version
BY ContentAssumption DEF IInv, Versions, Version

\* A scraper's step that leaves the versions, or claims one.
LEMMA Scraping ==
    ASSUME IInv, NEW s \in Scraper, NEW x \in Scrape \cup {None},
           scrape' = [scrape EXCEPT ![s] = x], x # None => x.step = "asked",
           UNCHANGED <<text, version, stamped, swept>>, claimed' \subseteq Placed
    PROVE  Versions'
<1>1. /\ scrape' \in [Scraper -> Scrape \cup {None}]
      /\ \A t \in Scraper : t # s => scrape'[t] = scrape[t]
      /\ scrape'[s] = x
  BY VersionsTyped
<1>2. Placed' = Placed /\ Active' = Active /\ Pending' = Pending
  BY DEF Placed, Active, Pending
<1>3. \A t \in Scraper : (~In(t, "fetching")' /\ ~In(t, "activated")') \/ t # s
  BY <1>1 DEF In
<1>4. \A t \in Scraper : t # s => (In(t, "fetching")' <=> In(t, "fetching"))
                                  /\ (In(t, "activated")' <=> In(t, "activated"))
  BY <1>1 DEF In
<1>5. \A t \in Scraper : ScrapeIs(t)'
  BY <1>1, <1>2, <1>3, <1>4 DEF IInv, Versions, ScrapeIs
<1> QED BY <1>1, <1>2, <1>3, <1>4, <1>5 DEF IInv, Versions

\* A scraper's step that leaves the claims and everything but its versions.
LEMMA OnlyVersions ==
    ASSUME IInv, Versions', StaleIsOvertaken', deaths' \in 0 .. cast.deaths,
           UNCHANGED <<cast, editorial, stored, queueVars, run, reading, op, acts, overtaken>>
    PROVE  IInv' /\ Sound
<1>1. Actors'
  BY DEF IInv, Actors
<1> QED BY <1>1, Untouched DEF IInv, Sound, editorial

LEMMA AskingOrDying ==
    ASSUME IInv, NEW s \in Scraper, Ask(s) \/ Dies(s)
    PROVE  IInv' /\ Sound
<1>1. UNCHANGED <<cast, editorial, ledger, stored, queueVars, run, reading, op, swept, acts,
                  overtaken>>
  BY DEF Ask, Dies
<1>2. deaths' \in 0 .. cast.deaths
  <2>1. deaths' = deaths \/ (deaths < cast.deaths /\ deaths' = deaths + 1)
    BY DEF Ask, Dies
  <2>2. deaths \in 0 .. cast.deaths /\ cast.deaths \in Nat
    BY ContentAssumption DEF IInv, Actors
  <2> QED BY <2>1, <2>2
<1>3. PICK x \in Scrape \cup {None} : /\ scrape' = [scrape EXCEPT ![s] = x]
                                      /\ x # None => x.step = "asked"
  <2>1. [step |-> "asked", version |-> 0] \in Scrape
    BY VersionsTyped DEF Scrape
  <2> QED BY <2>1 DEF Ask, Dies
<1>4. Versions'
  BY <1>1, <1>3, Scraping DEF ledger, IInv, Versions
<1> QED BY <1>1, <1>2, <1>4, OnlyVersions, Untouched DEF ledger

\* The baseline is no placed version, and is active only when no other is.
LEMMA Materialising ==
    ASSUME IInv, NEW s \in Scraper, Materialise(s)
    PROVE  IInv' /\ Sound
<1>1. /\ In(s, "asked")
      /\ version' = IF Active = {} THEN [version EXCEPT ![0] = "active"] ELSE version
      /\ scrape' = [scrape EXCEPT ![s].step = "based"]
      /\ UNCHANGED <<cast, editorial, text, stamped, claimed, stored, queueVars, run,
                     reading, op, swept, acts, deaths, overtaken>>
  BY DEF Materialise
<1>2. PICK x : x = [scrape[s] EXCEPT !.step = "based"]
  OBVIOUS
<1>3. x \in Scrape /\ x.step = "based" /\ scrape' = [scrape EXCEPT ![s] = x]
  BY <1>1, <1>2, VersionsTyped DEF Scrape, In
<1>4. /\ scrape' \in [Scraper -> Scrape \cup {None}] /\ scrape'[s] = x
      /\ \A t \in Scraper : t # s => scrape'[t] = scrape[t]
  BY <1>3, VersionsTyped
<1>5. /\ version' \in [Version -> {"none", "pending", "active", "superseded", "rejected"}]
      /\ \A v \in Version \ {0} : version'[v] = version[v]
      /\ version' = version \/ (Active = {} /\ version'[0] = "active")
  BY <1>1, VersionsTyped
<1>6. Placed' = Placed
  BY <1>5 DEF Placed
<1>7. (\A u, v \in Active' : u = v) /\ Pending' \subseteq Pending
  BY <1>5 DEF IInv, Versions, Active, Pending
<1>8. \A t \in Scraper : /\ In(t, "fetching")' => t # s /\ In(t, "fetching")
                         /\ In(t, "activated")' => t # s /\ In(t, "activated")
  BY <1>3, <1>4 DEF In
<1>9. \A t \in Scraper : ScrapeIs(t)'
  <2> SUFFICES ASSUME NEW t \in Scraper PROVE ScrapeIs(t)'
    OBVIOUS
  <2>1. ScrapeIs(t) /\ (scrape[t] # None => scrape[t] \in Scrape)
    BY VersionsTyped DEF IInv, Versions
  <2>2. CASE In(t, "fetching")'
    <3>1. In(t, "fetching") /\ scrape'[t] = scrape[t] /\ ~In(t, "activated")'
      BY <1>4, <1>8, <2>2 DEF In
    <3>2. scrape[t].version \in Version
      BY <2>1, <3>1 DEF In, Scrape
    <3> QED BY <1>5, <2>1, <3>1, <3>2 DEF ScrapeIs
  <2>3. CASE ~In(t, "fetching")'
    BY <1>4, <1>6, <1>8, <2>1, <2>3 DEF ScrapeIs
  <2> QED BY <2>2, <2>3
<1>10. Versions'
  BY <1>1, <1>4, <1>5, <1>6, <1>7, <1>8, <1>9 DEF IInv, Versions
<1>11. deaths' \in 0 .. cast.deaths
  BY <1>1 DEF IInv, Actors
<1> QED BY <1>1, <1>10, <1>11, OnlyVersions, Untouched

\* The pending slot is taken only when it is free, for a version nobody had.
LEMMA ClaimingPending ==
    ASSUME IInv, NEW s \in Scraper, ClaimPending(s)
    PROVE  IInv' /\ Sound
<1>1. UNCHANGED <<cast, editorial, text, stamped, claimed, stored, queueVars, run,
                  reading, op, swept, acts, deaths, overtaken>>
  BY DEF ClaimPending
<1>2. deaths' \in 0 .. cast.deaths
  BY <1>1 DEF IInv, Actors
<1>3. CASE scrape' = [scrape EXCEPT ![s] = None] /\ UNCHANGED version
  <2>1. Versions'
    BY <1>1, <1>3, Scraping DEF IInv, Versions
  <2> QED BY <1>1, <1>2, <2>1, OnlyVersions, Untouched
<1>4. CASE ~(scrape' = [scrape EXCEPT ![s] = None] /\ UNCHANGED version)
  <2>1. PICK free : free = {v \in 1 .. cast.versions : version[v] = "none"}
    OBVIOUS
  <2>2. PICK n : n = Min(free)
    OBVIOUS
  <2>3. /\ Pending = {} /\ free # {}
        /\ version' = [version EXCEPT ![n] = "pending"]
        /\ scrape' = [scrape EXCEPT ![s] = [step |-> "fetching", version |-> n]]
    BY <1>4, <2>1, <2>2 DEF ClaimPending
  <2>4. n \in Version \ {0} /\ version[n] = "none"
    <3>1. cast.versions \in 0 .. MaxVersion /\ MaxVersion \in Nat
      BY ContentAssumption DEF IInv, Actors
    <3>2. free \in SUBSET Nat
      BY <2>1
    <3>3. n \in free
      BY <2>2, <2>3, <3>2, FirstIsOne
    <3> QED BY <2>1, <3>1, <3>3 DEF Version
  <2>5. PICK x : x = [step |-> "fetching", version |-> n]
    OBVIOUS
  <2>6. x \in Scrape /\ x.step = "fetching" /\ x.version = n
    BY <2>4, <2>5 DEF Scrape
  <2>7. /\ scrape' \in [Scraper -> Scrape \cup {None}] /\ scrape'[s] = x
        /\ \A t \in Scraper : t # s => scrape'[t] = scrape[t]
    BY <2>3, <2>5, <2>6, VersionsTyped
  <2>8. /\ version' \in [Version -> {"none", "pending", "active", "superseded", "rejected"}]
        /\ version'[n] = "pending" /\ \A v \in Version : v # n => version'[v] = version[v]
    BY <2>3, <2>4, VersionsTyped
  <2>9. Placed' = Placed /\ Active' = Active /\ Pending' = {n}
    BY <2>3, <2>4, <2>8 DEF Placed, Active, Pending
  <2>10. \A t \in Scraper : ~In(t, "fetching")
    <3> SUFFICES ASSUME NEW t \in Scraper, In(t, "fetching") PROVE FALSE
      OBVIOUS
    <3>1. scrape[t] \in Scrape
      BY VersionsTyped DEF In
    <3>2. scrape[t].version \in Version /\ version[scrape[t].version] = "pending"
      BY <3>1 DEF Scrape, IInv, Versions, ScrapeIs
    <3> QED BY <2>3, <3>2 DEF Pending
  <2>11. \A t \in Scraper : /\ In(t, "fetching")' => t = s
                            /\ In(t, "activated")' => t # s /\ In(t, "activated")
    BY <2>5, <2>6, <2>7, <2>10 DEF In
  <2>12. \A t \in Scraper : ScrapeIs(t)'
    BY <2>4, <2>6, <2>7, <2>8, <2>9, <2>11 DEF IInv, Versions, ScrapeIs
  <2>13. Versions'
    BY <1>1, <2>7, <2>8, <2>9, <2>11, <2>12 DEF IInv, Versions
  <2> QED BY <1>1, <1>2, <2>13, OnlyVersions, Untouched
<1> QED BY <1>3, <1>4

\* The pending version of a request, and that it is alone in fetching one.
LEMMA Fetched ==
    ASSUME IInv, NEW s \in Scraper, In(s, "fetching")
    PROVE  /\ scrape[s] \in Scrape /\ scrape[s].version \in Version \ {0}
           /\ version[scrape[s].version] = "pending" /\ scrape[s].version \notin claimed
           /\ Pending = {scrape[s].version}
           /\ \A t \in Scraper : In(t, "fetching") => t = s
<1>1. scrape[s] \in Scrape
  BY VersionsTyped DEF In
<1>2. /\ scrape[s].version \in Version \ {0} /\ version[scrape[s].version] = "pending"
      /\ \A t \in Scraper : In(t, "fetching") => t = s
  BY <1>1 DEF Scrape, IInv, Versions, ScrapeIs
<1>3. scrape[s].version \notin claimed /\ Pending = {scrape[s].version}
  BY <1>2 DEF IInv, Versions, Placed, Pending
<1> QED BY <1>1, <1>2, <1>3

LEMMA Rejecting ==
    ASSUME IInv, NEW s \in Scraper, Reject(s)
    PROVE  IInv' /\ Sound
<1>1. /\ In(s, "fetching")
      /\ version' = [version EXCEPT ![scrape[s].version] = "rejected"]
      /\ scrape' = [scrape EXCEPT ![s] = None]
      /\ UNCHANGED <<cast, editorial, text, stamped, claimed, stored, queueVars, run,
                     reading, op, swept, acts, deaths, overtaken>>
  BY DEF Reject
<1>2. PICK n : n = scrape[s].version
  OBVIOUS
<1>3. n \in Version \ {0} /\ version[n] = "pending" /\ Pending = {n}
  BY <1>1, <1>2, Fetched
<1>4. /\ version' \in [Version -> {"none", "pending", "active", "superseded", "rejected"}]
      /\ version'[n] = "rejected" /\ \A v \in Version : v # n => version'[v] = version[v]
  BY <1>1, <1>2, <1>3, VersionsTyped
<1>5. Placed' = Placed /\ Active' = Active /\ Pending' = {}
  BY <1>3, <1>4 DEF Placed, Active, Pending
<1>6. /\ scrape' \in [Scraper -> Scrape \cup {None}] /\ scrape'[s] = None
      /\ \A t \in Scraper : t # s => scrape'[t] = scrape[t]
  BY <1>1, VersionsTyped
<1>7. \A t \in Scraper : /\ ~In(t, "fetching")'
                         /\ In(t, "activated")' => t # s /\ In(t, "activated")
  BY <1>1, <1>6, Fetched DEF In
<1>8. \A t \in Scraper : ScrapeIs(t)'
  BY <1>5, <1>6, <1>7 DEF IInv, Versions, ScrapeIs
<1>9. Versions'
  BY <1>1, <1>4, <1>5, <1>6, <1>7, <1>8 DEF IInv, Versions
<1>10. deaths' \in 0 .. cast.deaths
  BY <1>1 DEF IInv, Actors
<1> QED BY <1>1, <1>9, <1>10, OnlyVersions, Untouched

\* The text that is put in place is stamped in the same transaction, and nobody
\* claimed it yet: outputs of older texts are owed their regeneration.
LEMMA Activating ==
    ASSUME IInv, NEW s \in Scraper, Activate(s)
    PROVE  IInv' /\ Sound
<1>1. PICK n : n = scrape[s].version
  OBVIOUS
<1>2. /\ In(s, "fetching")
      /\ version' = [u \in Version |-> IF u = n THEN "active"
                                       ELSE IF u \in Active THEN "superseded"
                                       ELSE version[u]]
      /\ text' = n /\ stamped' = stamped \cup {n}
      /\ scrape' = [scrape EXCEPT ![s].step = "activated"]
      /\ UNCHANGED <<cast, editorial, claimed, stored, queueVars, run, reading, op, swept,
                     acts, deaths, overtaken>>
  BY <1>1 DEF Activate
<1>3. n \in Version \ {0} /\ version[n] = "pending" /\ n \notin claimed /\ Pending = {n}
  BY <1>1, <1>2, Fetched
<1>4. version' \in [Version -> {"none", "pending", "active", "superseded", "rejected"}]
  BY <1>2, VersionsTyped
<1>5. Active' = {n} /\ Pending' = {}
  BY <1>2, <1>3 DEF Active, Pending
<1>6. Placed \subseteq Placed' /\ n \in Placed'
  BY <1>2, <1>3 DEF Placed, Active
<1>7. PICK x : x = [scrape[s] EXCEPT !.step = "activated"]
  OBVIOUS
<1>8. /\ x \in Scrape /\ x.step = "activated" /\ x.version = n
      /\ scrape' = [scrape EXCEPT ![s] = x]
  BY <1>1, <1>2, <1>7, Fetched DEF Scrape
<1>9. /\ scrape' \in [Scraper -> Scrape \cup {None}] /\ scrape'[s] = x
      /\ \A t \in Scraper : t # s => scrape'[t] = scrape[t]
  BY <1>8, VersionsTyped
<1>10. \A t \in Scraper : /\ ~In(t, "fetching")'
                          /\ In(t, "activated")' => t = s \/ In(t, "activated")
  BY <1>2, <1>8, <1>9, Fetched DEF In
<1>11. \A t \in Scraper : ScrapeIs(t)'
  BY <1>6, <1>8, <1>9, <1>10 DEF IInv, Versions, ScrapeIs
<1>12. Versions'
  BY <1>2, <1>3, <1>4, <1>5, <1>6, <1>9, <1>10, <1>11 DEF IInv, Versions
<1>13. StaleIsOvertaken'
  BY <1>2, <1>3 DEF StaleIsOvertaken
<1>14. deaths' \in 0 .. cast.deaths
  BY <1>2 DEF IInv, Actors
<1> QED BY <1>2, <1>12, <1>13, <1>14, OnlyVersions

\* The runner and the sweep ask for the regeneration of a version that was placed.
LEMMA RunnerRegenerates ==
    ASSUME IInv, NEW s \in Scraper, Regenerate(s)
    PROVE  IInv' /\ Sound
<1>1. /\ In(s, "activated") /\ scrape' = [scrape EXCEPT ![s] = None]
      /\ UNCHANGED <<cast, editorial, text, version, stamped, reading, op, swept, acts,
                     deaths>>
  BY DEF Regenerate
<1>2. PICK v : v = scrape[s].version
  OBVIOUS
<1>3. v \in Placed
  BY <1>1, <1>2 DEF IInv, Versions, ScrapeIs
<1>4. Jobs' /\ Outputs' /\ StaleIsOvertaken' /\ Sound /\ claimed' \subseteq Placed
  <2>1. CASE RequestRegen(v)
    BY <1>1, <1>3, <2>1, Regenerating DEF editorial
  <2>2. CASE UNCHANGED <<claimed, stored, overtaken, run, queueVars>>
    BY <1>1, <2>2, Untouched DEF Sound, IInv, Versions
  <2> QED BY <1>2, <2>1, <2>2 DEF Regenerate
<1>5. Versions'
  BY <1>1, <1>4, Scraping
<1> QED BY <1>1, <1>4, <1>5, Untouched DEF IInv

LEMMA Sweeping ==
    ASSUME IInv, Scan \/ Redrive
    PROVE  IInv' /\ Sound
<1>1. CASE Scan
  <2>1. /\ swept' = Unclaimed
        /\ UNCHANGED <<cast, editorial, ledger, stored, queueVars, run, reading, op, scrape,
                       acts, deaths, overtaken>>
    BY <1>1 DEF Scan
  <2>2. Unclaimed \subseteq Placed
    BY DEF Unclaimed, Active, Placed, IInv, Versions
  <2>3. Placed' = Placed /\ Active' = Active /\ Pending' = Pending
        /\ \A s \in Scraper : ScrapeIs(s)' /\ (In(s, "fetching")' => In(s, "fetching"))
    BY <2>1 DEF ledger, Placed, Active, Pending, ScrapeIs, In, IInv, Versions
  <2>4. Versions'
    BY <2>1, <2>2, <2>3 DEF ledger, IInv, Versions
  <2> QED BY <2>1, <2>4, Untouched DEF IInv, Sound, ledger
<1>2. CASE Redrive
  <2>1. PICK v : v = Min(swept)
    OBVIOUS
  <2>2. /\ swept # {} /\ RequestRegen(v) /\ swept' = swept \ {v}
        /\ UNCHANGED <<cast, editorial, text, version, stamped, reading, op, scrape, acts,
                       deaths>>
    BY <1>2, <2>1 DEF Redrive
  <2>3. v \in Placed
    <3>1. swept \in SUBSET Nat
      BY DEF IInv, Versions, Placed, Version
    <3>2. v \in swept
      BY <2>1, <2>2, <3>1, FirstIsOne
    <3> QED BY <3>2 DEF IInv, Versions
  <2>4. Jobs' /\ Outputs' /\ StaleIsOvertaken' /\ Sound /\ claimed' \subseteq Placed
    BY <2>2, <2>3, Regenerating DEF editorial
  <2>5. Placed' = Placed /\ Active' = Active /\ Pending' = Pending
        /\ \A s \in Scraper : ScrapeIs(s)' /\ (In(s, "fetching")' => In(s, "fetching"))
    BY <2>2 DEF Placed, Active, Pending, ScrapeIs, In, IInv, Versions
  <2>6. Versions'
    BY <2>2, <2>4, <2>5 DEF IInv, Versions
  <2> QED BY <2>2, <2>4, <2>6, Untouched DEF IInv
<1> QED BY <1>1, <1>2

-----------------------------------------------------------------------------
(* The invariant holds, and what a step may do follows *)

LEMMA Starting == Init => IInv
<1> SUFFICES ASSUME Init PROVE IInv
  OBVIOUS
<1>1. Editing
  BY DEF Init, Editing, WithdrawnIsDown
<1>2. Actors
  <2>1. cast.acts \in Nat /\ cast.deaths \in Nat
    BY ContentAssumption DEF Init
  <2> QED BY <2>1 DEF Init, Actors
<1>3. Jobs
  BY DEF Init, Jobs
<1>4. Outputs
  <2>1. Idle \in RunState /\ Idle.step = "idle"
    BY DEF Idle, RunState
  <2> QED BY <2>1 DEF Init, Outputs, RunIs
<1>5. Versions
  <2>1. 0 \in Version
    BY ContentAssumption DEF Version
  <2> QED BY <2>1 DEF Init, Versions, Placed, Active, Pending, ScrapeIs, In
<1>6. StaleIsOvertaken
  BY DEF Init, StaleIsOvertaken
<1> QED BY <1>1, <1>2, <1>3, <1>4, <1>5, <1>6 DEF IInv

LEMMA Inductive ==
    ASSUME IInv, [Next]_vars
    PROVE  IInv' /\ Sound
<1>1. /\ cast.workers \subseteq Worker /\ cast.readers \subseteq Reader
      /\ cast.operators \subseteq Operator /\ cast.scrapers \subseteq Scraper
  BY ContentAssumption DEF IInv, Actors
<1>2. CASE \E w \in cast.workers : WorkerStep(w)
  BY <1>1, <1>2, Working
<1>3. CASE \E r \in cast.readers : Open(r) \/ Answered(r)
  BY <1>1, <1>3, Opening, ReaderAnswered
<1>4. ASSUME NEW o \in cast.operators,
             \/ Decide(o)
             \/ EditorPublishes(o) \/ EditorUnpublishes(o) \/ Withdraw(o) \/ Restore(o)
             \/ BeginRebuild(o) \/ ClearForRebuild(o) \/ EnqueueRebuild(o)
      PROVE  IInv' /\ Sound
  BY <1>1, <1>4, DecidingToAct, Committing, ClearingForRebuild, EnqueueingRebuild
<1>5. CASE ChangeTrust
  BY <1>5, TrustChanging
<1>6. ASSUME NEW s \in cast.scrapers, ScraperStep(s)
      PROVE  IInv' /\ Sound
  BY <1>1, <1>6, AskingOrDying, Materialising, ClaimingPending, Rejecting, Activating,
     RunnerRegenerates DEF ScraperStep
<1>7. CASE Scan \/ Redrive
  BY <1>7, Sweeping
<1>8. CASE UNCHANGED vars
  BY <1>8, Untouched DEF vars, editorial, ledger, IInv, Sound
<1> QED BY <1>2, <1>3, <1>4, <1>5, <1>6, <1>7, <1>8 DEF Next

\* Article content, under any interleaving of its actors, keeps the invariant.
THEOREM Invariance == Spec => []IInv
<1>1. IInv /\ [Next]_vars => IInv'
  BY Inductive
<1> QED BY <1>1, Starting, PTL DEF Spec

\* Every variable keeps its type, and the article has one active and one pending
\* version at most (the unique slots of ArticleContentVersion).
THEOREM TypeCorrect == Spec => []TypeOK
BY Invariance, IInvSuffices, PTL

\* Whatever was decided on what was read earlier, a withdrawn article is not
\* published (takedown.ts, processor.ts: the writes look again).
THEOREM WithdrawnStaysDown == Spec => []WithdrawnIsDown
<1>1. IInv => WithdrawnIsDown
  BY DEF IInv, Editing
<1> QED BY <1>1, Invariance, PTL

\* An output made from an older text is owed its regeneration, or a generation
\* that the new text overtook stored it (derived-regeneration.ts).
THEOREM StaleOutputsAreOwed == Spec => []StaleIsOvertaken
<1>1. IInv => StaleIsOvertaken
  BY DEF IInv
<1> QED BY <1>1, Invariance, PTL

\* A run publishes a provider's draft only with every output stored, unless they
\* were cleared after its last check (processor.ts, the durable re-read).
THEOREM ProvidersDraftsAreWhole == Spec => AutoPublishedIsWhole
<1>1. IInv /\ [Next]_vars => [Whole]_vars
  BY Inductive DEF Sound
<1> QED BY <1>1, Invariance, PTL DEF AutoPublishedIsWhole, Whole, Spec

\* The runner of a swap and the sweeps, however they race or die, clear and enqueue
\* the regeneration of a version once (derived-regeneration.ts, at most once).
THEOREM RegenerationIsOnce == Spec => RegeneratedOnce
<1>1. IInv /\ [Next]_vars => [Once]_vars
  BY Inductive DEF Sound
<1> QED BY <1>1, Invariance, PTL DEF RegeneratedOnce, Once, Spec

=============================================================================
