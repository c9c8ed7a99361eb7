------------------------ MODULE CandidateIngest_proofs ------------------------
(***************************************************************************)
(* What CandidateIngest's runs check on small instances, for any number of    *)
(* candidates, workers, addresses and jobs, whatever the pages of the         *)
(* candidates turn out to be.                                                 *)
(*                                                                            *)
(* The decisions of a run are taken from rows that others may have changed    *)
(* by the time it writes; what the proofs need of a run is therefore little:   *)
(* which candidates it has in hand, and, for one whose source was rolled back *)
(* under it, that the generation it carries is behind and that it is not past *)
(* the check of the save. The rest is carried by the guards of the writes.     *)
(***************************************************************************)
EXTENDS CandidateIngest, LeastElement

-----------------------------------------------------------------------------
(* The invariant *)

SourceType == source \in [mode : {"ACTIVE", "SHADOW"}, generation : 0 .. MaxGeneration]

RowsType == candidate \in [Candidate -> CandidateRow]

QueueType == /\ phase \in [IngestJob -> {"new", "waiting", "leased", "settled"}]
             /\ holder \in [IngestJob -> Worker \cup {None}]
             /\ tries \in [IngestJob -> Nat]

ArticleType == article \subseteq Url /\ process \subseteq Url

\* The steps of a run that has settled on a target, and of one that has decided
\* who wins.
Targeted == {"merged", "matching", "electing", "saving", "checked", "converging"}
Decided == {"merging", "matching"}

\* What a run has in hand. The generation it carries is one the source has had,
\* and an outdated run, which is behind, does not get past the save's check.
RunIs(r) ==
    /\ r.generation <= source.generation
    /\ r.step # "idle" => r.job \in IngestJob
    /\ r.step \in Targeted => r.target \in Candidate
    /\ r.step \in Decided => r.decision.winner \in Candidate
    /\ r.outdated => /\ r.step \notin {"idle", "claimed", "checked", "done", "failing"}
                     /\ r.generation < source.generation

Runs == run \in [Worker -> RunState] /\ \A w \in Worker : RunIs(run[w])

\* SetAsideHasNoJob, said of the jobs.
SetAside == {"DUPLICATE_ALIAS", "NEEDS_REVIEW"}
NoJobSetAside ==
    \A j \in IngestJob : candidate[j[1]].status \in SetAside =>
        phase[j] \notin {"waiting", "leased"}

Types == SourceType /\ RowsType /\ QueueType /\ ArticleType /\ Runs

IInv == Types /\ ArticlesAreWhole /\ NoJobSetAside

LEMMA TypesSuffice == Types => TypeOK
BY DEF Types, SourceType, RowsType, QueueType, ArticleType, Runs, TypeOK

LEMMA NoJobSuffices == NoJobSetAside => SetAsideHasNoJob
BY DEF NoJobSetAside, SetAside, SetAsideHasNoJob, ActiveJobsOf, JobsOf, Queue!Unsettled

-----------------------------------------------------------------------------
(* Winners *)

\* Some candidate of a set was seen first.
LEMMA FirstExists ==
    ASSUME NEW pool \in SUBSET Candidate, pool # {}
    PROVE  \E c \in pool : \A d \in pool : FirstSeen[c] <= FirstSeen[d]
<1> DEFINE seen == {FirstSeen[c] : c \in pool}
<1>1. seen \in SUBSET Nat /\ seen # {}
  BY IngestAssumption
<1>2. PICK n \in seen : \A m \in seen : n <= m
  <2> HIDE DEF seen
  <2> QED BY <1>1, LeastExists
<1>3. PICK c \in pool : n = FirstSeen[c]
  OBVIOUS
<1>4. \A d \in pool : FirstSeen[d] \in seen
  OBVIOUS
<1> HIDE DEF seen
<1> QED BY <1>2, <1>3, <1>4

\* The winner is a participant, and one with an Article if there is one.
LEMMA Winner ==
    ASSUME NEW participants \in SUBSET Candidate, participants # {}
    PROVE  /\ MergeWinner(participants) \in participants
           /\ \A c \in participants : HasArticle(c) => HasArticle(MergeWinner(participants))
<1> DEFINE known == {c \in participants : HasArticle(c)}
           pool == IF known # {} THEN known ELSE participants
<1>1. pool \in SUBSET Candidate /\ pool # {} /\ pool \subseteq participants
  OBVIOUS
<1>2. \E c \in pool : \A d \in pool : FirstSeen[c] <= FirstSeen[d]
  <2> HIDE DEF pool
  <2> QED BY <1>1, FirstExists
<1>3. MergeWinner(participants) \in pool
  BY <1>2 DEF MergeWinner
<1> QED BY <1>1, <1>3

-----------------------------------------------------------------------------
(* What steps have in common *)

\* A run moves on, and the source stays.
LEMMA MovedRun ==
    ASSUME IInv, NEW w \in Worker, NEW r \in RunState, RunIs(r),
           run' = [run EXCEPT ![w] = r], UNCHANGED source
    PROVE  Runs'
BY DEF IInv, Types, Runs, RunIs

LEMMA IdleRun ==
    ASSUME SourceType
    PROVE  Idle \in RunState /\ RunIs(Idle)
BY IngestAssumption
   DEF SourceType, Idle, RunState, NoDecision, RunIs, Step, Targeted, Decided

\* A run that has returned, or failed, has its job in hand and nothing else.
LEMMA EndedRun ==
    ASSUME IInv, NEW w \in Worker, run[w].step # "idle", UNCHANGED source,
           \/ Return(w)
           \/ \E permanent \in BOOLEAN : Fail(w, permanent)
           \/ run' = [run EXCEPT ![w] = Idle]
    PROVE  Runs'
<1>1. run[w] \in RunState /\ run[w].job \in IngestJob
  BY DEF IInv, Types, Runs, RunIs
<1>2. /\ Idle \in RunState /\ Idle.outdated = FALSE /\ Idle.generation = 0
      /\ RunIs(Idle) /\ 0 <= source.generation
  BY IdleRun DEF Idle, IInv, Types, RunIs
<1>3. ASSUME NEW r \in RunState, run' = [run EXCEPT ![w] = r], r.step \in {"done", "failing"},
             r.job = run[w].job, r.outdated = FALSE, r.generation = 0
      PROVE  Runs'
  BY <1>1, <1>2, <1>3, MovedRun DEF RunIs, Targeted, Decided
<1>4. CASE Return(w)
  <2> DEFINE r == [Idle EXCEPT !.step = "done", !.job = run[w].job]
  <2>1. /\ r \in RunState /\ r.step = "done" /\ r.job = run[w].job /\ r.outdated = FALSE
        /\ r.generation = 0
    BY <1>1, <1>2 DEF RunState, Step
  <2>2. run' = [run EXCEPT ![w] = r]
    BY <1>4 DEF Return
  <2> HIDE DEF r
  <2> QED BY <1>3, <2>1, <2>2
<1>5. ASSUME NEW permanent \in BOOLEAN, Fail(w, permanent) PROVE Runs'
  <2> DEFINE r == [Idle EXCEPT !.step = "failing", !.job = run[w].job, !.permanent = permanent]
  <2>1. /\ r \in RunState /\ r.step = "failing" /\ r.job = run[w].job /\ r.outdated = FALSE
        /\ r.generation = 0
    BY <1>1, <1>2 DEF RunState, Step
  <2>2. run' = [run EXCEPT ![w] = r]
    BY <1>5 DEF Fail
  <2> HIDE DEF r
  <2> QED BY <1>3, <2>1, <2>2
<1>6. CASE run' = [run EXCEPT ![w] = Idle]
  BY <1>2, <1>6, MovedRun
<1> QED BY <1>4, <1>5, <1>6

\* The parts of the invariant, in the groups that steps change or leave.
LEMMA Assembled ==
    ASSUME SourceType', RowsType', QueueType', ArticleType', Runs', ArticlesAreWhole',
           NoJobSetAside'
    PROVE  IInv'
BY DEF IInv, Types

LEMMA Untouched ==
    ASSUME IInv
    PROVE  /\ UNCHANGED source => SourceType'
           /\ UNCHANGED candidate => RowsType'
           /\ UNCHANGED queueVars => QueueType'
           /\ UNCHANGED <<article, process>> => ArticleType'
           /\ UNCHANGED <<candidate, queueVars>> => NoJobSetAside'
           /\ UNCHANGED <<run, source>> => Runs'
BY DEF IInv, Types, SourceType, RowsType, QueueType, ArticleType, Runs, RunIs,
       NoJobSetAside, queueVars

\* A step that writes no link, Article or follow-up job leaves them whole.
LEMMA SameArticles ==
    ASSUME IInv, UNCHANGED <<article, process>>,
           \A c \in Candidate : candidate'[c].article = candidate[c].article
    PROVE  ArticleType' /\ ArticlesAreWhole'
BY DEF IInv, Types, ArticleType, ArticlesAreWhole, HasArticle

\* A step leaves a candidate its link or takes it, unless the candidate is open.
LinksKept ==
    \A c \in Candidate : \/ candidate'[c].article \in {candidate[c].article, None}
                         \/ candidate[c].status \notin Terminal

\* No job comes to life for a candidate that is set aside, and one that is set
\* aside now has none.
LEMMA StillNoJob ==
    ASSUME IInv,
           \A j \in IngestJob : phase'[j] \in {"waiting", "leased"} =>
               \/ candidate'[j[1]].status \notin SetAside
               \/ /\ phase[j] \in {"waiting", "leased"}
                  /\ candidate[j[1]].status \in SetAside
    PROVE  NoJobSetAside'
BY DEF IInv, NoJobSetAside

-----------------------------------------------------------------------------
(* Steps of a run alone *)

\* A run that goes on, with what it has found.
LEMMA OngoingRun ==
    ASSUME IInv, NEW w \in Worker, run[w].step # "idle", UNCHANGED source,
           NEW r \in RunState, run' = [run EXCEPT ![w] = r],
           r.job = run[w].job, r.outdated = run[w].outdated,
           r.generation = run[w].generation,
           run[w].outdated => r.step \notin {"idle", "claimed", "checked", "done", "failing"},
           r.step \in Targeted => r.target \in Candidate,
           r.step \in Decided => r.decision.winner \in Candidate
    PROVE  Runs'
<1>1. RunIs(run[w])
  BY DEF IInv, Types, Runs
<1> QED BY <1>1, MovedRun DEF RunIs

\* Goto and Decide write the step and the decision of a run.
LEMMA GotoRun ==
    ASSUME IInv, NEW w \in Worker, UNCHANGED source,
           NEW step \in {"fetched", "electing", "saving", "converging"}, Goto(w, step),
           run[w].step # "idle", step # "fetched" => run[w].step \in Targeted
    PROVE  Runs'
<1> DEFINE r == [run[w] EXCEPT !.step = step, !.decision = NoDecision]
<1>1. run[w] \in RunState /\ RunIs(run[w]) /\ run \in [Worker -> RunState]
  BY DEF IInv, Types, Runs
<1>2. /\ r \in RunState /\ r.step = step /\ r.target = run[w].target /\ r.job = run[w].job
      /\ r.outdated = run[w].outdated /\ r.generation = run[w].generation
  BY <1>1 DEF RunState, Step, NoDecision
<1>3. run' = [run EXCEPT ![w] = r]
  BY <1>1 DEF Goto, RunState
<1> HIDE DEF r
<1> QED BY <1>1, <1>2, <1>3, OngoingRun DEF RunIs, Targeted, Decided

LEMMA DecidedRun ==
    ASSUME IInv, NEW w \in Worker, UNCHANGED source, NEW step \in Decided,
           NEW winner \in Candidate, NEW losers \in SUBSET Candidate, NEW review \in BOOLEAN,
           Decide(w, step, winner, losers, review),
           run[w].step # "idle", step = "matching" => run[w].step \in Targeted
    PROVE  Runs'
<1> DEFINE d == [winner |-> winner, losers |-> losers, review |-> review]
           r == [run[w] EXCEPT !.step = step, !.decision = d]
<1>1. run[w] \in RunState /\ RunIs(run[w]) /\ run \in [Worker -> RunState]
  BY DEF IInv, Types, Runs
<1>2. /\ r \in RunState /\ r.step = step /\ r.target = run[w].target /\ r.job = run[w].job
      /\ r.outdated = run[w].outdated /\ r.generation = run[w].generation
      /\ r.decision.winner = winner
  BY <1>1 DEF RunState, Step, Decided
<1>3. run' = [run EXCEPT ![w] = r]
  BY <1>1 DEF Decide, RunState
<1> HIDE DEF r
<1> QED BY <1>1, <1>2, <1>3, OngoingRun DEF RunIs, Targeted, Decided

\* A run with a new target.
LEMMA TargetedRun ==
    ASSUME IInv, NEW w \in Worker, UNCHANGED source, run[w].step # "idle",
           NEW step \in {"merged", "saving"}, NEW target \in Candidate,
           \/ run' = [run EXCEPT ![w].step = step, ![w].target = target]
           \/ run' = [run EXCEPT ![w].step = step, ![w].target = target,
                                 ![w].decision = NoDecision]
    PROVE  Runs'
<1>1. run[w] \in RunState /\ RunIs(run[w]) /\ run \in [Worker -> RunState]
  BY DEF IInv, Types, Runs
<1>2. PICK r :
        /\ run' = [run EXCEPT ![w] = r] /\ r.step = step /\ r.target = target
        /\ r \in RunState /\ r.job = run[w].job
        /\ r.outdated = run[w].outdated /\ r.generation = run[w].generation
  <2>1. CASE run' = [run EXCEPT ![w].step = step, ![w].target = target]
    <3> DEFINE r == [run[w] EXCEPT !.step = step, !.target = target]
    <3>1. /\ r \in RunState /\ r.step = step /\ r.target = target /\ r.job = run[w].job
          /\ r.outdated = run[w].outdated /\ r.generation = run[w].generation
      BY <1>1 DEF RunState, Step
    <3>2. run' = [run EXCEPT ![w] = r]
      BY <1>1, <2>1 DEF RunState
    <3> HIDE DEF r
    <3> QED BY <3>1, <3>2
  <2>2. CASE run' = [run EXCEPT ![w].step = step, ![w].target = target,
                                ![w].decision = NoDecision]
    <3> DEFINE r == [run[w] EXCEPT !.step = step, !.target = target, !.decision = NoDecision]
    <3>1. /\ r \in RunState /\ r.step = step /\ r.target = target /\ r.job = run[w].job
          /\ r.outdated = run[w].outdated /\ r.generation = run[w].generation
      BY <1>1 DEF RunState, Step, NoDecision
    <3>2. run' = [run EXCEPT ![w] = r]
      BY <1>1, <2>2 DEF RunState
    <3> HIDE DEF r
    <3> QED BY <3>1, <3>2
  <2> QED BY <2>1, <2>2
<1> QED BY <1>1, <1>2, OngoingRun DEF RunIs, Targeted, Decided

LEMMA RunAlone ==
    ASSUME IInv, UNCHANGED <<source, candidate, article, process, queueVars>>, Runs'
    PROVE  IInv' /\ LinksKept
<1>1. ArticlesAreWhole'
  BY SameArticles
<1> QED BY <1>1, Untouched, Assembled
   DEF LinksKept

\* The candidate whose job a run has in hand.
LEMMA InHand ==
    ASSUME IInv, NEW w \in Worker, run[w].step # "idle"
    PROVE  /\ run[w].job \in IngestJob /\ Ours(w) \in Candidate /\ Ours(w) # None
           /\ run[w] \in RunState
           /\ run[w].step \in Targeted => run[w].target \in Candidate
           /\ run[w].step \in Decided => run[w].decision.winner \in Candidate
           /\ run[w].decision.losers \in SUBSET Candidate
<1>1. run[w] \in RunState /\ RunIs(run[w])
  BY DEF IInv, Types, Runs
<1>2. run[w].job \in IngestJob /\ Ours(w) \in Candidate
  BY <1>1 DEF RunIs, Ours, IngestJob
<1>3. run[w].decision.losers \in SUBSET Candidate
  BY <1>1 DEF RunState
<1> QED BY <1>1, <1>2, <1>3, IngestAssumption DEF RunIs

LEMMA Loading ==
    ASSUME IInv, NEW w \in Worker, Load(w)
    PROVE  IInv' /\ LinksKept
<1> DEFINE c == Ours(w)
           r == [run[w] EXCEPT !.step = "loaded", !.generation = source.generation,
                               !.attempt = candidate[c].attempts + 1]
<1>1. /\ run[w].step = "claimed" /\ run[w] \in RunState /\ run[w].job \in IngestJob
      /\ c \in Candidate /\ run \in [Worker -> RunState]
      /\ UNCHANGED <<source, candidate, article, process, queueVars>>
  BY InHand DEF Load, At, IInv, Types, Runs
<1>2. CASE Return(w)
  BY <1>1, <1>2, EndedRun, RunAlone
<1>3. CASE run' = [run EXCEPT ![w].step = "loaded",
                              ![w].generation = source.generation,
                              ![w].attempt = candidate[c].attempts + 1]
  <2>1. candidate[c].attempts + 1 \in Nat /\ source.generation \in 0 .. MaxGeneration
    <3>1. candidate[c].attempts \in Nat
      BY <1>1 DEF IInv, Types, RowsType, CandidateRow
    <3> QED BY <3>1 DEF IInv, Types, SourceType
  <2>2. ~run[w].outdated
    BY <1>1 DEF IInv, Types, Runs, RunIs, RunState
  <2>3. /\ r \in RunState /\ r.step = "loaded" /\ r.job = run[w].job
        /\ r.outdated = run[w].outdated /\ r.generation = source.generation
    BY <1>1, <2>1 DEF RunState, Step
  <2>4. run' = [run EXCEPT ![w] = r]
    BY <1>1, <1>3 DEF RunState
  <2>5. RunIs(r)
    <3>1. source.generation <= source.generation
      BY <2>1
    <3> HIDE DEF r
    <3> QED BY <1>1, <2>2, <2>3, <3>1 DEF RunIs, Targeted, Decided
  <2> HIDE DEF r
  <2> QED BY <1>1, <2>3, <2>4, <2>5, MovedRun, RunAlone
<1> QED BY <1>2, <1>3 DEF Load

LEMMA Drafting ==
    ASSUME IInv, NEW w \in Worker, FetchDraft(w)
    PROVE  IInv' /\ LinksKept
<1> DEFINE r == [run[w] EXCEPT !.step = "fetched", !.attempt = 0]
<1>1. /\ run[w].step = "loaded" /\ run[w] \in RunState /\ run \in [Worker -> RunState]
      /\ UNCHANGED <<source, candidate, article, process, queueVars>>
  BY InHand DEF FetchDraft, At, IInv, Types, Runs
<1>2. CASE Return(w)
  BY <1>1, <1>2, EndedRun, RunAlone
<1>3. CASE run' = [run EXCEPT ![w].step = "fetched", ![w].attempt = 0]
  <2>1. /\ r \in RunState /\ r.step = "fetched" /\ r.job = run[w].job
        /\ r.outdated = run[w].outdated /\ r.generation = run[w].generation
    BY <1>1 DEF RunState, Step
  <2>2. run' = [run EXCEPT ![w] = r]
    BY <1>1, <1>3 DEF RunState
  <2> HIDE DEF r
  <2> QED BY <1>1, <2>1, <2>2, OngoingRun, RunAlone DEF Targeted, Decided
<1> QED BY <1>2, <1>3 DEF FetchDraft

\* What the two reads of the final identity settle on.
LEMMA IdentityRead ==
    ASSUME IInv, NEW w \in Worker, ReadIdentity(w)
    PROVE  IInv' /\ LinksKept
<1> DEFINE c == Ours(w)
           holders == {d \in Candidate : candidate[d].key = CanonicalKey[c]}
           winner == MergeWinner(holders \cup {c})
<1>1. /\ run[w].step = "fetched" /\ c \in Candidate
      /\ UNCHANGED <<source, candidate, article, process, queueVars>>
  BY InHand DEF ReadIdentity, At
<1>2. winner \in Candidate /\ (holders \cup {c}) \ {winner} \in SUBSET Candidate
  <2>1. holders \cup {c} \in SUBSET Candidate /\ holders \cup {c} # {}
    BY <1>1
  <2> HIDE DEF holders
  <2> QED BY <2>1, Winner
<1>3. \/ Return(w)
      \/ run' = [run EXCEPT ![w].step = "merged", ![w].target = c]
      \/ Decide(w, "merging", winner, (holders \cup {c}) \ {winner}, FALSE)
  BY DEF ReadIdentity
<1> HIDE DEF holders, winner
<1>4. Runs'
  BY <1>1, <1>2, <1>3, EndedRun, TargetedRun, DecidedRun DEF Decided
<1> QED BY <1>1, <1>4, RunAlone

LEMMA ProseRead ==
    ASSUME IInv, NEW w \in Worker, ReadProse(w)
    PROVE  IInv' /\ LinksKept
<1> DEFINE c == run[w].target
           matches == {d \in Candidate \ {c} :
                         /\ candidate[d].prose = ProseOf[Ours(w)]
                         /\ candidate[d].status \notin {"DUPLICATE_ALIAS", "REJECTED"}}
           linked == {d \in matches \cup {c} : HasArticle(d)}
           winner == MergeWinner(matches \cup {c})
<1>1. /\ run[w].step = "merged" /\ c \in Candidate
      /\ UNCHANGED <<source, candidate, article, process, queueVars>>
  BY InHand DEF ReadProse, At, Targeted
<1>2. winner \in Candidate /\ (matches \cup {c}) \ {winner} \in SUBSET Candidate
  <2>1. matches \cup {c} \in SUBSET Candidate /\ matches \cup {c} # {}
    BY <1>1
  <2> HIDE DEF matches
  <2> QED BY <2>1, Winner
<1>3. \/ Goto(w, "saving")
      \/ Decide(w, "matching", winner, (matches \cup {c}) \ {winner}, Cardinality(linked) > 1)
  BY DEF ReadProse
<1>4. (Cardinality(linked) > 1) \in BOOLEAN
  OBVIOUS
<1> HIDE DEF linked, matches, winner
<1>5. Runs'
  BY <1>1, <1>2, <1>3, <1>4, GotoRun, DecidedRun DEF Decided, Targeted
<1> QED BY <1>1, <1>5, RunAlone

LEMMA Electing ==
    ASSUME IInv, NEW w \in Worker, PickSurvivor(w)
    PROVE  IInv' /\ LinksKept
<1>1. PICK next \in Candidate \cup {run[w].target} :
        run' = [run EXCEPT ![w].step = "saving", ![w].target = next]
  BY DEF PickSurvivor
<1>2. /\ run[w].step = "electing" /\ next \in Candidate
      /\ UNCHANGED <<source, candidate, article, process, queueVars>>
  BY InHand DEF PickSurvivor, At, Targeted
<1> QED BY <1>1, <1>2, TargetedRun, RunAlone

\* The save's check: a run whose generation is behind does not pass.
LEMMA Checking ==
    ASSUME IInv, NEW w \in Worker, CheckSave(w)
    PROVE  IInv' /\ LinksKept
<1> DEFINE r == [run[w] EXCEPT !.step = "checked", !.decision = NoDecision]
<1>1. /\ run[w].step = "saving" /\ run[w] \in RunState /\ run \in [Worker -> RunState]
      /\ run[w].target \in Candidate /\ RunIs(run[w])
      /\ UNCHANGED <<source, candidate, article, process, queueVars>>
  BY InHand DEF CheckSave, At, Targeted, IInv, Types, Runs
<1>2. CASE Return(w)
  BY <1>1, <1>2, EndedRun, RunAlone
<1>3. CASE Goto(w, "checked") /\ source.generation = run[w].generation
  <2>1. ~run[w].outdated
    BY <1>1, <1>3 DEF RunIs, RunState, IInv, Types, SourceType
  <2>2. /\ r \in RunState /\ r.step = "checked" /\ r.job = run[w].job
        /\ r.outdated = run[w].outdated /\ r.generation = run[w].generation
        /\ r.target = run[w].target
    BY <1>1 DEF RunState, Step, NoDecision
  <2>3. run' = [run EXCEPT ![w] = r]
    BY <1>1, <1>3 DEF RunState, Goto
  <2> HIDE DEF r
  <2> QED BY <1>1, <2>1, <2>2, <2>3, OngoingRun, RunAlone DEF Targeted, Decided
<1> QED BY <1>2, <1>3 DEF CheckSave

LEMMA Leaving ==
    ASSUME IInv, NEW w \in Worker, FetchStops(w) \/ Throws(w) \/ Crashes(w)
    PROVE  IInv' /\ LinksKept
<1>1. /\ run[w].step # "idle"
      /\ Return(w) \/ Fail(w, FALSE) \/ run' = [run EXCEPT ![w] = Idle]
      /\ UNCHANGED <<source, candidate, article, process, queueVars>>
  BY DEF FetchStops, Throws, Crashes, At
<1> QED BY <1>1, EndedRun, RunAlone

-----------------------------------------------------------------------------
(* Steps on the jobs *)

LEMMA Becoming ==
    ASSUME IInv, NEW j \in IngestJob, NEW p \in {"waiting", "leased", "settled"},
           NEW h \in Worker \cup {None}, NEW n \in Nat, Queue!Becomes(j, p, h, n)
    PROVE  QueueType' /\ phase' = [phase EXCEPT ![j] = p]
BY DEF IInv, Types, QueueType, Queue!Becomes

LEMMA Cancelled ==
    ASSUME IInv, NEW jobs \in SUBSET IngestJob, Cancel(jobs)
    PROVE  QueueType' /\ \A j \in IngestJob :
                            phase'[j] = IF j \in jobs THEN "settled" ELSE phase[j]
BY DEF IInv, Types, QueueType, Cancel

\* A step that moves one unsettled job, or settles some, wakes nothing.
LEMMA JobMoved ==
    ASSUME IInv, UNCHANGED candidate, NEW j \in IngestJob, phase[j] \in {"waiting", "leased"},
           NEW p \in {"waiting", "leased", "settled"}, phase' = [phase EXCEPT ![j] = p]
    PROVE  NoJobSetAside'
BY StillNoJob DEF IInv, Types, QueueType

LEMMA Claiming ==
    ASSUME IInv, NEW w \in Worker, Claim(w)
    PROVE  IInv' /\ LinksKept
<1>1. PICK j \in IngestJob :
        /\ Queue!Lease(j, w)
        /\ run' = [run EXCEPT ![w] = [Idle EXCEPT !.step = "claimed", !.job = j]]
  BY DEF Claim
<1>2. /\ phase[j] \in {"waiting", "leased"} /\ tries[j] \in Nat
      /\ Queue!Becomes(j, "leased", w, tries[j])
      /\ UNCHANGED <<source, candidate, article, process>>
  BY <1>1 DEF Claim, Queue!Lease, Queue!Unsettled, IInv, Types, QueueType
<1>3. QueueType' /\ phase' = [phase EXCEPT ![j] = "leased"]
  BY <1>2, Becoming
<1>4. NoJobSetAside'
  BY <1>2, <1>3, JobMoved
<1>5. Runs'
  <2> DEFINE r == [Idle EXCEPT !.step = "claimed", !.job = j]
  <2>1. /\ r \in RunState /\ r.step = "claimed" /\ r.job = j /\ r.outdated = FALSE
        /\ r.generation <= source.generation
    BY IdleRun DEF RunState, Step, Idle, RunIs, IInv, Types
  <2>2. run' = [run EXCEPT ![w] = r]
    BY <1>1
  <2> HIDE DEF r
  <2> QED BY <1>2, <2>1, <2>2, MovedRun DEF RunIs, Targeted, Decided
<1> QED BY <1>2, <1>3, <1>4, <1>5, SameArticles, Untouched, Assembled
   DEF LinksKept

\* The end of a run gives the job back or settles it, if it is still its own.
LEMMA Ending ==
    ASSUME IInv, NEW w \in Worker, Completes(w) \/ FailsJob(w)
    PROVE  IInv' /\ LinksKept
<1> DEFINE j == run[w].job
<1>1. /\ run[w].step # "idle" /\ run' = [run EXCEPT ![w] = Idle]
      /\ UNCHANGED <<source, candidate, article, process>>
  BY DEF Completes, FailsJob, At
<1>2. j \in IngestJob /\ tries[j] \in Nat
  BY <1>1, InHand DEF IInv, Types, QueueType
<1>3. Runs'
  BY <1>1, EndedRun
<1>4. QueueType' /\ NoJobSetAside'
  <2>1. CASE UNCHANGED queueVars
    BY <1>1, <2>1, Untouched
  <2>2. ASSUME Leases(w), NEW p \in {"waiting", "settled"}, NEW n \in Nat,
               Queue!Becomes(j, p, None, n)
        PROVE  QueueType' /\ NoJobSetAside'
    <3>1. phase[j] = "leased"
      BY <2>2 DEF Leases
    <3>2. None \in Worker \cup {None} /\ p \in {"waiting", "leased", "settled"}
      OBVIOUS
    <3> HIDE DEF j
    <3>3. QueueType' /\ phase' = [phase EXCEPT ![j] = p]
      BY <1>2, <2>2, <3>2, Becoming
    <3> QED BY <1>1, <1>2, <3>1, <3>2, <3>3, JobMoved
  <2>3. CASE Completes(w)
    BY <1>2, <2>1, <2>2, <2>3 DEF Completes
  <2>4. CASE FailsJob(w)
    BY <1>2, <2>1, <2>2, <2>4 DEF FailsJob
  <2> QED BY <2>3, <2>4
<1> QED BY <1>1, <1>3, <1>4, SameArticles, Untouched, Assembled
   DEF LinksKept

\* What a merge or a failure does to the rows and to the jobs: the links stay,
\* and a candidate that is set aside has its jobs settled with it.
LEMMA RowsAndJobs ==
    ASSUME IInv, UNCHANGED <<source, article, process>>, Runs', RowsType',
           \A c \in Candidate : candidate'[c].article = candidate[c].article,
           NEW cs \in SUBSET Candidate, Cancel(ActiveJobsOf(cs)),
           \A c \in Candidate \ cs : candidate'[c].status \in SetAside =>
               candidate[c].status \in SetAside
    PROVE  IInv' /\ LinksKept
<1> DEFINE jobs == ActiveJobsOf(cs)
<1>1. jobs \in SUBSET IngestJob
  BY DEF ActiveJobsOf, JobsOf
<1>2. QueueType' /\ \A j \in IngestJob :
                        phase'[j] = IF j \in jobs THEN "settled" ELSE phase[j]
  <2> HIDE DEF jobs
  <2> QED BY <1>1, Cancelled DEF jobs
<1>3. \A j \in IngestJob :
        j \in jobs <=> j[1] \in cs /\ phase[j] \in {"waiting", "leased"}
  BY DEF ActiveJobsOf, JobsOf, Queue!Unsettled
<1>4. \A j \in IngestJob : j[1] \in Candidate
  BY DEF IngestJob
<1>5. ASSUME NEW j \in IngestJob, phase'[j] \in {"waiting", "leased"}
      PROVE  \/ candidate'[j[1]].status \notin SetAside
             \/ /\ phase[j] \in {"waiting", "leased"}
                /\ candidate[j[1]].status \in SetAside
  <2> HIDE DEF jobs
  <2>1. j \notin jobs /\ phase'[j] = phase[j]
    BY <1>2, <1>5
  <2> QED BY <1>3, <1>4, <1>5, <2>1
<1>6. NoJobSetAside'
  BY <1>5, StillNoJob
<1> QED BY <1>2, <1>6, SameArticles, Untouched, Assembled
   DEF LinksKept

-----------------------------------------------------------------------------
(* Steps on the rows *)

LEMMA FetchFailing ==
    ASSUME IInv, NEW w \in Worker, FetchFails(w)
    PROVE  IInv' /\ LinksKept
<1> DEFINE c == Ours(w)
<1>1. PICK kind \in {"transient", "deterministic", "permanent"} :
        LET disposition == Disposition(kind, run[w].attempt)
        IN  /\ candidate' = IF Open(c)
                            THEN [candidate EXCEPT ![c] = Recovered(candidate[c], disposition)]
                            ELSE candidate
            /\ Fail(w, disposition # "retry")
  BY DEF FetchFails
<1> DEFINE disposition == Disposition(kind, run[w].attempt)
<1>2. /\ run[w].step # "idle" /\ c \in Candidate /\ candidate[c] \in CandidateRow
      /\ candidate \in [Candidate -> CandidateRow]
      /\ UNCHANGED <<source, article, process, queueVars>>
  BY InHand DEF FetchFails, At, IInv, Types, RowsType
<1>3. disposition \in {"terminal", "quarantine", "retry"}
  BY DEF Disposition
<1>4. Runs'
  <2>1. (disposition # "retry") \in BOOLEAN
    OBVIOUS
  <2> HIDE DEF disposition
  <2> QED BY <1>1, <1>2, <2>1, EndedRun DEF disposition
<1> DEFINE row == Recovered(candidate[c], disposition)
<1>5. /\ row \in CandidateRow /\ row.article = candidate[c].article
      /\ row.status \in SetAside => candidate[c].status \in SetAside
  <2>1. 1 \in 0 .. MaxVersion /\ candidate[c].attempts + 1 \in Nat
    BY <1>2, IngestAssumption DEF CandidateRow
  <2> DEFINE tried == [candidate[c] EXCEPT !.version = 1]
  <2>2. /\ tried \in CandidateRow /\ tried.article = candidate[c].article
        /\ tried.status = candidate[c].status /\ tried.attempts + 1 \in Nat
    BY <1>2, <2>1 DEF CandidateRow
  <2>3. row = CASE disposition = "retry" -> [tried EXCEPT !.attempts = @ + 1]
                [] disposition = "terminal" -> [tried EXCEPT !.status = "REJECTED"]
                [] disposition = "quarantine" ->
                      [tried EXCEPT !.status = "QUARANTINED", !.attempts = @ + 1]
    BY DEF Recovered
  <2> HIDE DEF tried, row, disposition
  <2> QED BY <1>3, <2>2, <2>3 DEF CandidateRow, Recoverable, Terminal, ResolvedTerminal, SetAside
<1>6. candidate' = IF Open(c) THEN [candidate EXCEPT ![c] = row] ELSE candidate
  BY <1>1
<1> HIDE DEF row
<1>7. RowsType' /\ \A d \in Candidate :
        /\ candidate'[d].article = candidate[d].article
        /\ candidate'[d].status \in SetAside => candidate[d].status \in SetAside
  BY <1>2, <1>5, <1>6 DEF RowsType
<1>8. NoJobSetAside'
  <2>1. \A j \in IngestJob : j[1] \in Candidate
    BY DEF IngestJob
  <2>2. \A j \in IngestJob : phase'[j] = phase[j]
    BY <1>2 DEF queueVars
  <2>3. \A j \in IngestJob : phase'[j] \in {"waiting", "leased"} =>
               \/ candidate'[j[1]].status \notin SetAside
               \/ /\ phase[j] \in {"waiting", "leased"}
                  /\ candidate[j[1]].status \in SetAside
    BY <1>7, <2>1, <2>2
  <2> QED BY <2>3, StillNoJob
<1> QED BY <1>2, <1>4, <1>7, <1>8, SameArticles, Untouched, Assembled
   DEF LinksKept

LEMMA Routing ==
    ASSUME IInv, NEW w \in Worker, RouteToReview(w)
    PROVE  IInv' /\ LinksKept
<1> DEFINE c == Ours(w)
<1>1. /\ run[w].step # "idle" /\ c \in Candidate /\ Return(w)
      /\ UNCHANGED <<source, article, process>>
  BY InHand DEF RouteToReview, At
<1>2. Runs'
  BY <1>1, EndedRun
<1>3. CASE UNCHANGED <<candidate, queueVars>>
  BY <1>1, <1>2, <1>3, RunAlone
<1>4. CASE /\ candidate' = [candidate EXCEPT ![c].status = "NEEDS_REVIEW"]
           /\ Cancel(ActiveJobsOf({c}))
  <2> DEFINE row == [candidate[c] EXCEPT !.status = "NEEDS_REVIEW"]
  <2>1. candidate \in [Candidate -> CandidateRow]
    BY DEF IInv, Types, RowsType
  <2>2. row \in CandidateRow /\ row.article = candidate[c].article
    BY <1>1, <2>1 DEF CandidateRow, Terminal, ResolvedTerminal
  <2>3. candidate' = [candidate EXCEPT ![c] = row]
    BY <1>4
  <2> HIDE DEF row
  <2>4. RowsType' /\ \A d \in Candidate :
          /\ candidate'[d].article = candidate[d].article
          /\ d \notin {c} => candidate'[d] = candidate[d]
    BY <1>1, <2>1, <2>2, <2>3 DEF RowsType
  <2>5. {c} \in SUBSET Candidate
    BY <1>1
  <2> HIDE DEF c
  <2> QED BY <1>1, <1>2, <1>4, <2>4, <2>5, RowsAndJobs
<1> QED BY <1>3, <1>4 DEF RouteToReview

LEMMA CommittingIdentity ==
    ASSUME IInv, NEW w \in Worker, CommitIdentity(w)
    PROVE  IInv' /\ LinksKept
<1> DEFINE winner == run[w].decision.winner
           losers == run[w].decision.losers
           key == CanonicalKey[Ours(w)]
<1>1. /\ run[w].step # "idle" /\ winner \in Candidate /\ losers \in SUBSET Candidate
      /\ key \in Key
      /\ UNCHANGED <<source, article, process>>
  BY InHand, IngestAssumption DEF CommitIdentity, At, Decided
<1>2. CASE Goto(w, "fetched") /\ UNCHANGED <<candidate, queueVars>>
  BY <1>1, <1>2, GotoRun, RunAlone
<1>3. CASE /\ candidate' = [c \in Candidate |->
                CASE c = winner -> [candidate[c] EXCEPT !.key = key]
                  [] c \in losers -> Folded(candidate[c])
                  [] OTHER -> candidate[c]]
           /\ Cancel(ActiveJobsOf(losers))
           /\ run' = [run EXCEPT ![w].step = "merged", ![w].target = winner,
                                 ![w].decision = NoDecision]
  <2>1. Runs'
    BY <1>1, <1>3, TargetedRun
  <2>2. ASSUME NEW c \in Candidate
        PROVE  /\ candidate'[c] \in CandidateRow
               /\ candidate'[c].article = candidate[c].article
               /\ c \notin losers => candidate'[c].status = candidate[c].status
    <3> DEFINE kept == [candidate[c] EXCEPT !.key = key]
    <3>1. candidate[c] \in CandidateRow
      BY <2>2 DEF IInv, Types, RowsType
    <3>2. /\ kept \in CandidateRow /\ kept.article = candidate[c].article
          /\ kept.status = candidate[c].status
          /\ Folded(candidate[c]) \in CandidateRow
          /\ Folded(candidate[c]).article = candidate[c].article
      BY <1>1, <3>1 DEF CandidateRow, Folded, Terminal, ResolvedTerminal
    <3>3. \/ candidate'[c] = kept \/ candidate'[c] = candidate[c]
          \/ c \in losers /\ candidate'[c] = Folded(candidate[c])
      BY <1>3, <2>2
    <3> HIDE DEF losers, kept
    <3> QED BY <3>1, <3>2, <3>3
  <2>3. RowsType'
    <3>1. candidate' = [c \in Candidate |-> candidate'[c]]
      BY <1>3
    <3> QED BY <2>2, <3>1 DEF RowsType
  <2>4. \A c \in Candidate : candidate'[c].article = candidate[c].article
    BY <2>2
  <2>5. \A c \in Candidate \ losers : candidate'[c].status \in SetAside =>
            candidate[c].status \in SetAside
    BY <2>2
  <2> HIDE DEF losers
  <2> QED BY <1>1, <1>3, <2>1, <2>3, <2>4, <2>5, RowsAndJobs
<1> QED BY <1>2, <1>3 DEF CommitIdentity

\* Recording a prose changes no link and no status.
LEMMA RecordedRows ==
    ASSUME NEW rows \in [Candidate -> CandidateRow], NEW cs, NEW prose \in Prose
    PROVE  /\ Recorded(rows, cs, prose) \in [Candidate -> CandidateRow]
           /\ \A c \in Candidate :
                /\ Recorded(rows, cs, prose)[c].article = rows[c].article
                /\ Recorded(rows, cs, prose)[c].status = rows[c].status
                /\ Recorded(rows, cs, prose)[c].key = rows[c].key
<1>1. ASSUME NEW c \in Candidate
      PROVE  LET row == IF c \in cs THEN IfUnlinked(rows[c], [rows[c] EXCEPT !.prose = prose])
                        ELSE rows[c]
             IN  /\ row \in CandidateRow /\ row.article = rows[c].article
                 /\ row.status = rows[c].status /\ row.key = rows[c].key
  <2>1. rows[c] \in CandidateRow
    OBVIOUS
  <2> DEFINE new == [rows[c] EXCEPT !.prose = prose]
  <2>2. /\ new \in CandidateRow /\ new.article = rows[c].article
        /\ new.status = rows[c].status /\ new.key = rows[c].key
    BY <2>1 DEF CandidateRow
  <2> HIDE DEF new
  <2> QED BY <2>1, <2>2 DEF IfUnlinked, new
<1> QED BY <1>1 DEF Recorded

LEMMA CommittingProse ==
    ASSUME IInv, NEW w \in Worker, CommitProse(w)
    PROVE  IInv' /\ LinksKept
<1> DEFINE target == run[w].target
           winner == run[w].decision.winner
           losers == run[w].decision.losers
           prose == ProseOf[Ours(w)]
           own == Recorded(candidate, {target}, prose)
           recorded == Recorded(candidate, {target, winner}, prose)
<1>1. /\ run[w].step \in Targeted /\ run[w].step # "idle" /\ target \in Candidate
      /\ losers \in SUBSET Candidate /\ prose \in Prose
      /\ candidate \in [Candidate -> CandidateRow]
      /\ UNCHANGED <<source, article, process>>
  BY InHand, IngestAssumption
     DEF CommitProse, At, Decided, Targeted, IInv, Types, RowsType
<1>2. /\ own \in [Candidate -> CandidateRow] /\ recorded \in [Candidate -> CandidateRow]
      /\ \A c \in Candidate :
            /\ own[c].article = candidate[c].article /\ own[c].status = candidate[c].status
            /\ recorded[c].article = candidate[c].article
            /\ recorded[c].status = candidate[c].status
  <2> HIDE DEF prose, target, winner
  <2> QED BY <1>1, RecordedRows
<1>3. CASE run[w].decision.review
  <2> DEFINE row == IfUnlinked(own[target], [own[target] EXCEPT !.status = "NEEDS_REVIEW"])
  <2>1. /\ candidate' = [own EXCEPT ![target] =
                            IfUnlinked(@, [@ EXCEPT !.status = "NEEDS_REVIEW"])]
        /\ Cancel(ActiveJobsOf({target})) /\ Return(w)
    BY <1>3 DEF CommitProse
  <2>2. Runs'
    BY <1>1, <2>1, EndedRun
  <2> HIDE DEF own, target
  <2>3. candidate' = [own EXCEPT ![target] = row]
    BY <2>1
  <2>4. row \in CandidateRow /\ row.article = candidate[target].article
    <3> DEFINE parked == [own[target] EXCEPT !.status = "NEEDS_REVIEW"]
    <3>1. own[target] \in CandidateRow
      BY <1>1, <1>2
    <3>2. parked \in CandidateRow /\ parked.article = own[target].article
      BY <3>1 DEF CandidateRow, Terminal, ResolvedTerminal
    <3> HIDE DEF parked
    <3> QED BY <1>1, <1>2, <3>1, <3>2 DEF IfUnlinked, parked
  <2> HIDE DEF row
  <2>5. RowsType' /\ \A c \in Candidate :
          /\ candidate'[c].article = candidate[c].article
          /\ c \notin {target} => candidate'[c].status = candidate[c].status
    BY <1>1, <1>2, <2>3, <2>4 DEF RowsType
  <2> QED BY <1>1, <2>1, <2>2, <2>5, RowsAndJobs
<1>4. CASE ~run[w].decision.review
  <2>1. /\ candidate' = [c \in Candidate |->
                IF c \in losers THEN Folded(recorded[c]) ELSE recorded[c]]
        /\ Cancel(ActiveJobsOf(losers))
        /\ Goto(w, IF target \in losers THEN "electing" ELSE "saving")
    BY <1>4 DEF CommitProse
  <2>2. Runs'
    <3>1. PICK step \in {"electing", "saving"} : Goto(w, step)
      BY <2>1
    <3> QED BY <1>1, <3>1, GotoRun
  <2> HIDE DEF losers, recorded
  <2>3. ASSUME NEW c \in Candidate
        PROVE  /\ candidate'[c] \in CandidateRow
               /\ candidate'[c].article = candidate[c].article
               /\ c \notin losers => candidate'[c].status = candidate[c].status
    <3>1. recorded[c] \in CandidateRow
      BY <1>2
    <3>2. Folded(recorded[c]) \in CandidateRow
          /\ Folded(recorded[c]).article = recorded[c].article
      BY <3>1 DEF CandidateRow, Folded, Terminal, ResolvedTerminal
    <3> QED BY <1>2, <2>1, <3>1, <3>2
  <2>4. RowsType'
    <3>1. candidate' = [c \in Candidate |-> candidate'[c]]
      BY <2>1
    <3> QED BY <2>3, <3>1 DEF RowsType
  <2> QED BY <1>1, <2>1, <2>2, <2>3, <2>4, RowsAndJobs
<1> QED BY <1>3, <1>4

-----------------------------------------------------------------------------
(* The save *)

\* The row of the target once it is linked.
LEMMA LinkedRow ==
    ASSUME NEW row \in CandidateRow, NEW url \in Url, NEW prose \in Prose
    PROVE  /\ Linked(row, url, prose) \in CandidateRow
           /\ Linked(row, url, prose).article = url
           /\ Linked(row, url, prose).status = "INGESTED"
BY DEF Linked, CandidateRow, Terminal, ResolvedTerminal

\* A step that links one candidate without an Article to one that exists then.
LEMMA Linking ==
    ASSUME IInv, NEW w \in Worker, run[w].step # "idle", Return(w),
           UNCHANGED <<source, queueVars>>,
           NEW c \in Candidate, ~HasArticle(c), candidate[c].status \notin Terminal,
           NEW url \in Url, NEW prose \in Prose,
           candidate' = [candidate EXCEPT ![c] = Linked(candidate[c], url, prose)],
           article' = article \cup {url}, process' = process \cup {url}
    PROVE  IInv' /\ LinksKept
<1> DEFINE row == Linked(candidate[c], url, prose)
<1>1. /\ candidate \in [Candidate -> CandidateRow]
      /\ article \subseteq Url /\ process \subseteq Url /\ ArticlesAreWhole
  BY DEF IInv, Types, RowsType, ArticleType
<1>2. row \in CandidateRow /\ row.article = url /\ row.status = "INGESTED"
  BY <1>1, LinkedRow
<1>3. candidate' = [candidate EXCEPT ![c] = row]
  OBVIOUS
<1> HIDE DEF row
<1>4. RowsType' /\ \A d \in Candidate :
        /\ d # c => candidate'[d] = candidate[d]
        /\ d = c => candidate'[d] = row
  BY <1>1, <1>2, <1>3 DEF RowsType
<1>5. ArticleType'
  BY <1>1 DEF ArticleType
<1>6. ArticlesAreWhole'
  <2>1. ASSUME NEW d \in Candidate, candidate'[d].article # None
        PROVE  candidate'[d].article \in article'
    BY <1>1, <1>2, <1>4, <2>1 DEF ArticlesAreWhole, HasArticle
  <2>2. ASSUME NEW u \in article' PROVE \E d \in Candidate : candidate'[d].article = u
    <3>1. CASE u = url
      BY <1>2, <1>4, <3>1
    <3>2. CASE u # url
      <4>1. PICK d \in Candidate : candidate[d].article = u
        BY <1>1, <2>2, <3>2 DEF ArticlesAreWhole
      <4>2. d # c
        BY <4>1, <1>1, <3>2, <2>2, IngestAssumption DEF HasArticle
      <4> QED BY <1>4, <4>1, <4>2
    <3> QED BY <3>1, <3>2
  <2> QED BY <1>1, <2>1, <2>2 DEF ArticlesAreWhole, HasArticle
<1>7. Runs'
  BY EndedRun
<1>8. NoJobSetAside'
  <2>1. \A j \in IngestJob : j[1] \in Candidate /\ phase'[j] = phase[j]
    BY DEF IngestJob, queueVars
  <2>2. \A j \in IngestJob : candidate'[j[1]].status \in SetAside =>
            candidate[j[1]].status \in SetAside
    BY <1>2, <1>4, <2>1 DEF SetAside
  <2> QED BY <2>1, <2>2, StillNoJob
<1> QED BY <1>4, <1>5, <1>6, <1>7, <1>8, Untouched, Assembled
   DEF LinksKept

LEMMA Saving ==
    ASSUME IInv, NEW w \in Worker, CommitSave(w)
    PROVE  IInv' /\ LinksKept
<1> DEFINE c == run[w].target
           url == FinalUrl[Ours(w)]
           prose == ProseOf[Ours(w)]
<1>1. /\ run[w].step = "checked" /\ run[w].step \in Targeted /\ c \in Candidate
      /\ url \in Url /\ prose \in Prose /\ UNCHANGED <<source, queueVars>>
  BY InHand, IngestAssumption DEF CommitSave, At, Targeted
<1>2. CASE Goto(w, "converging") /\ UNCHANGED <<candidate, article, process>>
  BY <1>1, <1>2, GotoRun, RunAlone
<1>3. CASE /\ Open(c) /\ article' = article \cup {url} /\ process' = process \cup {url}
           /\ candidate' = [candidate EXCEPT ![c] = Linked(candidate[c], url, prose)]
           /\ Return(w)
  <2>1. ~HasArticle(c) /\ candidate[c].status \notin Terminal
    BY <1>3 DEF Open, Recoverable, Terminal, ResolvedTerminal
  <2> HIDE DEF url, prose
  <2> QED BY <1>1, <1>3, <2>1, Linking
<1> QED BY <1>2, <1>3 DEF CommitSave

LEMMA Converging ==
    ASSUME IInv, NEW w \in Worker, Converge(w)
    PROVE  IInv' /\ LinksKept
<1> DEFINE c == run[w].target
           url == FinalUrl[Ours(w)]
           prose == ProseOf[Ours(w)]
<1>1. /\ run[w].step = "converging" /\ run[w].step \in Targeted /\ c \in Candidate
      /\ url \in Url /\ prose \in Prose /\ UNCHANGED <<source, article, queueVars>>
  BY InHand, IngestAssumption DEF Converge, At, Targeted
<1>2. CASE /\ HasArticle(c) /\ process' = process \cup {candidate[c].article} /\ Return(w)
           /\ UNCHANGED candidate
  <2>1. UNCHANGED process
    BY <1>1, <1>2 DEF IInv, ArticlesAreWhole
  <2> QED BY <1>1, <1>2, <2>1, EndedRun, RunAlone
<1>3. CASE (Return(w) \/ Goto(w, "saving")) /\ UNCHANGED <<candidate, process>>
  BY <1>1, <1>3, EndedRun, GotoRun, RunAlone
<1>4. CASE /\ ~HasArticle(c) /\ candidate[c].status \notin Terminal /\ url \in article
           /\ candidate' = [candidate EXCEPT ![c] = Linked(candidate[c], url, prose)]
           /\ process' = process \cup {url} /\ Return(w)
  <2>1. article' = article \cup {url}
    BY <1>1, <1>4
  <2> HIDE DEF url, prose
  <2> QED BY <1>1, <1>4, <2>1, Linking
<1> QED BY <1>2, <1>3, <1>4 DEF Converge

-----------------------------------------------------------------------------
(* Discovery and the operators *)

\* A job that exists stays; one that does not starts to wait.
LEMMA Enqueueing ==
    ASSUME IInv, NEW j \in IngestJob, Enqueue(j)
    PROVE  QueueType' /\ \A k \in IngestJob : k # j => phase'[k] = phase[k]
<1>1. CASE UNCHANGED queueVars
  BY <1>1, Untouched DEF queueVars
<1>2. CASE Queue!Submit(j)
  <2>1. None \in Worker \cup {None} /\ 0 \in Nat
    OBVIOUS
  <2>2. QueueType' /\ phase' = [phase EXCEPT ![j] = "waiting"]
    BY <1>2, <2>1, Becoming DEF Queue!Submit
  <2> QED BY <2>2 DEF IInv, Types, QueueType
<1> QED BY <1>1, <1>2 DEF Enqueue

\* A candidate (re)enters, with at most one job of its own.
LEMMA Entering ==
    ASSUME IInv, UNCHANGED <<source, article, process, run>>,
           NEW c \in Candidate, NEW row \in CandidateRow, row.article = candidate[c].article,
           row.status \notin SetAside, candidate' = [candidate EXCEPT ![c] = row],
           NEW v \in Version, Enqueue(<<c, v>>) \/ UNCHANGED queueVars
    PROVE  IInv' /\ LinksKept
<1>1. /\ candidate \in [Candidate -> CandidateRow] /\ <<c, v>> \in IngestJob
  BY DEF IInv, Types, RowsType, IngestJob
<1>2. RowsType' /\ \A d \in Candidate :
        /\ d # c => candidate'[d] = candidate[d]
        /\ d = c => candidate'[d] = row
  BY <1>1 DEF RowsType
<1>3. QueueType' /\ \A k \in IngestJob : k # <<c, v>> => phase'[k] = phase[k]
  BY <1>1, Enqueueing, Untouched DEF queueVars
<1>4. NoJobSetAside'
  <2>1. \A j \in IngestJob : j[1] \in Candidate /\ (j[1] # c => j # <<c, v>>)
    BY DEF IngestJob
  <2>2. \A j \in IngestJob : phase'[j] \in {"waiting", "leased"} =>
           \/ candidate'[j[1]].status \notin SetAside
           \/ phase[j] \in {"waiting", "leased"} /\ candidate[j[1]].status \in SetAside
    BY <1>2, <1>3, <2>1
  <2> QED BY <2>2, StillNoJob
<1>5. \A d \in Candidate : candidate'[d].article = candidate[d].article
  BY <1>2
<1> QED BY <1>2, <1>3, <1>4, <1>5, SameArticles, Untouched, Assembled
   DEF LinksKept

LEMMA Discovering ==
    ASSUME IInv, NEW c \in Candidate, Discover(c)
    PROVE  IInv' /\ LinksKept
<1> DEFINE row == [candidate[c] EXCEPT !.status = "DISCOVERED"]
<1>1. candidate[c] \in CandidateRow
  BY DEF IInv, Types, RowsType
<1>2. /\ row \in CandidateRow /\ row.article = candidate[c].article
      /\ row.status \notin SetAside
  BY <1>1 DEF CandidateRow, Recoverable, SetAside
<1>3. candidate' = [candidate EXCEPT ![c] = row]
  BY DEF Discover
<1>4. 1 \in Version
  BY IngestAssumption DEF Version
<1>5. UNCHANGED <<source, article, process, run>> /\ (Enqueue(<<c, 1>>) \/ UNCHANGED queueVars)
  BY DEF Discover
<1> HIDE DEF row
<1> QED BY <1>2, <1>3, <1>4, <1>5, Entering

LEMMA Recovering ==
    ASSUME IInv, NEW c \in Candidate, RecoverDeleted(c)
    PROVE  IInv' /\ LinksKept
<1> DEFINE version == candidate[c].version + 1
           row == [candidate[c] EXCEPT !.status = "DISCOVERED", !.deleted = FALSE,
                                       !.attempts = 0, !.version = version]
<1>1. candidate \in [Candidate -> CandidateRow] /\ candidate[c] \in CandidateRow
  BY DEF IInv, Types, RowsType
<1>2. version \in Version /\ version \in 0 .. MaxVersion
  BY <1>1, IngestAssumption DEF RecoverDeleted, CandidateRow, Version
<1>3. /\ row \in CandidateRow /\ row.article = candidate[c].article
      /\ row.status \notin SetAside
  BY <1>1, <1>2 DEF CandidateRow, Recoverable, SetAside
<1>4. candidate' = [candidate EXCEPT ![c] = row]
  BY <1>1 DEF RecoverDeleted, CandidateRow
<1>5. UNCHANGED <<source, article, process, run>> /\ Enqueue(<<c, version>>)
  BY DEF RecoverDeleted
<1> HIDE DEF row, version
<1> QED BY <1>2, <1>3, <1>4, <1>5, Entering

LEMMA Activating ==
    ASSUME IInv, Activate
    PROVE  IInv' /\ LinksKept
<1>1. /\ source \in [mode : {"ACTIVE", "SHADOW"}, generation : 0 .. MaxGeneration]
      /\ candidate \in [Candidate -> CandidateRow]
      /\ source' = [source EXCEPT !.mode = "ACTIVE"]
      /\ UNCHANGED <<article, process, queueVars, run>>
  BY DEF Activate, IInv, Types, SourceType, RowsType
<1>2. SourceType' /\ source'.generation = source.generation
  BY <1>1 DEF SourceType
<1>3. Runs'
  BY <1>1, <1>2 DEF IInv, Types, Runs, RunIs
<1>4. PICK picked \in SUBSET Candidate :
        candidate' = [c \in Candidate |->
            IF c \in picked THEN [candidate[c] EXCEPT !.status = "QUEUED"] ELSE candidate[c]]
  BY DEF Activate
<1>5. ASSUME NEW c \in Candidate
      PROVE  /\ candidate'[c] \in CandidateRow
             /\ candidate'[c].article = candidate[c].article
             /\ candidate'[c].status \in SetAside => candidate[c].status \in SetAside
  <2> DEFINE queued == [candidate[c] EXCEPT !.status = "QUEUED"]
  <2>1. candidate[c] \in CandidateRow
    BY <1>1
  <2>2. queued \in CandidateRow /\ queued.article = candidate[c].article
        /\ queued.status \notin SetAside
    BY <2>1 DEF CandidateRow, Recoverable, SetAside
  <2>3. candidate'[c] \in {queued, candidate[c]}
    BY <1>4
  <2> HIDE DEF queued
  <2> QED BY <2>1, <2>2, <2>3
<1>6. RowsType'
  <2>1. candidate' = [c \in Candidate |-> candidate'[c]]
    BY <1>4
  <2> QED BY <1>5, <2>1 DEF RowsType
<1>7. NoJobSetAside'
  <2>1. \A j \in IngestJob : j[1] \in Candidate /\ phase'[j] = phase[j]
    BY <1>1 DEF IngestJob, queueVars
  <2> QED BY <1>5, <2>1, StillNoJob
<1> QED BY <1>1, <1>2, <1>3, <1>5, <1>6, <1>7, SameArticles, Untouched, Assembled
   DEF LinksKept

\* The generation goes up, and the runs under way are behind it.
LEMMA RollingBack ==
    ASSUME IInv, Rollback
    PROVE  IInv' /\ LinksKept
<1> DEFINE jobs == {j \in JobsOf({c \in Candidate : candidate[c].status \in Recoverable}) :
                      phase[j] = "waiting" /\ tries[j] = 0}
           Marked(w) == run[w].step \in Step \ {"idle", "claimed", "checked", "done", "failing"}
<1>1. /\ source \in [mode : {"ACTIVE", "SHADOW"}, generation : 0 .. MaxGeneration]
      /\ source.generation < MaxGeneration
      /\ source' = [mode |-> "SHADOW", generation |-> source.generation + 1]
      /\ UNCHANGED <<candidate, article, process>>
      /\ run' = [w \in Worker |->
            IF Marked(w) THEN [run[w] EXCEPT !.outdated = TRUE] ELSE run[w]]
  BY DEF Rollback, IInv, Types, SourceType
<1>2. SourceType' /\ source'.generation > source.generation /\ source.generation \in Nat
  BY <1>1, IngestAssumption DEF SourceType
<1>3. jobs \in SUBSET IngestJob
  BY DEF JobsOf
<1>4. QueueType' /\ \A j \in IngestJob :
                        phase'[j] = IF j \in jobs THEN "settled" ELSE phase[j]
  <2>1. Cancel(jobs)
    BY DEF Rollback
  <2> HIDE DEF jobs
  <2> QED BY <1>3, <2>1, Cancelled
<1>5. NoJobSetAside'
  <2> HIDE DEF jobs
  <2>1. \A j \in IngestJob : phase'[j] \in {"waiting", "leased"} => phase'[j] = phase[j]
    BY <1>4
  <2> QED BY <1>1, <2>1, StillNoJob
<1>6. ASSUME NEW w \in Worker PROVE run'[w] \in RunState /\ RunIs(run[w])'
  <2> DEFINE marked == [run[w] EXCEPT !.outdated = TRUE]
  <2>1. run[w] \in RunState /\ RunIs(run[w])
    BY DEF IInv, Types, Runs
  <2>2. /\ run[w].generation < source'.generation
        /\ run[w].generation <= source'.generation
    BY <1>1, <1>2, <2>1 DEF RunIs, RunState
  <2>3. /\ marked \in RunState /\ marked.step = run[w].step /\ marked.job = run[w].job
        /\ marked.target = run[w].target /\ marked.decision = run[w].decision
        /\ marked.generation = run[w].generation
    BY <2>1 DEF RunState
  <2>4. \/ run'[w] = run[w]
        \/ Marked(w) /\ run'[w] = marked
    BY <1>1
  <2> HIDE DEF marked
  <2> QED BY <2>1, <2>2, <2>3, <2>4 DEF RunIs
<1>7. Runs'
  <2>1. run' = [w \in Worker |-> run'[w]]
    BY <1>1
  <2> QED BY <1>6, <2>1 DEF Runs
<1> QED BY <1>1, <1>2, <1>4, <1>5, <1>7, SameArticles, Untouched, Assembled
   DEF LinksKept

\* The candidates of a deleted Article lose their link with it.
LEMMA Deleting ==
    ASSUME IInv, NEW url \in Url, DeleteArticle(url)
    PROVE  IInv' /\ LinksKept
<1>1. /\ candidate \in [Candidate -> CandidateRow] /\ article \subseteq Url
      /\ process \subseteq Url /\ ArticlesAreWhole
      /\ url \in article /\ url # None
      /\ article' = article \ {url} /\ process' = process \ {url}
      /\ UNCHANGED <<source, queueVars, run>>
  BY IngestAssumption DEF DeleteArticle, IInv, Types, RowsType, ArticleType
<1>2. ASSUME NEW c \in Candidate
      PROVE  /\ candidate'[c] \in CandidateRow /\ candidate'[c].status = candidate[c].status
             /\ candidate[c].article = url => candidate'[c].article = None
             /\ candidate[c].article # url => candidate'[c].article = candidate[c].article
  <2> DEFINE cut == [candidate[c] EXCEPT !.article = None, !.deleted = TRUE]
  <2>1. candidate[c] \in CandidateRow
    BY <1>1
  <2>2. cut \in CandidateRow /\ cut.article = None /\ cut.status = candidate[c].status
    BY <2>1 DEF CandidateRow
  <2>3. candidate'[c] = IF candidate[c].article = url THEN cut ELSE candidate[c]
    BY DEF DeleteArticle
  <2> HIDE DEF cut
  <2> QED BY <2>1, <2>2, <2>3
<1>3. RowsType'
  <2>1. candidate' = [c \in Candidate |-> candidate'[c]]
    BY DEF DeleteArticle
  <2> QED BY <1>2, <2>1 DEF RowsType
<1>4. ArticleType' /\ ArticlesAreWhole'
  BY <1>1, <1>2 DEF ArticleType, ArticlesAreWhole, HasArticle
<1>5. NoJobSetAside'
  <2>1. \A j \in IngestJob : j[1] \in Candidate /\ phase'[j] = phase[j]
    BY <1>1 DEF IngestJob, queueVars
  <2> QED BY <1>2, <2>1, StillNoJob
<1> QED BY <1>1, <1>2, <1>3, <1>4, <1>5, Untouched, Assembled DEF LinksKept

-----------------------------------------------------------------------------
(* The theorems *)

LEMMA Initially == Init => IInv
<1> SUFFICES ASSUME Init PROVE IInv
  OBVIOUS
<1>1. SourceType
  BY IngestAssumption DEF Init, SourceType
<1>2. RowsType /\ \A c \in Candidate : candidate[c].article = None
                                    /\ candidate[c].status \notin SetAside
  <2>1. Undiscovered \in CandidateRow /\ Undiscovered.article = None
        /\ Undiscovered.status \notin SetAside
    BY IngestAssumption DEF Undiscovered, CandidateRow, SetAside
  <2> QED BY <2>1 DEF Init, RowsType
<1>3. QueueType /\ ArticleType
  BY DEF Init, Queue!Init, QueueType, ArticleType
<1>4. Runs
  BY <1>1, IdleRun DEF Init, Runs
<1>5. ArticlesAreWhole
  BY <1>2 DEF Init, ArticlesAreWhole, HasArticle
<1>6. NoJobSetAside
  BY <1>2 DEF NoJobSetAside, IngestJob
<1> QED BY <1>1, <1>2, <1>3, <1>4, <1>5, <1>6 DEF IInv, Types

LEMMA Inductive == IInv /\ [Next]_vars => IInv' /\ LinksKept
<1> SUFFICES ASSUME IInv, [Next]_vars PROVE IInv' /\ LinksKept
  OBVIOUS
<1>1. CASE UNCHANGED vars
  BY <1>1, Untouched, RunAlone DEF vars
<1>2. ASSUME NEW w \in Worker,
             \/ Claim(w) \/ Load(w) \/ FetchFails(w) \/ FetchStops(w) \/ FetchDraft(w)
             \/ RouteToReview(w) \/ ReadIdentity(w) \/ CommitIdentity(w)
             \/ ReadProse(w) \/ CommitProse(w) \/ PickSurvivor(w)
             \/ CheckSave(w) \/ CommitSave(w) \/ Converge(w)
             \/ Throws(w) \/ Completes(w) \/ FailsJob(w) \/ Crashes(w)
      PROVE  IInv' /\ LinksKept
  <2>1. CASE Claim(w) \/ Load(w) \/ FetchFails(w) \/ FetchDraft(w)
    BY <2>1, Claiming, Loading, FetchFailing, Drafting
  <2>2. CASE RouteToReview(w) \/ ReadIdentity(w) \/ CommitIdentity(w)
    BY <2>2, Routing, IdentityRead, CommittingIdentity
  <2>3. CASE ReadProse(w) \/ CommitProse(w) \/ PickSurvivor(w)
    BY <2>3, ProseRead, CommittingProse, Electing
  <2>4. CASE CheckSave(w) \/ CommitSave(w) \/ Converge(w)
    BY <2>4, Checking, Saving, Converging
  <2>5. CASE FetchStops(w) \/ Throws(w) \/ Crashes(w) \/ Completes(w) \/ FailsJob(w)
    BY <2>5, Leaving, Ending
  <2> QED BY <1>2, <2>1, <2>2, <2>3, <2>4, <2>5
<1>3. ASSUME NEW c \in Candidate, Discover(c) \/ RecoverDeleted(c)
      PROVE  IInv' /\ LinksKept
  BY <1>3, Discovering, Recovering
<1>4. CASE Activate \/ Rollback \/ \E url \in Url : DeleteArticle(url)
  BY <1>4, Activating, RollingBack, Deleting
<1> QED BY <1>1, <1>2, <1>3, <1>4 DEF Next

THEOREM Invariance == Spec => []IInv
<1>1. IInv /\ [Next]_vars => IInv'
  BY Inductive
<1> QED BY <1>1, Initially, PTL DEF Spec

\* Every variable has its type: rows, jobs, and what each run has in hand.
THEOREM TypeCorrect == Spec => []TypeOK
<1>1. IInv => TypeOK
  BY TypesSuffice DEF IInv
<1> QED BY <1>1, Invariance, PTL

\* A candidate is linked only to an Article that exists, every Article is linked
\* and has its enrichment job, through any races, crashes, retries and deletions.
THEOREM ArticlesStayWhole == Spec => []ArticlesAreWhole
<1>1. IInv => ArticlesAreWhole
  BY DEF IInv
<1> QED BY <1>1, Invariance, PTL

\* A folded or parked candidate has no job that could run: the merge that sets it
\* aside cancels them, held ones too, and no operation brings one back.
THEOREM SetAsideIsJobless == Spec => []SetAsideHasNoJob
<1>1. IInv => SetAsideHasNoJob
  BY NoJobSuffices DEF IInv
<1> QED BY <1>1, Invariance, PTL

\* A candidate settled without an Article gets none: the link's guard and the
\* convergence look at the row again, whatever the run read before.
THEOREM SettledStaysWithout == Spec => SettledGetsNoArticle
<1>1. IInv /\ [Next]_vars =>
        [\A c \in Candidate : candidate[c].status \in Terminal /\ ~HasArticle(c)
                              => candidate'[c].article = None]_vars
  BY Inductive DEF LinksKept, HasArticle
<1> QED BY <1>1, Invariance, PTL DEF Spec, SettledGetsNoArticle

\* Only the save's transaction adds an Article.
LEMMA OnlySavesAdd ==
    ASSUME [Next]_vars
    PROVE  article' \subseteq article \/ \E w \in Worker : CommitSave(w)
<1>1. CASE UNCHANGED vars
  BY <1>1 DEF vars
<1>2. ASSUME NEW w \in Worker, ~CommitSave(w),
             \/ Claim(w) \/ Load(w) \/ FetchFails(w) \/ FetchStops(w) \/ FetchDraft(w)
             \/ RouteToReview(w) \/ ReadIdentity(w) \/ CommitIdentity(w)
             \/ ReadProse(w) \/ CommitProse(w) \/ PickSurvivor(w)
             \/ CheckSave(w) \/ Converge(w)
             \/ Throws(w) \/ Completes(w) \/ FailsJob(w) \/ Crashes(w)
      PROVE  UNCHANGED article
  BY <1>2 DEF Claim, Load, FetchFails, FetchStops, FetchDraft, RouteToReview, ReadIdentity,
              CommitIdentity, ReadProse, CommitProse, PickSurvivor, CheckSave, Converge,
              Throws, Completes, FailsJob, Crashes
<1>3. ASSUME NEW c \in Candidate, Discover(c) \/ RecoverDeleted(c)
      PROVE  UNCHANGED article
  BY <1>3 DEF Discover, RecoverDeleted
<1>4. CASE Activate \/ Rollback \/ \E url \in Url : DeleteArticle(url)
  BY <1>4 DEF Activate, Rollback, DeleteArticle
<1> QED BY <1>1, <1>2, <1>3, <1>4 DEF Next

\* A run whose source was rolled back under it creates no Article, even if the
\* source is active again: its generation is behind, and the save checks it.
THEOREM StaleRunsSaveNothing == Spec => StaleRunSavesNothing
<1>1. IInv /\ [Next]_vars =>
        [\A w \in Worker : run[w].outdated /\ run'[w] # run[w] => article' \subseteq article]_vars
  <2> SUFFICES ASSUME IInv, [Next]_vars, NEW w \in Worker, run[w].outdated, run'[w] # run[w]
               PROVE  article' \subseteq article
    OBVIOUS
  <2>1. run[w].step # "checked"
    BY DEF IInv, Types, Runs, RunIs
  <2>2. ASSUME NEW v \in Worker, CommitSave(v) PROVE FALSE
    <3>1. v # w
      BY <2>1, <2>2 DEF CommitSave, At
    <3>2. run \in [Worker -> RunState] /\ (Return(v) \/ Goto(v, "converging"))
      BY <2>2 DEF CommitSave, IInv, Types, Runs
    <3> QED BY <3>1, <3>2 DEF Return, Goto
  <2> QED BY <2>2, OnlySavesAdd
<1> QED BY <1>1, Invariance, PTL DEF Spec, StaleRunSavesNothing

-----------------------------------------------------------------------------
(* Merges, one at a time                                                    *)
(*                                                                          *)
(* A merge writes what it decided from rows it read earlier. Two of them at *)
(* once can fold a candidate the other has just ingested; while attempts do *)
(* not overlap, as with one ingest worker, the reads still hold where they   *)
(* matter: only a save links, and the run that decided has not saved since.  *)

OneAtATime == IsFiniteSet(Candidate) /\ \A v, w \in Worker : v = w

\* A linked candidate is ingested, a key is held once, and the candidates that a
\* run is about to fold are not linked.
IngestedRows == \A c \in Candidate : HasArticle(c) => candidate[c].status = "INGESTED"

UniqueKeys ==
    \A c, d \in Candidate : candidate[c].key # None /\ candidate[c].key = candidate[d].key => c = d

Folds(r) == r.step \in Decided /\ ~r.decision.review

Unlinked(r) ==
    /\ r.decision.winner \notin r.decision.losers
    /\ \A d \in r.decision.losers : d \in Candidate => ~HasArticle(d)

Known ==
    /\ IngestedRows /\ UniqueKeys
    /\ \A w \in Worker : Folds(run[w]) => Unlinked(run[w])
    /\ \A w \in Worker : run[w].step = "merging" => ~run[w].decision.review

\* A step may take a link or a key from a candidate, and leaves the status of one
\* that stays linked.
Harmless(c) ==
    /\ candidate'[c].article \in {candidate[c].article, None}
    /\ candidate'[c].article # None => candidate'[c].status = candidate[c].status
    /\ candidate'[c].key \in {candidate[c].key, None}

\* A run is where it was, with the decision it had, or has none to act on.
Undecided(w) ==
    \/ run'[w].step \notin Decided
    \/ run'[w].step = run[w].step /\ run'[w].decision = run[w].decision

LEMMA HarmlessStep ==
    ASSUME Known, \A c \in Candidate : Harmless(c), \A w \in Worker : Undecided(w)
    PROVE  Known'
<1>1. IngestedRows' /\ UniqueKeys'
  BY DEF Known, IngestedRows, UniqueKeys, Harmless, HasArticle
<1>2. ASSUME NEW w \in Worker
      PROVE  /\ Folds(run'[w]) => Folds(run[w]) /\ run'[w].decision = run[w].decision
             /\ run'[w].step = "merging" => ~run'[w].decision.review
  BY DEF Known, Folds, Undecided, Decided
<1>3. ASSUME NEW w \in Worker, Folds(run'[w]) PROVE Unlinked(run[w])'
  BY <1>2, <1>3 DEF Known, Unlinked, Harmless, HasArticle
<1>4. (\A w \in Worker : Folds(run[w]) => Unlinked(run[w]))'
  BY <1>3 DEF Folds
<1> QED BY <1>1, <1>2, <1>4 DEF Known

\* The runs of the others stay; with one worker there are none.
LEMMA OwnRun ==
    ASSUME IInv, NEW w \in Worker, NEW r, run' = [run EXCEPT ![w] = r],
           \/ r.step \notin Decided
           \/ r.step = run[w].step /\ r.decision = run[w].decision
    PROVE  \A v \in Worker : Undecided(v)
BY DEF IInv, Types, Runs, Undecided

LEMMA ReturnedRun ==
    ASSUME IInv, NEW w \in Worker,
           \/ Return(w) \/ (\E permanent : Fail(w, permanent))
           \/ run' = [run EXCEPT ![w] = Idle]
           \/ \E step \in Step \ Decided : Goto(w, step)
    PROVE  \A v \in Worker : Undecided(v)
<1>1. Idle.step = "idle" /\ run \in [Worker -> RunState]
  BY DEF Idle, IInv, Types, Runs
<1>2. CASE Return(w)
  <2>1. [Idle EXCEPT !.step = "done", !.job = run[w].job].step = "done"
    BY DEF Idle
  <2> QED BY <1>2, <2>1, OwnRun DEF Return, Decided
<1>3. ASSUME NEW permanent, Fail(w, permanent) PROVE \A v \in Worker : Undecided(v)
  <2>1. [Idle EXCEPT !.step = "failing", !.job = run[w].job, !.permanent = permanent].step
            = "failing"
    BY DEF Idle
  <2> QED BY <1>3, <2>1, OwnRun DEF Fail, Decided
<1>4. CASE run' = [run EXCEPT ![w] = Idle]
  BY <1>1, <1>4, OwnRun DEF Decided
<1>5. ASSUME NEW step \in Step \ Decided, Goto(w, step)
      PROVE  \A v \in Worker : Undecided(v)
  <2> DEFINE r == [run[w] EXCEPT !.step = step, !.decision = NoDecision]
  <2>1. run[w] \in RunState
    BY <1>1
  <2>2. r.step = step
    BY <2>1 DEF RunState
  <2>3. run' = [run EXCEPT ![w] = r]
    BY <1>1, <1>5, <2>1 DEF Goto, RunState
  <2> HIDE DEF r
  <2> QED BY <2>2, <2>3, OwnRun
<1> QED BY <1>2, <1>3, <1>4, <1>5

\* Steps that decide nothing and write no row.
LEMMA RowsStay ==
    ASSUME IInv, Known, UNCHANGED candidate, \A w \in Worker : Undecided(w)
    PROVE  Known'
BY HarmlessStep DEF Harmless

LEMMA QuietSteps ==
    ASSUME IInv, Known, NEW w \in Worker,
           \/ Claim(w) \/ Load(w) \/ FetchStops(w) \/ FetchDraft(w)
           \/ PickSurvivor(w) \/ CheckSave(w)
           \/ Throws(w) \/ Completes(w) \/ FailsJob(w) \/ Crashes(w)
    PROVE  Known'
<1>1. UNCHANGED candidate /\ run \in [Worker -> RunState]
  BY DEF Claim, Load, FetchStops, FetchDraft, PickSurvivor, CheckSave, Throws, Completes,
         FailsJob, Crashes, IInv, Types, Runs
<1>2. CASE FetchStops(w) \/ Throws(w) \/ Completes(w) \/ FailsJob(w) \/ Crashes(w) \/ CheckSave(w)
  BY <1>1, <1>2, ReturnedRun, RowsStay
     DEF FetchStops, Throws, Completes, FailsJob, Crashes, CheckSave, Step, Decided
<1>3. CASE Claim(w)
  <2>1. PICK j : run' = [run EXCEPT ![w] = [Idle EXCEPT !.step = "claimed", !.job = j]]
    BY <1>3 DEF Claim
  <2>2. [Idle EXCEPT !.step = "claimed", !.job = j].step = "claimed"
    BY DEF Idle
  <2> QED BY <1>1, <2>1, <2>2, OwnRun, RowsStay DEF Decided
<1>4. CASE Load(w) \/ FetchDraft(w) \/ PickSurvivor(w)
  <2>1. \/ Return(w)
        \/ \A v \in Worker : Undecided(v)
    BY <1>1, <1>4 DEF Load, FetchDraft, PickSurvivor, Undecided, Decided, RunState
  <2> QED BY <1>1, <2>1, ReturnedRun, RowsStay
<1> QED BY <1>2, <1>3, <1>4

LEMMA ReadingIdentity ==
    ASSUME IInv, Known, OneAtATime, NEW w \in Worker, ReadIdentity(w)
    PROVE  Known'
<1> DEFINE c == Ours(w)
           holders == {d \in Candidate : candidate[d].key = CanonicalKey[c]}
           winner == MergeWinner(holders \cup {c})
           losers == (holders \cup {c}) \ {winner}
<1>1. /\ run[w].step = "fetched" /\ c \in Candidate /\ UNCHANGED candidate
      /\ run \in [Worker -> RunState] /\ Worker = {w}
  BY InHand DEF ReadIdentity, At, IInv, Types, Runs, OneAtATime
<1>2. CASE Return(w)
  BY <1>1, <1>2, ReturnedRun, RowsStay
<1>3. CASE run' = [run EXCEPT ![w].step = "merged", ![w].target = c]
  <2>1. \A v \in Worker : Undecided(v)
    BY <1>1, <1>3 DEF Undecided, RunState, Decided
  <2> QED BY <1>1, <2>1, RowsStay
<1>4. CASE ~HasArticle(c) /\ Decide(w, "merging", winner, losers, FALSE)
  <2>1. \A d, e \in holders : d = e
    BY <1>1, IngestAssumption DEF Known, UniqueKeys
  <2>2. /\ winner \in holders \cup {c}
        /\ \A d \in holders \cup {c} : HasArticle(d) => HasArticle(winner)
    <3>1. holders \cup {c} \in SUBSET Candidate /\ holders \cup {c} # {}
      BY <1>1
    <3> HIDE DEF holders
    <3> QED BY <3>1, Winner
  <2>3. \A d \in losers : ~HasArticle(d)
    <3> HIDE DEF holders, winner
    <3> QED BY <1>4, <2>1, <2>2
  <2>4. /\ run'[w].step = "merging" /\ run'[w].decision.winner = winner
        /\ run'[w].decision.losers = losers /\ run'[w].decision.review = FALSE
    <3> HIDE DEF losers, winner
    <3> QED BY <1>1, <1>4 DEF Decide, RunState
  <2> HIDE DEF holders, winner
  <2>5. Unlinked(run[w])'
    <3> HIDE DEF losers
    <3>1. winner \notin losers
      BY DEF losers
    <3> QED BY <1>1, <2>3, <2>4, <3>1 DEF Unlinked, HasArticle
  <2>6. IngestedRows' /\ UniqueKeys'
    BY <1>1 DEF Known, IngestedRows, UniqueKeys, HasArticle
  <2> QED BY <1>1, <2>4, <2>5, <2>6 DEF Known
<1>5. \/ Return(w)
      \/ run' = [run EXCEPT ![w].step = "merged", ![w].target = c]
      \/ ~HasArticle(c) /\ Decide(w, "merging", winner, losers, FALSE)
  <2> HIDE DEF winner
  <2> QED BY DEF ReadIdentity, winner
<1> QED BY <1>2, <1>3, <1>4, <1>5

\* A set with two members has more than one.
LEMMA TwoAreMany ==
    ASSUME NEW S, IsFiniteSet(S), NEW x \in S, NEW y \in S, x # y
    PROVE  Cardinality(S) > 1
<1>1. IsFiniteSet({x}) /\ Cardinality({x}) = 1
  BY FS_Singleton
<1>2. IsFiniteSet({x} \cup {y}) /\ Cardinality({x} \cup {y}) = 2
  <2> DEFINE one == {x}
  <2>1. IsFiniteSet(one) /\ Cardinality(one) = 1 /\ y \notin one
    BY <1>1
  <2> HIDE DEF one
  <2>2. IsFiniteSet(one \cup {y}) /\ Cardinality(one \cup {y}) = Cardinality(one) + 1
    BY <2>1, FS_AddElement
  <2> QED BY <2>1, <2>2 DEF one
<1>3. {x} \cup {y} \in SUBSET S
  OBVIOUS
<1>4. Cardinality({x} \cup {y}) <= Cardinality(S) /\ Cardinality(S) \in Nat
  BY <1>3, FS_Subset, FS_CardinalityType
<1> QED BY <1>2, <1>4

LEMMA ReadingProse ==
    ASSUME IInv, Known, OneAtATime, NEW w \in Worker, ReadProse(w)
    PROVE  Known'
<1> DEFINE c == run[w].target
           matches == {d \in Candidate \ {c} :
                         /\ candidate[d].prose = ProseOf[Ours(w)]
                         /\ candidate[d].status \notin {"DUPLICATE_ALIAS", "REJECTED"}}
           linked == {d \in matches \cup {c} : HasArticle(d)}
           winner == MergeWinner(matches \cup {c})
           losers == (matches \cup {c}) \ {winner}
           review == Cardinality(linked) > 1
<1>1. /\ run[w].step = "merged" /\ c \in Candidate /\ UNCHANGED candidate
      /\ run \in [Worker -> RunState] /\ Worker = {w} /\ IsFiniteSet(Candidate)
  BY InHand DEF ReadProse, At, Targeted, IInv, Types, Runs, OneAtATime
<1>2. CASE Goto(w, "saving")
  BY <1>1, <1>2, ReturnedRun, RowsStay DEF Step, Decided
<1>3. CASE Decide(w, "matching", winner, losers, review)
  <2>1. matches \cup {c} \in SUBSET Candidate /\ matches \cup {c} # {} /\ linked \in SUBSET Candidate
    BY <1>1
  <2>2. /\ winner \in matches \cup {c} /\ winner \notin losers
        /\ losers \in SUBSET Candidate /\ losers \subseteq matches \cup {c}
        /\ \A d \in matches \cup {c} : HasArticle(d) => HasArticle(winner)
    <3> HIDE DEF matches
    <3> QED BY <2>1, Winner
  <2>3. ASSUME ~review, NEW d \in losers PROVE ~HasArticle(d)
    <3>1. SUFFICES ASSUME HasArticle(d) PROVE FALSE
      OBVIOUS
    <3>2. d \in linked /\ winner \in linked /\ d # winner
      <4> HIDE DEF matches, winner, losers
      <4> QED BY <2>2, <2>3, <3>1
    <3>3. IsFiniteSet(linked)
      <4> HIDE DEF linked
      <4> QED BY <1>1, <2>1, FS_Subset
    <3> HIDE DEF linked, winner
    <3> QED BY <2>3, <3>2, <3>3, TwoAreMany
  <2> HIDE DEF matches, winner, losers, review
  <2>4. /\ run'[w].step = "matching" /\ run'[w].decision.winner = winner
        /\ run'[w].decision.losers = losers /\ run'[w].decision.review = review
    BY <1>1, <1>3 DEF Decide, RunState
  <2>5. ~run'[w].decision.review => Unlinked(run[w])'
    BY <1>1, <2>2, <2>3, <2>4 DEF Unlinked, HasArticle
  <2>6. IngestedRows' /\ UniqueKeys'
    BY <1>1 DEF Known, IngestedRows, UniqueKeys, HasArticle
  <2> QED BY <1>1, <2>4, <2>5, <2>6 DEF Known, Folds
<1>4. Goto(w, "saving") \/ Decide(w, "matching", winner, losers, review)
  <2> HIDE DEF winner, review
  <2> QED BY DEF ReadProse, winner, review
<1> QED BY <1>2, <1>3, <1>4

\* The merge on a key: its winner gets the key, which nobody else has by then.
LEMMA MergingIdentity ==
    ASSUME IInv, Known, OneAtATime, NEW w \in Worker, CommitIdentity(w)
    PROVE  Known'
<1> DEFINE winner == run[w].decision.winner
           losers == run[w].decision.losers
           key == CanonicalKey[Ours(w)]
           taken == \E d \in Candidate \ (losers \cup {winner}) : candidate[d].key = key
<1>1. /\ run[w].step = "merging" /\ winner \in Candidate /\ losers \in SUBSET Candidate
      /\ candidate \in [Candidate -> CandidateRow] /\ run \in [Worker -> RunState]
  BY InHand DEF CommitIdentity, At, Decided, IInv, Types, RowsType, Runs
<1>2. CASE Goto(w, "fetched") /\ UNCHANGED candidate
  BY <1>2, ReturnedRun, RowsStay DEF Step, Decided
<1>3. CASE /\ ~taken
           /\ candidate' = [c \in Candidate |->
                CASE c = winner -> [candidate[c] EXCEPT !.key = key]
                  [] c \in losers -> Folded(candidate[c])
                  [] OTHER -> candidate[c]]
           /\ run' = [run EXCEPT ![w].step = "merged", ![w].target = winner,
                                 ![w].decision = NoDecision]
  <2>1. winner \notin losers /\ \A d \in losers : ~HasArticle(d)
    BY <1>1 DEF Known, Folds, Decided, Unlinked
  <2>2. \A v \in Worker : Undecided(v)
    BY <1>1, <1>3 DEF Undecided, RunState, Decided
  <2>3. ASSUME NEW c \in Candidate
        PROVE  /\ candidate'[c].article = candidate[c].article
               /\ c \notin losers => candidate'[c].status = candidate[c].status
               /\ c = winner => candidate'[c].key = key
               /\ c # winner => candidate'[c].key \in {candidate[c].key, None}
               /\ c \in losers => candidate'[c].key = None
    <3> DEFINE kept == [candidate[c] EXCEPT !.key = key]
    <3>1. /\ kept.article = candidate[c].article /\ kept.key = key
          /\ kept.status = candidate[c].status
          /\ Folded(candidate[c]).article = candidate[c].article
          /\ Folded(candidate[c]).key = None
      BY <1>1 DEF CandidateRow, Folded
    <3>2. /\ c = winner => candidate'[c] = kept
          /\ c \in losers => candidate'[c] = Folded(candidate[c])
          /\ c # winner /\ c \notin losers => candidate'[c] = candidate[c]
      BY <1>3, <2>1
    <3> HIDE DEF losers, kept
    <3> QED BY <2>1, <3>1, <3>2
  <2>4. IngestedRows'
    BY <2>1, <2>3 DEF Known, IngestedRows, HasArticle
  <2>5. \A c \in Candidate : c # winner /\ candidate'[c].key # None =>
            candidate'[c].key = candidate[c].key /\ candidate[c].key # key
    <3> HIDE DEF losers, winner, key
    <3> QED BY <1>3, <2>3
  <2>6. UniqueKeys'
    <3> HIDE DEF losers, winner, key
    <3> QED BY <2>3, <2>5 DEF Known, UniqueKeys
  <2>7. \A v \in Worker : /\ Folds(run'[v]) => Unlinked(run[v])'
                          /\ run'[v].step # "merging" \/ ~run'[v].decision.review
    <3>1. \A v \in Worker : v = w
      BY DEF OneAtATime
    <3>2. run'[w].step = "merged"
      BY <1>1, <1>3 DEF RunState
    <3> QED BY <3>1, <3>2 DEF Folds, Decided
  <2> QED BY <2>4, <2>6, <2>7 DEF Known, Folds
<1>4. \/ Goto(w, "fetched") /\ UNCHANGED candidate
      \/ /\ ~taken
         /\ candidate' = [c \in Candidate |->
                CASE c = winner -> [candidate[c] EXCEPT !.key = key]
                  [] c \in losers -> Folded(candidate[c])
                  [] OTHER -> candidate[c]]
         /\ run' = [run EXCEPT ![w].step = "merged", ![w].target = winner,
                               ![w].decision = NoDecision]
  BY DEF CommitIdentity
<1> QED BY <1>2, <1>3, <1>4

\* The merge on a prose folds candidates without an Article, and parks its target
\* only if that one has none.
LEMMA MergingProse ==
    ASSUME IInv, Known, OneAtATime, NEW w \in Worker, CommitProse(w)
    PROVE  Known'
<1> DEFINE target == run[w].target
           winner == run[w].decision.winner
           losers == run[w].decision.losers
           prose == ProseOf[Ours(w)]
           own == Recorded(candidate, {target}, prose)
           recorded == Recorded(candidate, {target, winner}, prose)
<1>1. /\ run[w].step = "matching" /\ target \in Candidate
      /\ losers \in SUBSET Candidate /\ prose \in Prose
      /\ candidate \in [Candidate -> CandidateRow]
  BY InHand, IngestAssumption
     DEF CommitProse, At, Decided, Targeted, IInv, Types, RowsType
<1>2. /\ own \in [Candidate -> CandidateRow] /\ recorded \in [Candidate -> CandidateRow]
      /\ \A c \in Candidate :
            /\ own[c].article = candidate[c].article /\ own[c].status = candidate[c].status
            /\ recorded[c].article = candidate[c].article
            /\ recorded[c].status = candidate[c].status
            /\ own[c].key = candidate[c].key /\ recorded[c].key = candidate[c].key
  <2> HIDE DEF prose, target, winner
  <2> QED BY <1>1, RecordedRows
<1>3. CASE run[w].decision.review
  <2> DEFINE row == IfUnlinked(own[target], [own[target] EXCEPT !.status = "NEEDS_REVIEW"])
  <2>1. /\ candidate' = [own EXCEPT ![target] =
                            IfUnlinked(@, [@ EXCEPT !.status = "NEEDS_REVIEW"])]
        /\ Return(w)
    BY <1>3 DEF CommitProse
  <2>2. \A v \in Worker : Undecided(v)
    BY <2>1, ReturnedRun
  <2> HIDE DEF own, target
  <2>3. candidate' = [own EXCEPT ![target] = row]
    BY <2>1
  <2>4. /\ row.article = candidate[target].article /\ row.key = candidate[target].key
        /\ row.article # None => row.status = candidate[target].status
    <3> DEFINE parked == [own[target] EXCEPT !.status = "NEEDS_REVIEW"]
    <3>1. own[target] \in CandidateRow
      BY <1>1, <1>2
    <3>2. parked.article = own[target].article /\ parked.key = own[target].key
      BY <3>1 DEF CandidateRow
    <3> HIDE DEF parked
    <3> QED BY <1>1, <1>2, <3>1, <3>2 DEF IfUnlinked, parked
  <2> HIDE DEF row
  <2>5. \A c \in Candidate : Harmless(c)
    BY <1>1, <1>2, <2>3, <2>4 DEF Harmless
  <2> QED BY <2>2, <2>5, HarmlessStep
<1>4. CASE ~run[w].decision.review
  <2>1. /\ candidate' = [c \in Candidate |->
                IF c \in losers THEN Folded(recorded[c]) ELSE recorded[c]]
        /\ Goto(w, IF target \in losers THEN "electing" ELSE "saving")
    BY <1>4 DEF CommitProse
  <2>2. \A v \in Worker : Undecided(v)
    BY <2>1, ReturnedRun DEF Step, Decided
  <2>3. \A d \in losers : ~HasArticle(d)
    BY <1>1, <1>4 DEF Known, Folds, Decided, Unlinked
  <2> HIDE DEF losers, recorded
  <2>4. ASSUME NEW c \in Candidate PROVE Harmless(c)
    <3>1. recorded[c] \in CandidateRow
      BY <1>2
    <3>2. Folded(recorded[c]).article = recorded[c].article /\ Folded(recorded[c]).key = None
      BY <3>1 DEF CandidateRow, Folded
    <3>3. CASE c \in losers
      BY <1>2, <2>1, <2>3, <3>2, <3>3 DEF Harmless, HasArticle
    <3>4. CASE c \notin losers
      BY <1>2, <2>1, <3>4 DEF Harmless
    <3> QED BY <3>3, <3>4
  <2> QED BY <2>2, <2>4, HarmlessStep
<1> QED BY <1>3, <1>4

\* A save links its own candidate, and with one worker no other run has decided.
LEMMA SavingKnown ==
    ASSUME IInv, Known, OneAtATime, NEW w \in Worker, CommitSave(w) \/ Converge(w)
    PROVE  Known'
<1> DEFINE c == run[w].target
           url == FinalUrl[Ours(w)]
           prose == ProseOf[Ours(w)]
<1>1. /\ c \in Candidate /\ candidate \in [Candidate -> CandidateRow]
      /\ url \in Url /\ prose \in Prose /\ \A v \in Worker : v = w
  BY InHand, IngestAssumption
     DEF CommitSave, Converge, At, Targeted, OneAtATime, IInv, Types, RowsType
<1>2. CASE UNCHANGED candidate /\ (Return(w) \/ Goto(w, "converging") \/ Goto(w, "saving"))
  BY <1>2, ReturnedRun, RowsStay DEF Step, Decided
<1>3. CASE candidate' = [candidate EXCEPT ![c] = Linked(candidate[c], url, prose)] /\ Return(w)
  <2>1. \A v \in Worker : Undecided(v)
    BY <1>3, ReturnedRun
  <2>2. run'[w].step = "done"
    <3>1. run \in [Worker -> RunState]
          /\ [Idle EXCEPT !.step = "done", !.job = run[w].job].step = "done"
      BY DEF IInv, Types, Runs, Idle
    <3> QED BY <1>3, <3>1 DEF Return
  <2> DEFINE row == Linked(candidate[c], url, prose)
  <2>3. row.status = "INGESTED" /\ row.key = candidate[c].key
    BY <1>1 DEF Linked, CandidateRow
  <2>4. candidate' = [candidate EXCEPT ![c] = row]
    BY <1>3
  <2> HIDE DEF row, url, prose
  <2>5. \A d \in Candidate : /\ candidate'[d].key = candidate[d].key
                             /\ d # c => candidate'[d] = candidate[d]
                             /\ d = c => candidate'[d].status = "INGESTED"
    BY <1>1, <2>3, <2>4
  <2>6. IngestedRows' /\ UniqueKeys'
    BY <2>5 DEF Known, IngestedRows, UniqueKeys, HasArticle
  <2> QED BY <1>1, <2>2, <2>6 DEF Known, Folds, Decided
<1>4. \/ UNCHANGED candidate /\ (Return(w) \/ Goto(w, "converging") \/ Goto(w, "saving"))
      \/ candidate' = [candidate EXCEPT ![c] = Linked(candidate[c], url, prose)] /\ Return(w)
  BY DEF CommitSave, Converge
<1> QED BY <1>2, <1>3, <1>4

\* The steps that write a row without an Article, or leave its link alone.
LEMMA OtherRunSteps ==
    ASSUME IInv, Known, NEW w \in Worker, FetchFails(w) \/ RouteToReview(w)
    PROVE  Known'
<1> DEFINE c == Ours(w)
<1>1. /\ c \in Candidate /\ candidate \in [Candidate -> CandidateRow]
      /\ candidate[c] \in CandidateRow
  BY InHand DEF FetchFails, RouteToReview, At, IInv, Types, RowsType
<1>2. \A v \in Worker : Undecided(v)
  BY ReturnedRun DEF FetchFails, RouteToReview
<1>3. PICK row : /\ row.article = candidate[c].article /\ row.key = candidate[c].key
                 /\ \/ UNCHANGED candidate
                    \/ ~HasArticle(c) /\ candidate' = [candidate EXCEPT ![c] = row]
  <2>1. CASE FetchFails(w)
    <3>1. PICK disposition \in {"terminal", "quarantine", "retry"} :
            candidate' = IF Open(c)
                         THEN [candidate EXCEPT ![c] = Recovered(candidate[c], disposition)]
                         ELSE candidate
      BY <2>1 DEF FetchFails, Disposition
    <3> DEFINE row == Recovered(candidate[c], disposition)
    <3>2. row.article = candidate[c].article /\ row.key = candidate[c].key
      <4> DEFINE tried == [candidate[c] EXCEPT !.version = 1]
      <4>1. 1 \in 0 .. MaxVersion
        BY IngestAssumption
      <4>2. /\ tried \in CandidateRow /\ tried.article = candidate[c].article
            /\ tried.key = candidate[c].key
        BY <1>1, <4>1 DEF CandidateRow
      <4>3. row = CASE disposition = "retry" -> [tried EXCEPT !.attempts = @ + 1]
                    [] disposition = "terminal" -> [tried EXCEPT !.status = "REJECTED"]
                    [] disposition = "quarantine" ->
                          [tried EXCEPT !.status = "QUARANTINED", !.attempts = @ + 1]
        BY DEF Recovered
      <4> HIDE DEF tried, row
      <4> QED BY <4>2, <4>3 DEF CandidateRow
    <3> HIDE DEF row
    <3> QED BY <3>1, <3>2 DEF Open, row
  <2>2. CASE RouteToReview(w)
    <3> DEFINE row == [candidate[c] EXCEPT !.status = "NEEDS_REVIEW"]
    <3>1. row.article = candidate[c].article /\ row.key = candidate[c].key
      BY <1>1 DEF CandidateRow
    <3>2. \/ UNCHANGED candidate
          \/ ~HasArticle(c) /\ candidate' = [candidate EXCEPT ![c] = row]
      BY <2>2 DEF RouteToReview
    <3> HIDE DEF row
    <3> QED BY <3>1, <3>2
  <2> QED BY <2>1, <2>2
<1>4. \A d \in Candidate : Harmless(d)
  BY <1>1, <1>3 DEF Harmless, HasArticle
<1> QED BY <1>2, <1>4, HarmlessStep

LEMMA EnvironmentSteps ==
    ASSUME IInv, Known,
           \/ \E c \in Candidate : Discover(c) \/ RecoverDeleted(c)
           \/ Activate \/ Rollback
           \/ \E url \in Url : DeleteArticle(url)
    PROVE  Known'
<1>1. candidate \in [Candidate -> CandidateRow] /\ run \in [Worker -> RunState]
  BY DEF IInv, Types, RowsType, Runs
<1>2. \A w \in Worker : Undecided(w)
  <2>1. CASE UNCHANGED run
    BY <2>1 DEF Undecided
  <2>2. CASE Rollback
    <3>1. ASSUME NEW w \in Worker PROVE Undecided(w)
      <4> DEFINE marked == [run[w] EXCEPT !.outdated = TRUE]
      <4>1. marked.step = run[w].step /\ marked.decision = run[w].decision
        BY <1>1 DEF RunState
      <4>2. run'[w] = marked \/ run'[w] = run[w]
        BY <2>2 DEF Rollback
      <4> HIDE DEF marked
      <4> QED BY <4>1, <4>2 DEF Undecided
    <3> QED BY <3>1
  <2> QED BY <2>1, <2>2 DEF Discover, RecoverDeleted, Activate, DeleteArticle
<1>3. ASSUME NEW c \in Candidate, Discover(c) PROVE \A d \in Candidate : Harmless(d)
  <2> DEFINE row == [candidate[c] EXCEPT !.status = "DISCOVERED"]
  <2>1. row.article = candidate[c].article /\ row.key = candidate[c].key
    BY <1>1 DEF CandidateRow
  <2>2. candidate' = [candidate EXCEPT ![c] = row] /\ ~HasArticle(c)
    BY <1>3 DEF Discover, Known, IngestedRows
  <2> HIDE DEF row
  <2> QED BY <1>1, <2>1, <2>2 DEF Harmless, HasArticle
<1>4. ASSUME NEW c \in Candidate, RecoverDeleted(c) PROVE \A d \in Candidate : Harmless(d)
  <2> DEFINE version == candidate[c].version + 1
             row == [candidate[c] EXCEPT !.status = "DISCOVERED", !.deleted = FALSE,
                                         !.attempts = 0, !.version = version]
  <2>1. row.article = candidate[c].article /\ row.key = candidate[c].key
    BY <1>1 DEF CandidateRow
  <2>2. candidate' = [candidate EXCEPT ![c] = row] /\ ~HasArticle(c)
    BY <1>1, <1>4 DEF RecoverDeleted, CandidateRow
  <2> HIDE DEF row, version
  <2> QED BY <1>1, <2>1, <2>2 DEF Harmless, HasArticle
<1>5. ASSUME Activate PROVE \A d \in Candidate : Harmless(d)
  <2>1. PICK picked \in SUBSET {c \in Candidate : candidate[c].status = "DISCOVERED"} :
            candidate' = [c \in Candidate |->
                IF c \in picked THEN [candidate[c] EXCEPT !.status = "QUEUED"] ELSE candidate[c]]
    BY <1>5 DEF Activate
  <2>2. ASSUME NEW d \in Candidate PROVE Harmless(d)
    <3> DEFINE row == [candidate[d] EXCEPT !.status = "QUEUED"]
    <3>1. row.article = candidate[d].article /\ row.key = candidate[d].key
      BY <1>1 DEF CandidateRow
    <3>2. \/ candidate'[d] = candidate[d]
          \/ candidate'[d] = row /\ candidate[d].status = "DISCOVERED"
      BY <2>1
    <3>3. candidate[d].status = "DISCOVERED" => ~HasArticle(d)
      BY DEF Known, IngestedRows
    <3> HIDE DEF row
    <3> QED BY <3>1, <3>2, <3>3 DEF Harmless, HasArticle
  <2> QED BY <2>2
<1>6. ASSUME NEW url \in Url, DeleteArticle(url) PROVE \A d \in Candidate : Harmless(d)
  <2>1. ASSUME NEW d \in Candidate PROVE Harmless(d)
    <3> DEFINE row == [candidate[d] EXCEPT !.article = None, !.deleted = TRUE]
    <3>1. row.article = None /\ row.key = candidate[d].key
      BY <1>1 DEF CandidateRow
    <3>2. candidate'[d] = row \/ candidate'[d] = candidate[d]
      BY <1>6 DEF DeleteArticle
    <3> HIDE DEF row
    <3> QED BY <3>1, <3>2 DEF Harmless
  <2> QED BY <2>1
<1>7. CASE Rollback
  BY <1>2, <1>7, RowsStay DEF Rollback
<1> QED BY <1>2, <1>3, <1>4, <1>5, <1>6, <1>7, HarmlessStep

LEMMA KnownStep == OneAtATime /\ IInv /\ Known /\ [Next]_vars => Known'
<1> SUFFICES ASSUME OneAtATime, IInv, Known, [Next]_vars PROVE Known'
  OBVIOUS
<1>1. CASE UNCHANGED vars
  BY <1>1, RowsStay DEF vars, Undecided
<1>2. ASSUME NEW w \in Worker,
             \/ Claim(w) \/ Load(w) \/ FetchFails(w) \/ FetchStops(w) \/ FetchDraft(w)
             \/ RouteToReview(w) \/ ReadIdentity(w) \/ CommitIdentity(w)
             \/ ReadProse(w) \/ CommitProse(w) \/ PickSurvivor(w)
             \/ CheckSave(w) \/ CommitSave(w) \/ Converge(w)
             \/ Throws(w) \/ Completes(w) \/ FailsJob(w) \/ Crashes(w)
      PROVE  Known'
  <2>1. CASE \/ Claim(w) \/ Load(w) \/ FetchStops(w) \/ FetchDraft(w)
             \/ PickSurvivor(w) \/ CheckSave(w)
             \/ Throws(w) \/ Completes(w) \/ FailsJob(w) \/ Crashes(w)
    BY <2>1, QuietSteps
  <2>2. CASE ReadIdentity(w) \/ CommitIdentity(w) \/ ReadProse(w) \/ CommitProse(w)
    BY <2>2, ReadingIdentity, MergingIdentity, ReadingProse, MergingProse
  <2>3. CASE CommitSave(w) \/ Converge(w) \/ FetchFails(w) \/ RouteToReview(w)
    BY <2>3, SavingKnown, OtherRunSteps
  <2> QED BY <1>2, <2>1, <2>2, <2>3
<1>3. CASE \/ \E c \in Candidate : Discover(c) \/ RecoverDeleted(c)
           \/ Activate \/ Rollback
           \/ \E url \in Url : DeleteArticle(url)
  BY <1>3, EnvironmentSteps
<1> QED BY <1>1, <1>2, <1>3 DEF Next

\* While attempts do not overlap, a candidate that has an Article stays ingested
\* until the Article is deleted: a merge makes it the winner, parks the newcomer
\* when there are several, and folds only candidates without one.
THEOREM KnownStaysUntouched ==
    ASSUME OneAtATime
    PROVE  Spec => KnownArticleUntouched
<1>1. Init => Known
  <2> SUFFICES ASSUME Init PROVE Known
    OBVIOUS
  <2>1. \A c \in Candidate : candidate[c].article = None /\ candidate[c].key = None
    BY DEF Init, Undiscovered
  <2>2. \A w \in Worker : run[w].step = "idle"
    BY DEF Init, Idle
  <2> QED BY <2>1, <2>2 DEF Known, IngestedRows, UniqueKeys, HasArticle, Folds, Decided
<1>2. Known' =>
        [\A c \in Candidate : HasArticle(c) /\ candidate'[c].article # None
                              => candidate'[c].status = "INGESTED"]_vars
  BY DEF Known, IngestedRows, HasArticle
<1>3. IInv /\ Known /\ [Next]_vars => Known'
  BY KnownStep
<1>4. IInv /\ Known /\ [Next]_vars =>
        [\A c \in Candidate : HasArticle(c) /\ candidate'[c].article # None
                              => candidate'[c].status = "INGESTED"]_vars
  BY <1>2, <1>3
<1> QED BY <1>1, <1>3, <1>4, Invariance, PTL DEF Spec, KnownArticleUntouched

-----------------------------------------------------------------------------
(* One Article per identity                                                 *)
(*                                                                          *)
(* Identity is the prose here: one canonical key stands for one text. What  *)
(* the rows record of a candidate is its own, and a run that is about to save *)
(* has seen every candidate with the prose: it saves nothing if one of them *)
(* has an Article. Readmissions while it does so would invalidate what it saw. *)

\* Pages with one canonical key have one text.
OneText == \A c, d \in Candidate : CanonicalKey[c] = CanonicalKey[d] => ProseOf[c] = ProseOf[d]

Text(w) == ProseOf[Ours(w)]

\* A candidate that a save may link.
Free(c) == ~HasArticle(c) /\ candidate[c].status \notin ResolvedTerminal

Taken(prose) == \E d \in Candidate : HasArticle(d) /\ ProseOf[d] = prose

\* What a row records is the candidate's own, and the prose of one with an Article is.
OwnRow(c) ==
    /\ candidate[c].key \in {None, CanonicalKey[c]}
    /\ candidate[c].prose \in {None, ProseOf[c]}
    /\ HasArticle(c) => candidate[c].prose = ProseOf[c]

Rows ==
    /\ \A c \in Candidate : OwnRow(c)
    /\ \A c, d \in Candidate : HasArticle(c) /\ HasArticle(d) /\ ProseOf[c] = ProseOf[d]
                               => candidate[c].article = candidate[d].article

\* Whoever a run has chosen is of its identity.
SameText(w) ==
    /\ run[w].step \in Targeted => ProseOf[run[w].target] = Text(w)
    /\ run[w].step = "merging" => CanonicalKey[run[w].decision.winner] = CanonicalKey[Ours(w)]
    /\ run[w].step = "matching" => ProseOf[run[w].decision.winner] = Text(w)

Chosen(w) == run[w].decision.losers \cup {run[w].decision.winner}

\* A match names every candidate with the prose that is not folded or rejected.
Matched(w) ==
    run[w].step = "matching" /\ ~run[w].decision.review =>
        /\ run[w].target \in Chosen(w)
        /\ \A d \in Candidate :
             candidate[d].prose = Text(w) /\ candidate[d].status \notin {"DUPLICATE_ALIAS", "REJECTED"}
             => d \in Chosen(w)

\* After it, a candidate that could still be saved is one of an identity without
\* an Article.
Elected(w) ==
    run[w].step = "electing" =>
        /\ ~Free(run[w].target)
        /\ \A d \in Candidate : Free(d) /\ candidate[d].prose = Text(w) => ~Taken(Text(w))

Saves(w) ==
    run[w].step \in {"saving", "checked", "converging"} /\ Free(run[w].target) => ~Taken(Text(w))

Sole == Rows /\ \A w \in Worker : SameText(w) /\ Matched(w) /\ Elected(w) /\ Saves(w)

-----------------------------------------------------------------------------
(* Steps that keep what the run has seen                                    *)

\* A step that may take a link or a key from a candidate, and gives it neither.
Kept(c) ==
    /\ candidate'[c].key \in {candidate[c].key, None}
    /\ candidate'[c].article \in {candidate[c].article, None}
    /\ candidate'[c].prose = candidate[c].prose

\* One that does not bring a candidate back, either.
Calm(c) ==
    /\ Kept(c)
    /\ Free(c)' => Free(c)
    /\ candidate[c].status \in {"DUPLICATE_ALIAS", "REJECTED"} =>
         candidate'[c].status \in {"DUPLICATE_ALIAS", "REJECTED"}

Same(w) ==
    /\ run'[w].step = run[w].step /\ run'[w].job = run[w].job
    /\ run'[w].target = run[w].target /\ run'[w].decision = run[w].decision

LEMMA RowsKept ==
    ASSUME Rows, \A c \in Candidate : Kept(c)
    PROVE  Rows'
<1>1. \A c \in Candidate : HasArticle(c)' => HasArticle(c) /\ candidate'[c].article = candidate[c].article
  BY DEF Kept, HasArticle
<1>2. ASSUME NEW c \in Candidate PROVE OwnRow(c)'
  BY <1>1 DEF Rows, OwnRow, Kept
<1>3. ASSUME NEW c \in Candidate, NEW d \in Candidate,
             HasArticle(c)', HasArticle(d)', ProseOf[c] = ProseOf[d]
      PROVE  candidate'[c].article = candidate'[d].article
  BY <1>1, <1>3 DEF Rows
<1> QED BY <1>2, <1>3 DEF Rows

\* A run that has no candidate in hand but its own.
LEMMA Uncommitted ==
    ASSUME OneAtATime, NEW w \in Worker, Rows', run'[w].step \notin Targeted \cup Decided
    PROVE  Sole'
<1>1. \A v \in Worker : v = w
  BY DEF OneAtATime
<1>2. (SameText(w) /\ Matched(w) /\ Elected(w) /\ Saves(w))'
  BY DEF SameText, Matched, Elected, Saves, Targeted, Decided
<1> QED BY <1>1, <1>2 DEF Sole

\* The runs go on as they were, while nothing comes back.
LEMMA CalmStep ==
    ASSUME IInv, Sole, \A c \in Candidate : Calm(c), \A w \in Worker : Same(w)
    PROVE  Sole'
<1>1. Rows'
  BY RowsKept DEF Sole, Calm
<1>2. ASSUME NEW w \in Worker PROVE (SameText(w) /\ Matched(w) /\ Elected(w) /\ Saves(w))'
  <2>1. SameText(w) /\ Matched(w) /\ Elected(w) /\ Saves(w) /\ Same(w) /\ Text(w)' = Text(w)
    BY DEF Sole, Same, Text, Ours
  <2>2. \A d \in Candidate : /\ Free(d)' => Free(d)
                             /\ HasArticle(d)' => HasArticle(d)
                             /\ candidate'[d].prose = candidate[d].prose
    BY DEF Calm, Kept, HasArticle
  <2>3. Taken(Text(w))' => Taken(Text(w))
    BY <2>1, <2>2 DEF Taken
  <2>4. run[w].step \in Targeted => run[w].target \in Candidate
    BY DEF IInv, Types, Runs, RunIs
  <2>5. SameText(w)'
    BY <2>1 DEF SameText, Same, Ours
  <2>6. Matched(w)'
    BY <2>1 DEF Matched, Same, Chosen, Calm, Kept
  <2>7. Elected(w)'
    BY <2>1, <2>2, <2>3, <2>4 DEF Elected, Same, Targeted
  <2>8. Saves(w)'
    BY <2>1, <2>2, <2>3, <2>4 DEF Saves, Same, Targeted
  <2> QED BY <2>5, <2>6, <2>7, <2>8
<1> QED BY <1>1, <1>2 DEF Sole

\* A readmission, between two attempts.
LEMMA Readmission ==
    ASSUME IInv, Known, Sole, NEW c \in Candidate, RecoverDeleted(c), Undisturbed
    PROVE  Sole'
<1> DEFINE version == candidate[c].version + 1
           row == [candidate[c] EXCEPT !.status = "DISCOVERED", !.deleted = FALSE,
                                       !.attempts = 0, !.version = version]
<1>1. candidate \in [Candidate -> CandidateRow]
  BY DEF IInv, Types, RowsType
<1>2. row.article = candidate[c].article /\ row.key = candidate[c].key /\ row.prose = candidate[c].prose
  BY <1>1 DEF CandidateRow
<1>3. candidate' = [candidate EXCEPT ![c] = row] /\ UNCHANGED run
  BY <1>1 DEF RecoverDeleted, CandidateRow
<1> HIDE DEF row, version
<1>4. Rows'
  BY <1>1, <1>2, <1>3, RowsKept DEF Sole, Kept
<1>5. \A w \in Worker : run[w].step \notin Settling
  BY DEF Undisturbed
<1>6. ASSUME NEW w \in Worker PROVE (SameText(w) /\ Matched(w) /\ Elected(w) /\ Saves(w))'
  <2>1. SameText(w)'
    BY <1>3 DEF Sole, SameText, Text, Ours
  <2> QED BY <1>3, <1>5, <2>1 DEF Matched, Elected, Saves, Settling
<1> QED BY <1>4, <1>6 DEF Sole

LEMMA CalmEnvironment ==
    ASSUME IInv, Known, Sole,
           \/ \E c \in Candidate : Discover(c)
           \/ Activate \/ Rollback
           \/ \E url \in Url : DeleteArticle(url)
    PROVE  Sole'
<1>1. candidate \in [Candidate -> CandidateRow] /\ run \in [Worker -> RunState]
  BY DEF IInv, Types, RowsType, Runs
<1>2. \A w \in Worker : Same(w)
  <2>1. CASE UNCHANGED run
    BY <2>1 DEF Same
  <2>2. CASE Rollback
    <3>1. ASSUME NEW w \in Worker PROVE Same(w)
      <4> DEFINE marked == [run[w] EXCEPT !.outdated = TRUE]
      <4>1. /\ marked.step = run[w].step /\ marked.decision = run[w].decision
            /\ marked.job = run[w].job /\ marked.target = run[w].target
        BY <1>1 DEF RunState
      <4>2. run'[w] = marked \/ run'[w] = run[w]
        BY <2>2 DEF Rollback
      <4> HIDE DEF marked
      <4> QED BY <4>1, <4>2 DEF Same
    <3> QED BY <3>1
  <2> QED BY <2>1, <2>2 DEF Discover, Activate, DeleteArticle
<1>3. ASSUME NEW c \in Candidate, Discover(c) PROVE \A d \in Candidate : Calm(d)
  <2> DEFINE row == [candidate[c] EXCEPT !.status = "DISCOVERED"]
  <2>1. /\ row.article = candidate[c].article /\ row.key = candidate[c].key
        /\ row.prose = candidate[c].prose /\ row.status = "DISCOVERED"
    BY <1>1 DEF CandidateRow
  <2>2. candidate' = [candidate EXCEPT ![c] = row] /\ candidate[c].status = "absent"
    BY <1>3 DEF Discover
  <2> HIDE DEF row
  <2> QED BY <1>1, <2>1, <2>2 DEF Calm, Kept, Free, HasArticle, ResolvedTerminal
<1>4. ASSUME Activate PROVE \A d \in Candidate : Calm(d)
  <2>1. PICK picked \in SUBSET {c \in Candidate : candidate[c].status = "DISCOVERED"} :
            candidate' = [c \in Candidate |->
                IF c \in picked THEN [candidate[c] EXCEPT !.status = "QUEUED"] ELSE candidate[c]]
    BY <1>4 DEF Activate
  <2>2. ASSUME NEW d \in Candidate PROVE Calm(d)
    <3> DEFINE row == [candidate[d] EXCEPT !.status = "QUEUED"]
    <3>1. /\ row.article = candidate[d].article /\ row.key = candidate[d].key
          /\ row.prose = candidate[d].prose /\ row.status = "QUEUED"
      BY <1>1 DEF CandidateRow
    <3>2. \/ candidate'[d] = candidate[d]
          \/ candidate'[d] = row /\ candidate[d].status = "DISCOVERED"
      BY <2>1
    <3> HIDE DEF row
    <3> QED BY <3>1, <3>2 DEF Calm, Kept, Free, HasArticle, ResolvedTerminal
  <2> QED BY <2>2
<1>5. ASSUME NEW url \in Url, DeleteArticle(url) PROVE \A d \in Candidate : Calm(d)
  <2>1. ASSUME NEW d \in Candidate PROVE Calm(d)
    <3> DEFINE row == [candidate[d] EXCEPT !.article = None, !.deleted = TRUE]
    <3>1. /\ row.article = None /\ row.key = candidate[d].key
          /\ row.prose = candidate[d].prose /\ row.status = candidate[d].status
      BY <1>1 DEF CandidateRow
    <3>2. (candidate'[d] = row /\ HasArticle(d)) \/ candidate'[d] = candidate[d]
      BY <1>5, IngestAssumption DEF DeleteArticle, HasArticle
    <3>3. HasArticle(d) => candidate[d].status = "INGESTED"
      BY DEF Known, IngestedRows
    <3> HIDE DEF row
    <3> QED BY <3>1, <3>2, <3>3 DEF Calm, Kept, Free, HasArticle, ResolvedTerminal
  <2> QED BY <2>1
<1>6. Rollback => \A d \in Candidate : Calm(d)
  BY DEF Rollback, Calm, Kept, Free, HasArticle
<1> QED BY <1>2, <1>3, <1>4, <1>5, <1>6, CalmStep

-----------------------------------------------------------------------------
(* The steps of the run itself                                              *)

\* Steps that leave the run with nothing but its own candidate.
LEMMA LetGo ==
    ASSUME IInv, NEW w \in Worker,
           \/ Return(w) \/ (\E permanent : Fail(w, permanent))
           \/ run' = [run EXCEPT ![w] = Idle]
           \/ Goto(w, "fetched")
    PROVE  run'[w].step \notin Targeted \cup Decided
<1>1. run \in [Worker -> RunState] /\ Idle.step = "idle"
  BY DEF IInv, Types, Runs, Idle
<1>2. \A permanent :
        /\ [Idle EXCEPT !.step = "done", !.job = run[w].job].step = "done"
        /\ [Idle EXCEPT !.step = "failing", !.job = run[w].job, !.permanent = permanent].step
               = "failing"
  BY DEF Idle
<1>3. Goto(w, "fetched") => run'[w].step = "fetched"
  BY <1>1 DEF Goto, RunState
<1> QED BY <1>1, <1>2, <1>3 DEF Return, Fail, Targeted, Decided

LEMMA Gone ==
    ASSUME IInv, NEW w \in Worker, NEW step \in Step, Goto(w, step)
    PROVE  /\ run'[w].step = step /\ run'[w].job = run[w].job
           /\ run'[w].target = run[w].target
BY DEF Goto, IInv, Types, Runs, RunState

LEMMA QuietlySole ==
    ASSUME OneAtATime, IInv, Known, Sole, NEW w \in Worker,
           \/ Claim(w) \/ Load(w) \/ FetchStops(w) \/ FetchDraft(w)
           \/ Throws(w) \/ Completes(w) \/ FailsJob(w) \/ Crashes(w)
    PROVE  Sole'
<1>1. UNCHANGED candidate /\ run \in [Worker -> RunState]
  BY DEF Claim, Load, FetchStops, FetchDraft, Throws, Completes, FailsJob, Crashes,
         IInv, Types, Runs
<1>2. Rows'
  BY <1>1, RowsKept DEF Sole, Kept
<1>3. run'[w].step \notin Targeted \cup Decided
  <2>1. CASE FetchStops(w) \/ Throws(w) \/ Completes(w) \/ FailsJob(w) \/ Crashes(w)
    BY <2>1, LetGo DEF FetchStops, Throws, Completes, FailsJob, Crashes
  <2>2. CASE Claim(w)
    <3>1. PICK j : run' = [run EXCEPT ![w] = [Idle EXCEPT !.step = "claimed", !.job = j]]
      BY <2>2 DEF Claim
    <3>2. [Idle EXCEPT !.step = "claimed", !.job = j].step = "claimed"
      BY DEF Idle
    <3> QED BY <1>1, <3>1, <3>2 DEF Targeted, Decided
  <2>3. CASE Load(w)
    BY <1>1, <2>3, LetGo DEF Load, RunState, Targeted, Decided
  <2>4. CASE FetchDraft(w)
    BY <1>1, <2>4, LetGo DEF FetchDraft, RunState, Targeted, Decided
  <2> QED BY <2>1, <2>2, <2>3, <2>4
<1> QED BY <1>2, <1>3, Uncommitted

LEMMA SettlesOwn ==
    ASSUME OneAtATime, IInv, Known, Sole, NEW w \in Worker, FetchFails(w) \/ RouteToReview(w)
    PROVE  Sole'
<1> DEFINE c == Ours(w)
<1>1. /\ c \in Candidate /\ candidate \in [Candidate -> CandidateRow]
      /\ candidate[c] \in CandidateRow
  BY InHand DEF FetchFails, RouteToReview, At, IInv, Types, RowsType
<1>2. run'[w].step \notin Targeted \cup Decided
  BY LetGo DEF FetchFails, RouteToReview
<1>3. PICK row : /\ row.article = candidate[c].article /\ row.key = candidate[c].key
                 /\ row.prose = candidate[c].prose
                 /\ UNCHANGED candidate \/ candidate' = [candidate EXCEPT ![c] = row]
  <2>1. CASE FetchFails(w)
    <3>1. PICK disposition \in {"terminal", "quarantine", "retry"} :
            candidate' = IF Open(c)
                         THEN [candidate EXCEPT ![c] = Recovered(candidate[c], disposition)]
                         ELSE candidate
      BY <2>1 DEF FetchFails, Disposition
    <3> DEFINE row == Recovered(candidate[c], disposition)
    <3>2. /\ row.article = candidate[c].article /\ row.key = candidate[c].key
          /\ row.prose = candidate[c].prose
      <4> DEFINE tried == [candidate[c] EXCEPT !.version = 1]
      <4>1. 1 \in 0 .. MaxVersion
        BY IngestAssumption
      <4>2. /\ tried \in CandidateRow /\ tried.article = candidate[c].article
            /\ tried.key = candidate[c].key /\ tried.prose = candidate[c].prose
        BY <1>1, <4>1 DEF CandidateRow
      <4>3. row = CASE disposition = "retry" -> [tried EXCEPT !.attempts = @ + 1]
                    [] disposition = "terminal" -> [tried EXCEPT !.status = "REJECTED"]
                    [] disposition = "quarantine" ->
                          [tried EXCEPT !.status = "QUARANTINED", !.attempts = @ + 1]
        BY DEF Recovered
      <4> HIDE DEF tried, row
      <4> QED BY <4>2, <4>3 DEF CandidateRow
    <3> HIDE DEF row
    <3> QED BY <3>1, <3>2 DEF row
  <2>2. CASE RouteToReview(w)
    <3> DEFINE row == [candidate[c] EXCEPT !.status = "NEEDS_REVIEW"]
    <3>1. /\ row.article = candidate[c].article /\ row.key = candidate[c].key
          /\ row.prose = candidate[c].prose
      BY <1>1 DEF CandidateRow
    <3>2. UNCHANGED candidate \/ candidate' = [candidate EXCEPT ![c] = row]
      BY <2>2 DEF RouteToReview
    <3> HIDE DEF row
    <3> QED BY <3>1, <3>2
  <2> QED BY <2>1, <2>2
<1>4. Rows'
  BY <1>1, <1>3, RowsKept DEF Sole, Kept
<1> QED BY <1>2, <1>4, Uncommitted

\* The merge on a key: the target of a run that read no other holder is its own
\* candidate, and a holder of the key is of the identity.
LEMMA IdentitySole ==
    ASSUME OneAtATime, OneText, IInv, Known, Sole, NEW w \in Worker,
           ReadIdentity(w) \/ CommitIdentity(w)
    PROVE  Sole'
<1> DEFINE c == Ours(w)
           key == CanonicalKey[c]
<1>1. /\ c \in Candidate /\ candidate \in [Candidate -> CandidateRow] /\ key \in Key
      /\ key # None /\ run \in [Worker -> RunState] /\ run[w] \in RunState
      /\ \A v \in Worker : v = w
  <2>1. run[w].step \in {"fetched", "merging"}
    BY DEF ReadIdentity, CommitIdentity, At
  <2>2. c \in Candidate /\ run[w] \in RunState
    BY <2>1, InHand
  <2>3. key \in Key /\ key # None
    BY <2>2, IngestAssumption
  <2> QED BY <2>2, <2>3 DEF IInv, Types, RowsType, Runs, OneAtATime
<1>2. ASSUME SameText(w)', Rows', run'[w].step \in {"merged", "merging"} PROVE Sole'
  <2>1. (Matched(w) /\ Elected(w) /\ Saves(w))'
    BY <1>2 DEF Matched, Elected, Saves
  <2> QED BY <1>1, <1>2, <2>1 DEF Sole
<1>3. UNCHANGED candidate => Rows'
  BY RowsKept DEF Sole, Kept
<1>4. ASSUME UNCHANGED candidate, Return(w) \/ Goto(w, "fetched") PROVE Sole'
  BY <1>3, <1>4, LetGo, Uncommitted
<1>5. CASE ReadIdentity(w)
  <2> DEFINE holders == {d \in Candidate : candidate[d].key = key}
             winner == MergeWinner(holders \cup {c})
             losers == (holders \cup {c}) \ {winner}
  <2>1. UNCHANGED candidate /\ run[w].step = "fetched"
    BY <1>5 DEF ReadIdentity, At
  <2>2. CASE run' = [run EXCEPT ![w].step = "merged", ![w].target = c]
    <3>1. run'[w].step = "merged" /\ run'[w].job = run[w].job /\ run'[w].target = c
      BY <1>1, <2>2 DEF RunState
    <3>2. SameText(w)'
      BY <3>1 DEF SameText, Text, Ours
    <3> QED BY <1>2, <1>3, <2>1, <3>1, <3>2
  <2>3. CASE Decide(w, "merging", winner, losers, FALSE)
    <3>1. winner \in holders \cup {c}
      <4>1. holders \cup {c} \in SUBSET Candidate /\ holders \cup {c} # {}
        BY <1>1
      <4> HIDE DEF holders
      <4> QED BY <4>1, Winner
    <3>2. \A d \in holders \cup {c} : CanonicalKey[d] = key
      BY <1>1 DEF Sole, Rows, OwnRow
    <3> HIDE DEF holders, winner, losers
    <3>3. /\ run'[w].step = "merging" /\ run'[w].job = run[w].job
          /\ run'[w].decision.winner = winner
      BY <1>1, <2>3 DEF Decide, RunState
    <3>4. SameText(w)'
      BY <3>1, <3>2, <3>3 DEF SameText, Ours, Targeted
    <3> QED BY <1>2, <1>3, <2>1, <3>3, <3>4
  <2>4. \/ Return(w)
        \/ run' = [run EXCEPT ![w].step = "merged", ![w].target = c]
        \/ Decide(w, "merging", winner, losers, FALSE)
    <3> HIDE DEF winner
    <3> QED BY <1>5 DEF ReadIdentity, winner
  <2> QED BY <1>4, <2>1, <2>2, <2>3, <2>4
<1>6. CASE CommitIdentity(w)
  <2> DEFINE winner == run[w].decision.winner
             losers == run[w].decision.losers
  <2>1. /\ run[w].step = "merging" /\ winner \in Candidate
        /\ CanonicalKey[winner] = key
    BY <1>6, InHand DEF CommitIdentity, At, Decided, Sole, SameText
  <2>2. CASE /\ candidate' = [d \in Candidate |->
                    CASE d = winner -> [candidate[d] EXCEPT !.key = key]
                      [] d \in losers -> Folded(candidate[d])
                      [] OTHER -> candidate[d]]
             /\ run' = [run EXCEPT ![w].step = "merged", ![w].target = winner,
                                   ![w].decision = NoDecision]
    <3>1. winner \notin losers
      BY <2>1 DEF Known, Folds, Decided, Unlinked
    <3>2. ASSUME NEW d \in Candidate
          PROVE  /\ candidate'[d].article = candidate[d].article
                 /\ candidate'[d].prose = candidate[d].prose
                 /\ candidate'[d].key \in {candidate[d].key, None, CanonicalKey[d]}
      <4> DEFINE kept == [candidate[d] EXCEPT !.key = key]
      <4>1. /\ kept.article = candidate[d].article /\ kept.key = key
            /\ kept.prose = candidate[d].prose
            /\ Folded(candidate[d]).article = candidate[d].article
            /\ Folded(candidate[d]).prose = candidate[d].prose
            /\ Folded(candidate[d]).key = None
        BY <1>1 DEF CandidateRow, Folded
      <4>2. /\ d = winner => candidate'[d] = kept
            /\ d \in losers => candidate'[d] = Folded(candidate[d])
            /\ d # winner /\ d \notin losers => candidate'[d] = candidate[d]
        BY <2>2, <3>1
      <4> HIDE DEF losers, kept, key
      <4> QED BY <2>1, <4>1, <4>2
    <3>3. Rows'
      BY <3>2 DEF Sole, Rows, OwnRow, HasArticle
    <3>4. run'[w].step = "merged" /\ run'[w].job = run[w].job /\ run'[w].target = winner
      BY <1>1, <2>2 DEF RunState
    <3>5. ProseOf[winner] = ProseOf[c]
      BY <1>1, <2>1 DEF OneText
    <3>6. SameText(w)'
      BY <3>4, <3>5 DEF SameText, Text, Ours
    <3> QED BY <1>2, <3>3, <3>4, <3>6
  <2> QED BY <1>4, <1>6, <2>2 DEF CommitIdentity
<1> QED BY <1>5, <1>6

\* The match on a prose finds every candidate that has it on record.
LEMMA MatchSole ==
    ASSUME OneAtATime, IInv, Known, Sole, NEW w \in Worker, ReadProse(w)
    PROVE  Sole'
<1> DEFINE c == run[w].target
           prose == ProseOf[Ours(w)]
           matches == {d \in Candidate \ {c} :
                         /\ candidate[d].prose = prose
                         /\ candidate[d].status \notin {"DUPLICATE_ALIAS", "REJECTED"}}
           winner == MergeWinner(matches \cup {c})
           losers == (matches \cup {c}) \ {winner}
           review == Cardinality({d \in matches \cup {c} : HasArticle(d)}) > 1
<1>1. /\ run[w].step = "merged" /\ c \in Candidate /\ UNCHANGED candidate
      /\ run \in [Worker -> RunState] /\ \A v \in Worker : v = w
      /\ prose \in Prose /\ prose # None /\ ProseOf[c] = prose
  BY InHand, IngestAssumption
     DEF ReadProse, At, Targeted, IInv, Types, Runs, OneAtATime, Sole, SameText, Text
<1>2. Rows'
  BY <1>1, RowsKept DEF Sole, Kept
<1>3. ASSUME HasArticle(c) \/ candidate[c].status \in ResolvedTerminal, Goto(w, "saving")
      PROVE  Sole'
  <2>1. /\ run'[w].step = "saving" /\ run'[w].job = run[w].job
        /\ run'[w].target = c
    BY <1>3, Gone DEF Step
  <2>2. (SameText(w) /\ Matched(w) /\ Elected(w))'
    BY <1>1, <2>1 DEF SameText, Matched, Elected, Text, Ours
  <2>3. Saves(w)'
    BY <1>1, <1>3, <2>1 DEF Saves, Free, HasArticle
  <2> QED BY <1>1, <1>2, <2>2, <2>3 DEF Sole
<1>4. CASE Decide(w, "matching", winner, losers, review)
  <2>1. winner \in matches \cup {c} /\ losers \cup {winner} = matches \cup {c}
    <3>1. matches \cup {c} \in SUBSET Candidate /\ matches \cup {c} # {}
      BY <1>1
    <3> HIDE DEF matches
    <3> QED BY <3>1, Winner
  <2>2. \A d \in matches \cup {c} : ProseOf[d] = prose
    BY <1>1 DEF Sole, Rows, OwnRow
  <2>3. \A d \in Candidate :
            candidate[d].prose = prose /\ candidate[d].status \notin {"DUPLICATE_ALIAS", "REJECTED"}
            => d \in matches \cup {c}
    OBVIOUS
  <2> HIDE DEF matches, winner, losers, review
  <2>4. /\ run'[w].step = "matching" /\ run'[w].job = run[w].job /\ run'[w].target = c
        /\ run'[w].decision.winner = winner /\ run'[w].decision.losers = losers
    BY <1>1, <1>4 DEF Decide, RunState
  <2>5. SameText(w)'
    BY <1>1, <2>1, <2>2, <2>4 DEF SameText, Text, Ours
  <2>6. Matched(w)'
    BY <1>1, <2>1, <2>3, <2>4 DEF Matched, Chosen, Text, Ours
  <2>7. (Elected(w) /\ Saves(w))'
    BY <2>4 DEF Elected, Saves
  <2> QED BY <1>1, <1>2, <2>5, <2>6, <2>7 DEF Sole
<1>5. \/ /\ HasArticle(c) \/ candidate[c].status \in ResolvedTerminal
         /\ Goto(w, "saving")
      \/ Decide(w, "matching", winner, losers, review)
  <2> HIDE DEF winner, review
  <2> QED BY DEF ReadProse, winner, review
<1> QED BY <1>3, <1>4, <1>5

\* Recording a prose writes nothing else, and leaves a candidate with an Article alone.
LEMMA RecordedProse ==
    ASSUME NEW rows \in [Candidate -> CandidateRow], NEW cs, NEW prose \in Prose,
           NEW c \in Candidate
    PROVE  /\ c \in cs /\ rows[c].article = None => Recorded(rows, cs, prose)[c].prose = prose
           /\ c \notin cs \/ rows[c].article # None =>
                Recorded(rows, cs, prose)[c].prose = rows[c].prose
<1> DEFINE new == [rows[c] EXCEPT !.prose = prose]
<1>1. rows[c] \in CandidateRow
  OBVIOUS
<1>2. new.prose = prose
  BY <1>1 DEF CandidateRow
<1>3. Recorded(rows, cs, prose)[c] =
         IF c \in cs THEN IF rows[c].article = None THEN new ELSE rows[c] ELSE rows[c]
  BY DEF Recorded, IfUnlinked
<1> HIDE DEF new
<1> QED BY <1>2, <1>3

\* The merge on a prose. Whoever has an Article of this prose has it on record, so
\* the match named it; it is not folded, so it is the winner.
LEMMA MergeSole ==
    ASSUME OneAtATime, IInv, Known, Sole, NEW w \in Worker, CommitProse(w)
    PROVE  Sole'
<1> DEFINE target == run[w].target
           winner == run[w].decision.winner
           losers == run[w].decision.losers
           prose == ProseOf[Ours(w)]
           own == Recorded(candidate, {target}, prose)
           recorded == Recorded(candidate, {target, winner}, prose)
<1>1. /\ run[w].step = "matching" /\ target \in Candidate /\ winner \in Candidate
      /\ losers \in SUBSET Candidate /\ prose \in Prose /\ Text(w) = prose
      /\ candidate \in [Candidate -> CandidateRow]
  BY InHand, IngestAssumption
     DEF CommitProse, At, Decided, Targeted, IInv, Types, RowsType, Text
<1>2. ProseOf[target] = prose /\ ProseOf[winner] = prose
  BY <1>1 DEF Sole, SameText, Targeted
<1>3. ASSUME NEW c \in Candidate
      PROVE  /\ own[c].article = candidate[c].article /\ own[c].status = candidate[c].status
             /\ recorded[c].article = candidate[c].article
             /\ recorded[c].status = candidate[c].status
             /\ own[c].key = candidate[c].key /\ recorded[c].key = candidate[c].key
             /\ own[c] \in CandidateRow /\ recorded[c] \in CandidateRow
  <2> HIDE DEF prose, target, winner
  <2> QED BY <1>1, RecordedRows
<1>4. ASSUME NEW c \in Candidate
      PROVE  /\ own[c].prose = candidate[c].prose \/ (~HasArticle(c) /\ own[c].prose = ProseOf[c])
             /\ \/ recorded[c].prose = candidate[c].prose
                \/ ~HasArticle(c) /\ recorded[c].prose = ProseOf[c] /\ c \in {target, winner}
  <2>1. /\ c \in {target} /\ candidate[c].article = None => own[c].prose = prose
        /\ c \notin {target} \/ candidate[c].article # None => own[c].prose = candidate[c].prose
    <3> HIDE DEF prose, target
    <3> QED BY <1>1, RecordedProse
  <2>2. /\ c \in {target, winner} /\ candidate[c].article = None => recorded[c].prose = prose
        /\ c \notin {target, winner} \/ candidate[c].article # None =>
             recorded[c].prose = candidate[c].prose
    <3> HIDE DEF prose, target, winner
    <3> QED BY <1>1, RecordedProse
  <2> HIDE DEF own, recorded, prose, target, winner
  <2> QED BY <1>2, <2>1, <2>2 DEF HasArticle
<1>5. ASSUME \A c \in Candidate :
               /\ candidate'[c].article = candidate[c].article
               /\ candidate'[c].key \in {candidate[c].key, None}
               /\ \/ candidate'[c].prose = candidate[c].prose
                  \/ ~HasArticle(c) /\ candidate'[c].prose = ProseOf[c]
      PROVE  Rows'
  BY <1>5 DEF Sole, Rows, OwnRow, HasArticle
<1>6. CASE run[w].decision.review
  <2> DEFINE parked == [own[target] EXCEPT !.status = "NEEDS_REVIEW"]
             row == IfUnlinked(own[target], parked)
  <2>1. /\ candidate' = [own EXCEPT ![target] =
                            IfUnlinked(@, [@ EXCEPT !.status = "NEEDS_REVIEW"])]
        /\ Return(w)
    BY <1>6 DEF CommitProse
  <2>2. own \in [Candidate -> CandidateRow]
    <3> HIDE DEF prose, target
    <3> QED BY <1>1, RecordedRows
  <2>3. parked.article = own[target].article /\ parked.key = own[target].key
        /\ parked.prose = own[target].prose
    BY <1>1, <1>3 DEF CandidateRow
  <2>4. candidate' = [own EXCEPT ![target] = row]
    BY <2>1
  <2> HIDE DEF own, target, parked, prose, winner
  <2>5. row.article = own[target].article /\ row.key = own[target].key
        /\ row.prose = own[target].prose
    BY <2>3 DEF IfUnlinked
  <2> HIDE DEF row
  <2>6. ASSUME NEW c \in Candidate
        PROVE  /\ candidate'[c].article = own[c].article /\ candidate'[c].key = own[c].key
               /\ candidate'[c].prose = own[c].prose
    BY <2>2, <2>4, <2>5
  <2>7. Rows'
    BY <1>3, <1>4, <1>5, <2>6
  <2> QED BY <2>1, <2>7, LetGo, Uncommitted
<1>7. CASE ~run[w].decision.review
  <2>1. /\ candidate' = [c \in Candidate |->
                IF c \in losers THEN Folded(recorded[c]) ELSE recorded[c]]
        /\ Goto(w, IF target \in losers THEN "electing" ELSE "saving")
    BY <1>7 DEF CommitProse
  <2>2. /\ run'[w].step = IF target \in losers THEN "electing" ELSE "saving"
        /\ run'[w].job = run[w].job /\ run'[w].target = target
    BY <2>1, Gone DEF Step
  <2>3. Text(w)' = prose
    BY <2>2 DEF Text, Ours
  <2>4. /\ \A d \in losers : ~HasArticle(d)
        /\ target \in losers \cup {winner}
        /\ \A d \in Candidate :
             candidate[d].prose = prose /\ candidate[d].status \notin {"DUPLICATE_ALIAS", "REJECTED"}
             => d \in losers \cup {winner}
    BY <1>1, <1>7 DEF Known, Folds, Decided, Unlinked, Sole, Matched, Chosen
  <2> HIDE DEF losers, recorded, own, target, winner, prose
  <2>5. ASSUME NEW c \in Candidate
        PROVE  /\ candidate'[c].article = recorded[c].article
               /\ candidate'[c].prose = recorded[c].prose
               /\ candidate'[c].key \in {recorded[c].key, None}
               /\ c \in losers => candidate'[c].status = "DUPLICATE_ALIAS"
               /\ c \notin losers => candidate'[c].status = recorded[c].status
    <3> DEFINE fold == Folded(recorded[c])
    <3>1. /\ fold.article = recorded[c].article /\ fold.prose = recorded[c].prose
          /\ fold.key = None /\ fold.status = "DUPLICATE_ALIAS"
      BY <1>3 DEF CandidateRow, Folded
    <3>2. candidate'[c] = IF c \in losers THEN fold ELSE recorded[c]
      BY <2>1
    <3> HIDE DEF fold
    <3> QED BY <3>1, <3>2
  <2>6. Rows'
    BY <1>3, <1>4, <1>5, <2>5
  <2>7. ASSUME NEW d \in Candidate
        PROVE  /\ HasArticle(d)' <=> HasArticle(d)
               /\ Free(d)' => Free(d) /\ d \notin losers
    BY <1>3, <2>5 DEF HasArticle, Free, ResolvedTerminal
  <2>8. ASSUME NEW e \in Candidate, HasArticle(e), ProseOf[e] = prose
        PROVE  e = winner
    <3>1. candidate[e].prose = prose /\ candidate[e].status = "INGESTED"
      BY <2>8 DEF Sole, Rows, OwnRow, Known, IngestedRows
    <3> QED BY <2>4, <2>8, <3>1
  <2>9. ASSUME NEW d \in Candidate, Free(d)', candidate'[d].prose = prose
        PROVE  d = winner
    <3>1. Free(d) /\ d \notin losers
      BY <2>7, <2>9
    <3>2. d \in {target, winner} \/ candidate[d].prose = prose
      BY <1>4, <2>5, <2>9
    <3>3. candidate[d].status \notin {"DUPLICATE_ALIAS", "REJECTED"}
      BY <3>1 DEF Free, ResolvedTerminal
    <3> QED BY <2>4, <3>1, <3>2, <3>3
  <2>10. ASSUME NEW d \in Candidate, d = winner, Free(d)' PROVE ~Taken(Text(w))'
    <3>1. ~HasArticle(d)
      BY <2>7, <2>10 DEF Free
    <3>2. \A e \in Candidate : HasArticle(e) => ProseOf[e] # prose
      BY <2>8, <2>10, <3>1
    <3> QED BY <2>3, <2>7, <3>2 DEF Taken
  <2>11. SameText(w)'
    BY <1>2, <2>2, <2>3 DEF SameText
  <2>12. Matched(w)'
    BY <2>2 DEF Matched
  <2>13. Elected(w)'
    <3>1. ASSUME run'[w].step = "electing", NEW d \in Candidate, d = run'[w].target
          PROVE  ~Free(d)'
      BY <2>2, <2>7, <3>1
    <3>2. run'[w].step = "electing" => ~Free(run[w].target)'
      BY <1>1, <2>2, <3>1 DEF Free, HasArticle
    <3>3. ASSUME NEW d \in Candidate, Free(d)', candidate'[d].prose = Text(w)'
          PROVE  ~Taken(Text(w))'
      BY <2>3, <2>9, <2>10, <3>3
    <3> QED BY <3>2, <3>3 DEF Elected
  <2>14. Saves(w)'
    <3>1. ASSUME run'[w].step = "saving", NEW d \in Candidate, d = run'[w].target, Free(d)'
          PROVE  ~Taken(Text(w))'
      BY <2>2, <2>4, <2>10, <3>1
    <3>2. run'[w].step = "saving" /\ Free(run[w].target)' => ~Taken(Text(w))'
      BY <1>1, <2>2, <3>1 DEF Free, HasArticle
    <3> QED BY <2>2, <3>2 DEF Saves
  <2>15. \A v \in Worker : v = w
    BY DEF OneAtATime
  <2> QED BY <2>6, <2>11, <2>12, <2>13, <2>14, <2>15 DEF Sole
<1> QED BY <1>6, <1>7

\* A save that goes on, with the target it has.
LEMMA SavesOn ==
    ASSUME OneAtATime, IInv, Sole, NEW w \in Worker, UNCHANGED candidate,
           run[w].step \in {"saving", "checked", "converging"},
           NEW step \in {"saving", "checked", "converging"}, Goto(w, step)
    PROVE  Sole'
<1>1. /\ run'[w].step = step /\ run'[w].job = run[w].job /\ run'[w].target = run[w].target
      /\ \A v \in Worker : v = w
  BY Gone DEF Step, OneAtATime
<1>2. Text(w)' = Text(w)
  BY <1>1 DEF Text, Ours
<1>3. Rows'
  BY RowsKept DEF Sole, Kept
<1>4. SameText(w)'
  BY <1>1, <1>2 DEF Sole, SameText, Targeted
<1>5. (Matched(w) /\ Elected(w))'
  BY <1>1 DEF Matched, Elected
<1>6. Saves(w)'
  BY <1>1, <1>2 DEF Sole, Saves, Free, Taken, HasArticle
<1> QED BY <1>1, <1>3, <1>4, <1>5, <1>6 DEF Sole

\* The survivor has the prose on record, so it is of the identity; it is elected
\* when none of the identity has an Article.
LEMMA SurvivorSole ==
    ASSUME OneAtATime, IInv, Known, Sole, NEW w \in Worker, PickSurvivor(w)
    PROVE  Sole'
<1>1. /\ run[w].step = "electing" /\ UNCHANGED candidate /\ run \in [Worker -> RunState]
      /\ run[w].target \in Candidate /\ Text(w) \in Prose /\ Text(w) # None
      /\ \A v \in Worker : v = w
  <2>1. run[w].step = "electing"
    BY DEF PickSurvivor, At
  <2>2. run[w].target \in Candidate /\ Ours(w) \in Candidate
    BY <2>1, InHand DEF Targeted
  <2>3. Text(w) \in Prose /\ Text(w) # None
    BY <2>2, IngestAssumption DEF Text
  <2> QED BY <2>1, <2>2, <2>3 DEF PickSurvivor, IInv, Types, Runs, OneAtATime
<1>2. PICK next \in Candidate :
        /\ run' = [run EXCEPT ![w].step = "saving", ![w].target = next]
        /\ \/ next = run[w].target
           \/ candidate[next].prose = Text(w) /\ candidate[next].status \notin ResolvedTerminal
  BY <1>1 DEF PickSurvivor, Text
<1>3. /\ run'[w].step = "saving" /\ run'[w].job = run[w].job /\ run'[w].target = next
  BY <1>1, <1>2 DEF RunState
<1>4. Text(w)' = Text(w)
  BY <1>3 DEF Text, Ours
<1>5. ProseOf[next] = Text(w)
  BY <1>1, <1>2 DEF Sole, SameText, Targeted, Rows, OwnRow
<1>6. Free(next) => ~Taken(Text(w))
  BY <1>1, <1>2 DEF Sole, Elected
<1>7. Rows'
  BY <1>1, RowsKept DEF Sole, Kept
<1>8. (SameText(w) /\ Matched(w) /\ Elected(w))'
  BY <1>3, <1>4, <1>5 DEF SameText, Matched, Elected
<1>9. Saves(w)'
  BY <1>1, <1>3, <1>4, <1>6 DEF Saves, Free, Taken, HasArticle
<1> QED BY <1>1, <1>7, <1>8, <1>9 DEF Sole

\* The save links its target only while none of the identity has an Article.
LEMMA SaveSole ==
    ASSUME OneAtATime, IInv, Known, Sole, NEW w \in Worker,
           CheckSave(w) \/ CommitSave(w) \/ Converge(w)
    PROVE  Sole'
<1> DEFINE c == run[w].target
           url == FinalUrl[Ours(w)]
           prose == ProseOf[Ours(w)]
           linked == Linked(candidate[c], url, prose)
<1>1. /\ run[w].step \in {"saving", "checked", "converging"} /\ c \in Candidate
      /\ candidate \in [Candidate -> CandidateRow]
      /\ ProseOf[c] = prose
  <2>1. run[w].step \in {"saving", "checked", "converging"}
    BY DEF CheckSave, CommitSave, Converge, At
  <2>2. c \in Candidate
    BY <2>1, InHand DEF Targeted
  <2> QED BY <2>1, <2>2 DEF IInv, Types, RowsType, Sole, SameText, Targeted, Text
<1>2. ASSUME UNCHANGED candidate, Return(w) PROVE Sole'
  <2>1. Rows'
    BY <1>2, RowsKept DEF Sole, Kept
  <2> QED BY <1>2, <2>1, LetGo, Uncommitted
<1>3. ASSUME UNCHANGED candidate, NEW step \in {"saving", "checked", "converging"}, Goto(w, step)
      PROVE  Sole'
  BY <1>1, <1>3, SavesOn
<1>4. ASSUME Free(c), candidate' = [candidate EXCEPT ![c] = linked], Return(w)
      PROVE  Sole'
  <2>1. linked.article = url /\ linked.prose = prose /\ linked.key = candidate[c].key
    BY <1>1 DEF Linked, CandidateRow
  <2>2. \A d \in Candidate : HasArticle(d) => ProseOf[d] # prose
    BY <1>1, <1>4 DEF Sole, Saves, Taken, Text
  <2> HIDE DEF linked, url, prose, c
  <2>3. ASSUME NEW d \in Candidate
        PROVE  /\ d = c => /\ candidate'[d].article = url /\ candidate'[d].prose = ProseOf[d]
                           /\ candidate'[d].key = candidate[d].key
               /\ d # c => candidate'[d] = candidate[d]
    BY <1>1, <1>4, <2>1
  <2>4. ASSUME NEW d \in Candidate PROVE OwnRow(d)'
    BY <2>3 DEF Sole, Rows, OwnRow, HasArticle
  <2>5. ASSUME NEW d \in Candidate, NEW e \in Candidate,
               HasArticle(d)', HasArticle(e)', ProseOf[d] = ProseOf[e]
        PROVE  candidate'[d].article = candidate'[e].article
    <3>1. CASE d # c /\ e # c
      BY <2>3, <2>5, <3>1 DEF Sole, Rows, HasArticle
    <3>2. CASE d = c /\ e = c
      BY <3>2
    <3>3. CASE (d = c /\ e # c) \/ (d # c /\ e = c)
      BY <1>1, <2>2, <2>3, <2>5, <3>3 DEF HasArticle
    <3> QED BY <3>1, <3>2, <3>3
  <2>6. Rows'
    BY <2>4, <2>5 DEF Rows
  <2> QED BY <1>4, <2>6, LetGo, Uncommitted
<1>5. CASE CheckSave(w)
  <2>1. UNCHANGED candidate /\ (Return(w) \/ Goto(w, "checked"))
    BY <1>5 DEF CheckSave
  <2> QED BY <1>2, <1>3, <2>1
<1>6. CASE CommitSave(w)
  <2>1. \/ /\ Open(c) /\ Return(w)
           /\ candidate' = [candidate EXCEPT ![c] = linked]
        \/ UNCHANGED candidate /\ Goto(w, "converging")
    BY <1>6 DEF CommitSave
  <2>2. Open(c) => Free(c)
    BY DEF Open, Free, Recoverable, ResolvedTerminal
  <2> HIDE DEF c, linked
  <2> QED BY <1>3, <1>4, <2>1, <2>2
<1>7. CASE Converge(w)
  <2>1. \/ UNCHANGED candidate /\ (Return(w) \/ Goto(w, "saving"))
        \/ /\ ~HasArticle(c) /\ candidate[c].status \notin Terminal /\ Return(w)
           /\ candidate' = [candidate EXCEPT ![c] = linked]
    BY <1>7 DEF Converge
  <2>2. ~HasArticle(c) /\ candidate[c].status \notin Terminal => Free(c)
    BY DEF Free, Terminal
  <2> HIDE DEF c, linked
  <2> QED BY <1>2, <1>3, <1>4, <2>1, <2>2
<1> QED BY <1>5, <1>6, <1>7

LEMMA SoleStep == OneAtATime /\ OneText /\ IInv /\ Known /\ Sole /\ [Next /\ Undisturbed]_vars => Sole'
<1> SUFFICES ASSUME OneAtATime, OneText, IInv, Known, Sole, [Next /\ Undisturbed]_vars
             PROVE  Sole'
  OBVIOUS
<1>1. CASE UNCHANGED vars
  <2>1. (\A c \in Candidate : Calm(c)) /\ \A w \in Worker : Same(w)
    BY <1>1 DEF vars, Calm, Kept, Free, HasArticle, Same
  <2> QED BY <2>1, CalmStep
<1>2. ASSUME NEW w \in Worker,
             \/ Claim(w) \/ Load(w) \/ FetchFails(w) \/ FetchStops(w) \/ FetchDraft(w)
             \/ RouteToReview(w) \/ ReadIdentity(w) \/ CommitIdentity(w)
             \/ ReadProse(w) \/ CommitProse(w) \/ PickSurvivor(w)
             \/ CheckSave(w) \/ CommitSave(w) \/ Converge(w)
             \/ Throws(w) \/ Completes(w) \/ FailsJob(w) \/ Crashes(w)
      PROVE  Sole'
  <2>1. CASE \/ Claim(w) \/ Load(w) \/ FetchStops(w) \/ FetchDraft(w)
             \/ Throws(w) \/ Completes(w) \/ FailsJob(w) \/ Crashes(w)
    BY <2>1, QuietlySole
  <2>2. CASE FetchFails(w) \/ RouteToReview(w)
    BY <2>2, SettlesOwn
  <2>3. CASE ReadIdentity(w) \/ CommitIdentity(w)
    BY <2>3, IdentitySole
  <2>4. CASE ReadProse(w) \/ CommitProse(w) \/ PickSurvivor(w)
    BY <2>4, MatchSole, MergeSole, SurvivorSole
  <2>5. CASE CheckSave(w) \/ CommitSave(w) \/ Converge(w)
    BY <2>5, SaveSole
  <2> QED BY <1>2, <2>1, <2>2, <2>3, <2>4, <2>5
<1>3. ASSUME NEW c \in Candidate, RecoverDeleted(c), Undisturbed PROVE Sole'
  BY <1>3, Readmission
<1>4. CASE \/ \E c \in Candidate : Discover(c)
           \/ Activate \/ Rollback
           \/ \E url \in Url : DeleteArticle(url)
  BY <1>4, CalmEnvironment
<1> QED BY <1>1, <1>2, <1>3, <1>4 DEF Next

\* While attempts overlap neither with each other nor with readmissions, the
\* candidates of one page or one prose have one Article between them: a run that
\* goes on to save has matched, or been elected among, all that have the prose, and
\* none of them had an Article.
THEOREM OneArticleEach ==
    ASSUME OneAtATime, OneText
    PROVE  OrderlySpec => []OneArticlePerIdentity
<1>1. Init => IInv /\ Known /\ Sole
  <2> SUFFICES ASSUME Init PROVE Known /\ Sole
    BY Initially
  <2>1. \A c \in Candidate : /\ candidate[c].article = None /\ candidate[c].key = None
                             /\ candidate[c].prose = None
    BY DEF Init, Undiscovered
  <2>2. \A w \in Worker : run[w].step = "idle"
    BY DEF Init, Idle
  <2>3. Known
    BY <2>1, <2>2 DEF Known, IngestedRows, UniqueKeys, HasArticle, Folds, Decided
  <2>4. Sole
    BY <2>1, <2>2 DEF Sole, Rows, OwnRow, HasArticle, SameText, Matched, Elected, Saves,
                      Targeted
  <2> QED BY <2>3, <2>4
<1>2. IInv /\ Known /\ Sole /\ [Next /\ Undisturbed]_vars => (IInv /\ Known /\ Sole)'
  <2> SUFFICES ASSUME IInv, Known, Sole, [Next /\ Undisturbed]_vars
               PROVE  (IInv /\ Known /\ Sole)'
    OBVIOUS
  <2>1. [Next]_vars
    OBVIOUS
  <2> QED BY <2>1, Inductive, KnownStep, SoleStep
<1>3. Sole => OneArticlePerIdentity
  BY DEF Sole, Rows, OneText, OneArticlePerIdentity, SamePage
<1> QED BY <1>1, <1>2, <1>3, PTL DEF OrderlySpec

=============================================================================
