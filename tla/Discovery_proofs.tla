--------------------------- MODULE Discovery_proofs ---------------------------
(***************************************************************************)
(* What Discovery's runs check on small instances, for any number of sources, *)
(* workers, operators and articles.                                           *)
(*                                                                            *)
(* One inductive invariant carries all of it. It relates the three parties to *)
(* what they remember: a run that still holds its lease remembers the mode    *)
(* the source is in (Running), an operator's action remembers a transition    *)
(* that was allowed when it was read (Acting), and a batch that a backfill    *)
(* has not passed yet fits what is left of the cap (Filling).                 *)
(***************************************************************************)
EXTENDS Discovery, LeastElement

-----------------------------------------------------------------------------
(* The parts of the type invariant *)

PolicyType == /\ mode \in [Source -> Mode] /\ window \in [Source -> -1 .. Items]
              /\ trusted \in [Source -> BOOLEAN] /\ streak \in [Source -> 0 .. MaxStreak]
              /\ generation \in [Source -> Nat]

LeaseType == owner \in [Source -> Worker \cup {None}] /\ expired \in [Source -> BOOLEAN]

\* before is a strict order of the sources that are due.
Ordered == /\ due \subseteq Source /\ parked \subseteq Source \ due
           /\ before \subseteq due \X due
           /\ \A p, q \in before : p[2] = q[1] => p[1] # q[2] /\ <<p[1], q[2]>> \in before

WhenType == backoff \in [Source -> BOOLEAN] /\ Ordered

LedgerType == Ledger!TypeOK /\ origin \in [Item -> Source \cup {None}]

PartyType == run \in [Worker -> Run] /\ op \in [Operator -> Op \cup {None}]

BoundType == /\ published \in 0 .. Items /\ backfills \in BOOLEAN
             /\ acts \in 0 .. MaxActs /\ faults \in 0 .. MaxFaults

BackfillRow == [status : {"none", "RUNNING", "PAUSED", "CANCELLED", "COMPLETED"},
                cursor : Item \cup {0}, reactivated : 0 .. ItemCap]
Batch == [cursor : Item \cup {0}, items : SUBSET Dated]

FillType == backfill \in BackfillRow /\ batch \in [Worker -> Batch \cup {None}]

-----------------------------------------------------------------------------
(* The inductive invariant *)

\* Only a source in a mode that runs is leased.
Leased == \A s \in Source : owner[s] # None => mode[s] \in Claimable

\* What a run knows of its source while it still holds it. The demotions change
\* the mode under its own lease, and it remembers the change or is at its end.
RunIs(w) ==
    /\ run[w].pc = "idle" <=> run[w].source = None
    /\ run[w].pc = "flagged" => run[w].mode = "ACTIVE"
    /\ run[w].pc # "idle" /\ Holds(w) =>
         /\ run[w].pc # "final" => mode[run[w].source] = run[w].mode
         /\ run[w].pc = "read" => mode[run[w].source] = run[w].pageMode

Running == \A w \in Worker : RunIs(w)

\* What an operator's action takes with it to its commit.
OpIs(o) ==
    op[o] # None =>
        /\ op[o].full => op[o].act = "rollback"
        /\ op[o].queue # {} => op[o].act = "activate"
        /\ op[o].to = "ACTIVE" => op[o].act = "activate"
        /\ op[o].to = "SHADOW" => op[o].full \/ op[o].act \in {"complete-baseline", "resume"}
        /\ op[o].from # None /\ (op[o].full \/ op[o].act = "activate") =>
             op[o].from \in {"SHADOW", "ACTIVE"}

Acting == \A o \in Operator : OpIs(o)

\* A batch lies beyond the cursor it was read at; the cursor has passed it, or
\* what is left of the cap can take all of it.
BatchFits(w) ==
    batch[w] # None =>
        /\ batch[w].cursor <= backfill.cursor
        /\ \A x \in batch[w].items : batch[w].cursor < x
        /\ batch[w].cursor = backfill.cursor =>
             Cardinality(batch[w].items) <= ItemCap - backfill.reactivated

Filling ==
    /\ backfill.status = "none" => backfill.cursor = 0 /\ backfill.reactivated = 0
    /\ \A w \in Worker : BatchFits(w)

Types == PolicyType /\ LeaseType /\ WhenType /\ LedgerType /\ PartyType /\ BoundType /\ FillType

IInv == Types /\ Leased /\ PausedIsNotScheduled /\ Running /\ Acting /\ Filling

LEMMA TypesSuffice == Types => TypeOK
BY DEF Types, TypeOK, PolicyType, LeaseType, WhenType, Ordered, LedgerType, PartyType,
       BoundType, FillType, BackfillRow, Batch, Fill!TypeOK

-----------------------------------------------------------------------------
(* The schedule *)

LEMMA LastKeepsOrder ==
    ASSUME Ordered, NEW S \in SUBSET Source, Last(S), parked' = parked \ S
    PROVE  Ordered'
BY DEF Ordered, Last, Without

LEMMA NotDueKeepsOrder ==
    ASSUME Ordered, NEW S \in SUBSET Source, NotDue(S),
           parked' = parked \ S \/ parked' = parked \cup S
    PROVE  Ordered'
BY DEF Ordered, NotDue, Without

\* Whatever a release or an action does to the schedule of one source.
Reschedules(s) == DueNow(s) \/ DueLater(s) \/ Park(s)

LEMMA ReschedulesKeepsOrder ==
    ASSUME Ordered, NEW s \in Source, Reschedules(s)
    PROVE  Ordered' /\ parked' \in {parked \ {s}, parked \cup {s}}
<1>1. {s} \in SUBSET Source
  OBVIOUS
<1>2. CASE DueNow(s)
  BY <1>1, <1>2, LastKeepsOrder DEF DueNow
<1>3. CASE DueLater(s) \/ Park(s)
  BY <1>1, <1>3, NotDueKeepsOrder DEF DueLater, Park
<1> QED BY <1>2, <1>3 DEF Reschedules

-----------------------------------------------------------------------------
(* Runs *)

\* The plan of a page that has not been read is empty.
LEMMA EmptyPlan == <<>> \in UNION {[S -> Ledger!Admissible] : S \in SUBSET Item}
<1>1. <<>> \in [{} -> Ledger!Admissible]
  OBVIOUS
<1> QED BY <1>1

LEMMA IdleRun == Idle \in Run
BY EmptyPlan, DiscoveryAssumption DEF Idle, Run, Mode

LEMMA RunSource ==
    ASSUME IInv, NEW w \in Worker, run[w].pc # "idle"
    PROVE  /\ run[w] \in Run /\ run[w].source \in Source
           /\ Holds(w) => mode[run[w].source] \in Claimable
<1>1. run[w] \in Run /\ RunIs(w)
  BY DEF IInv, Types, PartyType, Running
<1>2. run[w].source \in Source
  BY <1>1 DEF RunIs, Run
<1>3. w # None
  BY DiscoveryAssumption
<1> QED BY <1>1, <1>2, <1>3 DEF IInv, Leased, Holds

\* A worker writes its own run, and may move the mode of a source it holds.
OwnRun(w, r) == r \in Run /\ run' = [run EXCEPT ![w] = r]

LEMMA OthersKeepTheirRuns ==
    ASSUME IInv, NEW w \in Worker, NEW r, OwnRun(w, r), RunIs(w)',
           \A v \in Worker \ {w} : run[v].pc # "idle" /\ Holds(v)' =>
               Holds(v) /\ mode'[run[v].source] = mode[run[v].source]
    PROVE  run' \in [Worker -> Run] /\ Running'
<1>1. run \in [Worker -> Run] /\ Running
  BY DEF IInv, Types, PartyType
<1>2. run' \in [Worker -> Run]
  BY <1>1 DEF OwnRun
<1>3. ASSUME NEW v \in Worker, v # w PROVE RunIs(v)'
  <2>1. run'[v] = run[v]
    BY <1>1, <1>3 DEF OwnRun
  <2>2. RunIs(v)
    BY <1>1 DEF Running
  <2>3. CASE run[v].pc = "idle"
    BY <2>1, <2>2, <2>3 DEF RunIs
  <2>4. CASE run[v].pc # "idle" /\ ~Holds(v)'
    BY <2>1, <2>2, <2>4 DEF RunIs, Holds
  <2>5. CASE run[v].pc # "idle" /\ Holds(v)'
    <3>1. Holds(v) /\ mode'[run[v].source] = mode[run[v].source]
      BY <1>3, <2>5
    <3> QED BY <2>1, <2>2, <3>1 DEF RunIs
  <2> QED BY <2>3, <2>4, <2>5
<1> QED BY <1>2, <1>3 DEF Running

\* A run that ends leaves the lease alone or gives up its own.
LEMMA EndedRun ==
    ASSUME IInv, NEW w \in Worker, Stop(w), UNCHANGED mode,
           \/ UNCHANGED leaseVars
           \/ run[w].pc # "idle" /\ Holds(w) /\ Release(run[w].source)
    PROVE  run' \in [Worker -> Run] /\ Running' /\ LeaseType' /\ Leased'
<1>1. /\ run \in [Worker -> Run] /\ LeaseType /\ Leased
      /\ run[w].pc # "idle" => run[w].source \in Source
  BY RunSource DEF IInv, Types, PartyType
<1>2. LeaseType' /\ Leased'
  BY <1>1 DEF LeaseType, Leased, leaseVars, Release
<1>3. OwnRun(w, Idle) /\ run'[w] = Idle
  BY <1>1, IdleRun DEF Stop, OwnRun
<1>4. RunIs(w)'
  BY <1>3 DEF RunIs, Idle
<1>5. ASSUME NEW v \in Worker \ {w}, run[v].pc # "idle", Holds(v)' PROVE Holds(v)
  <2>1. run'[v] = run[v] /\ run[v].source \in Source /\ v # None
    BY <1>1, <1>3, <1>5, RunSource, DiscoveryAssumption DEF OwnRun
  <2>2. CASE UNCHANGED leaseVars
    BY <1>5, <2>1, <2>2 DEF Holds, leaseVars
  <2>3. CASE run[w].pc # "idle" /\ Holds(w) /\ Release(run[w].source)
    BY <1>1, <1>5, <2>1, <2>3 DEF Holds, Release, LeaseType
  <2> QED BY <2>2, <2>3
<1> QED BY <1>2, <1>3, <1>4, <1>5, OthersKeepTheirRuns

\* A run that goes on keeps its lease, or the want of one.
LEMMA ContinuedRun ==
    ASSUME IInv, NEW w \in Worker, run[w].pc # "idle", UNCHANGED leaseVars,
           NEW r, OwnRun(w, r), r.source = run[w].source, RunIs(w)',
           \/ UNCHANGED mode
           \/ Holds(w) /\ mode' = [mode EXCEPT ![run[w].source] = "SHADOW"]
    PROVE  run' \in [Worker -> Run] /\ Running' /\ LeaseType' /\ Leased'
<1>1. run \in [Worker -> Run] /\ LeaseType /\ Leased /\ mode \in [Source -> Mode]
  BY DEF IInv, Types, PartyType, PolicyType
<1>2. LeaseType' /\ Leased'
  BY <1>1 DEF LeaseType, Leased, leaseVars, Claimable
<1>3. ASSUME NEW v \in Worker \ {w}, run[v].pc # "idle", Holds(v)'
      PROVE  Holds(v) /\ mode'[run[v].source] = mode[run[v].source]
  <2>1. run'[v] = run[v] /\ run[v].source \in Source
    BY <1>1, <1>3, RunSource DEF OwnRun
  <2>2. Holds(v)
    BY <1>3, <2>1 DEF Holds, leaseVars
  <2>3. Holds(w) => run[v].source # run[w].source
    BY <1>3, <2>2 DEF Holds
  <2> QED BY <1>1, <2>1, <2>2, <2>3
<1> QED BY <1>2, <1>3, OthersKeepTheirRuns

\* Most steps leave most of the rest alone.
LEMMA Untouched ==
    ASSUME IInv
    PROVE  /\ UNCHANGED policyVars => PolicyType'
           /\ UNCHANGED leaseVars => LeaseType' /\ (UNCHANGED mode => Leased')
           /\ UNCHANGED whenVars => WhenType' /\ (UNCHANGED mode => PausedIsNotScheduled')
           /\ UNCHANGED ledgerVars => LedgerType'
           /\ UNCHANGED run => /\ run' \in [Worker -> Run]
                               /\ UNCHANGED <<mode, leaseVars>> => Running'
           /\ UNCHANGED op => op' \in [Operator -> Op \cup {None}] /\ Acting'
           /\ UNCHANGED elsewhere => /\ FillType' /\ Filling'
                                     /\ published' \in 0 .. Items /\ backfills' \in BOOLEAN
           /\ UNCHANGED boundVars => acts' \in 0 .. MaxActs /\ faults' \in 0 .. MaxFaults
           /\ faults < MaxFaults /\ faults' = faults + 1 => faults' \in 0 .. MaxFaults
           /\ acts < MaxActs /\ acts' = acts + 1 => acts' \in 0 .. MaxActs
           /\ UNCHANGED acts => acts' \in 0 .. MaxActs
           /\ UNCHANGED faults => faults' \in 0 .. MaxFaults
<1>1. Types /\ Leased /\ PausedIsNotScheduled /\ Running /\ Acting /\ Filling
  BY DEF IInv
<1>2. UNCHANGED policyVars => PolicyType'
  BY <1>1 DEF Types, PolicyType, policyVars
<1>3. UNCHANGED leaseVars => LeaseType' /\ (UNCHANGED mode => Leased')
  BY <1>1 DEF Types, LeaseType, Leased, leaseVars
<1>4. UNCHANGED whenVars => WhenType' /\ (UNCHANGED mode => PausedIsNotScheduled')
  BY <1>1 DEF Types, WhenType, Ordered, PausedIsNotScheduled, whenVars
<1>5. UNCHANGED ledgerVars => LedgerType'
  BY <1>1 DEF Types, LedgerType, Ledger!TypeOK, ledgerVars
<1>6. UNCHANGED run => /\ run' \in [Worker -> Run]
                       /\ UNCHANGED <<mode, leaseVars>> => Running'
  BY <1>1 DEF Types, PartyType, Running, RunIs, Holds, leaseVars
<1>7. UNCHANGED op => op' \in [Operator -> Op \cup {None}] /\ Acting'
  BY <1>1 DEF Types, PartyType, Acting, OpIs
<1>8. UNCHANGED elsewhere => /\ FillType' /\ Filling'
                             /\ published' \in 0 .. Items /\ backfills' \in BOOLEAN
  BY <1>1 DEF Types, FillType, BoundType, Filling, BatchFits, elsewhere
<1>9. /\ UNCHANGED boundVars => acts' \in 0 .. MaxActs /\ faults' \in 0 .. MaxFaults
      /\ faults < MaxFaults /\ faults' = faults + 1 => faults' \in 0 .. MaxFaults
      /\ acts < MaxActs /\ acts' = acts + 1 => acts' \in 0 .. MaxActs
      /\ UNCHANGED acts => acts' \in 0 .. MaxActs
      /\ UNCHANGED faults => faults' \in 0 .. MaxFaults
  BY <1>1, DiscoveryAssumption DEF Types, BoundType, boundVars
<1> QED BY <1>2, <1>3, <1>4, <1>5, <1>6, <1>7, <1>8, <1>9

-----------------------------------------------------------------------------
(* The steps of a worker *)

\* The parts of the invariant, in the groups that steps change or leave.
LEMMA Assembled ==
    ASSUME PolicyType', LeaseType', WhenType', LedgerType', FillType',
           run' \in [Worker -> Run], op' \in [Operator -> Op \cup {None}],
           published' \in 0 .. Items, backfills' \in BOOLEAN,
           acts' \in 0 .. MaxActs, faults' \in 0 .. MaxFaults,
           Leased', PausedIsNotScheduled', Running', Acting', Filling'
    PROVE  IInv'
BY DEF IInv, Types, PartyType, BoundType

\* A run that ends, with what it writes to the row of its source.
LEMMA Ending ==
    ASSUME IInv, NEW w \in Worker,
           \/ LeaseLost(w) \/ Defer(w) \/ FinalizeSuccess(w) \/ FinalizeFailure(w)
           \/ Abort(w) \/ Crash(w)
    PROVE  IInv'
<1> DEFINE s == run[w].source
<1>1. /\ Stop(w) /\ UNCHANGED <<mode, window, trusted, generation, ledgerVars, op, elsewhere>>
      /\ UNCHANGED boundVars \/ (faults < MaxFaults /\ faults' = faults + 1 /\ UNCHANGED acts)
  BY DEF LeaseLost, Defer, FinalizeSuccess, FinalizeFailure, Abort, Crash, policyVars
<1>2. /\ run' \in [Worker -> Run] /\ Running' /\ LeaseType' /\ Leased'
  <2>1. \/ UNCHANGED leaseVars
        \/ run[w].pc # "idle" /\ Holds(w) /\ Release(s)
    BY DEF LeaseLost, Defer, FinalizeSuccess, FinalizeFailure, Abort, Crash
  <2> QED BY <1>1, <2>1, EndedRun
<1>3. PolicyType'
  <2>1. CASE UNCHANGED streak
    BY <1>1, <2>1, Untouched DEF policyVars
  <2>2. CASE FinalizeSuccess(w)
    <3>1. PolicyType /\ run[w] \in Run
      BY <2>2, RunSource DEF IInv, Types, FinalizeSuccess
    <3> QED BY <1>1, <2>2, <3>1 DEF PolicyType, FinalizeSuccess, Run
  <2> QED BY <2>1, <2>2 DEF LeaseLost, Defer, FinalizeFailure, Abort, Crash, policyVars
<1>4. WhenType' /\ PausedIsNotScheduled'
  <2>1. CASE UNCHANGED whenVars
    BY <1>1, <2>1, Untouched
  <2>2. CASE /\ run[w].pc # "idle" /\ Holds(w) /\ (DueNow(s) \/ DueLater(s))
             /\ \/ UNCHANGED backoff \/ \E b \in BOOLEAN : backoff' = [backoff EXCEPT ![s] = b]
    <3>1. s \in Source /\ mode[s] \in Claimable
      BY <2>2, RunSource
    <3>2. WhenType /\ PausedIsNotScheduled
      BY DEF IInv, Types
    <3>3. Ordered' /\ parked' = parked \ {s}
      BY <2>2, <3>1, <3>2, ReschedulesKeepsOrder DEF WhenType, Reschedules, DueNow, DueLater
    <3>4. backoff' \in [Source -> BOOLEAN]
      BY <2>2, <3>2 DEF WhenType
    <3> QED BY <1>1, <3>1, <3>2, <3>3, <3>4 DEF WhenType, PausedIsNotScheduled
  <2> QED BY <2>1, <2>2
          DEF LeaseLost, Defer, FinalizeSuccess, FinalizeFailure, Abort, Crash
<1> QED BY <1>1, <1>2, <1>3, <1>4, Untouched, Assembled

LEMMA Claiming ==
    ASSUME IInv, NEW w \in Worker, Claim(w)
    PROVE  IInv'
<1>1. PICK s \in Source :
        /\ Pick(s)
        /\ owner' = [owner EXCEPT ![s] = w]
        /\ expired' = [expired EXCEPT ![s] = FALSE]
        /\ run' = [run EXCEPT ![w] =
                     [Idle EXCEPT !.pc = "claimed", !.source = s, !.mode = mode[s],
                                  !.trusted = trusted[s], !.streak = streak[s]]]
  BY DEF Claim
<1> DEFINE r == [Idle EXCEPT !.pc = "claimed", !.source = s, !.mode = mode[s],
                             !.trusted = trusted[s], !.streak = streak[s]]
<1>2. /\ PolicyType /\ LeaseType /\ Leased /\ run \in [Worker -> Run]
      /\ mode[s] \in Claimable /\ w # None /\ s # None
  BY <1>1, DiscoveryAssumption DEF IInv, Types, PartyType, Pick, Ready
<1>3. LeaseType' /\ Leased'
  BY <1>1, <1>2 DEF LeaseType, Leased, Claim, policyVars
<1>4. OwnRun(w, r) /\ run'[w] = r
  BY <1>1, <1>2, IdleRun DEF OwnRun, PolicyType, Run, Idle
<1>5. RunIs(w)'
  BY <1>1, <1>2, <1>4 DEF RunIs, Idle, Claim, policyVars
<1>6. ASSUME NEW v \in Worker \ {w}, run[v].pc # "idle", Holds(v)' PROVE Holds(v)
  <2>1. run'[v] = run[v] /\ run[v].source \in Source
    BY <1>2, <1>4, <1>6, RunSource DEF OwnRun
  <2> QED BY <1>1, <1>2, <1>6, <2>1 DEF Holds, LeaseType
<1>7. run' \in [Worker -> Run] /\ Running'
  BY <1>4, <1>5, <1>6, OthersKeepTheirRuns DEF Claim, policyVars
<1> QED BY <1>3, <1>7, Untouched, Assembled DEF Claim, policyVars

\* A step of a run that goes on and keeps the row as it is.
LEMMA Continuing ==
    ASSUME IInv, NEW w \in Worker, run[w].pc # "idle", NEW r \in Run,
           run' = [run EXCEPT ![w] = r], r.source = run[w].source,
           r.pc # "idle", r.pc = "flagged" => r.mode = "ACTIVE",
           Holds(w) /\ r.pc # "final" => mode[r.source] = r.mode,
           Holds(w) /\ r.pc = "read" => mode[r.source] = r.pageMode,
           UNCHANGED <<mode, leaseVars>>
    PROVE  run' \in [Worker -> Run] /\ Running'
<1>1. run \in [Worker -> Run] /\ RunIs(w)
  BY DEF IInv, Types, PartyType, Running
<1>2. OwnRun(w, r) /\ run'[w] = r
  BY <1>1 DEF OwnRun
<1>3. RunIs(w)'
  BY <1>1, <1>2 DEF RunIs, Holds, leaseVars
<1> QED BY <1>2, <1>3, ContinuedRun

LEMMA Reading ==
    ASSUME IInv, NEW w \in Worker, ReadPage(w)
    PROVE  IInv'
<1> DEFINE s == run[w].source
           fresh == {x \in Unknown : x <= published /\ (mode[s] = "ACTIVE" => x \in Dated)}
<1>1. PICK page \in SUBSET fresh, b \in Boundary :
        run' = [run EXCEPT ![w] =
                  [@ EXCEPT !.pc = "read", !.pageMode = mode[s], !.boundary = b,
                            !.plan = [x \in page |-> Outcome(x, mode[s], window[s])]]]
  BY DEF ReadPage
<1> DEFINE plan == [x \in page |-> Outcome(x, mode[s], window[s])]
           r == [run[w] EXCEPT !.pc = "read", !.pageMode = mode[s], !.boundary = b,
                               !.plan = plan]
<1>2. /\ run[w].pc = "claimed" /\ Holds(w)
      /\ run[w] \in Run /\ s \in Source /\ PolicyType /\ run \in [Worker -> Run] /\ RunIs(w)
  BY RunSource DEF ReadPage, IInv, Types, PartyType, Running
<1>3. plan \in UNION {[S -> Ledger!Admissible] : S \in SUBSET Item}
  <2>1. page \in SUBSET Item
    BY DEF Unknown
  <2>2. \A x \in page : Outcome(x, mode[s], window[s]) \in Ledger!Admissible
    BY DEF Outcome, Ledger!Admissible, Ledger!Inert
  <2>3. plan \in [page -> Ledger!Admissible]
    BY <2>2
  <2> QED BY <2>1, <2>3
<1>4. r \in Run
  <2>1. b \in BOOLEAN /\ mode[s] \in Mode
    BY <1>2, DiscoveryAssumption DEF PolicyType
  <2> HIDE DEF plan
  <2> QED BY <1>2, <1>3, <2>1 DEF Run
<1>5. run' \in [Worker -> Run] /\ Running'
  <2>1. run' = [run EXCEPT ![w] = r]
    BY <1>1
  <2>2. mode[s] = run[w].mode
    BY <1>2 DEF RunIs
  <2> HIDE DEF plan
  <2>3. /\ r.pc = "read" /\ r.source = s /\ r.mode = run[w].mode /\ r.pageMode = mode[s]
    BY <1>2 DEF Run
  <2> HIDE DEF r
  <2>4. UNCHANGED <<mode, leaseVars>>
    BY DEF ReadPage, policyVars
  <2> QED BY <1>2, <1>4, <2>1, <2>2, <2>3, <2>4, Continuing
<1> QED BY <1>5, Untouched, Assembled DEF ReadPage, policyVars

\* What a page writes to the ledger.
LEMMA PageLedger ==
    ASSUME IInv, NEW w \in Worker, CommitPage(w)
    PROVE  LedgerType' /\ Ledger!Admit
<1> DEFINE r == run[w]
<1>1. /\ r.pc = "read" /\ LedgerType
      /\ status' = Admitted(r)
      /\ origin' = [x \in Item |-> IF x \in DOMAIN r.plan /\ status[x] = "none"
                                   THEN r.source ELSE origin[x]]
      /\ job' = [x \in Item |-> IF x \in Enqueued(r) THEN "PENDING" ELSE job[x]]
  BY DEF CommitPage, IInv, Types
<1>2. r \in Run /\ r.source \in Source
  BY <1>1, RunSource
<1>3. ASSUME NEW x \in DOMAIN r.plan PROVE r.plan[x] \in Ledger!Admissible
  <2>1. PICK S \in SUBSET Item : r.plan \in [S -> Ledger!Admissible]
    BY <1>2 DEF Run
  <2> QED BY <2>1, <1>3
<1>4. ASSUME NEW x \in Item
      PROVE  /\ status'[x] \in Ledger!Status /\ job'[x] \in Ledger!JobState
             /\ status'[x] # status[x] => status[x] = "none" /\ status'[x] \in Ledger!Admissible
             /\ job'[x] # job[x] => /\ job[x] = "none" /\ job'[x] = "PENDING"
                                    /\ status'[x] = "DISCOVERED"
  BY <1>1, <1>3 DEF Admitted, Enqueued, LedgerType, Ledger!TypeOK, Ledger!Status,
                    Ledger!JobState
<1>5. /\ status' = [x \in Item |-> status'[x]] /\ job' = [x \in Item |-> job'[x]]
  BY <1>1 DEF Admitted
<1>6. status' \in [Item -> Ledger!Status] /\ job' \in [Item -> Ledger!JobState]
  BY <1>4, <1>5
<1>7. origin' \in [Item -> Source \cup {None}]
  BY <1>1, <1>2 DEF LedgerType
<1> QED BY <1>4, <1>6, <1>7 DEF LedgerType, Ledger!TypeOK, Ledger!Admit

LEMMA Committing ==
    ASSUME IInv, NEW w \in Worker, CommitPage(w)
    PROVE  IInv'
<1>1. run[w].pc = "read" /\ Holds(w) /\ UNCHANGED <<mode, leaseVars>>
  BY DEF CommitPage, policyVars
<1>2. run[w] \in Run /\ RunIs(w)
  BY <1>1, RunSource DEF IInv, Running
<1> DEFINE n == IF ~run[w].boundary THEN run[w].streak
                ELSE IF Eligible(run[w]) # {} THEN 0
                ELSE IF run[w].streak < MaxStreak THEN run[w].streak + 1 ELSE run[w].streak
           r == [run[w] EXCEPT !.pc = "paged", !.plan = <<>>, !.streak = n]
<1>3. run' = [run EXCEPT ![w] = r] /\ r \in Run
  <2>1. n \in 0 .. MaxStreak
    <3>1. run[w].streak \in 0 .. MaxStreak /\ MaxStreak \in Nat
      BY <1>2, DiscoveryAssumption DEF Run
    <3> QED BY <3>1
  <2>2. run' = [run EXCEPT ![w] = r]
    BY DEF CommitPage
  <2> HIDE DEF n
  <2> QED BY <1>2, <2>1, <2>2, EmptyPlan DEF Run
<1>4. r.pc = "paged" /\ r.source = run[w].source /\ r.mode = run[w].mode
  BY <1>2 DEF Run
<1>5. run' \in [Worker -> Run] /\ Running'
  <2> HIDE DEF r
  <2> QED BY <1>1, <1>2, <1>3, <1>4, Continuing DEF RunIs
<1> QED BY <1>5, PageLedger, Untouched, Assembled DEF CommitPage, policyVars

\* The statements after the page that leave the mode as it is.
LEMMA Stepping ==
    ASSUME IInv, NEW w \in Worker, CommitFrontier(w) \/ RevokeTrust(w) \/ SkipDemotion(w)
    PROVE  IInv'
<1>1. PICK pc \in {"frontier", "degraded", "flagged", "final"} :
        /\ run' = [run EXCEPT ![w].pc = pc]
        /\ pc = "flagged" => run[w].mode = "ACTIVE"
  BY DEF CommitFrontier, RevokeTrust, SkipDemotion
<1>2. /\ run[w].pc \notin {"idle", "final"}
      /\ UNCHANGED <<mode, window, streak, generation, leaseVars, whenVars, ledgerVars, op,
                     elsewhere, acts>>
      /\ UNCHANGED faults \/ (faults < MaxFaults /\ faults' = faults + 1)
      /\ UNCHANGED trusted \/ trusted' = [trusted EXCEPT ![run[w].source] = FALSE]
  BY DEF CommitFrontier, RevokeTrust, SkipDemotion, policyVars, boundVars
<1> DEFINE r == [run[w] EXCEPT !.pc = pc]
<1>3. /\ run[w] \in Run /\ RunIs(w) /\ PolicyType /\ run[w].source \in Source
  BY <1>2, RunSource DEF IInv, Types, Running
<1>4. r \in Run /\ r.pc = pc /\ r.source = run[w].source /\ r.mode = run[w].mode
  BY <1>3 DEF Run
<1>5. run' \in [Worker -> Run] /\ Running'
  <2>1. run' = [run EXCEPT ![w] = r]
    BY <1>1
  <2> HIDE DEF r
  <2> QED BY <1>1, <1>2, <1>3, <1>4, <2>1, Continuing DEF RunIs
<1>6. PolicyType'
  BY <1>2, <1>3 DEF PolicyType
<1> QED BY <1>2, <1>5, <1>6, Untouched, Assembled

\* A demotion under the run's own lease takes an active source to SHADOW; refused,
\* it changes nothing.
LEMMA Demotion ==
    ASSUME IInv, NEW w \in Worker, run[w].pc \in {"frontier", "flagged"},
           run[w].mode = "ACTIVE", Demote(w)
    PROVE  \/ ~Holds(w) /\ UNCHANGED <<mode, due, before, parked>>
           \/ /\ Holds(w) /\ DueNow(run[w].source) /\ mode[run[w].source] = "ACTIVE"
              /\ mode' = [mode EXCEPT ![run[w].source] = "SHADOW"]
<1>1. RunIs(w)
  BY DEF IInv, Running
<1>2. Holds(w) => mode[run[w].source] = "ACTIVE"
  BY <1>1 DEF RunIs
<1> QED BY <1>2 DEF Demote, Allowed, Backward

LEMMA Demoting ==
    ASSUME IInv, NEW w \in Worker, Degrade(w) \/ RollToShadow(w)
    PROVE  IInv'
<1> DEFINE s == run[w].source
<1>1. /\ run[w].pc \in {"frontier", "flagged"} /\ run[w] \in Run /\ s \in Source /\ RunIs(w)
      /\ Types /\ PausedIsNotScheduled /\ run \in [Worker -> Run]
  BY RunSource DEF Degrade, RollToShadow, IInv, Types, PartyType, Running
<1>2. /\ UNCHANGED <<window, trusted, streak, generation, leaseVars, backoff,
                     ledgerVars, op, elsewhere, boundVars>>
  BY DEF Degrade, RollToShadow
<1>3. \/ UNCHANGED <<mode, due, before, parked>>
      \/ Holds(w) /\ DueNow(s) /\ mode' = [mode EXCEPT ![s] = "SHADOW"]
  BY <1>1, Demotion DEF Degrade, RollToShadow, RunIs
<1>4. PICK r \in Run :
        /\ run' = [run EXCEPT ![w] = r] /\ r.source = s /\ r.pc \in {"degraded", "final"}
        /\ r.pc = "degraded" /\ Holds(w) => mode'[s] = r.mode
  <2>1. CASE RollToShadow(w)
    <3> DEFINE r == [run[w] EXCEPT !.pc = "final"]
    <3>1. r \in Run /\ r.source = s /\ r.pc = "final"
      BY <1>1 DEF Run
    <3>2. run' = [run EXCEPT ![w] = r]
      BY <2>1 DEF RollToShadow
    <3> HIDE DEF r
    <3> QED BY <3>1, <3>2
  <2>2. CASE Degrade(w) /\ UNCHANGED mode
    <3> DEFINE r == [run[w] EXCEPT !.pc = "degraded"]
    <3>1. r \in Run /\ r.source = s /\ r.pc = "degraded" /\ r.mode = run[w].mode
      BY <1>1 DEF Run
    <3>2. run' = [run EXCEPT ![w] = r]
      BY <1>1, <2>2 DEF Degrade, Run
    <3>3. Holds(w) => mode[s] = run[w].mode
      BY <1>1, <2>2 DEF RunIs, Degrade
    <3> HIDE DEF r
    <3> QED BY <2>2, <3>1, <3>2, <3>3
  <2>3. CASE Degrade(w) /\ mode' # mode
    <3> DEFINE r == [run[w] EXCEPT !.pc = "degraded", !.mode = "SHADOW"]
    <3>1. r \in Run /\ r.source = s /\ r.pc = "degraded" /\ r.mode = "SHADOW"
      BY <1>1 DEF Run, Mode
    <3>2. run' = [run EXCEPT ![w] = r]
      BY <1>1, <2>3 DEF Degrade, Run
    <3>3. mode'[s] = "SHADOW"
      BY <1>1, <1>3, <2>3 DEF Types, PolicyType
    <3> HIDE DEF r
    <3> QED BY <3>1, <3>2, <3>3
  <2> QED BY <2>1, <2>2, <2>3
<1>5. run' \in [Worker -> Run] /\ Running' /\ LeaseType' /\ Leased'
  <2>1. OwnRun(w, r) /\ run'[w] = r
    BY <1>1, <1>4 DEF OwnRun
  <2>2. RunIs(w)'
    BY <1>1, <1>2, <1>4, <2>1, DiscoveryAssumption DEF RunIs, Holds, leaseVars
  <2> QED BY <1>1, <1>2, <1>3, <1>4, <2>1, <2>2, ContinuedRun
<1>6. PolicyType'
  BY <1>1, <1>2, <1>3 DEF Types, PolicyType, Mode
<1>7. WhenType' /\ PausedIsNotScheduled'
  <2>1. CASE UNCHANGED <<mode, due, before, parked>>
    BY <1>2, <2>1, Untouched DEF whenVars
  <2>2. CASE DueNow(s) /\ mode' = [mode EXCEPT ![s] = "SHADOW"]
    <3>1. Ordered' /\ parked' = parked \ {s}
      BY <1>1, <2>2, ReschedulesKeepsOrder DEF Types, WhenType, Reschedules, DueNow
    <3> QED BY <1>1, <1>2, <2>2, <3>1
            DEF Types, WhenType, PolicyType, PausedIsNotScheduled, Claimable
  <2> QED BY <1>3, <2>1, <2>2
<1> QED BY <1>2, <1>5, <1>6, <1>7, Untouched, Assembled

LEMMA Working ==
    ASSUME IInv, NEW w \in Worker, WorkerStep(w)
    PROVE  IInv'
BY Ending, Claiming, Reading, Committing, Stepping, Demoting DEF WorkerStep, Progress

-----------------------------------------------------------------------------
(* The steps of an operator *)

\* An operator's step writes its own action.
LEMMA OwnAction ==
    ASSUME IInv, NEW o \in Operator, NEW q, op' = [op EXCEPT ![o] = q],
           q \in Op \cup {None}, OpIs(o)'
    PROVE  op' \in [Operator -> Op \cup {None}] /\ Acting'
<1>1. op \in [Operator -> Op \cup {None}] /\ Acting
  BY DEF IInv, Types, PartyType
<1>2. ASSUME NEW p \in Operator, p # o PROVE OpIs(p)'
  <2>1. op'[p] = op[p] /\ OpIs(p)
    BY <1>1, <1>2 DEF Acting
  <2> QED BY <2>1 DEF OpIs
<1> QED BY <1>1, <1>2 DEF Acting

LEMMA Targets ==
    ASSUME IInv, NEW s \in Source, NEW a \in Acts
    PROVE  /\ Target(s, a) \in Mode
           /\ Target(s, a) = "ACTIVE" => a = "activate"
           /\ Target(s, a) = "SHADOW" =>
                \/ a = "rollback" /\ mode[s] \notin {"BASELINE", "PAUSED", "SHADOW"}
                \/ a \in {"complete-baseline", "resume"}
BY DiscoveryAssumption DEF Target, Mode, LifecycleAction

LEMMA OpReading ==
    ASSUME IInv, NEW o \in Operator, OpRead(o)
    PROVE  IInv'
<1>1. PICK s \in Source, a \in Acts :
        /\ a = "rollback" => mode[s] \notin {"DISABLED", "RETIRED"}
        /\ op' = [op EXCEPT ![o] =
                    [act |-> a, source |-> s, to |-> Target(s, a),
                     full |-> a = "rollback" /\ mode[s] = "ACTIVE",
                     from |-> None, queue |-> {}]]
  BY DEF OpRead
<1> DEFINE q == [act |-> a, source |-> s, to |-> Target(s, a),
                 full |-> a = "rollback" /\ mode[s] = "ACTIVE",
                 from |-> None, queue |-> {}]
<1>2. /\ op \in [Operator -> Op \cup {None}] /\ mode[s] \in Mode /\ a \in LifecycleAction
  BY DiscoveryAssumption DEF IInv, Types, PartyType, PolicyType
<1>3. q \in Op
  BY <1>2, Targets DEF Op
<1>4. op'[o] = q
  BY <1>1, <1>2
<1>5. OpIs(o)'
  <2>1. q.to = "SHADOW" => q.full \/ q.act \in {"complete-baseline", "resume"}
    BY <1>1, <1>2, Targets DEF Mode
  <2>2. q.to = "ACTIVE" => q.act = "activate"
    BY Targets
  <2>3. q.full => q.act = "rollback"
    OBVIOUS
  <2>4. q.queue = {} /\ q.from = None
    OBVIOUS
  <2> HIDE DEF q
  <2> QED BY <1>4, <2>1, <2>2, <2>3, <2>4 DEF OpIs
<1>6. op' \in [Operator -> Op \cup {None}] /\ Acting'
  <2> HIDE DEF q
  <2> QED BY <1>1, <1>3, <1>5, OwnAction DEF q
<1> QED BY <1>6, Untouched, Assembled DEF OpRead, policyVars

LEMMA OpLoading ==
    ASSUME IInv, NEW o \in Operator, OpLoad(o)
    PROVE  IInv'
<1> DEFINE s == op[o].source
<1>1. PICK S \in IF op[o].act = "activate" THEN Selections(s) ELSE {{}} :
        op' = [op EXCEPT ![o].from = mode[s], ![o].queue = S]
  BY DEF OpLoad
<1>2. /\ op[o] # None /\ Accepts(op[o])
      /\ op \in [Operator -> Op \cup {None}] /\ OpIs(o)
  BY DEF OpLoad, IInv, Types, PartyType, Acting
<1>3. op[o] \in Op
  BY <1>2
<1>4. s \in Source /\ mode[s] \in Mode /\ S \subseteq Item
  BY <1>3 DEF Op, IInv, Types, PolicyType, Selections
<1> DEFINE q == [op[o] EXCEPT !.from = mode[s], !.queue = S]
<1>5. q \in Op /\ op' = [op EXCEPT ![o] = q]
  BY <1>1, <1>2, <1>3, <1>4 DEF Op
<1>6. op'[o] = q
  BY <1>2, <1>5
<1>7. OpIs(o)'
  <2>1. /\ q.act = op[o].act /\ q.to = op[o].to /\ q.full = op[o].full
        /\ q.from = mode[s] /\ q.queue = S
    BY <1>3 DEF Op
  <2>2. S # {} => op[o].act = "activate"
    BY <1>1
  <2>3. op[o].full \/ op[o].act = "activate" => mode[s] \in {"SHADOW", "ACTIVE"}
    BY <1>2 DEF Accepts, OpIs, Forward
  <2> QED BY <1>2, <1>6, <2>1, <2>2, <2>3 DEF OpIs
<1>8. op' \in [Operator -> Op \cup {None}] /\ Acting'
  <2> HIDE DEF q
  <2> QED BY <1>5, <1>7, OwnAction
<1> QED BY <1>8, Untouched, Assembled DEF OpLoad, policyVars

\* An action that is done or refused is forgotten.
LEMMA Forgotten ==
    ASSUME IInv, NEW o \in Operator, op' = [op EXCEPT ![o] = None]
    PROVE  op' \in [Operator -> Op \cup {None}] /\ Acting'
<1>1. op'[o] = None
  BY DEF IInv, Types, PartyType
<1>2. OpIs(o)'
  BY <1>1 DEF OpIs
<1> QED BY <1>2, OwnAction

\* What an operator's commit finds.
LEMMA CommitFinds ==
    ASSUME IInv, NEW o \in Operator, OpCommit(o)
    PROVE  /\ op[o] \in Op /\ OpIs(o) /\ op[o].source \in Source
           /\ owner[op[o].source] = None /\ mode[op[o].source] = op[o].from
           /\ op[o].from # None
<1>1. op[o] # None /\ op \in [Operator -> Op \cup {None}] /\ OpIs(o)
  BY DEF OpCommit, IInv, Types, PartyType, Acting
<1> QED BY <1>1 DEF Op, OpCommit, Idling

LEMMA CommitLedger ==
    ASSUME IInv, NEW o \in Operator, OpCommit(o)
    PROVE  LedgerType' /\ (Ledger!Queue \/ Ledger!Cancel)
<1> DEFINE q == op[o]
<1>1. /\ q \in Op /\ OpIs(o) /\ LedgerType /\ q # None
  BY CommitFinds DEF IInv, Types, OpCommit
<1>2. /\ job' = [x \in Item |-> IF q.full /\ x \in Cancellable(q.source)
                                THEN "CANCELLED" ELSE job[x]]
      /\ status' = [x \in Item |-> IF x \in q.queue /\ status[x] = "DISCOVERED"
                                   THEN "QUEUED" ELSE status[x]]
      /\ UNCHANGED origin
  BY DEF OpCommit
<1>3. LedgerType'
  BY <1>1, <1>2 DEF LedgerType, Ledger!TypeOK, Ledger!Status, Ledger!JobState
<1>4. CASE q.full
  <2>1. q.queue = {}
    BY <1>1, <1>4 DEF OpIs
  <2>2. UNCHANGED status
    BY <1>1, <1>2, <2>1 DEF LedgerType, Ledger!TypeOK
  <2>3. \A x \in Item : job'[x] # job[x] =>
          job[x] = "PENDING" /\ job'[x] = "CANCELLED" /\ status[x] \in {"DISCOVERED", "QUEUED"}
    BY <1>2 DEF Cancellable
  <2> QED BY <1>3, <2>2, <2>3 DEF LedgerType, Ledger!TypeOK, Ledger!Cancel
<1>5. CASE ~q.full
  <2>1. UNCHANGED job
    BY <1>1, <1>2, <1>5 DEF LedgerType, Ledger!TypeOK
  <2> QED BY <1>2, <1>3, <2>1 DEF LedgerType, Ledger!TypeOK, Ledger!Queue
<1> QED BY <1>3, <1>4, <1>5

LEMMA OpCommitting ==
    ASSUME IInv, NEW o \in Operator, OpCommit(o)
    PROVE  IInv'
<1> DEFINE q == op[o]
           s == q.source
<1>1. /\ q \in Op /\ s \in Source /\ owner[s] = None /\ Types /\ Leased /\ PausedIsNotScheduled
      /\ \A w \in Worker : w # None
  BY CommitFinds, DiscoveryAssumption DEF IInv
<1>2. /\ mode' = [mode EXCEPT ![s] = q.to]
      /\ IF q.to \in Claimable /\ ~q.full THEN DueNow(s) ELSE Park(s)
      /\ window' = CASE q.act = "begin-baseline"    -> [window EXCEPT ![s] = -1]
                     [] q.act = "complete-baseline" -> [window EXCEPT ![s] = published]
                     [] OTHER                       -> window
      /\ generation' = [generation EXCEPT ![s] = IF q.full THEN @ + 1 ELSE @]
      /\ op' = [op EXCEPT ![o] = None]
      /\ UNCHANGED <<trusted, streak, leaseVars, backoff, run, elsewhere, boundVars>>
  BY DEF OpCommit
<1>3. PolicyType'
  <2>1. q.to \in Mode /\ published \in -1 .. Items /\ -1 \in -1 .. Items
    BY <1>1, DiscoveryAssumption DEF Op, Types, BoundType
  <2>2. window' \in [Source -> -1 .. Items]
    BY <1>1, <1>2, <2>1 DEF Types, PolicyType
  <2> QED BY <1>1, <1>2, <2>1, <2>2 DEF Types, PolicyType
<1>4. WhenType' /\ PausedIsNotScheduled'
  <2>1. Ordered'
    BY <1>1, <1>2, ReschedulesKeepsOrder DEF Types, WhenType, Reschedules
  <2>2. PausedIsNotScheduled'
    BY <1>1, <1>2 DEF Types, PolicyType, PausedIsNotScheduled, DueNow, Park
  <2> QED BY <1>1, <1>2, <2>1, <2>2 DEF Types, WhenType
<1>5. LeaseType' /\ Leased'
  BY <1>1, <1>2 DEF Types, PolicyType, LeaseType, Leased, leaseVars
<1>6. run' \in [Worker -> Run] /\ Running'
  <2>1. ASSUME NEW w \in Worker PROVE RunIs(w)'
    <3>1. RunIs(w) /\ run'[w] = run[w]
      BY <1>2 DEF IInv, Running
    <3>2. CASE run[w].pc = "idle" \/ ~Holds(w)
      BY <1>2, <3>1, <3>2 DEF RunIs, Holds, leaseVars
    <3>3. CASE run[w].pc # "idle" /\ Holds(w)
      <4>1. run[w].source \in Source /\ run[w].source # s
        BY <1>1, <3>3, RunSource DEF Holds
      <4>2. mode'[run[w].source] = mode[run[w].source]
        BY <1>1, <1>2, <4>1 DEF Types, PolicyType
      <4> QED BY <1>2, <3>1, <4>2 DEF RunIs, Holds, leaseVars
    <3> QED BY <3>2, <3>3
  <2> QED BY <1>1, <1>2, <2>1 DEF Types, PartyType, Running
<1> QED BY <1>2, <1>3, <1>4, <1>5, <1>6, Forgotten, CommitLedger, Untouched, Assembled

LEMMA Operating ==
    ASSUME IInv, NEW o \in Operator, OperatorStep(o)
    PROVE  IInv'
<1>1. CASE OpConflict(o)
  <2>1. op' = [op EXCEPT ![o] = None]
    BY <1>1 DEF OpConflict
  <2> QED BY <1>1, <2>1, Forgotten, Untouched, Assembled DEF OpConflict, policyVars
<1> QED BY <1>1, OpReading, OpLoading, OpCommitting DEF OperatorStep

-----------------------------------------------------------------------------
(* The backfill *)

\* Backfill counts as this module does.
LEMMA SameCardinality == \A S : Fill!Cardinality(S) = Cardinality(S)
BY DEF Cardinality, Fill!Cardinality

LEMMA ItemsFinite ==
    ASSUME NEW S \in SUBSET Item
    PROVE  S \subseteq Nat /\ IsFiniteSet(S) /\ Cardinality(S) \in Nat
<1>1. 1 \in Int /\ Items \in Int /\ Item = 1 .. Items
  BY DiscoveryAssumption DEF Item
<1>2. IsFiniteSet(Item)
  BY <1>1, FS_Interval
<1>3. IsFiniteSet(S) /\ Cardinality(S) \in Nat
  BY <1>2, FS_Subset, FS_CardinalityType
<1> QED BY <1>1, <1>3

LEMMA CursorIsNat == \A c \in Item \cup {0} : c \in Nat
BY DiscoveryAssumption DEF Item

\* The identities are ordered, so a set of them that is not empty has a last one.
LEMMA LastOf ==
    ASSUME NEW S \in SUBSET Item, S # {}
    PROVE  Fill!Max(S) \in S /\ \A x \in S : Fill!Max(S) >= x
<1> DEFINE Left(x) == Items - x
           left == {Left(x) : x \in S}
<1>1. S \subseteq Nat /\ Items \in Nat /\ \A x \in S : x <= Items
  <2>1. 1 \in Nat /\ Items \in Nat /\ \A x \in Item : x \in Nat /\ x <= Items
    BY DiscoveryAssumption DEF Item
  <2> QED BY <2>1
<1>2. left \in SUBSET Nat /\ left # {}
  <2>1. \A x \in S : Left(x) \in Nat
    BY <1>1
  <2> HIDE DEF Left
  <2> QED BY <2>1
<1>3. PICK n \in left : \A m \in left : n <= m
  <2> HIDE DEF left
  <2> QED BY <1>2, LeastExists
<1>4. PICK x \in S : n = Left(x)
  OBVIOUS
<1>5. ASSUME NEW y \in S PROVE x >= y
  <2>1. Left(x) <= Left(y)
    BY <1>3, <1>4
  <2> QED BY <1>1, <2>1
<1> QED BY <1>5 DEF Fill!Max

\* No more than so many members of a set have fewer than so many before them.
LEMMA FewFirst ==
    ASSUME NEW S \in SUBSET Item, NEW n \in Nat
    PROVE  Cardinality({x \in S : Cardinality({y \in S : y < x}) < n}) <= n
<1> DEFINE Before(x) == {y \in S : y < x}
           first == {x \in S : Cardinality(Before(x)) < n}
           rank == [x \in first |-> Cardinality(Before(x)) + 1]
<1>1. S \subseteq Nat /\ IsFiniteSet(S)
  BY ItemsFinite
<1>2. \A x \in S : IsFiniteSet(Before(x)) /\ Cardinality(Before(x)) \in Nat
  BY <1>1, FS_Subset, FS_CardinalityType
<1>3. ASSUME NEW x \in S, NEW y \in S, x < y
      PROVE  Cardinality(Before(x)) # Cardinality(Before(y))
  <2>0. ~ (x < x) /\ \A z \in S : z < x => z < y
    BY <1>1, <1>3
  <2>1. Before(x) \subseteq Before(y) /\ x \in Before(y) /\ x \notin Before(x)
    BY <1>3, <2>0
  <2>2. Before(x) \in SUBSET Before(y) /\ Before(x) # Before(y)
    BY <2>1
  <2> HIDE DEF Before
  <2> QED BY <1>2, <2>2, FS_Subset
<1>4. rank \in [first -> 1 .. n]
  BY <1>2
<1>5. ASSUME NEW x \in first, NEW y \in first, rank[x] = rank[y] PROVE x = y
  <2>0. x \in S /\ y \in S
    OBVIOUS
  <2>1. Cardinality(Before(x)) = Cardinality(Before(y))
    <3>1. Cardinality(Before(x)) \in Nat /\ Cardinality(Before(y)) \in Nat
      BY <1>2, <2>0
    <3>2. \A z \in first : rank[z] = Cardinality(Before(z)) + 1
      <4> HIDE DEF Before, first
      <4> QED OBVIOUS
    <3> HIDE DEF Before, rank, first
    <3> QED BY <1>5, <3>1, <3>2
  <2> QED BY <1>1, <1>3, <2>1
<1>6. rank \in Injection(first, 1 .. n)
  <2> HIDE DEF rank, first
  <2> QED BY <1>4, <1>5 DEF Injection, IsInjective
<1>7. IsFiniteSet(1 .. n) /\ Cardinality(1 .. n) = n
  BY FS_Interval
<1> HIDE DEF rank
<1>8. Cardinality(first) <= n
  BY <1>6, <1>7, FS_Injection
<1> QED BY <1>8

\* The smaller of two numbers.
LEMMA Smaller ==
    ASSUME NEW a \in Nat, NEW b \in Nat
    PROVE  Fill!Min({a, b}) \in Nat /\ Fill!Min({a, b}) <= b
<1>1. \E x \in {a, b} : \A y \in {a, b} : x =< y
  OBVIOUS
<1>2. Fill!Min({a, b}) \in {a, b} /\ \A y \in {a, b} : Fill!Min({a, b}) =< y
  BY <1>1 DEF Fill!Min
<1> QED BY <1>2

LEMMA BatchReading ==
    ASSUME IInv, NEW w \in Worker, Fill!ReadBatch(w)
    PROVE  FillType' /\ Filling'
<1> DEFINE found == {x \in Dated : x > backfill.cursor /\ Fill!Reactivatable(x)}
           take == Fill!Min({BatchSize, ItemCap - backfill.reactivated})
           read == {x \in found : Cardinality({y \in found : y < x}) < take}
           b == [cursor |-> backfill.cursor, items |-> read]
<1>1. /\ backfill \in BackfillRow /\ batch \in [Worker -> Batch \cup {None}] /\ Filling
      /\ batch' = [batch EXCEPT ![w] = b] /\ UNCHANGED backfill
  <2>1. batch' = [batch EXCEPT ![w] = b] /\ UNCHANGED backfill
    BY SameCardinality DEF Fill!ReadBatch
  <2> QED BY <2>1 DEF IInv, Types, FillType
<1>2. /\ backfill.reactivated \in 0 .. ItemCap /\ backfill.cursor \in Item \cup {0}
      /\ Item \subseteq Nat /\ found \subseteq Item /\ ItemCap \in Nat /\ BatchSize \in Nat
  <2>1. Dated \subseteq Item /\ Item \subseteq Nat /\ ItemCap \in Nat /\ BatchSize \in Nat
    BY DiscoveryAssumption, ItemsFinite
  <2>2. found \subseteq Item
    BY <2>1
  <2> HIDE DEF found
  <2> QED BY <1>1, <2>1, <2>2 DEF BackfillRow
<1>3. take \in Nat /\ take <= ItemCap - backfill.reactivated
  BY <1>2, Smaller
<1>4. /\ Cardinality(read) <= take /\ read \subseteq Dated
      /\ \A x \in read : backfill.cursor < x
  <2>1. found \in SUBSET Item
    BY <1>2
  <2> HIDE DEF take
  <2>2. Cardinality(read) <= take
    <3> HIDE DEF found
    <3> QED BY <1>3, <2>1, FewFirst
  <2> QED BY <1>2, <2>2
<1>5. Cardinality(read) \in Nat
  <2>1. read \in SUBSET Item
    BY <1>2, <1>4
  <2> HIDE DEF read
  <2> QED BY <2>1, ItemsFinite
<1> HIDE DEF read, take, found
<1>6. b \in Batch /\ batch'[w] = b
  BY <1>1, <1>2, <1>4 DEF Batch
<1>7. BatchFits(w)'
  <2>1. Cardinality(read) <= ItemCap - backfill.reactivated
    BY <1>2, <1>3, <1>4, <1>5
  <2>2. backfill.cursor <= backfill.cursor
    <3>1. backfill.cursor \in Nat
      BY <1>2, CursorIsNat
    <3> QED BY <3>1
  <2> QED BY <1>1, <1>4, <1>6, <2>1, <2>2 DEF BatchFits
<1>8. ASSUME NEW v \in Worker, v # w PROVE BatchFits(v)'
  <2>1. batch'[v] = batch[v] /\ BatchFits(v)
    BY <1>1, <1>8 DEF Filling
  <2> QED BY <1>1, <2>1 DEF BatchFits
<1> QED BY <1>1, <1>6, <1>7, <1>8 DEF FillType, Filling

LEMMA BatchApplying ==
    ASSUME IInv, NEW w \in Worker, Fill!ApplyBatch(w)
    PROVE  FillType' /\ Filling'
<1> DEFINE items == batch[w].items
           done == Fill!Reactivated(w)
<1>1. /\ backfill \in BackfillRow /\ batch \in [Worker -> Batch \cup {None}] /\ Filling
      /\ batch[w] # None /\ items # {} /\ backfill.cursor = batch[w].cursor
      /\ backfill.status = "RUNNING"
      /\ backfill' = [backfill EXCEPT !.cursor = Fill!Max(items),
                                      !.reactivated = @ + Cardinality(done)]
      /\ batch' = [batch EXCEPT ![w] = None]
  BY SameCardinality DEF IInv, Types, FillType, Fill!ApplyBatch, Fill!Stands
<1>2. /\ items \in SUBSET Item /\ done \in SUBSET items /\ IsFiniteSet(items)
      /\ Item \subseteq Nat /\ ItemCap \in Nat
  <2>1. batch[w] \in Batch
    BY <1>1
  <2>2. items \in SUBSET Item /\ ItemCap \in Nat
    BY <2>1, DiscoveryAssumption DEF Batch
  <2>3. done \in SUBSET items
    BY DEF Fill!Reactivated
  <2>4. Item \subseteq Nat
    BY ItemsFinite
  <2> HIDE DEF items
  <2> QED BY <2>2, <2>3, <2>4, ItemsFinite
<1>3. /\ Cardinality(done) \in Nat /\ Cardinality(done) <= Cardinality(items)
      /\ Cardinality(items) \in Nat
  BY <1>2, FS_Subset, FS_CardinalityType
<1>4. Cardinality(items) <= ItemCap - backfill.reactivated
  BY <1>1 DEF Filling, BatchFits
<1>5. Fill!Max(items) \in items /\ Fill!Max(items) \in Item /\ backfill.cursor < Fill!Max(items)
  <2>1. Fill!Max(items) \in items
    BY <1>1, <1>2, LastOf
  <2> QED BY <1>1, <1>2, <2>1 DEF Filling, BatchFits
<1>6. /\ backfill.reactivated \in 0 .. ItemCap /\ backfill.cursor \in Item \cup {0}
      /\ backfill.reactivated + Cardinality(done) \in 0 .. ItemCap
  BY <1>1, <1>2, <1>3, <1>4 DEF BackfillRow
<1> HIDE DEF items, done
<1>7. /\ backfill' \in BackfillRow /\ backfill'.cursor = Fill!Max(items)
      /\ backfill'.status = "RUNNING"
  BY <1>1, <1>5, <1>6 DEF BackfillRow
<1>8. ASSUME NEW v \in Worker PROVE BatchFits(v)'
  <2>1. CASE v = w
    BY <1>1, <2>1 DEF BatchFits
  <2>2. CASE v # w
    <3>1. batch'[v] = batch[v] /\ BatchFits(v) /\ batch[v] \in Batch \cup {None}
      BY <1>1, <2>2 DEF Filling
    <3>2. ASSUME batch[v] # None
          PROVE  /\ batch[v].cursor \in Nat /\ batch[v].cursor <= backfill.cursor
                 /\ \A x \in batch[v].items : batch[v].cursor < x
      <4>1. batch[v].cursor \in Item \cup {0}
        BY <3>1, <3>2 DEF Batch
      <4> QED BY <3>1, <3>2, <4>1, CursorIsNat DEF BatchFits
    <3>3. backfill.cursor \in Nat /\ Fill!Max(items) \in Nat
      BY <1>5, <1>6, CursorIsNat
    <3>4. batch[v] # None => /\ batch[v].cursor <= Fill!Max(items)
                             /\ batch[v].cursor # Fill!Max(items)
      BY <1>5, <3>2, <3>3
    <3> QED BY <1>7, <3>1, <3>2, <3>4 DEF BatchFits
  <2> QED BY <2>1, <2>2
<1>9. batch' \in [Worker -> Batch \cup {None}]
  BY <1>1
<1> QED BY <1>7, <1>8, <1>9 DEF FillType, Filling

LEMMA BatchLedger ==
    ASSUME IInv, NEW w \in Worker, Fill!ApplyBatch(w)
    PROVE  Ledger!TypeOK' /\ Ledger!Reactivate
<1>1. /\ Ledger!TypeOK
      /\ status' = [x \in Item |-> IF x \in Fill!Reactivated(w) THEN "QUEUED" ELSE status[x]]
      /\ job' = [x \in Item |-> IF x \in Fill!Reactivated(w) /\ job[x] = "none"
                                THEN "PENDING" ELSE job[x]]
  BY DEF IInv, Types, LedgerType, Fill!ApplyBatch
<1>2. \A x \in Item : x \in Fill!Reactivated(w) => status[x] \in Ledger!Admissible
  BY DEF Fill!Reactivated, Fill!Reactivatable, Ledger!Admissible, Ledger!Inert
<1>3. Ledger!TypeOK'
  BY <1>1 DEF Ledger!TypeOK, Ledger!Status, Ledger!JobState
<1>4. \A x \in Item :
        /\ status'[x] # status[x] => /\ status[x] \in Ledger!Admissible /\ status'[x] = "QUEUED"
                                    /\ job'[x] # "none"
        /\ job'[x] # job[x] => /\ job[x] = "none" /\ job'[x] = "PENDING"
                              /\ status'[x] # status[x]
  BY <1>1, <1>2 DEF Ledger!Admissible, Ledger!Inert
<1> QED BY <1>3, <1>4 DEF Ledger!TypeOK, Ledger!Reactivate

\* The controls, and what is left of a worker's steps, keep the cursor and the cap.
LEMMA RestOfBackfill ==
    ASSUME IInv,
           \/ (backfills /\ Fill!Create) \/ Fill!Control
           \/ \E w \in Worker : Fill!Complete(w) \/ Fill!DropBatch(w)
    PROVE  FillType' /\ Filling'
<1>1. /\ backfill \in BackfillRow /\ batch \in [Worker -> Batch \cup {None}] /\ Filling
  BY DEF IInv, Types, FillType
<1>2. CASE backfills /\ Fill!Create
  <2>1. /\ UNCHANGED batch
        /\ backfill' = [status |-> "RUNNING", cursor |-> 0, reactivated |-> 0]
        /\ backfill.cursor = 0 /\ backfill.reactivated = 0
    BY <1>1, <1>2 DEF Fill!Create, Fill!NoBackfill, Filling
  <2> QED BY <1>1, <2>1, DiscoveryAssumption DEF FillType, Filling, BatchFits, BackfillRow
<1>3. CASE Fill!Control
  <2>1. PICK c \in Fill!Controls : /\ backfill.status = c[1] /\ UNCHANGED batch
                                   /\ backfill' = [backfill EXCEPT !.status = c[2]]
    BY <1>3 DEF Fill!Control
  <2>2. c[2] \in {"PAUSED", "RUNNING", "CANCELLED"}
    BY DEF Fill!Controls
  <2> QED BY <1>1, <2>1, <2>2 DEF FillType, Filling, BatchFits, BackfillRow
<1>4. ASSUME NEW w \in Worker, Fill!Complete(w) \/ Fill!DropBatch(w)
      PROVE  FillType' /\ Filling'
  <2>1. /\ batch' = [batch EXCEPT ![w] = None]
        /\ backfill' = backfill \/ backfill' = [backfill EXCEPT !.status = "COMPLETED"]
    BY <1>4 DEF Fill!Complete, Fill!DropBatch
  <2>2. ASSUME NEW v \in Worker PROVE BatchFits(v)'
    BY <1>1, <2>1 DEF BatchFits, Filling, BackfillRow
  <2> QED BY <1>1, <2>1, <2>2 DEF FillType, Filling, BackfillRow
<1> QED BY <1>2, <1>3, <1>4

-----------------------------------------------------------------------------
(* Time, the site, requests and the ingestion workers *)

LEMMA Scheduling ==
    ASSUME IInv, (\E s \in Source : BackoffEnds(s) \/ ComesDue(s)) \/ Request
    PROVE  IInv'
<1>1. WhenType /\ PausedIsNotScheduled
  BY DEF IInv, Types
<1>2. WhenType' /\ PausedIsNotScheduled'
  <2>1. ASSUME NEW s \in Source, BackoffEnds(s) PROVE WhenType' /\ PausedIsNotScheduled'
    BY <1>1, <2>1 DEF BackoffEnds, WhenType, Ordered, PausedIsNotScheduled, policyVars
  <2>2. ASSUME NEW s \in Source, ComesDue(s) PROVE WhenType' /\ PausedIsNotScheduled'
    <3>1. /\ {s} \in SUBSET Source /\ Last({s}) /\ parked' = parked \ {s} /\ parked' = parked
          /\ UNCHANGED <<backoff, mode>>
      BY <2>2 DEF ComesDue, policyVars
    <3>2. Ordered'
      BY <1>1, <3>1, LastKeepsOrder DEF WhenType
    <3> QED BY <1>1, <3>1, <3>2 DEF WhenType, PausedIsNotScheduled
  <2>3. CASE Request
    <3>1. /\ Requested \in SUBSET Source /\ Last(Requested) /\ parked' = parked \ Requested
          /\ UNCHANGED <<backoff, mode>>
      BY <2>3 DEF Request, Requested, policyVars
    <3>2. Ordered'
      BY <1>1, <3>1, LastKeepsOrder DEF WhenType
    <3> QED BY <1>1, <3>1, <3>2 DEF WhenType, PausedIsNotScheduled, Requested
  <2> QED BY <2>1, <2>2, <2>3
<1> QED BY <1>2, Untouched, Assembled DEF BackoffEnds, ComesDue, Request, policyVars

LEMMA Expiring ==
    ASSUME IInv, NEW s \in Source, Expire(s)
    PROVE  IInv'
<1>1. LeaseType /\ Leased /\ Running /\ run \in [Worker -> Run]
  BY DEF IInv, Types, PartyType
<1>2. /\ UNCHANGED <<policyVars, owner, run>> /\ expired' = [expired EXCEPT ![s] = TRUE]
      /\ UNCHANGED faults \/ (faults < MaxFaults /\ faults' = faults + 1)
  BY DEF Expire
<1>3. LeaseType' /\ Leased' /\ run' \in [Worker -> Run] /\ Running'
  BY <1>1, <1>2 DEF LeaseType, Leased, Running, RunIs, Holds, policyVars
<1> QED BY <1>2, <1>3, Untouched, Assembled DEF Expire, policyVars

LEMMA Trusting ==
    ASSUME IInv, NEW s \in Source, SetTrust(s)
    PROVE  IInv'
<1>1. PolicyType'
  BY DEF IInv, Types, PolicyType, SetTrust
<1> QED BY <1>1, Untouched, Assembled DEF SetTrust

LEMMA Publishing ==
    ASSUME IInv, Publish
    PROVE  IInv'
<1>1. /\ published' \in 0 .. Items /\ backfills' \in BOOLEAN
      /\ UNCHANGED <<backfill, batch, policyVars>>
  <2>1. published \in 0 .. Items /\ backfills \in BOOLEAN /\ Items \in Nat
    BY DiscoveryAssumption DEF IInv, Types, BoundType
  <2> QED BY <2>1 DEF Publish
<1>2. FillType' /\ Filling'
  BY <1>1 DEF IInv, Types, FillType, Filling, BatchFits
<1> QED BY <1>1, <1>2, Untouched, Assembled DEF Publish, policyVars

\* What an ingestion worker does to the ledger.
LEMMA TakeLedger ==
    ASSUME IInv, NEW x \in Item, TakeJob(x)
    PROVE  LedgerType' /\ Ledger!Take(x)
<1>1. LedgerType
  BY DEF IInv, Types
<1>2. LedgerType'
  BY <1>1 DEF TakeJob, LedgerType, Ledger!TypeOK, Ledger!Status, Ledger!JobState
<1> QED BY <1>2 DEF TakeJob, Ledger!Take

LEMMA Backfilling ==
    ASSUME IInv, Backfills
    PROVE  IInv'
<1>1. /\ UNCHANGED <<policyVars, leaseVars, whenVars, origin, run, op, published, backfills,
                     boundVars>>
      /\ published' \in 0 .. Items /\ backfills' \in BOOLEAN
  BY DEF Backfills, IInv, Types, BoundType
<1>2. FillType' /\ Filling'
  BY BatchReading, BatchApplying, RestOfBackfill DEF Backfills, Fill!Advance
<1>3. LedgerType'
  <2>1. LedgerType
    BY DEF IInv, Types
  <2>2. CASE UNCHANGED <<status, job>>
    BY <1>1, <2>1, <2>2 DEF LedgerType, Ledger!TypeOK
  <2>3. ASSUME NEW w \in Worker, Fill!ApplyBatch(w) PROVE LedgerType'
    BY <1>1, <2>1, <2>3, BatchLedger DEF LedgerType
  <2> QED BY <2>2, <2>3 DEF Backfills, Fill!Advance, Fill!Create, Fill!Control,
                            Fill!ReadBatch, Fill!Complete, Fill!DropBatch
<1> QED BY <1>1, <1>2, <1>3, Untouched, Assembled DEF policyVars

-----------------------------------------------------------------------------
(* The invariant *)

LEMMA Initially == Init => IInv
<1> SUFFICES ASSUME Init PROVE IInv
  OBVIOUS
<1>1. PICK start \in Starts :
        /\ mode = start.mode /\ backfills = start.backfills
        /\ acts = MaxActs - start.acts /\ faults = MaxFaults - start.faults
  BY DEF Init
<1>2. /\ mode \in [Source -> Mode] /\ backfills \in BOOLEAN
      /\ acts \in 0 .. MaxActs /\ faults \in 0 .. MaxFaults
  <2>1. /\ start \in [mode : [Source -> Mode], acts : 0 .. MaxActs, faults : 0 .. MaxFaults,
                      backfills : BOOLEAN]
        /\ MaxActs \in Nat /\ MaxFaults \in Nat
    BY DiscoveryAssumption
  <2> QED BY <1>1, <2>1
<1>3. PolicyType
  <2>1. Published0 \in -1 .. Items /\ -1 \in -1 .. Items /\ 0 \in 0 .. MaxStreak
    BY DiscoveryAssumption
  <2> QED BY <1>2, <2>1 DEF Init, PolicyType
<1>4. LeaseType /\ Leased /\ WhenType /\ PausedIsNotScheduled
  BY DEF Init, LeaseType, Leased, WhenType, Ordered, PausedIsNotScheduled
<1>5. LedgerType
  BY DEF Init, LedgerType, Ledger!TypeOK, Ledger!Status, Ledger!JobState
<1>6. run \in [Worker -> Run] /\ Running
  <2>1. run = [w \in Worker |-> Idle]
    BY DEF Init
  <2>2. \A w \in Worker : RunIs(w)
    BY <2>1 DEF RunIs, Idle
  <2> QED BY <2>1, <2>2, IdleRun DEF Running
<1>7. op \in [Operator -> Op \cup {None}] /\ Acting
  BY DEF Init, Acting, OpIs
<1>8. FillType /\ Filling
  BY DiscoveryAssumption
     DEF Init, Fill!Init, Fill!NoBackfill, FillType, Filling, BatchFits, BackfillRow
<1>9. published \in 0 .. Items
  BY DiscoveryAssumption DEF Init
<1> QED BY <1>2, <1>3, <1>4, <1>5, <1>6, <1>7, <1>8, <1>9
        DEF IInv, Types, PartyType, BoundType

LEMMA Inductive == IInv /\ [Next]_vars => IInv'
<1> SUFFICES ASSUME IInv, [Next]_vars PROVE IInv'
  OBVIOUS
<1>1. ASSUME NEW x \in Item, TakeJob(x) PROVE IInv'
  BY <1>1, TakeLedger, Untouched, Assembled DEF TakeJob, policyVars
<1>2. CASE UNCHANGED vars
  BY <1>2, Untouched, Assembled DEF vars, policyVars
<1> QED BY <1>1, <1>2, Working, Operating, Scheduling, Expiring, Trusting, Publishing,
           Backfilling DEF Next

THEOREM Invariance == Spec => []IInv
BY Initially, Inductive, PTL DEF Spec

\* The state is well formed: no schedule of runs, actions and requests makes a
\* source that is not due come before one that is, and no overlap of batches
\* takes a backfill over its item cap.
THEOREM TypeCorrect == Spec => []TypeOK
<1>1. IInv => TypeOK
  BY TypesSuffice DEF IInv
<1> QED BY <1>1, Invariance, PTL

\* A source in a mode that must not run has no due time.
THEOREM NeverScheduledWhilePaused == Spec => []PausedIsNotScheduled
<1>1. IInv => PausedIsNotScheduled
  BY DEF IInv
<1> QED BY <1>1, Invariance, PTL

-----------------------------------------------------------------------------
(* The refinement of the ledger *)

\* Each step of discovery is a step of the ledger or none of its business.
LEMMA StepsOfTheLedger ==
    ASSUME IInv, [Next]_vars
    PROVE  [Ledger!Next]_(Ledger!ledger)
<1>1. CASE UNCHANGED <<status, job>>
  BY <1>1 DEF Ledger!ledger
<1>2. ASSUME NEW w \in Worker, CommitPage(w) PROVE Ledger!Next
  BY <1>2, PageLedger DEF Ledger!Next
<1>3. ASSUME NEW w \in Worker, Fill!ApplyBatch(w) PROVE Ledger!Next
  BY <1>3, BatchLedger DEF Ledger!Next
<1>4. ASSUME NEW o \in Operator, OpCommit(o) PROVE Ledger!Next
  BY <1>4, CommitLedger DEF Ledger!Next
<1>5. ASSUME NEW x \in Item, TakeJob(x) PROVE Ledger!Next
  BY <1>5, TakeLedger DEF Ledger!Next
<1>6. ASSUME NEW w \in Worker, WorkerStep(w), ~CommitPage(w) PROVE UNCHANGED <<status, job>>
  BY <1>6 DEF WorkerStep, Progress, Claim, Defer, FinalizeFailure, SkipDemotion, Abort, Crash,
              ReadPage, CommitFrontier, Degrade, RevokeTrust, RollToShadow, FinalizeSuccess,
              LeaseLost, ledgerVars
<1>7. ASSUME NEW o \in Operator, OperatorStep(o), ~OpCommit(o) PROVE UNCHANGED <<status, job>>
  BY <1>7 DEF OperatorStep, OpRead, OpLoad, OpConflict, ledgerVars
<1>8. CASE Backfills /\ ~(\E w \in Worker : Fill!ApplyBatch(w))
  BY <1>1, <1>8 DEF Backfills, Fill!Advance, Fill!Create, Fill!Control, Fill!ReadBatch,
              Fill!Complete, Fill!DropBatch
<1>9. ASSUME \/ \E s \in Source : SetTrust(s) \/ Expire(s) \/ BackoffEnds(s) \/ ComesDue(s)
             \/ Request \/ Publish \/ UNCHANGED vars
      PROVE  UNCHANGED <<status, job>>
  BY <1>9 DEF SetTrust, Expire, BackoffEnds, ComesDue, Request, Publish, vars, ledgerVars
<1> QED BY <1>1, <1>2, <1>3, <1>4, <1>5, <1>6, <1>7, <1>8, <1>9 DEF Next

\* Whatever runs of several sources, operators, backfills and ingestion workers do
\* to the candidates at once, the provider's ledger is only added to, and gets work
\* for an identity once.
THEOREM DiscoveryKeepsTheLedger == Spec => ImplementsLedger
<1>1. Init => Ledger!Init
  BY DEF Init, Ledger!Init
<1> QED BY <1>1, StepsOfTheLedger, Invariance, PTL DEF Spec, ImplementsLedger, Ledger!Spec

\* In the ledger, what is unknown has no job either.
LedgerInv == /\ Ledger!TypeOK
             /\ \A x \in Item : status[x] \in Ledger!Inert \cup {"none"} => job[x] = "none"

LEMMA LedgerInductive == LedgerInv /\ [Ledger!Next]_(Ledger!ledger) => LedgerInv'
<1> SUFFICES ASSUME LedgerInv, [Ledger!Next]_(Ledger!ledger) PROVE LedgerInv'
  OBVIOUS
<1> USE DEF LedgerInv, Ledger!TypeOK
<1>1. CASE Ledger!Admit
  BY <1>1 DEF Ledger!Admit, Ledger!Admissible, Ledger!Inert
<1>2. CASE Ledger!Queue
  BY <1>2 DEF Ledger!Queue, Ledger!Inert
<1>3. CASE Ledger!Reactivate
  BY <1>3 DEF Ledger!Reactivate, Ledger!Inert
<1>4. CASE Ledger!Cancel
  BY <1>4 DEF Ledger!Cancel, Ledger!Inert
<1>5. ASSUME NEW x \in Item, Ledger!Take(x) PROVE LedgerInv'
  BY <1>5 DEF Ledger!Take, Ledger!Inert, Ledger!Status, Ledger!JobState
<1>6. CASE UNCHANGED Ledger!ledger
  BY <1>6 DEF Ledger!ledger
<1> QED BY <1>1, <1>2, <1>3, <1>4, <1>5, <1>6 DEF Ledger!Next

\* The ledger promises it, so discovery keeps it: a candidate of a baseline, or one
\* published before the window, has no job.
THEOREM InertStaysIdle == Spec => []InertHasNoJob
<1>1. Ledger!Init => LedgerInv
  BY DEF Ledger!Init, LedgerInv, Ledger!TypeOK, Ledger!Status, Ledger!JobState
<1>2. LedgerInv => InertHasNoJob
  BY DEF LedgerInv, InertHasNoJob, Ledger!InertHasNoJob
<1> QED BY <1>1, <1>2, LedgerInductive, DiscoveryKeepsTheLedger, PTL
        DEF ImplementsLedger, Ledger!Spec

-----------------------------------------------------------------------------
(* What a step may never do *)

\* Work appears when a page commits, under the lease of a source that is ACTIVE, or
\* when a batch of a RUNNING backfill does.
LEMMA WantedStep ==
    ASSUME IInv, Next, NEW x \in Item, job[x] = "none", job'[x] = "PENDING"
    PROVE  \E w \in Worker :
             \/ run[w].pc = "read" /\ run'[w].pc = "paged" /\ mode[run[w].source] = "ACTIVE"
             \/ /\ batch[w] # None /\ batch'[w] = None /\ x \in batch[w].items
                /\ backfill.status = "RUNNING"
<1>1. Ledger!TypeOK /\ FillType /\ run \in [Worker -> Run]
  BY DEF IInv, Types, LedgerType, PartyType
<1>2. ASSUME NEW w \in Worker, CommitPage(w)
      PROVE  run[w].pc = "read" /\ run'[w].pc = "paged" /\ mode[run[w].source] = "ACTIVE"
  <2>1. /\ run[w].pc = "read" /\ Holds(w) /\ run[w] \in Run /\ RunIs(w)
        /\ job' = [y \in Item |-> IF y \in Enqueued(run[w]) THEN "PENDING" ELSE job[y]]
    BY <1>1, <1>2 DEF CommitPage, IInv, Running
  <2>2. run[w].pageMode = "ACTIVE"
    BY <2>1 DEF Enqueued, Eligible
  <2>3. run'[w].pc = "paged"
    BY <1>1, <1>2 DEF CommitPage, Run
  <2> QED BY <2>1, <2>2, <2>3 DEF RunIs
<1>3. ASSUME NEW w \in Worker, Fill!ApplyBatch(w)
      PROVE  /\ batch[w] # None /\ batch'[w] = None /\ x \in batch[w].items
             /\ backfill.status = "RUNNING"
  BY <1>1, <1>3 DEF Fill!ApplyBatch, Fill!Stands, Fill!Reactivated, FillType
<1>4. ASSUME NEW o \in Operator, OpCommit(o) PROVE FALSE
  BY <1>1, <1>4 DEF OpCommit, Cancellable
<1>5. ASSUME NEW y \in Item, TakeJob(y) PROVE FALSE
  BY <1>1, <1>5 DEF TakeJob, Ledger!TypeOK
<1>6. job' # job
  OBVIOUS
<1>7. ASSUME NEW w \in Worker, WorkerStep(w) PROVE CommitPage(w)
  BY <1>6, <1>7 DEF WorkerStep, Progress, Claim, Defer, FinalizeFailure, SkipDemotion, Abort,
              Crash, ReadPage, CommitFrontier, Degrade, RevokeTrust, RollToShadow,
              FinalizeSuccess, LeaseLost, ledgerVars
<1>8. ASSUME NEW o \in Operator, OperatorStep(o) PROVE OpCommit(o)
  BY <1>6, <1>8 DEF OperatorStep, OpRead, OpLoad, OpConflict, ledgerVars
<1>9. CASE Backfills
  BY <1>3, <1>6, <1>9 DEF Backfills, Fill!Advance, Fill!Create, Fill!Control,
              Fill!ReadBatch, Fill!Complete, Fill!DropBatch
<1>10. ASSUME \/ \E s \in Source : SetTrust(s) \/ Expire(s) \/ BackoffEnds(s) \/ ComesDue(s)
              \/ Request \/ Publish
       PROVE  FALSE
  BY <1>6, <1>10 DEF SetTrust, Expire, BackoffEnds, ComesDue, Request, Publish, ledgerVars
<1> QED BY <1>2, <1>4, <1>5, <1>7, <1>8, <1>9, <1>10 DEF Next

\* A page read under one mode, or a batch read under a backfill that was running,
\* creates no work once that has changed.
THEOREM NoUnwantedWork == Spec => WorkIsWanted
<1> DEFINE Wanted ==
      \A x \in Item : job[x] = "none" /\ job'[x] = "PENDING" =>
          \E w \in Worker :
             \/ run[w].pc = "read" /\ run'[w].pc = "paged" /\ mode[run[w].source] = "ACTIVE"
             \/ /\ batch[w] # None /\ batch'[w] = None /\ x \in batch[w].items
                /\ backfill.status = "RUNNING"
<1>1. IInv /\ [Next]_vars => [Wanted]_vars
  BY WantedStep
<1> QED BY <1>1, Invariance, PTL DEF Spec, WorkIsWanted

\* A run that holds its source no longer can only note that, die, or go on to its
\* next write.
LEMMA InertStep ==
    ASSUME IInv, Next, NEW w \in Worker,
           run[w].source # None, owner[run[w].source] # w, run'[w] # run[w]
    PROVE  UNCHANGED <<policyVars, leaseVars, whenVars, ledgerVars>>
<1>1. run \in [Worker -> Run] /\ RunIs(w) /\ run[w].pc # "idle" /\ ~Holds(w)
      /\ run' # run
  BY DEF IInv, Types, PartyType, Running, RunIs, Holds
<1>2. ASSUME NEW v \in Worker, WorkerStep(v) PROVE v = w
  <2>1. \E r : run' = [run EXCEPT ![v] = r]
    BY <1>2 DEF WorkerStep, Progress, Claim, Defer, FinalizeFailure, SkipDemotion, Abort, Crash,
           ReadPage, CommitPage, CommitFrontier, Degrade, RevokeTrust, RollToShadow,
           FinalizeSuccess, LeaseLost, Stop
  <2> QED BY <1>1, <2>1
<1>3. ASSUME WorkerStep(w) PROVE UNCHANGED <<policyVars, leaseVars, whenVars, ledgerVars>>
  <2>1. Degrade(w) \/ RollToShadow(w) => UNCHANGED <<mode, due, before, parked>>
    BY <1>1, Demotion DEF Degrade, RollToShadow, RunIs
  <2>2. CASE Degrade(w) \/ RollToShadow(w)
    BY <2>1, <2>2 DEF Degrade, RollToShadow, policyVars, whenVars
  <2>3. CASE RevokeTrust(w)
    BY <1>1, <2>3 DEF RevokeTrust, policyVars
  <2>4. CASE SkipDemotion(w) \/ Crash(w) \/ LeaseLost(w)
    BY <2>4 DEF SkipDemotion, Crash, LeaseLost
  <2> QED BY <1>1, <1>3, <2>2, <2>3, <2>4
          DEF WorkerStep, Progress, Claim, Defer, FinalizeFailure, Abort, ReadPage, CommitPage,
              CommitFrontier, FinalizeSuccess
<1>4. ASSUME \/ \E o \in Operator : OperatorStep(o)
             \/ \E s \in Source : SetTrust(s) \/ Expire(s) \/ BackoffEnds(s) \/ ComesDue(s)
             \/ \E x \in Item : TakeJob(x)
             \/ Request \/ Publish \/ Backfills
      PROVE  UNCHANGED run
  BY <1>4 DEF OperatorStep, OpRead, OpLoad, OpConflict, OpCommit, SetTrust, Expire,
              BackoffEnds, ComesDue, TakeJob, Request, Publish, Backfills
<1> QED BY <1>1, <1>2, <1>3, <1>4 DEF Next

\* Wherever in its calls a run is overtaken, what it does next changes nothing of
\* its source or of the ledger.
THEOREM OvertakenRunsChangeNothing == Spec => OvertakenRunIsInert
<1> DEFINE Stays ==
      \A w \in Worker : run[w].source # None /\ owner[run[w].source] # w /\ run'[w] # run[w] =>
          UNCHANGED <<policyVars, leaseVars, whenVars, ledgerVars>>
<1>1. IInv /\ [Next]_vars => [Stays]_vars
  BY InertStep
<1> QED BY <1>1, Invariance, PTL DEF Spec, OvertakenRunIsInert

-----------------------------------------------------------------------------
(* Baselines, when operators act one at a time *)

\* A resume that found a baseline goes to SHADOW, and its window stays as it was:
\* nobody else is at work who could begin another baseline.
ResumesBaselined ==
    \A o \in Operator : op[o] # None /\ op[o].act = "resume" /\ op[o].to = "SHADOW" =>
        window[op[o].source] # -1

Baselined == BaselinedBeforeShadow /\ ResumesBaselined

OneOperator == \A o, p \in Operator : o = p

LEMMA BaselinedStep == OneOperator /\ IInv /\ Baselined /\ [Next]_vars => Baselined'
<1> SUFFICES ASSUME OneOperator, IInv, Baselined, [Next]_vars PROVE Baselined'
  OBVIOUS
<1>1. /\ mode \in [Source -> Mode] /\ window \in [Source -> -1 .. Items]
      /\ op \in [Operator -> Op \cup {None}] /\ published \in 0 .. Items
  BY DEF IInv, Types, PolicyType, PartyType, BoundType
<1>2. CASE UNCHANGED <<mode, window, op>>
  BY <1>2 DEF Baselined, BaselinedBeforeShadow, ResumesBaselined
<1>3. ASSUME NEW w \in Worker, Degrade(w) \/ RollToShadow(w) PROVE Baselined'
  <2>1. run[w].pc \in {"frontier", "flagged"} /\ RunIs(w)
    BY <1>3 DEF Degrade, RollToShadow, IInv, Running
  <2>2. \/ UNCHANGED mode
        \/ /\ mode[run[w].source] = "ACTIVE"
           /\ mode' = [mode EXCEPT ![run[w].source] = "SHADOW"]
    BY <1>3, <2>1, Demotion DEF Degrade, RollToShadow, RunIs
  <2>3. UNCHANGED <<window, op>>
    BY <1>3 DEF Degrade, RollToShadow
  <2> QED BY <1>1, <1>2, <2>2, <2>3
          DEF Baselined, BaselinedBeforeShadow, ResumesBaselined
<1>4. ASSUME NEW o \in Operator, OpRead(o) PROVE Baselined'
  <2>1. PICK s \in Source, a \in Acts :
          op' = [op EXCEPT ![o] = [act |-> a, source |-> s, to |-> Target(s, a),
                                   full |-> a = "rollback" /\ mode[s] = "ACTIVE",
                                   from |-> None, queue |-> {}]]
    BY <1>4 DEF OpRead
  <2>2. a = "resume" /\ Target(s, a) = "SHADOW" => window[s] # -1
    BY DEF Target
  <2>3. UNCHANGED <<mode, window>>
    BY <1>4 DEF OpRead, policyVars
  <2>4. ASSUME NEW p \in Operator
        PROVE  /\ p = o /\ op'[p].act = a /\ op'[p].to = Target(s, a) /\ op'[p].source = s
    BY <1>1, <2>1 DEF OneOperator
  <2> QED BY <2>2, <2>3, <2>4 DEF Baselined, BaselinedBeforeShadow, ResumesBaselined
<1>5. ASSUME NEW o \in Operator, OpLoad(o) PROVE Baselined'
  <2>1. PICK m, S : op' = [op EXCEPT ![o].from = m, ![o].queue = S]
    BY <1>5 DEF OpLoad
  <2>2. op[o] # None /\ op[o] \in Op
    BY <1>1, <1>5 DEF OpLoad
  <2>3. UNCHANGED <<mode, window>>
    BY <1>5 DEF OpLoad, policyVars
  <2>4. ASSUME NEW p \in Operator
        PROVE  /\ p = o /\ op'[p].act = op[p].act /\ op'[p].to = op[p].to
               /\ op'[p].source = op[p].source
    BY <1>1, <2>1, <2>2 DEF OneOperator, Op
  <2> QED BY <2>2, <2>3, <2>4 DEF Baselined, BaselinedBeforeShadow, ResumesBaselined
<1>6. ASSUME NEW o \in Operator, OpConflict(o) PROVE Baselined'
  <2>1. UNCHANGED <<mode, window>> /\ op' = [op EXCEPT ![o] = None]
    BY <1>6 DEF OpConflict, policyVars
  <2>2. \A p \in Operator : op'[p] = None
    BY <1>1, <2>1 DEF OneOperator
  <2> QED BY <2>1, <2>2 DEF Baselined, BaselinedBeforeShadow, ResumesBaselined
<1>7. ASSUME NEW o \in Operator, OpCommit(o) PROVE Baselined'
  <2> DEFINE q == op[o]
             s == q.source
  <2>1. /\ q \in Op /\ OpIs(o) /\ s \in Source /\ mode[s] = q.from /\ q.from # None /\ q # None
        /\ mode' = [mode EXCEPT ![s] = q.to] /\ op' = [op EXCEPT ![o] = None]
    BY <1>7, CommitFinds DEF OpCommit
  <2>2. window' = CASE q.act = "begin-baseline"    -> [window EXCEPT ![s] = -1]
                    [] q.act = "complete-baseline" -> [window EXCEPT ![s] = published]
                    [] OTHER                       -> window
    BY <1>7 DEF OpCommit
  <2>3. \A p \in Operator : op'[p] = None
    BY <1>1, <2>1 DEF OneOperator
  <2>4. ASSUME mode'[s] \in {"SHADOW", "ACTIVE"}
        PROVE  window'[s] # -1 /\ q.act # "begin-baseline"
    <3>1. q.to \in {"SHADOW", "ACTIVE"}
      BY <1>1, <2>1, <2>4
    <3>2. \/ q.act \in {"activate", "complete-baseline", "resume"}
          \/ q.full /\ q.act = "rollback"
      BY <2>1, <3>1 DEF OpIs
    <3>3. CASE q.act = "complete-baseline"
      BY <1>1, <2>1, <2>2, <3>3
    <3>4. CASE q.act = "resume"
      <4>1. q.to = "SHADOW"
        BY <2>1, <3>1, <3>4 DEF OpIs
      <4> QED BY <2>1, <2>2, <3>4, <4>1 DEF Baselined, ResumesBaselined
    <3>5. CASE q.act = "activate" \/ (q.full /\ q.act = "rollback")
      <4>1. mode[s] \in {"SHADOW", "ACTIVE"}
        BY <2>1, <3>5 DEF OpIs
      <4> QED BY <2>1, <2>2, <3>5, <4>1 DEF Baselined, BaselinedBeforeShadow
    <3> QED BY <3>2, <3>3, <3>4, <3>5
  <2>5. ASSUME NEW r \in Source, r # s
        PROVE  mode'[r] = mode[r] /\ window'[r] = window[r]
    BY <1>1, <2>1, <2>2, <2>5
  <2>6. BaselinedBeforeShadow'
    BY <2>4, <2>5 DEF Baselined, BaselinedBeforeShadow
  <2>7. ResumesBaselined'
    BY <2>3 DEF ResumesBaselined
  <2> QED BY <2>6, <2>7 DEF Baselined
<1>8. ASSUME NEW w \in Worker, WorkerStep(w), ~Degrade(w), ~RollToShadow(w)
      PROVE  UNCHANGED <<mode, window, op>>
  BY <1>8 DEF WorkerStep, Progress, Claim, Defer, FinalizeFailure, SkipDemotion, Abort, Crash,
              ReadPage, CommitPage, CommitFrontier, RevokeTrust, FinalizeSuccess,
              LeaseLost, policyVars
<1>9. ASSUME \/ \E s \in Source : SetTrust(s) \/ Expire(s) \/ BackoffEnds(s) \/ ComesDue(s)
             \/ \E x \in Item : TakeJob(x)
             \/ Request \/ Publish \/ Backfills \/ UNCHANGED vars
      PROVE  UNCHANGED <<mode, window, op>>
  BY <1>9 DEF SetTrust, Expire, BackoffEnds, ComesDue, TakeJob, Request, Publish, Backfills,
              policyVars, vars
<1> QED BY <1>2, <1>3, <1>4, <1>5, <1>6, <1>7, <1>8, <1>9 DEF Next, OperatorStep

\* A source in SHADOW or ACTIVE has a completed baseline, as long as one operator
\* acts at a time; with two, the resume of one may miss the baseline that the other
\* begins (ResumeKeepsBaseline).
THEOREM NoShadowBeforeBaseline ==
    ASSUME OneOperator
    PROVE  Spec => []BaselinedBeforeShadow
<1>1. Init => Baselined
  BY DiscoveryAssumption DEF Init, Baselined, BaselinedBeforeShadow, ResumesBaselined
<1>2. Baselined => BaselinedBeforeShadow
  BY DEF Baselined
<1>3. IInv /\ Baselined /\ [Next]_vars => Baselined'
  BY BaselinedStep
<1> QED BY <1>1, <1>2, <1>3, Invariance, PTL DEF Spec

=============================================================================
