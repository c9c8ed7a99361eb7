--------------------------- MODULE JobQueue_proofs ---------------------------
(***************************************************************************)
(* Theorems about JobQueue, for every set of jobs, workers and callers and *)
(* every value of the other constants.                                     *)
(***************************************************************************)
EXTENDS JobQueue, TLAPS

-----------------------------------------------------------------------------
(* The row invariant *)

\* An execution has a job in hand, a call that found a row has it in hand, and a
\* running job was started by the worker that holds its lock.
HandsFull ==
    /\ \A w \in Worker : worker[w].pc \in Executing => InHand(w) \in Job
    /\ \A c \in Caller : call[c].pc \in {"reset", "confirm"} => call[c].found \in Job
    /\ \A j \in Job : job[j].status = "RUNNING" => starter[j] = job[j].lockedBy

IInv == TypeOK /\ RowConsistent /\ HandsFull /\ SeenCurrent

\* A row the invariant allows.
RowOK(r) ==
    /\ r \in Row
    /\ r.status \in RECLAIMABLE_STATUSES <=> r.lockedBy # None
    /\ r.status \in ACTIVE_STATUSES => r.attempts < MaxAttempts
    /\ r.status = "FAILED" => r.attempts > 0

\* Every guarded UPDATE turns an allowed row into an allowed row: claim, start,
\* heartbeat, complete, the two writes of failJob, retry, cancel, delete, insert
\* and the passing of time.
LEMMA RowWrites ==
    ASSUME NEW r, RowOK(r), NEW w \in Worker, NEW delay \in 0..MaxDelay
    PROVE  /\ RowOK(UnbornRow)
           /\ RowOK(DeletedRow)
           /\ RowOK(RetriedRow)
           /\ RowOK(PendingRow(delay))
           /\ RowOK(CancelledRow(r))
           /\ RowOK(OlderRow(r))
           /\ Claimable(r) => RowOK(ClaimedRow(r, w))
           /\ OwnedClaimed(r, w) => RowOK(StartedRow(r))
           /\ OwnedRunning(r, w) => /\ RowOK(HeartbeatRow(r))
                                    /\ RowOK(CompletedRow(r))
                                    /\ RowOK(DeadLetteredRow(r, r.attempts))
                                    /\ ~Exhausted(r.attempts) =>
                                         RowOK(FailedRow(r.attempts, delay))
<1> USE NoneAssumption, MaxAttemptsAssumption, LockTtlAssumption, MaxDelayAssumption
    DEF RowOK, Row, RowOf, UnlockedRow, ACTIVE_STATUSES, TERMINAL_STATUSES,
        RUNNABLE_STATUSES, RECLAIMABLE_STATUSES, ABSENT
<1>1. RowOK(UnbornRow) /\ RowOK(DeletedRow) /\ RowOK(RetriedRow)
  BY DEF UnbornRow, DeletedRow, RetriedRow
<1>2. RowOK(PendingRow(delay))
  BY DEF PendingRow
<1>3. RowOK(CancelledRow(r))
  BY DEF CancelledRow
<1>4. RowOK(OlderRow(r))
  BY DEF OlderRow
<1>5. Claimable(r) => RowOK(ClaimedRow(r, w))
  BY DEF Claimable, ClaimedRow
<1>6. OwnedClaimed(r, w) => RowOK(StartedRow(r))
  BY DEF OwnedClaimed, StartedRow
<1>7. OwnedRunning(r, w) => RowOK(HeartbeatRow(r)) /\ RowOK(CompletedRow(r))
  BY DEF OwnedRunning, HeartbeatRow, CompletedRow
<1>8. OwnedRunning(r, w) =>
        /\ RowOK(DeadLetteredRow(r, r.attempts))
        /\ ~Exhausted(r.attempts) => RowOK(FailedRow(r.attempts, delay))
  BY DEF OwnedRunning, Exhausted, DeadLetteredRow, FailedRow
<1> QED BY <1>1, <1>2, <1>3, <1>4, <1>5, <1>6, <1>7, <1>8

LEMMA InvRowOK ==
    ASSUME TypeOK, RowConsistent, NEW j \in Job
    PROVE  RowOK(job[j]) /\ job[j] \in Row
BY DEF TypeOK, RowConsistent, RowOK

\* Writing an allowed row keeps the table typed and consistent.
LEMMA RowStep ==
    ASSUME TypeOK, RowConsistent, NEW j \in Job, NEW row, RowOK(row), SetRow(j, row)
    PROVE  /\ job' \in [Job -> Row]
           /\ RowConsistent'
           /\ job'[j] = row
           /\ \A k \in Job \ {j} : job'[k] = job[k]
<1>1. /\ job' \in [Job -> Row]
      /\ job'[j] = row
      /\ \A k \in Job \ {j} : job'[k] = job[k]
  BY DEF TypeOK, SetRow, RowOK
<1>2. \A k \in Job : RowOK(job'[k])
  BY <1>1, InvRowOK
<1> QED BY <1>1, <1>2 DEF RowConsistent, RowOK

-----------------------------------------------------------------------------
(* Workers *)

LEMMA LoopStates ==
    /\ IdleWorker \in WorkerState /\ IdleWorker.pc = "idle"
    /\ Polling \in WorkerState /\ Polling.pc = "polling"
    /\ Ended \in WorkerState /\ Ended.pc = "gone"
BY MaxAttemptsAssumption, HeartbeatAssumption
   DEF IdleWorker, Polling, Ended, WorkerOf, WorkerState, WorkerPc, Executing

LEMMA ExecutionStates ==
    ASSUME NEW j \in Job, NEW pc \in WorkerPc, NEW scope \in {"live", "aborted", "lost"},
           NEW beat \in 0..HeartbeatEvery, NEW permanent \in BOOLEAN,
           NEW seen \in 0..MaxAttempts
    PROVE  /\ Holding(j, pc, scope, beat) \in WorkerState
           /\ Holding(j, pc, scope, beat).pc = pc
           /\ Holding(j, pc, scope, beat).job = j
           /\ WorkerOf(pc, j, scope, beat, permanent, seen) \in WorkerState
BY MaxAttemptsAssumption, HeartbeatAssumption
   DEF Holding, WorkerOf, WorkerState, WorkerPc, Executing

LEMMA AfterErrorTypes ==
    ASSUME TypeOK, NEW w \in Worker, InHand(w) \in Job, NEW permanent \in BOOLEAN
    PROVE  /\ AfterError(w, permanent) \in WorkerState
           /\ AfterError(w, permanent).pc \in {"failing", "idle", "gone"}
           /\ AfterError(w, permanent).pc = "failing" =>
                AfterError(w, permanent).job = InHand(w)
<1>1. worker[w].scope \in {"live", "aborted", "lost"}
  BY DEF TypeOK, WorkerState
<1>2. CASE worker[w].scope = "live"
  <2>1. AfterError(w, permanent) = WorkerOf("failing", InHand(w), "live", 0, permanent, 0)
    BY <1>2 DEF AfterError, Recording
  <2>2. AfterError(w, permanent) \in WorkerState
    BY <2>1, MaxAttemptsAssumption, HeartbeatAssumption
       DEF WorkerState, WorkerOf, WorkerPc, Executing
  <2> QED BY <2>1, <2>2 DEF WorkerOf
<1>3. CASE worker[w].scope = "lost" /\ ~stopping[w]
  BY <1>3, LoopStates DEF AfterError
<1>4. CASE ~(worker[w].scope = "live") /\ ~(worker[w].scope = "lost" /\ ~stopping[w])
  BY <1>4, LoopStates DEF AfterError
<1> QED BY <1>1, <1>2, <1>3, <1>4

-----------------------------------------------------------------------------
(* Steps of one worker *)

\* A step of w keeps the invariant if it puts w in a typed state with a job in
\* hand, reads the attempts of the row as they are, and leaves the rows that
\* other workers run as they were.
LEMMA WorkerInv ==
    ASSUME IInv, NEW w \in Worker, NEW st \in WorkerState,
           SetWorker(w, st), UNCHANGED <<stopping, call, served>>,
           st.pc \in Executing => st.job \in Job,
           st.pc = "recording" /\ OwnedRunning(job'[st.job], w) =>
               st.seen = job'[st.job].attempts,
           job' \in [Job -> Row], RowConsistent',
           starter' \in [Job -> Worker \cup {None}],
           \A j \in Job : job'[j].status = "RUNNING" => starter'[j] = job'[j].lockedBy,
           \A v \in Worker \ {w}, j \in Job :
               OwnedRunning(job'[j], v) => /\ OwnedRunning(job[j], v)
                                          /\ job'[j].attempts = job[j].attempts
    PROVE  IInv'
<1>1. worker' \in [Worker -> WorkerState]
  BY DEF IInv, TypeOK, SetWorker
<1>2. worker'[w] = st /\ \A v \in Worker \ {w} : worker'[v] = worker[v]
  BY DEF IInv, TypeOK, SetWorker
<1>3. TypeOK'
  BY <1>1 DEF IInv, TypeOK
<1>4. HandsFull'
  BY <1>2 DEF IInv, HandsFull, InHand
<1>5. SeenCurrent'
  <2> SUFFICES ASSUME NEW v \in Worker, worker'[v].pc = "recording",
                      OwnedRunning(job'[worker'[v].job], v)
               PROVE  worker'[v].seen = job'[worker'[v].job].attempts
    BY DEF SeenCurrent, InHand, OwnedRunning
  <2>1. CASE v = w
    BY <2>1, <1>2
  <2>2. CASE v # w
    BY <2>2, <1>2 DEF IInv, HandsFull, SeenCurrent, InHand, Executing
  <2> QED BY <2>1, <2>2
<1> QED BY <1>3, <1>4, <1>5 DEF IInv

\* A step that changes nothing but the state of w.
LEMMA OnlyWorkerInv ==
    ASSUME IInv, NEW w \in Worker, NEW st \in WorkerState,
           SetWorker(w, st), OnlyWorker,
           st.pc \in Executing => st.job \in Job,
           st.pc = "recording" => st.seen = job[st.job].attempts
    PROVE  IInv'
<1>1. job' = job /\ starter' = starter /\ UNCHANGED <<stopping, call, served>>
  BY DEF OnlyWorker
<1>2. job' \in [Job -> Row] /\ RowConsistent' /\ starter' \in [Job -> Worker \cup {None}]
  BY <1>1 DEF IInv, TypeOK, RowConsistent
<1>3. \A j \in Job : job'[j].status = "RUNNING" => starter'[j] = job'[j].lockedBy
  BY <1>1 DEF IInv, HandsFull
<1> QED BY <1>1, <1>2, <1>3, WorkerInv

\* A step of w that writes the row j, and no row another worker runs.
LEMMA WorkerRowInv ==
    ASSUME IInv, NEW w \in Worker, NEW st \in WorkerState, NEW j \in Job, NEW row,
           SetWorker(w, st), SetRow(j, row), RowOK(row), OnlyWorkerAndJob,
           st.pc \in (Executing \ {"recording"}) \cup {"idle", "gone"},
           st.pc \in Executing => st.job \in Job,
           row.status = "RUNNING" => starter[j] = row.lockedBy,
           row = job[j] \/ ~(row.status = "RUNNING") \/ row.lockedBy = w
    PROVE  IInv'
<1>1. /\ job' \in [Job -> Row] /\ RowConsistent'
      /\ job'[j] = row /\ \A k \in Job \ {j} : job'[k] = job[k]
  BY RowStep DEF IInv
<1>2. starter' = starter /\ UNCHANGED <<stopping, call, served>>
  BY DEF OnlyWorkerAndJob
<1>3. starter' \in [Job -> Worker \cup {None}]
  BY <1>2 DEF IInv, TypeOK
<1>4. \A k \in Job : job'[k].status = "RUNNING" => starter'[k] = job'[k].lockedBy
  BY <1>1, <1>2 DEF IInv, HandsFull
<1>5. \A v \in Worker \ {w}, k \in Job :
        OwnedRunning(job'[k], v) => /\ OwnedRunning(job[k], v)
                                   /\ job'[k].attempts = job[k].attempts
  BY <1>1 DEF OwnedRunning
<1>6. st.pc # "recording"
  BY DEF Executing
<1> QED BY <1>1, <1>2, <1>3, <1>4, <1>5, <1>6, WorkerInv

\* The step of startJob, whatever state it leaves the worker in.
LEMMA StartInv ==
    ASSUME IInv, NEW w \in Worker, NEW st \in WorkerState, NEW j \in Job,
           OwnedClaimed(job[j], w), SetRow(j, StartedRow(job[j])), SetWorker(w, st),
           starter' = [starter EXCEPT ![j] = w], UNCHANGED <<stopping, call, served>>,
           st.pc # "recording", st.pc \in Executing => st.job \in Job
    PROVE  IInv'
<1> USE DEF IInv
<1>1. RowOK(StartedRow(job[j]))
  BY InvRowOK, RowWrites, MaxDelayAssumption
<1>2. /\ job' \in [Job -> Row] /\ RowConsistent'
      /\ job'[j] = StartedRow(job[j]) /\ \A k \in Job \ {j} : job'[k] = job[k]
  BY <1>1, RowStep
<1>3. job'[j].lockedBy = w
  BY <1>2 DEF StartedRow, RowOf, OwnedClaimed
<1>4. starter' \in [Job -> Worker \cup {None}]
  BY DEF TypeOK
<1>5. \A k \in Job : job'[k].status = "RUNNING" => starter'[k] = job'[k].lockedBy
  BY <1>2, <1>3 DEF TypeOK, HandsFull
<1>6. \A v \in Worker \ {w}, k \in Job :
        OwnedRunning(job'[k], v) => /\ OwnedRunning(job[k], v)
                                   /\ job'[k].attempts = job[k].attempts
  BY <1>2, <1>3 DEF OwnedRunning
<1> QED BY <1>2, <1>4, <1>5, <1>6, WorkerInv

\* A step that writes a row, or leaves it, and drops the execution or goes on to
\* record its error.
LEMMA DropInv ==
    ASSUME IInv, NEW w \in Worker, NEW st, NEW j \in Job, NEW row,
           st \in {IdleWorker, Ended} \/ \E p \in BOOLEAN : st = AfterError(w, p),
           InHand(w) \in Job,
           SetWorker(w, st), SetRow(j, row), RowOK(row), OnlyWorkerAndJob,
           row = job[j] \/ ~(row.status = "RUNNING")
    PROVE  IInv'
<1>1. /\ st \in WorkerState /\ st.pc \in {"failing", "idle", "gone"}
      /\ st.pc = "failing" => st.job = InHand(w)
  BY LoopStates, AfterErrorTypes DEF IInv
<1>2. (st.pc \in Executing => st.job \in Job) /\ st.pc \in (Executing \ {"recording"}) \cup {"idle", "gone"}
  BY <1>1 DEF Executing
<1>3. row.status = "RUNNING" => starter[j] = row.lockedBy
  BY DEF IInv, HandsFull
<1>4. row = job[j] \/ ~(row.status = "RUNNING") \/ row.lockedBy = w
  OBVIOUS
<1> QED BY <1>1, <1>2, <1>3, <1>4, WorkerRowInv

\* failJob's UPDATE writes an allowed row that runs no longer, or leaves it.
LEMMA FailedRowsOK ==
    ASSUME IInv, NEW w \in Worker, worker[w].pc = "recording", NEW row \in FailedRows(w)
    PROVE  /\ RowOK(row)
           /\ row = job[InHand(w)] \/ ~(row.status = "RUNNING")
<1> DEFINE r == job[InHand(w)]
           seen == worker[w].seen
<1>1. RowOK(r)
  BY InvRowOK DEF IInv, HandsFull, Executing
<1>2. CASE ~OwnedRunning(r, w)
  BY <1>1, <1>2 DEF FailedRows
<1>3. CASE OwnedRunning(r, w) /\ (worker[w].permanent \/ Exhausted(seen))
  <2>1. seen = r.attempts /\ row = DeadLetteredRow(r, seen)
    BY <1>3 DEF FailedRows, IInv, SeenCurrent
  <2>2. row.status = "DEAD_LETTER"
    BY <2>1 DEF DeadLetteredRow, UnlockedRow, RowOf
  <2> QED BY <1>1, <1>3, <2>1, <2>2, RowWrites, MaxDelayAssumption
<1>4. CASE OwnedRunning(r, w) /\ ~(worker[w].permanent \/ Exhausted(seen))
  <2>1. PICK delay \in 0..MaxDelay : row = FailedRow(seen, delay)
    BY <1>4 DEF FailedRows
  <2>2. seen = r.attempts
    BY <1>4 DEF IInv, SeenCurrent
  <2>3. row.status = "FAILED"
    BY <2>1 DEF FailedRow, UnlockedRow, RowOf
  <2> QED BY <1>1, <1>4, <2>1, <2>2, <2>3, RowWrites
<1> QED BY <1>2, <1>3, <1>4

\* The steps a worker takes when nothing goes wrong.
LEMMA WorkerStepInv == ASSUME IInv, NEW w \in Worker, WorkerStep(w) PROVE IInv'
<1> USE DEF IInv
<1>hand. worker[w].pc \in Executing => InHand(w) \in Job /\ RowOK(job[InHand(w)])
  BY InvRowOK DEF HandsFull
<1>types. /\ worker[w] \in WorkerState
          /\ \A j \in Job : job[j] \in Row /\ RowOK(job[j])
  BY InvRowOK DEF TypeOK
<1>1. CASE Poll(w) \/ Stop(w) \/ ClaimNothing(w) \/ StartSkipped(w) \/ HandlerAborts(w)
  <2>1. \E st \in {IdleWorker, Polling, Ended} : SetWorker(w, st) /\ OnlyWorker
    BY <1>1 DEF Poll, Stop, ClaimNothing, StartSkipped, HandlerAborts
  <2>2. PICK st \in {IdleWorker, Polling, Ended} : SetWorker(w, st) /\ OnlyWorker
    BY <2>1
  <2> QED BY <2>2, LoopStates, OnlyWorkerInv DEF Executing
<1>2. ASSUME NEW j \in Job, Claim(w, j) PROVE IInv'
  <2>1. RowOK(ClaimedRow(job[j], w))
    BY <1>2, <1>types, RowWrites, MaxDelayAssumption DEF Claim
  <2>2. ClaimedRow(job[j], w).status = "CLAIMED"
    BY DEF ClaimedRow, RowOf
  <2>3. /\ Holding(j, "claimed", "live", 0) \in WorkerState
        /\ Holding(j, "claimed", "live", 0).pc = "claimed"
        /\ Holding(j, "claimed", "live", 0).job = j
    BY HeartbeatAssumption, MaxAttemptsAssumption
       DEF Holding, WorkerOf, WorkerState, WorkerPc, Executing
  <2> QED BY <1>2, <2>1, <2>2, <2>3, WorkerRowInv DEF Claim, Executing
<1>3. CASE Start(w)
  <2> DEFINE j == InHand(w)
             st == Holding(j, "running", worker[w].scope, HeartbeatEvery)
  <2>1. /\ j \in Job /\ OwnedClaimed(job[j], w)
        /\ SetRow(j, StartedRow(job[j])) /\ SetWorker(w, st)
        /\ starter' = [starter EXCEPT ![j] = w]
        /\ UNCHANGED <<stopping, call, served>>
    BY <1>3, <1>hand DEF Start, Executing
  <2>2. st \in WorkerState /\ st.pc = "running" /\ st.job = j
    BY <2>1, <1>types, HeartbeatAssumption, MaxAttemptsAssumption
       DEF Holding, WorkerOf, WorkerState, WorkerPc, Executing
  <2> HIDE DEF st
  <2> QED BY <2>1, <2>2, StartInv
<1>4. CASE Heartbeat(w)
  <2> DEFINE j == InHand(w)
  <2>0. j \in Job /\ RowOK(job[j])
    BY <1>4, <1>hand DEF Heartbeat, BeatDue, Executing
  <2>1. CASE OwnedRunning(job[j], w)
    <3>1. /\ SetRow(j, HeartbeatRow(job[j])) /\ OnlyWorkerAndJob
          /\ SetWorker(w, Holding(j, "running", "live", HeartbeatEvery))
      BY <1>4, <2>1 DEF Heartbeat
    <3>2. RowOK(HeartbeatRow(job[j]))
      BY <2>0, <2>1, RowWrites, MaxDelayAssumption
    <3>3. HeartbeatRow(job[j]).lockedBy = w /\ starter[j] = w
      BY <2>0, <2>1 DEF HeartbeatRow, RowOf, OwnedRunning, HandsFull
    <3>4. /\ Holding(j, "running", "live", HeartbeatEvery) \in WorkerState
          /\ Holding(j, "running", "live", HeartbeatEvery).pc = "running"
          /\ Holding(j, "running", "live", HeartbeatEvery).job = j
      BY <2>0, HeartbeatAssumption, MaxAttemptsAssumption
         DEF Holding, WorkerOf, WorkerState, WorkerPc, Executing
    <3> QED BY <2>0, <3>1, <3>2, <3>3, <3>4, WorkerRowInv DEF Executing
  <2>2. CASE ~OwnedRunning(job[j], w)
    <3>1. OnlyWorker /\ SetWorker(w, Holding(j, "running", AbortedScope(w), 0))
      BY <1>4, <2>2 DEF Heartbeat, OnlyWorker, OnlyWorkerAndJob
    <3>2. /\ Holding(j, "running", AbortedScope(w), 0) \in WorkerState
          /\ Holding(j, "running", AbortedScope(w), 0).pc = "running"
          /\ Holding(j, "running", AbortedScope(w), 0).job = j
      BY <2>0, HeartbeatAssumption, MaxAttemptsAssumption
         DEF Holding, WorkerOf, WorkerState, WorkerPc, Executing, AbortedScope
    <3> QED BY <2>0, <3>1, <3>2, OnlyWorkerInv
  <2> QED BY <2>1, <2>2
<1>5. CASE HandlerReturns(w)
  <2> DEFINE st == Holding(InHand(w), "finishing", worker[w].scope, 0)
  <2>0. InHand(w) \in Job
    BY <1>5, <1>hand DEF HandlerReturns, Executing
  <2>1. st \in WorkerState /\ st.pc = "finishing" /\ st.job = InHand(w)
    BY <2>0, <1>types, HeartbeatAssumption, MaxAttemptsAssumption
       DEF Holding, WorkerOf, WorkerState, WorkerPc, Executing
  <2>2. OnlyWorker /\ (SetWorker(w, IdleWorker) \/ SetWorker(w, st))
    BY <1>5 DEF HandlerReturns
  <2> HIDE DEF st
  <2> QED BY <2>0, <2>1, <2>2, LoopStates, OnlyWorkerInv DEF Executing
<1>6. ASSUME NEW permanent \in BOOLEAN, HandlerThrows(w, permanent) PROVE IInv'
  <2>0. InHand(w) \in Job
    BY <1>6, <1>hand DEF HandlerThrows, Executing
  <2> QED BY <1>6, <2>0, AfterErrorTypes, OnlyWorkerInv DEF HandlerThrows, Executing
<1>7. CASE Complete(w)
  <2> DEFINE j == InHand(w)
             row == IF OwnedRunning(job[j], w) THEN CompletedRow(job[j]) ELSE job[j]
  <2>0. j \in Job /\ RowOK(job[j])
    BY <1>7, <1>hand DEF Complete, Executing
  <2>1. SetRow(j, row) /\ SetWorker(w, IdleWorker) /\ OnlyWorkerAndJob
    BY <1>7 DEF Complete
  <2>2. RowOK(row)
    BY <2>0, RowWrites, MaxDelayAssumption
  <2>3. row = job[j] \/ row.status = "COMPLETED"
    BY DEF CompletedRow, UnlockedRow, RowOf
  <2> HIDE DEF row
  <2> QED BY <2>0, <2>1, <2>2, <2>3, DropInv
<1>8. CASE FailRead(w)
  <2> DEFINE j == InHand(w)
             st == Recording(w, "recording", worker[w].permanent, job[j].attempts)
  <2>0. j \in Job /\ job[j] \in Row
    BY <1>8, <1>hand, <1>types DEF FailRead, Executing
  <2>1. st \in WorkerState /\ st.pc = "recording" /\ st.job = j /\ st.seen = job[j].attempts
    BY <2>0, <1>types, HeartbeatAssumption
       DEF Recording, WorkerOf, WorkerState, WorkerPc, Executing, Row
  <2>2. OnlyWorker /\ (SetWorker(w, IdleWorker) \/ SetWorker(w, st))
    BY <1>8 DEF FailRead
  <2> HIDE DEF st
  <2> QED BY <2>0, <2>1, <2>2, LoopStates, OnlyWorkerInv DEF Executing
<1>9. CASE FailWrite(w)
  <2>1. PICK row \in FailedRows(w) : SetRow(InHand(w), row)
    BY <1>9 DEF FailWrite
  <2>2. worker[w].pc = "recording" /\ InHand(w) \in Job
    BY <1>9, <1>hand DEF FailWrite, Executing
  <2>3. RowOK(row) /\ (row = job[InHand(w)] \/ ~(row.status = "RUNNING"))
    BY <2>2, FailedRowsOK
  <2>4. SetWorker(w, IdleWorker) /\ OnlyWorkerAndJob
    BY <1>9 DEF FailWrite
  <2> QED BY <2>1, <2>2, <2>3, <2>4, DropInv
<1> QED
  BY <1>1, <1>2, <1>3, <1>4, <1>5, <1>6, <1>7, <1>8, <1>9 DEF WorkerStep

-----------------------------------------------------------------------------
(* Statements that throw, processes that die *)

\* The steps in which a statement throws, the process dies or the worker is told to
\* stop.
LEMMA WorkerFaultInv == ASSUME IInv, NEW w \in Worker, WorkerFault(w) PROVE IInv'
<1> USE DEF IInv
<1>hand. worker[w].pc \in Executing => InHand(w) \in Job /\ RowOK(job[InHand(w)])
  BY InvRowOK DEF HandsFull
<1>types. /\ worker[w] \in WorkerState
          /\ \A j \in Job : job[j] \in Row /\ RowOK(job[j])
  BY InvRowOK DEF TypeOK
<1>drop. Ended \in WorkerState /\ Ended.pc = "gone"
  BY LoopStates
<1>1. CASE ClaimThrows(w)
  <2>1. CASE UNCHANGED job
    BY <1>1, <2>1, <1>drop, OnlyWorkerInv
       DEF ClaimThrows, OnlyWorker, OnlyWorkerAndJob, Executing
  <2>2. ASSUME NEW j \in Job, Claimable(job[j]), SetRow(j, ClaimedRow(job[j], w))
        PROVE  IInv'
    <3>1. RowOK(ClaimedRow(job[j], w))
      BY <2>2, <1>types, RowWrites, MaxDelayAssumption
    <3>2. ClaimedRow(job[j], w).status = "CLAIMED"
      BY DEF ClaimedRow, RowOf
    <3>3. SetWorker(w, Ended) /\ OnlyWorkerAndJob
      BY <1>1 DEF ClaimThrows
    <3> QED BY <2>2, <3>1, <3>2, <3>3, <1>drop, WorkerRowInv DEF Executing
  <2> QED BY <1>1, <2>1, <2>2 DEF ClaimThrows
<1>2. CASE StartThrows(w)
  <2> DEFINE j == InHand(w)
             st == AfterError(w, FALSE)
  <2>1. j \in Job /\ SetWorker(w, st) /\ UNCHANGED <<stopping, call, served>>
    BY <1>2, <1>hand DEF StartThrows, Executing
  <2>2. st \in WorkerState /\ st.pc # "recording" /\ (st.pc \in Executing => st.job \in Job)
    BY <2>1, AfterErrorTypes DEF Executing
  <2>3. CASE UNCHANGED <<job, starter>>
    <3>1. OnlyWorker
      BY <2>1, <2>3 DEF OnlyWorker
    <3> HIDE DEF st
    <3> QED BY <2>1, <2>2, <3>1, OnlyWorkerInv
  <2>4. CASE /\ OwnedClaimed(job[j], w)
             /\ SetRow(j, StartedRow(job[j]))
             /\ starter' = [starter EXCEPT ![j] = w]
    <3> HIDE DEF st
    <3> QED BY <2>1, <2>2, <2>4, StartInv
  <2> QED BY <1>2, <2>3, <2>4 DEF StartThrows
<1>3. CASE HeartbeatThrows(w)
  <2> DEFINE j == InHand(w)
             st == Holding(j, "running", AbortedScope(w), 0)
             rows == IF OwnedRunning(job[j], w) THEN {HeartbeatRow(job[j])} ELSE {}
  <2>1. j \in Job /\ SetWorker(w, st) /\ OnlyWorkerAndJob
    BY <1>3, <1>hand DEF HeartbeatThrows, BeatDue, Executing
  <2>2. st \in WorkerState /\ st.pc = "running" /\ st.job = j
    BY <2>1, HeartbeatAssumption, MaxAttemptsAssumption
       DEF Holding, WorkerOf, WorkerState, WorkerPc, Executing, AbortedScope
  <2>3. PICK row \in rows \cup {job[j]} : SetRow(j, row)
    BY <1>3 DEF HeartbeatThrows, MayWrite
  <2>4. RowOK(row)
    BY <2>1, <2>3, <1>types, RowWrites, MaxDelayAssumption
  <2>5. /\ row = job[j] \/ row.lockedBy = w
        /\ row.status = "RUNNING" => starter[j] = row.lockedBy
    BY <2>1, <2>3 DEF HeartbeatRow, RowOf, OwnedRunning, HandsFull
  <2> HIDE DEF st
  <2> QED BY <2>1, <2>2, <2>3, <2>4, <2>5, WorkerRowInv DEF Executing
<1>4. CASE CompleteThrows(w)
  <2> DEFINE j == InHand(w)
             rows == IF OwnedRunning(job[j], w) THEN {CompletedRow(job[j])} ELSE {}
  <2>1. j \in Job /\ SetWorker(w, AfterError(w, FALSE)) /\ OnlyWorkerAndJob
    BY <1>4, <1>hand DEF CompleteThrows, Executing
  <2>2. PICK row \in rows \cup {job[j]} : SetRow(j, row)
    BY <1>4 DEF CompleteThrows, MayWrite
  <2>3. RowOK(row)
    BY <2>1, <2>2, <1>types, RowWrites, MaxDelayAssumption
  <2>4. row = job[j] \/ ~(row.status = "RUNNING")
    BY <2>2 DEF CompletedRow, UnlockedRow, RowOf
  <2> QED BY <2>1, <2>2, <2>3, <2>4, DropInv
<1>5. CASE FailThrows(w)
  <2> DEFINE j == InHand(w)
             rows == IF worker[w].pc = "recording" THEN FailedRows(w) ELSE {}
  <2>1. j \in Job /\ SetWorker(w, Ended) /\ OnlyWorkerAndJob
    BY <1>5, <1>hand DEF FailThrows, Executing
  <2>2. PICK row \in rows \cup {job[j]} : SetRow(j, row)
    BY <1>5 DEF FailThrows, MayWrite
  <2>3. RowOK(row) /\ (row = job[j] \/ ~(row.status = "RUNNING"))
    BY <2>1, <2>2, <1>types, FailedRowsOK
  <2> QED BY <2>1, <2>2, <2>3, DropInv
<1>6. CASE Crash(w)
  BY <1>6, <1>drop, OnlyWorkerInv DEF Crash, Executing
<1>7. CASE Shutdown(w)
  <2> DEFINE scope == IF worker[w].pc \in Executing /\ worker[w].scope = "live"
                      THEN "aborted" ELSE worker[w].scope
             st == [worker[w] EXCEPT !.scope = scope]
  <2>1. /\ worker' = [worker EXCEPT ![w] = st]
        /\ stopping' = [stopping EXCEPT ![w] = TRUE]
        /\ UNCHANGED <<job, call, starter, served>>
    BY <1>7, <1>types DEF Shutdown, TypeOK
  <2>2. st \in WorkerState /\ st.pc = worker[w].pc /\ st.job = worker[w].job
                          /\ st.seen = worker[w].seen
    BY <1>types DEF WorkerState
  <2> HIDE DEF st
  <2>3. \A v \in Worker : /\ worker'[v] \in WorkerState
                          /\ worker'[v].pc = worker[v].pc
                          /\ worker'[v].job = worker[v].job
                          /\ worker'[v].seen = worker[v].seen
    BY <2>1, <2>2 DEF TypeOK
  <2>4. worker' \in [Worker -> WorkerState] /\ stopping' \in [Worker -> BOOLEAN]
    BY <2>1, <2>2 DEF TypeOK
  <2> QED
    BY <2>1, <2>3, <2>4 DEF TypeOK, RowConsistent, HandsFull, SeenCurrent, InHand,
                            OwnedRunning
<1> QED
  BY <1>1, <1>2, <1>3, <1>4, <1>5, <1>6, <1>7 DEF WorkerFault

-----------------------------------------------------------------------------
(* The clock, the operators, the callers *)

LEMMA InitInv == Init => IInv
<1> SUFFICES ASSUME Init PROVE IInv
  OBVIOUS
<1> USE DEF Init
<1>1. RowOK(UnbornRow) /\ UnbornRow.status = "UNBORN"
  BY NoneAssumption, MaxAttemptsAssumption, LockTtlAssumption, MaxDelayAssumption
     DEF RowOK, Row, RowOf, UnbornRow, ABSENT, ACTIVE_STATUSES, RECLAIMABLE_STATUSES,
         RUNNABLE_STATUSES
<1>2. IdleWorker \in WorkerState /\ IdleWorker.pc = "idle"
  BY LoopStates
<1>3. IdleCall \in CallState /\ IdleCall.pc = "idle"
  BY DEF IdleCall, CallState, CallPc
<1>4. TypeOK
  BY <1>1, <1>2, <1>3 DEF TypeOK, RowOK
<1>5. RowConsistent
  BY <1>1 DEF RowConsistent, RowOK
<1>6. HandsFull /\ SeenCurrent
  BY <1>1, <1>2, <1>3 DEF HandsFull, SeenCurrent, Executing
<1> QED BY <1>4, <1>5, <1>6 DEF IInv

\* A step that rewrites rows, and of the rest only calls and history: it puts no
\* row in RUNNING and changes neither holder nor attempts of one that is.
LEMMA TableInv ==
    ASSUME IInv, UNCHANGED <<worker, stopping>>,
           job' \in [Job -> Row], \A j \in Job : RowOK(job'[j]),
           call' \in [Caller -> CallState],
           \A c \in Caller : call'[c].pc \in {"reset", "confirm"} => call'[c].found \in Job,
           starter' \in [Job -> Worker \cup {None}],
           served' \in [Caller -> BOOLEAN],
           \A j \in Job : job'[j].status = "RUNNING" =>
               /\ job[j].status = "RUNNING"
               /\ job'[j].lockedBy = job[j].lockedBy
               /\ job'[j].attempts = job[j].attempts
               /\ starter'[j] = starter[j]
    PROVE  IInv'
<1>1. TypeOK'
  BY DEF IInv, TypeOK
<1>2. RowConsistent'
  BY DEF RowConsistent, RowOK
<1>3. HandsFull'
  BY DEF IInv, HandsFull, InHand
<1>4. SeenCurrent'
  BY DEF IInv, HandsFull, SeenCurrent, InHand, OwnedRunning, Executing
<1> QED BY <1>1, <1>2, <1>3, <1>4 DEF IInv

LEMMA TickInv == ASSUME IInv, Tick PROVE IInv'
<1> USE DEF IInv
<1>1. \A j \in Job : RowOK(job[j]) /\ job[j] \in Row
  BY InvRowOK
<1>2. \A j \in Job : RowOK(job'[j]) /\ job'[j] \in Row
  <2> SUFFICES ASSUME NEW j \in Job PROVE RowOK(job'[j]) /\ job'[j] \in Row
    OBVIOUS
  <2>1. job'[j] = OlderRow(job[j])
    BY DEF Tick
  <2>2. RowOK(OlderRow(job[j]))
    BY <1>1, NoneAssumption, LockTtlAssumption, MaxDelayAssumption
       DEF RowOK, Row, RowOf, OlderRow
  <2> QED BY <2>1, <2>2 DEF RowOK
<1>3. job' \in [Job -> Row]
  BY <1>2 DEF Tick
<1>4. \A j \in Job : /\ job'[j].status = job[j].status
                     /\ job'[j].lockedBy = job[j].lockedBy
                     /\ job'[j].attempts = job[j].attempts
  BY DEF Tick, OlderRow, RowOf
<1>5. \A w \in Worker : /\ worker'[w] \in WorkerState
                        /\ worker'[w].pc = worker[w].pc
                        /\ worker'[w].job = worker[w].job
                        /\ worker'[w].seen = worker[w].seen
  <2> SUFFICES ASSUME NEW w \in Worker
               PROVE  /\ worker'[w] \in WorkerState
                      /\ worker'[w].pc = worker[w].pc
                      /\ worker'[w].job = worker[w].job
                      /\ worker'[w].seen = worker[w].seen
    OBVIOUS
  <2> DEFINE beat == IF worker[w].beat = 0 THEN 0 ELSE worker[w].beat - 1
  <2>1. worker[w] \in WorkerState
    BY DEF TypeOK
  <2>2. beat \in 0..HeartbeatEvery
    BY <2>1, HeartbeatAssumption DEF WorkerState
  <2>3. worker'[w] = [worker[w] EXCEPT !.beat = beat]
    BY DEF Tick
  <2> HIDE DEF beat
  <2> QED BY <2>1, <2>2, <2>3 DEF WorkerState
<1>6. worker' \in [Worker -> WorkerState]
  BY <1>5 DEF Tick
<1>7. UNCHANGED <<stopping, call, starter, served>>
  BY DEF Tick
<1>8. TypeOK'
  BY <1>3, <1>6, <1>7 DEF TypeOK
<1>9. RowConsistent'
  BY <1>2 DEF RowConsistent, RowOK
<1>10. HandsFull' /\ SeenCurrent'
  BY <1>4, <1>5, <1>7 DEF HandsFull, SeenCurrent, InHand, OwnedRunning, Executing
<1> QED BY <1>8, <1>9, <1>10

\* Freshening a row that runs no longer touches no running row's history.
LEMMA FreshenedTypes ==
    ASSUME TypeOK, NEW j \in Job, Freshened(j)
    PROVE  /\ starter' \in [Job -> Worker \cup {None}]
           /\ served' \in [Caller -> BOOLEAN]
           /\ \A k \in Job \ {j} : starter'[k] = starter[k]
<1>1. served' \in [Caller -> BOOLEAN]
  <2> DEFINE seen(c) == served[c] \/ (KeyOf[j] # None /\ call[c].key = KeyOf[j])
  <2>1. served' = [c \in Caller |-> seen(c)]
    BY DEF Freshened
  <2>2. \A c \in Caller : seen(c) \in BOOLEAN
    BY Zenon
  <2> HIDE DEF seen
  <2> QED BY <2>1, <2>2
<1> QED BY <1>1 DEF TypeOK, Freshened

\* A statement of an operator or a caller that writes one row.
LEMMA TableRowInv ==
    ASSUME IInv, NEW j \in Job, NEW row, SetRow(j, row), RowOK(row),
           row.status # "RUNNING", UNCHANGED <<worker, stopping>>,
           Freshened(j) \/ UnchangedHistory,
           call' \in [Caller -> CallState],
           \A c \in Caller : call'[c].pc \in {"reset", "confirm"} => call'[c].found \in Job
    PROVE  IInv'
<1> USE DEF IInv
<1>1. /\ job' \in [Job -> Row] /\ RowConsistent'
      /\ job'[j] = row /\ \A k \in Job \ {j} : job'[k] = job[k]
  BY RowStep
<1>2. \A k \in Job : RowOK(job'[k])
  BY <1>1, InvRowOK
<1>3. /\ starter' \in [Job -> Worker \cup {None}]
      /\ served' \in [Caller -> BOOLEAN]
      /\ \A k \in Job \ {j} : starter'[k] = starter[k]
  BY FreshenedTypes DEF TypeOK, UnchangedHistory
<1> QED BY <1>1, <1>2, <1>3, TableInv

LEMMA PlainRows ==
    ASSUME NEW r, NEW delay
    PROVE  /\ DeletedRow.status # "RUNNING"
           /\ RetriedRow.status # "RUNNING"
           /\ PendingRow(delay).status # "RUNNING"
           /\ CancelledRow(r).status # "RUNNING"
BY DEF DeletedRow, RetriedRow, PendingRow, CancelledRow, UnlockedRow, RowOf

LEMMA OperatorInv == ASSUME IInv, OperatorStep PROVE IInv'
<1> USE DEF IInv
<1>rows. \A j \in Job : RowOK(job[j]) /\ job[j] \in Row
  BY InvRowOK
<1>plain. RowOK(DeletedRow) /\ RowOK(RetriedRow)
  BY NoneAssumption, MaxAttemptsAssumption, LockTtlAssumption, MaxDelayAssumption
     DEF RowOK, Row, RowOf, UnlockedRow, DeletedRow, RetriedRow, ABSENT, ACTIVE_STATUSES,
         RECLAIMABLE_STATUSES, RUNNABLE_STATUSES
<1>call. /\ call \in [Caller -> CallState]
         /\ \A c \in Caller : call[c].pc \in {"reset", "confirm"} => call[c].found \in Job
  BY DEF TypeOK, HandsFull
<1>1. ASSUME NEW j \in Job, Retry(j) PROVE IInv'
  BY <1>1, <1>plain, <1>call, PlainRows, TableRowInv DEF Retry
<1>2. ASSUME NEW j \in Job, Cancel(j) PROVE IInv'
  <2>1. RowOK(CancelledRow(job[j]))
    BY <1>rows, NoneAssumption, MaxAttemptsAssumption, LockTtlAssumption
       DEF RowOK, Row, RowOf, UnlockedRow, CancelledRow, ABSENT, ACTIVE_STATUSES,
           RECLAIMABLE_STATUSES, RUNNABLE_STATUSES, TERMINAL_STATUSES
  <2> QED BY <1>2, <2>1, <1>call, PlainRows, TableRowInv DEF Cancel
<1>3. ASSUME NEW j \in Job, Archive(j) PROVE IInv'
  BY <1>3, <1>plain, <1>call, PlainRows, TableRowInv DEF Archive
<1>4. ASSUME NEW old \in SUBSET Job, PruneTerminalJobs(old) PROVE IInv'
  <2>1. /\ UNCHANGED <<worker, stopping, call, starter, served>>
        /\ \A j \in Job : job'[j] = IF j \in old THEN DeletedRow ELSE job[j]
        /\ job' = [j \in Job |-> IF j \in old THEN DeletedRow ELSE job[j]]
    BY <1>4 DEF PruneTerminalJobs, UnchangedHistory
  <2>2. \A j \in Job : RowOK(job'[j]) /\ job'[j] \in Row
    BY <2>1, <1>rows, <1>plain DEF RowOK
  <2>3. job' \in [Job -> Row]
    BY <2>1, <2>2
  <2>4. \A j \in Job : job'[j].status = "RUNNING" => job'[j] = job[j]
    BY <2>1, PlainRows
  <2> QED BY <2>1, <2>2, <2>3, <2>4, <1>call, TableInv DEF TypeOK
<1> QED
  BY <1>1, <1>2, <1>3, <1>4 DEF OperatorStep

\* The states a call may be left in.
LEMMA CallStates ==
    ASSUME TypeOK, HandsFull, NEW c \in Caller, NEW pc \in CallPc
    PROVE  /\ Return(c, pc) => call' \in [Caller -> CallState]
           /\ SetCall(c, pc) => call' \in [Caller -> CallState]
           /\ (Return(c, pc) \/ SetCall(c, pc)) /\ (pc \in {"reset", "confirm"} =>
                  SetCall(c, pc) /\ call[c].found \in Job) =>
                \A d \in Caller :
                    call'[d].pc \in {"reset", "confirm"} => call'[d].found \in Job
<1>1. \A d \in Caller : call[d] \in CallState
  BY DEF TypeOK
<1>2. [IdleCall EXCEPT !.pc = pc] \in CallState /\ [IdleCall EXCEPT !.pc = pc].pc = pc
  BY DEF IdleCall, CallState
<1>3. CASE Return(c, pc)
  BY <1>1, <1>2, <1>3 DEF Return, SetCall, TypeOK, HandsFull, CallState
<1>4. CASE SetCall(c, pc)
  BY <1>1, <1>4 DEF Return, SetCall, TypeOK, HandsFull, CallState
<1> QED BY <1>3, <1>4

LEMMA PendingRowOK == ASSUME NEW delay \in 0..MaxDelay PROVE RowOK(PendingRow(delay))
BY NoneAssumption, MaxAttemptsAssumption, LockTtlAssumption, MaxDelayAssumption
   DEF RowOK, Row, RowOf, UnlockedRow, PendingRow, ACTIVE_STATUSES,
       RECLAIMABLE_STATUSES, RUNNABLE_STATUSES

\* A step of a call that writes no row.
LEMMA OnlyCallInv ==
    ASSUME IInv, UNCHANGED <<job, worker, stopping, starter>>,
           served' \in [Caller -> BOOLEAN], call' \in [Caller -> CallState],
           \A c \in Caller : call'[c].pc \in {"reset", "confirm"} => call'[c].found \in Job
    PROVE  IInv'
BY InvRowOK, TableInv DEF IInv, TypeOK

LEMMA EnqueueInv == ASSUME IInv, EnqueueStep PROVE IInv'
<1> USE DEF IInv
<1>call. /\ call \in [Caller -> CallState]
         /\ \A c \in Caller : call[c].pc \in {"reset", "confirm"} => call[c].found \in Job
  BY DEF TypeOK, HandsFull
<1>1. ASSUME NEW c \in Caller,
             EnqueueConfirm(c) \/ EnqueueReread(c) \/ EnqueueConflict(c) \/ EnqueueWinner(c)
      PROVE  IInv'
  <2>1. /\ UNCHANGED <<job, worker, stopping, starter, served>>
        /\ \E pc \in CallPc \ {"reset", "confirm"} : Return(c, pc) \/ SetCall(c, pc)
    BY <1>1 DEF EnqueueConfirm, EnqueueReread, EnqueueConflict, EnqueueWinner,
                UnchangedHistory, CallPc
  <2>2. PICK pc \in CallPc \ {"reset", "confirm"} : Return(c, pc) \/ SetCall(c, pc)
    BY <2>1
  <2>3. call' \in [Caller -> CallState]
    BY <2>2, CallStates
  <2>4. \A d \in Caller : call'[d].pc \in {"reset", "confirm"} => call'[d].found \in Job
    BY <2>2, CallStates
  <2> QED BY <2>1, <2>3, <2>4, OnlyCallInv DEF TypeOK
<1>2. ASSUME NEW c \in Caller, NEW delay \in 0..MaxDelay, EnqueueReset(c, delay) PROVE IInv'
  <2> DEFINE j == call[c].found
  <2>1. j \in Job /\ UNCHANGED <<worker, stopping>>
    BY <1>2, <1>call DEF EnqueueReset
  <2>2. CASE job[j].status \in TERMINAL_STATUSES
    <3>1. SetRow(j, PendingRow(delay)) /\ Freshened(j) /\ SetCall(c, "confirm")
      BY <1>2, <2>2 DEF EnqueueReset
    <3>2. call' \in [Caller -> CallState]
      BY <3>1, CallStates DEF CallPc
    <3>3. \A d \in Caller : call'[d].pc \in {"reset", "confirm"} => call'[d].found \in Job
      BY <2>1, <3>1, CallStates DEF CallPc
    <3> QED BY <2>1, <3>1, <3>2, <3>3, PendingRowOK, PlainRows, TableRowInv
  <2>3. CASE job[j].status \notin TERMINAL_STATUSES
    <3>1. SetCall(c, "reread") /\ UNCHANGED <<job, starter, served>>
      BY <1>2, <2>3 DEF EnqueueReset
    <3>2. call' \in [Caller -> CallState]
      BY <3>1, CallStates DEF CallPc
    <3>3. \A d \in Caller : call'[d].pc \in {"reset", "confirm"} => call'[d].found \in Job
      BY <3>1, CallStates DEF CallPc
    <3> QED BY <2>1, <3>1, <3>2, <3>3, OnlyCallInv DEF TypeOK
  <2> QED BY <2>2, <2>3
<1>3. ASSUME NEW c \in Caller, NEW delay \in 0..MaxDelay, NEW j \in Job,
             EnqueueCreate(c, j, delay)
      PROVE  IInv'
  <2>1. /\ SetRow(j, PendingRow(delay)) /\ Freshened(j) /\ Return(c, "ok")
        /\ UNCHANGED <<worker, stopping>>
    BY <1>3 DEF EnqueueCreate, Insert
  <2>2. call' \in [Caller -> CallState]
    BY <2>1, CallStates DEF CallPc
  <2>3. \A d \in Caller : call'[d].pc \in {"reset", "confirm"} => call'[d].found \in Job
    BY <2>1, CallStates DEF CallPc
  <2> QED BY <2>1, <2>2, <2>3, PendingRowOK, PlainRows, TableRowInv
<1>4. ASSUME NEW c \in Caller, NEW k \in Key, EnqueueFind(c, k) PROVE IInv'
  <2>1. UNCHANGED <<job, worker, stopping, starter>>
    BY <1>4 DEF EnqueueFind
  <2>2. served' \in [Caller -> BOOLEAN]
    <3> DEFINE active(j) == job[j].status \in ACTIVE_STATUSES
    <3>1. \/ served' = [served EXCEPT ![c] = FALSE]
          \/ \E j \in RowsOf(k) : served' = [served EXCEPT ![c] = active(j)]
      BY <1>4, Zenon DEF EnqueueFind
    <3>2. \A j : active(j) = TRUE \/ active(j) = FALSE
      OBVIOUS
    <3> HIDE DEF active
    <3>3. CASE served' = [served EXCEPT ![c] = FALSE]
      BY <3>3 DEF TypeOK
    <3>4. ASSUME NEW j \in RowsOf(k), served' = [served EXCEPT ![c] = active(j)]
          PROVE  served' \in [Caller -> BOOLEAN]
      BY <3>2, <3>4 DEF TypeOK
    <3> QED BY <3>1, <3>3, <3>4
  <2>3. \/ Return(c, "ok")
        \/ call' = [call EXCEPT ![c] = [pc |-> "create", key |-> k, found |-> None]]
        \/ \E j \in Job :
             call' = [call EXCEPT ![c] = [pc |-> "reset", key |-> k, found |-> j]]
    BY <1>4 DEF EnqueueFind, RowsOf
  <2>4. CASE Return(c, "ok")
    <3>1. call' \in [Caller -> CallState]
      BY <2>4, CallStates DEF CallPc
    <3>2. \A d \in Caller : call'[d].pc \in {"reset", "confirm"} => call'[d].found \in Job
      BY <2>4, CallStates DEF CallPc
    <3> QED BY <2>1, <2>2, <3>1, <3>2, OnlyCallInv
  <2>5. ASSUME NEW st \in CallState, st.pc \in {"reset", "confirm"} => st.found \in Job,
               call' = [call EXCEPT ![c] = st]
        PROVE  IInv'
    BY <2>1, <2>2, <2>5, <1>call, OnlyCallInv
  <2>6. [pc |-> "create", key |-> k, found |-> None] \in CallState
    BY DEF CallState, CallPc
  <2>7. \A j \in Job : [pc |-> "reset", key |-> k, found |-> j] \in CallState
    BY DEF CallState, CallPc
  <2> QED BY <2>3, <2>4, <2>5, <2>6, <2>7
<1>5. ASSUME NEW j \in Job, NEW delay \in 0..MaxDelay,
             EnqueuePlain(j, delay) \/ EnqueueInTx(j, delay)
      PROVE  IInv'
  <2>1. /\ SetRow(j, PendingRow(delay)) /\ Freshened(j)
        /\ UNCHANGED <<worker, stopping, call>>
    BY <1>5 DEF EnqueuePlain, EnqueueInTx, Insert
  <2> QED BY <2>1, <1>call, PendingRowOK, PlainRows, TableRowInv
<1> QED
  BY <1>1, <1>2, <1>3, <1>4, <1>5 DEF EnqueueStep, CallStep

-----------------------------------------------------------------------------
(* The theorems *)

LEMMA NextInv == IInv /\ [Next]_vars => IInv'
<1> SUFFICES ASSUME IInv, [Next]_vars PROVE IInv'
  OBVIOUS
<1>1. CASE UNCHANGED vars
  BY <1>1 DEF vars, IInv, TypeOK, RowConsistent, HandsFull, SeenCurrent, InHand,
              OwnedRunning
<1> QED
  BY <1>1, WorkerStepInv, WorkerFaultInv, OperatorInv, EnqueueInv, TickInv DEF Next

\* The strengthened invariant holds in every reachable state.
THEOREM Invariant == Spec => []IInv
BY InitInv, NextInv, PTL DEF Spec

\* The tables, the workers and the calls keep their types, whatever the
\* interleaving of workers, callers, operators and faults.
THEOREM TypeCorrect == Spec => []TypeOK
<1>1. IInv => TypeOK
  BY DEF IInv
<1> QED BY <1>1, Invariant, PTL

\* A row has a lock holder exactly while it is claimed or running, a job that may
\* still run has attempts left, one that failed has used one: for every number
\* of jobs and workers, every retry policy, lock TTL and kind of fault.
THEOREM RowsStayConsistent == Spec => []RowConsistent
<1>1. IInv => RowConsistent
  BY DEF IInv
<1> QED BY <1>1, Invariant, PTL

\* The attempt count failJob read is still the row's whenever its CAS can succeed,
\* so attempts are counted one by one and the dead-letter decision is not stale.
THEOREM FailReadsCurrent == Spec => []SeenCurrent
<1>1. IInv => SeenCurrent
  BY DEF IInv
<1> QED BY <1>1, Invariant, PTL

-----------------------------------------------------------------------------
(* Results come from the latest run *)

\* What worker w's own steps do to the others and to the rows: no other worker
\* moves, and a row is left alone, leased, or written as the one w runs.
WritesOwnRow(w) ==
    /\ \A v \in Worker \ {w} : worker'[v].pc = worker[v].pc
    /\ \A j \in Job : \/ job'[j] = job[j]
                     \/ job'[j].status \in {"CLAIMED", "RUNNING"}
                     \/ OwnedRunning(job[j], w)

LEMMA OneRow ==
    ASSUME TypeOK, NEW w \in Worker, NEW st, NEW j, NEW row,
           SetWorker(w, st), SetRow(j, row),
           \/ row = job[j]
           \/ row.status \in {"CLAIMED", "RUNNING"}
           \/ OwnedRunning(job[j], w)
    PROVE  WritesOwnRow(w)
BY DEF TypeOK, SetWorker, SetRow, WritesOwnRow

LEMMA NoRow ==
    ASSUME TypeOK, NEW w \in Worker, NEW st, SetWorker(w, st), UNCHANGED job
    PROVE  WritesOwnRow(w)
BY DEF TypeOK, SetWorker, WritesOwnRow

LEMMA LeaseRows ==
    ASSUME NEW r, NEW w
    PROVE  /\ ClaimedRow(r, w).status = "CLAIMED"
           /\ StartedRow(r).status = "RUNNING"
BY DEF ClaimedRow, StartedRow, RowOf

LEMMA WorkerWrites ==
    ASSUME TypeOK, NEW w \in Worker, WorkerStep(w) \/ WorkerFault(w)
    PROVE  WritesOwnRow(w)
<1>1. CASE \/ Poll(w) \/ Stop(w) \/ ClaimNothing(w) \/ StartSkipped(w) \/ HandlerReturns(w)
           \/ HandlerAborts(w) \/ FailRead(w) \/ Crash(w)
           \/ \E permanent \in BOOLEAN : HandlerThrows(w, permanent)
  <2>1. UNCHANGED job /\ \E st : SetWorker(w, st)
    BY <1>1 DEF Poll, Stop, ClaimNothing, StartSkipped, HandlerReturns, HandlerAborts,
                FailRead, Crash, HandlerThrows, OnlyWorker
  <2> QED BY <2>1, NoRow
<1>2. CASE Heartbeat(w)
  BY <1>2, OneRow, NoRow DEF Heartbeat
<1>3. CASE Complete(w)
  BY <1>3, OneRow DEF Complete
<1>4. CASE FailWrite(w)
  <2>1. PICK row \in FailedRows(w) : SetRow(InHand(w), row)
    BY <1>4 DEF FailWrite
  <2>2. row = job[InHand(w)] \/ OwnedRunning(job[InHand(w)], w)
    BY DEF FailedRows
  <2> QED BY <1>4, <2>1, <2>2, OneRow DEF FailWrite
<1>5. CASE Start(w)
  BY <1>5, OneRow, LeaseRows DEF Start
<1>6. ASSUME NEW j \in Job, Claim(w, j) PROVE WritesOwnRow(w)
  BY <1>6, OneRow, LeaseRows DEF Claim
<1>7. CASE ClaimThrows(w)
  <2>1. SetWorker(w, Ended)
    BY <1>7 DEF ClaimThrows
  <2>2. CASE UNCHANGED job
    BY <2>1, <2>2, NoRow
  <2>3. ASSUME NEW j \in Job, SetRow(j, ClaimedRow(job[j], w)) PROVE WritesOwnRow(w)
    BY <2>1, <2>3, OneRow, LeaseRows
  <2> QED BY <1>7, <2>2, <2>3 DEF ClaimThrows
<1>8. CASE StartThrows(w)
  <2>1. SetWorker(w, AfterError(w, FALSE))
    BY <1>8 DEF StartThrows
  <2>2. UNCHANGED job \/ SetRow(InHand(w), StartedRow(job[InHand(w)]))
    BY <1>8 DEF StartThrows
  <2> QED BY <2>1, <2>2, NoRow, OneRow, LeaseRows
<1>9. CASE HeartbeatThrows(w)
  <2>1. PICK row : SetRow(InHand(w), row) /\
                   (row = job[InHand(w)] \/ OwnedRunning(job[InHand(w)], w))
    BY <1>9 DEF HeartbeatThrows, MayWrite
  <2> QED BY <1>9, <2>1, OneRow DEF HeartbeatThrows
<1>10. CASE CompleteThrows(w)
  <2>1. PICK row : SetRow(InHand(w), row) /\
                   (row = job[InHand(w)] \/ OwnedRunning(job[InHand(w)], w))
    BY <1>10 DEF CompleteThrows, MayWrite
  <2> QED BY <1>10, <2>1, OneRow DEF CompleteThrows
<1>11. CASE FailThrows(w)
  <2>1. PICK row : SetRow(InHand(w), row) /\
                   (row = job[InHand(w)] \/ OwnedRunning(job[InHand(w)], w))
    BY <1>11 DEF FailThrows, MayWrite, FailedRows
  <2> QED BY <1>11, <2>1, OneRow DEF FailThrows
<1>12. CASE Shutdown(w)
  BY <1>12 DEF Shutdown, TypeOK, WritesOwnRow
<1> QED
  BY <1>1, <1>2, <1>3, <1>4, <1>5, <1>6, <1>7, <1>8, <1>9, <1>10, <1>11, <1>12
  DEF WorkerStep, WorkerFault

\* The action of ResultFromLatestRun.
RecordsLatestRun ==
    \A j \in Job, w \in Worker :
        /\ job[j].status = "RUNNING"
        /\ job'[j].status \in {"COMPLETED", "FAILED", "DEAD_LETTER"}
        /\ worker'[w].pc # worker[w].pc
        => starter[j] = w

LEMMA StepRecordsLatestRun == IInv /\ [Next]_vars => RecordsLatestRun
<1> SUFFICES ASSUME IInv, [Next]_vars PROVE RecordsLatestRun
  OBVIOUS
<1>1. CASE UNCHANGED worker
  BY <1>1 DEF RecordsLatestRun
<1>2. ASSUME NEW v \in Worker, WritesOwnRow(v) PROVE RecordsLatestRun
  <2> SUFFICES ASSUME NEW j \in Job, NEW w \in Worker,
                      job[j].status = "RUNNING",
                      job'[j].status \in {"COMPLETED", "FAILED", "DEAD_LETTER"},
                      worker'[w].pc # worker[w].pc
               PROVE  starter[j] = w
    BY DEF RecordsLatestRun
  <2>1. w = v /\ OwnedRunning(job[j], v)
    BY <1>2 DEF WritesOwnRow
  <2> QED BY <2>1 DEF IInv, HandsFull, OwnedRunning
<1>3. CASE Tick
  <2>1. \A j \in Job : job'[j].status = job[j].status
    BY <1>3 DEF Tick, OlderRow, RowOf
  <2> QED BY <2>1 DEF RecordsLatestRun
<1>4. CASE OperatorStep \/ EnqueueStep
  <2>1. UNCHANGED worker
    BY <1>4 DEF OperatorStep, Retry, Cancel, Archive, PruneTerminalJobs, EnqueueStep,
                CallStep, EnqueueConfirm, EnqueueReread, EnqueueConflict, EnqueueWinner,
                EnqueueReset, EnqueueCreate, EnqueueFind, EnqueuePlain, EnqueueInTx
  <2> QED BY <1>1, <2>1
<1>5. CASE UNCHANGED vars
  BY <1>1, <1>5 DEF vars
<1>6. ASSUME NEW w \in Worker, WorkerStep(w) \/ WorkerFault(w) PROVE RecordsLatestRun
  BY <1>2, <1>6, WorkerWrites DEF IInv
<1> QED BY <1>3, <1>4, <1>5, <1>6 DEF Next

\* Only the worker that started a job last records a result of it, in every
\* interleaving of any number of workers, operators and faults.
THEOREM OnlyLatestRunRecords == Spec => ResultFromLatestRun
<1>1. IInv /\ [Next]_vars => [RecordsLatestRun]_vars
  BY StepRecordsLatestRun
<1>2. Spec => [][RecordsLatestRun]_vars
  BY <1>1, Invariant, PTL DEF Spec
<1> QED BY <1>2 DEF ResultFromLatestRun, RecordsLatestRun

=============================================================================
