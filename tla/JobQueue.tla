------------------------------ MODULE JobQueue ------------------------------
(***************************************************************************)
(* The durable job queue of ReadWise: the Job table of JobTable, the worker *)
(* processes that claim and run its rows (src/lib/worker), the callers that *)
(* enqueue under a dedupe key (src/lib/jobs/enqueue.ts) and the operators  *)
(* who retry, cancel, archive and prune.                                   *)
(*                                                                         *)
(* Each database statement is one step. A worker or a caller that awaits   *)
(* between two statements takes two steps, and every other process may run *)
(* between them.                                                           *)
(***************************************************************************)
EXTENDS JobTable, FiniteSets

CONSTANTS
    Job,             \* row ids; an id that is deleted is never used again
    KeyOf,           \* the dedupe key an id is created with, or None
    Caller,          \* concurrent enqueueJob calls with a dedupe key
    Mortal,          \* the workers that may crash or be told to stop
    HeartbeatEvery,  \* heartbeat interval, in ticks; lockTtl / 2 by default
    Env              \* what may happen in this instance, see EnvEvents

\* stall: a heartbeat timer or a statement is late. dberror: a statement throws, before or
\* after it took effect. aborterror: a handler throws an AbortError of its own.
\* shutdown: the worker's stop signal. The others are the operators' actions.
EnvEvents == {"crash", "stall", "dberror", "aborterror", "shutdown",
              "cancel", "retry", "remove"}

ASSUME KeyOfAssumption == DOMAIN KeyOf = Job
ASSUME NoneNotJob == None \notin Job
ASSUME HeartbeatAssumption == HeartbeatEvery \in Nat /\ HeartbeatEvery < LockTtl
ASSUME EnvAssumption == Env \subseteq EnvEvents /\ Mortal \subseteq Worker

VARIABLES
    job,      \* the Job table
    worker,   \* the worker loops and the execution each has in hand
    stopping, \* the workers' stop signals
    call,     \* the enqueueDeduped calls in progress
    starter,  \* history: who started each job last, since it was made PENDING
    served    \* history: the call's key had an active row since it began

vars == <<job, worker, stopping, call, starter, served>>

-----------------------------------------------------------------------------
(* Types *)

Key == {KeyOf[j] : j \in Job} \ {None}

\* idle: between two iterations of the loop. polling: claimNextJob awaited.
\* claimed: executor entered, startJob awaited. running: handler awaited.
\* finishing: completeJob awaited. failing, recording: failJob before its read
\* and between its read and its UPDATE. gone: the loop has ended, because it
\* returned or because the process died.
Executing == {"claimed", "running", "finishing", "failing", "recording"}
WorkerPc == Executing \cup {"idle", "polling", "gone"}

\* scope: handlerAbort's signal is live, aborted, or aborted with ownershipLost.
\* beat: ticks to the next heartbeat. permanent: the classification of the error
\* in hand. seen: job.attempts as failJob read it.
WorkerState == [pc        : WorkerPc,
                job       : Job \cup {None},
                scope     : {"live", "aborted", "lost"},
                beat      : 0..HeartbeatEvery,
                permanent : BOOLEAN,
                seen      : 0..MaxAttempts]

\* reset, confirm, reread, create, winner: the statement of enqueueDeduped that
\* is awaited. ok, error: the call returned or threw.
CallPc == {"idle", "reset", "confirm", "reread", "create", "winner", "ok", "error"}
CallState == [pc : CallPc, key : Key \cup {None}, found : Job \cup {None}]

TypeOK ==
    /\ job \in [Job -> Row]
    /\ worker \in [Worker -> WorkerState]
    /\ stopping \in [Worker -> BOOLEAN]
    /\ call \in [Caller -> CallState]
    /\ starter \in [Job -> Worker \cup {None}]
    /\ served \in [Caller -> BOOLEAN]

WorkerOf(pc, j, scope, beat, permanent, seen) ==
    [pc |-> pc, job |-> j, scope |-> scope, beat |-> beat,
     permanent |-> permanent, seen |-> seen]

IdleWorker == WorkerOf("idle", None, "live", 0, FALSE, 0)
IdleCall == [pc |-> "idle", key |-> None, found |-> None]

Init ==
    /\ job = [j \in Job |-> UnbornRow]
    /\ worker = [w \in Worker |-> IdleWorker]
    /\ stopping = [w \in Worker |-> FALSE]
    /\ call = [c \in Caller |-> IdleCall]
    /\ starter = [j \in Job |-> None]
    /\ served = [c \in Caller |-> FALSE]

-----------------------------------------------------------------------------
(* Helpers *)

Present(j) == job[j].status \notin ABSENT
InHand(w) == worker[w].job

Polling == WorkerOf("polling", None, "live", 0, FALSE, 0)
Ended == WorkerOf("gone", None, "live", 0, FALSE, 0)
Holding(j, pc, scope, beat) == WorkerOf(pc, j, scope, beat, FALSE, 0)
Recording(w, pc, permanent, seen) ==
    WorkerOf(pc, InHand(w), worker[w].scope, 0, permanent, seen)

SetWorker(w, state) == worker' = [worker EXCEPT ![w] = state]
SetRow(j, row) == job' = [job EXCEPT ![j] = row]

\* The row is a fresh piece of work from here on, and the calls in progress for
\* its key have seen it active.
Freshened(j) ==
    /\ starter' = [starter EXCEPT ![j] = None]
    /\ served' = [c \in Caller |->
                    \/ served[c]
                    \/ KeyOf[j] # None /\ call[c].key = KeyOf[j]]

UnchangedHistory == UNCHANGED <<starter, served>>
OnlyWorker == UNCHANGED <<job, stopping, call, starter, served>>
OnlyWorkerAndJob == UNCHANGED <<stopping, call, starter, served>>

-----------------------------------------------------------------------------
(* The worker loop (loop.ts) and the claimed-job executor *)

\* The loop looks at the stop signal before it polls and nowhere else.
Poll(w) ==
    /\ worker[w].pc = "idle" /\ ~stopping[w]
    /\ SetWorker(w, Polling) /\ OnlyWorker

Stop(w) ==
    /\ worker[w].pc = "idle" /\ stopping[w]
    /\ SetWorker(w, Ended) /\ OnlyWorker

\* Any claimable row: SKIP LOCKED passes over the rows another transaction
\* holds, so ORDER BY does not fix the row.
Claim(w, j) ==
    /\ worker[w].pc = "polling" /\ Claimable(job[j])
    /\ SetRow(j, ClaimedRow(job[j], w))
    /\ SetWorker(w, Holding(j, "claimed", "live", 0))
    /\ OnlyWorkerAndJob

ClaimNothing(w) ==
    /\ worker[w].pc = "polling" /\ \A j \in Job : ~Claimable(job[j])
    /\ SetWorker(w, IdleWorker) /\ OnlyWorker

\* startJob. A signal that fired while it was awaited has aborted the handler's
\* scope already: the handler still runs, without heartbeats.
Start(w) ==
    LET j == InHand(w) IN
    /\ worker[w].pc = "claimed" /\ OwnedClaimed(job[j], w)
    /\ SetRow(j, StartedRow(job[j]))
    /\ SetWorker(w, Holding(j, "running", worker[w].scope, HeartbeatEvery))
    /\ starter' = [starter EXCEPT ![j] = w]
    /\ UNCHANGED <<stopping, call, served>>

StartSkipped(w) ==
    /\ worker[w].pc = "claimed" /\ ~OwnedClaimed(job[InHand(w)], w)
    /\ SetWorker(w, IdleWorker) /\ OnlyWorker

\* An aborted scope counts as lost ownership only if the worker's own signal
\* has not fired.
AbortedScope(w) == IF stopping[w] THEN "aborted" ELSE "lost"

BeatDue(w) ==
    worker[w].pc = "running" /\ worker[w].scope = "live" /\ worker[w].beat = 0

\* heartbeatJob when the timer fires.
Heartbeat(w) ==
    LET j == InHand(w) IN
    /\ BeatDue(w)
    /\ IF OwnedRunning(job[j], w)
       THEN /\ SetRow(j, HeartbeatRow(job[j]))
            /\ SetWorker(w, Holding(j, "running", "live", HeartbeatEvery))
       ELSE /\ SetWorker(w, Holding(j, "running", AbortedScope(w), 0))
            /\ UNCHANGED job
    /\ OnlyWorkerAndJob

HandlerReturns(w) ==
    /\ worker[w].pc = "running"
    /\ SetWorker(w, IF worker[w].scope = "lost" THEN IdleWorker
                    ELSE Holding(InHand(w), "finishing", worker[w].scope, 0))
    /\ OnlyWorker

\* The executor's catch block: what follows an error in hand. A stop signal ends
\* the loop unless failJob is on its way.
AfterError(w, permanent) ==
    CASE worker[w].scope = "live" -> Recording(w, "failing", permanent, 0)
      [] worker[w].scope = "lost" /\ ~stopping[w] -> IdleWorker
      [] OTHER -> Ended

\* The handler throws, or no handler is registered for the type.
HandlerThrows(w, permanent) ==
    /\ worker[w].pc = "running"
    /\ SetWorker(w, AfterError(w, permanent)) /\ OnlyWorker

\* An AbortError stops the loop even when no signal was given.
HandlerAborts(w) ==
    /\ "aborterror" \in Env /\ worker[w].pc = "running" /\ worker[w].scope # "lost"
    /\ SetWorker(w, Ended) /\ OnlyWorker

Complete(w) ==
    LET j == InHand(w) IN
    /\ worker[w].pc = "finishing"
    /\ SetRow(j, IF OwnedRunning(job[j], w) THEN CompletedRow(job[j]) ELSE job[j])
    /\ SetWorker(w, IdleWorker) /\ OnlyWorkerAndJob

\* failJob reads the row to count the attempt ...
FailRead(w) ==
    /\ worker[w].pc = "failing"
    /\ SetWorker(w, IF Present(InHand(w))
                    THEN Recording(w, "recording", worker[w].permanent,
                                   job[InHand(w)].attempts)
                    ELSE IdleWorker)
    /\ OnlyWorker

\* ... and writes what it computed if the row is still this worker's.
FailedRows(w) ==
    LET r == job[InHand(w)]  seen == worker[w].seen IN
    IF ~OwnedRunning(r, w) THEN {r}
    ELSE IF worker[w].permanent \/ Exhausted(seen) THEN {DeadLetteredRow(r, seen)}
    ELSE {FailedRow(seen, delay) : delay \in 0..MaxDelay}

FailWrite(w) ==
    /\ worker[w].pc = "recording"
    /\ \E row \in FailedRows(w) : SetRow(InHand(w), row)
    /\ SetWorker(w, IdleWorker) /\ OnlyWorkerAndJob

-----------------------------------------------------------------------------
(* Statements that throw, processes that die, the clock *)

\* A statement that throws may have taken effect or not.
MayWrite(j, rows) == \E row \in rows \cup {job[j]} : SetRow(j, row)

\* An error of claimNextJob crashes the loop.
ClaimThrows(w) ==
    /\ "dberror" \in Env /\ worker[w].pc = "polling"
    /\ \/ UNCHANGED job
       \/ \E j \in Job : Claimable(job[j]) /\ SetRow(j, ClaimedRow(job[j], w))
    /\ SetWorker(w, Ended) /\ OnlyWorkerAndJob

\* An error of startJob reaches the catch block: a job whose handler never ran
\* is recorded as failed, if the UPDATE had taken effect.
StartThrows(w) ==
    LET j == InHand(w) IN
    /\ "dberror" \in Env /\ worker[w].pc = "claimed"
    /\ \/ UNCHANGED <<job, starter>>
       \/ /\ OwnedClaimed(job[j], w)
          /\ SetRow(j, StartedRow(job[j]))
          /\ starter' = [starter EXCEPT ![j] = w]
    /\ SetWorker(w, AfterError(w, FALSE))
    /\ UNCHANGED <<stopping, call, served>>

HeartbeatThrows(w) ==
    LET j == InHand(w) IN
    /\ "dberror" \in Env /\ BeatDue(w)
    /\ MayWrite(j, IF OwnedRunning(job[j], w) THEN {HeartbeatRow(job[j])} ELSE {})
    /\ SetWorker(w, Holding(j, "running", AbortedScope(w), 0))
    /\ OnlyWorkerAndJob

\* So does an error of completeJob: a job whose handler succeeded is recorded as
\* failed, unless the UPDATE had taken effect.
CompleteThrows(w) ==
    LET j == InHand(w) IN
    /\ "dberror" \in Env /\ worker[w].pc = "finishing"
    /\ MayWrite(j, IF OwnedRunning(job[j], w) THEN {CompletedRow(job[j])} ELSE {})
    /\ SetWorker(w, AfterError(w, FALSE)) /\ OnlyWorkerAndJob

\* An error of failJob leaves the executor and crashes the loop.
FailThrows(w) ==
    /\ "dberror" \in Env /\ worker[w].pc \in {"failing", "recording"}
    /\ MayWrite(InHand(w), IF worker[w].pc = "recording" THEN FailedRows(w) ELSE {})
    /\ SetWorker(w, Ended) /\ OnlyWorkerAndJob

Crash(w) ==
    /\ "crash" \in Env /\ w \in Mortal /\ worker[w].pc # "gone"
    /\ SetWorker(w, Ended) /\ OnlyWorker

\* The stop signal aborts the scope of the execution in hand. An execution
\* whose claim was still awaited never hears of it.
Shutdown(w) ==
    /\ "shutdown" \in Env /\ w \in Mortal
    /\ worker[w].pc # "gone" /\ ~stopping[w]
    /\ stopping' = [stopping EXCEPT ![w] = TRUE]
    /\ worker' = [worker EXCEPT ![w].scope =
                     IF worker[w].pc \in Executing /\ @ = "live" THEN "aborted" ELSE @]
    /\ UNCHANGED <<job, call, starter, served>>

\* A worker that keeps up sends a heartbeat when it is due and waits for its
\* statements no longer than a fraction of a tick.
KeepsUp(w) == ~BeatDue(w) /\ worker[w].pc \notin Executing \ {"running"}

Tick ==
    /\ "stall" \in Env \/ \A w \in Worker : KeepsUp(w)
    /\ job' = [j \in Job |-> OlderRow(job[j])]
    /\ worker' = [w \in Worker |-> [worker[w] EXCEPT
                     !.beat = IF @ = 0 THEN 0 ELSE @ - 1]]
    /\ UNCHANGED <<stopping, call, starter, served>>

-----------------------------------------------------------------------------
(* The operators (admin-commands.ts, retention.ts) *)

Retry(j) ==
    /\ "retry" \in Env /\ job[j].status \in RETRYABLE_STATUSES
    /\ SetRow(j, RetriedRow)
    /\ Freshened(j)
    /\ UNCHANGED <<worker, stopping, call>>

Cancel(j) ==
    /\ "cancel" \in Env /\ job[j].status \in ACTIVE_STATUSES
    /\ SetRow(j, CancelledRow(job[j]))
    /\ UNCHANGED <<worker, stopping, call>> /\ UnchangedHistory

Archive(j) ==
    /\ "remove" \in Env /\ job[j].status \in TERMINAL_STATUSES
    /\ SetRow(j, DeletedRow)
    /\ UNCHANGED <<worker, stopping, call>> /\ UnchangedHistory

\* Every terminal row past the cutoff, in one DELETE; the cutoff may fall
\* anywhere among them.
PruneTerminalJobs(old) ==
    /\ "remove" \in Env /\ old # {}
    /\ \A j \in old : job[j].status \in TERMINAL_STATUSES
    /\ job' = [j \in Job |-> IF j \in old THEN DeletedRow ELSE job[j]]
    /\ UNCHANGED <<worker, stopping, call>> /\ UnchangedHistory

-----------------------------------------------------------------------------
(* Enqueueing (enqueue.ts) *)

RowsOf(k) == {j \in Job : KeyOf[j] = k /\ Present(j)}
SetCall(c, pc) == call' = [call EXCEPT ![c].pc = pc]
Return(c, pc) == call' = [call EXCEPT ![c] = [IdleCall EXCEPT !.pc = pc]]

\* INSERT of a fresh id; dedupeKey is unique.
Insert(j, delay) ==
    /\ job[j].status = "UNBORN"
    /\ KeyOf[j] = None \/ RowsOf(KeyOf[j]) = {}
    /\ SetRow(j, PendingRow(delay))
    /\ Freshened(j)

EnqueuePlain(j, delay) ==
    /\ KeyOf[j] = None /\ Insert(j, delay)
    /\ UNCHANGED <<worker, stopping, call>>

\* enqueueJobInTx: the upsert leaves a row of the key as it is, a terminal one
\* included.
EnqueueInTx(j, delay) ==
    /\ KeyOf[j] # None /\ Insert(j, delay)
    /\ UNCHANGED <<worker, stopping, call>>

\* enqueueDeduped looks the key up ...
EnqueueFind(c, k) ==
    /\ call[c].pc \in {"idle", "ok", "error"}
    /\ \/ /\ RowsOf(k) = {}
          /\ call' = [call EXCEPT ![c] = [pc |-> "create", key |-> k, found |-> None]]
          /\ served' = [served EXCEPT ![c] = FALSE]
       \/ \E j \in RowsOf(k) :
            LET active == job[j].status \in ACTIVE_STATUSES IN
            /\ IF active THEN Return(c, "ok")
               ELSE call' = [call EXCEPT ![c] = [pc |-> "reset", key |-> k, found |-> j]]
            /\ served' = [served EXCEPT ![c] = active]
    /\ UNCHANGED <<job, worker, stopping, starter>>

\* ... resets the terminal row it found, if it still is terminal ...
EnqueueReset(c, delay) ==
    LET j == call[c].found IN
    /\ call[c].pc = "reset"
    /\ IF job[j].status \in TERMINAL_STATUSES
       THEN /\ SetRow(j, PendingRow(delay)) /\ Freshened(j)
            /\ SetCall(c, "confirm")
       ELSE SetCall(c, "reread") /\ UNCHANGED <<job, starter, served>>
    /\ UNCHANGED <<worker, stopping>>

\* ... reads it back, and throws when it has disappeared ...
EnqueueConfirm(c) ==
    /\ call[c].pc = "confirm"
    /\ Return(c, IF Present(call[c].found) THEN "ok" ELSE "error")
    /\ UNCHANGED <<job, worker, stopping>> /\ UnchangedHistory

EnqueueReread_NoRowCheck(c) ==
    /\ call[c].pc = "reread"
    /\ Return(c, "ok")
    /\ UNCHANGED <<job, worker, stopping>> /\ UnchangedHistory

\* ... or returns whatever row has the key now ...
EnqueueReread(c) ==
    /\ call[c].pc = "reread"
    /\ IF RowsOf(call[c].key) = {} THEN SetCall(c, "create") ELSE Return(c, "ok")
    /\ UNCHANGED <<job, worker, stopping>> /\ UnchangedHistory

\* ... or creates one, and when another call has created it first (P2002) ...
EnqueueCreate(c, j, delay) ==
    /\ call[c].pc = "create" /\ KeyOf[j] = call[c].key
    /\ Insert(j, delay)
    /\ Return(c, "ok")
    /\ UNCHANGED <<worker, stopping>>

EnqueueConflict(c) ==
    /\ call[c].pc = "create" /\ RowsOf(call[c].key) # {}
    /\ SetCall(c, "winner")
    /\ UNCHANGED <<job, worker, stopping>> /\ UnchangedHistory

\* ... returns that one, or throws if it is gone again.
EnqueueWinner(c) ==
    /\ call[c].pc = "winner"
    /\ Return(c, IF RowsOf(call[c].key) = {} THEN "error" ELSE "ok")
    /\ UNCHANGED <<job, worker, stopping>> /\ UnchangedHistory

-----------------------------------------------------------------------------
(* The specification *)

WorkerStep(w) ==
    \/ Poll(w) \/ Stop(w) \/ ClaimNothing(w) \/ (\E j \in Job : Claim(w, j))
    \/ Start(w) \/ StartSkipped(w) \/ Heartbeat(w)
    \/ HandlerReturns(w) \/ (\E permanent \in BOOLEAN : HandlerThrows(w, permanent))
    \/ HandlerAborts(w)
    \/ Complete(w) \/ FailRead(w) \/ FailWrite(w)

WorkerFault(w) ==
    \/ ClaimThrows(w) \/ StartThrows(w) \/ HeartbeatThrows(w)
    \/ CompleteThrows(w) \/ FailThrows(w) \/ Crash(w) \/ Shutdown(w)

OperatorStep ==
    \/ \E j \in Job : Retry(j) \/ Cancel(j) \/ Archive(j)
    \/ \E old \in SUBSET Job : PruneTerminalJobs(old)

CallStep(c) ==
    \/ EnqueueConfirm(c) \/ EnqueueReread(c) \/ EnqueueConflict(c) \/ EnqueueWinner(c)
    \/ \E delay \in 0..MaxDelay :
         \/ EnqueueReset(c, delay)
         \/ \E j \in Job : EnqueueCreate(c, j, delay)

EnqueueStep ==
    \/ \E c \in Caller : CallStep(c) \/ \E k \in Key : EnqueueFind(c, k)
    \/ \E j \in Job, delay \in 0..MaxDelay :
         EnqueuePlain(j, delay) \/ EnqueueInTx(j, delay)

Next ==
    \/ \E w \in Worker : WorkerStep(w) \/ WorkerFault(w)
    \/ OperatorStep \/ EnqueueStep \/ Tick

Spec == Init /\ [][Next]_vars

\* Statements answer, timers fire, handlers end, and the loop goes on polling.
\* A claimable row is not passed over for ever: claims take the oldest
\* runAfter first, so only finitely many rows go before it.
Fairness ==
    /\ SF_vars(Tick)
    /\ \A w \in Worker :
         /\ WF_vars(Poll(w) \/ ClaimNothing(w) \/ Start(w) \/ StartSkipped(w))
         /\ WF_vars(Heartbeat(w))
         /\ WF_vars(HandlerReturns(w) \/ \E p \in BOOLEAN : HandlerThrows(w, p))
         /\ WF_vars(Complete(w) \/ FailRead(w) \/ FailWrite(w))
    /\ \A j \in Job : SF_vars(\E w \in Worker : Claim(w, j))
    /\ \A c \in Caller : WF_vars(CallStep(c))

FairSpec == Spec /\ Fairness

-----------------------------------------------------------------------------
(* Properties *)

\* What claim, the CAS of every worker transition and retry leave in a row: it
\* has a lock holder exactly while it is claimed or running, a job that may
\* still run has attempts left, and one that failed has used one.
RowConsistent ==
    \A j \in Job :
        LET r == job[j] IN
        /\ r.status \in RECLAIMABLE_STATUSES <=> r.lockedBy # None
        /\ r.status \in ACTIVE_STATUSES => r.attempts < MaxAttempts
        /\ r.status = "FAILED" => r.attempts > 0

\* A result is recorded by the worker that started the job last: a worker whose
\* lock was reclaimed, or whose job was cancelled, retried and started again,
\* never completes or fails it, whatever it reads and awaits in between.
ResultFromLatestRun ==
    [][\A j \in Job, w \in Worker :
         /\ job[j].status = "RUNNING"
         /\ job'[j].status \in {"COMPLETED", "FAILED", "DEAD_LETTER"}
         /\ worker'[w].pc # worker[w].pc
         => starter[j] = w]_vars

\* failJob's CAS succeeds only where the attempt count it read is still the
\* row's: between its read and its write nobody else can have counted, reset and
\* started the job without changing the lock holder.
SeenCurrent ==
    \A w \in Worker :
        /\ worker[w].pc = "recording"
        /\ OwnedRunning(job[InHand(w)], w)
        => worker[w].seen = job[InHand(w)].attempts

\* enqueueDeduped: a call that returns a job has seen the key's row active at
\* some moment of the call (found so, reset, created or retried), whoever
\* resets, creates, runs, archives or prunes the row between its statements.
EnqueueServed == \A c \in Caller : call[c].pc = "ok" => served[c]

\* Whatever the statements of workers, callers and operators do to a row, in any
\* order, is a step of WorkQueue or leaves the work as it is.
Phase(r) ==
    CASE r.status = "UNBORN" -> "new"
      [] r.status \in RUNNABLE_STATUSES -> "waiting"
      [] r.status \in RECLAIMABLE_STATUSES -> "leased"
      [] r.status \in TERMINAL_STATUSES -> "settled"
      [] r.status = "DELETED" -> "gone"

Queue == INSTANCE WorkQueue WITH
    phase  <- [j \in Job |-> Phase(job[j])],
    holder <- [j \in Job |-> job[j].lockedBy],
    tries  <- [j \in Job |-> job[j].attempts]

ImplementsWorkQueue == Queue!Spec

\* worker/index.ts: "locked so multiple workers never run the same job".
OneRunPerJob ==
    \A v, w \in Worker :
        /\ worker[v].pc = "running" /\ worker[w].pc = "running"
        /\ InHand(v) = InHand(w)
        => v = w

\* Work is never stranded: a job that may run ends COMPLETED or DEAD_LETTER (or
\* is removed by then), also when the worker that holds it crashes.
EveryJobSettles ==
    \A j \in Job : job[j].status \in ACTIVE_STATUSES
                   ~> job[j].status \notin ACTIVE_STATUSES
=============================================================================
