----------------------- MODULE JobQueuePromises_proofs -----------------------
(***************************************************************************)
(* What the job queue promises. To a caller: enqueueDeduped returns a job    *)
(* only when it has seen its key active while the call was under way. To a   *)
(* handler: nobody else runs its job, if its heartbeats are timely. To the   *)
(* rest of the system: it implements WorkQueue.                              *)
(*                                                                           *)
(* The calls read, reset and create in statements of their own, so the first *)
(* proof says what each of them knows about the rows of its key between two  *)
(* statements. The second is a lease argument: the age of a running row's    *)
(* lock and the time to the next heartbeat add up to one heartbeat interval, *)
(* which is shorter than the lock TTL, so no claim reclaims it. The third    *)
(* maps each step to a step of WorkQueue under the mapping of JobQueue       *)
(* (Phase, the lock holder, the attempts).                                   *)
(***************************************************************************)
EXTENDS JobQueue_proofs

-----------------------------------------------------------------------------
(* The invariant of the calls *)

\* Job.dedupeKey is unique.
OneRowPerKey ==
    \A i, j \in Job : Present(i) /\ Present(j) /\ KeyOf[i] = KeyOf[j] /\ KeyOf[i] # None
                      => i = j

Searching == {"reset", "reread", "create"}
Returning == {"confirm", "winner", "ok"}

\* A call that has not seen its key active knows of no row of the key but the
\* terminal one it found.
CallServed(c) ==
    /\ call[c].pc \in Searching \cup {"confirm", "winner"} =>
         call[c].key \in Key
    /\ call[c].pc = "reset" => KeyOf[call[c].found] = call[c].key
    /\ call[c].pc \in Returning => served[c]
    /\ call[c].pc \in Searching /\ ~served[c] =>
         \A j \in Job : KeyOf[j] = call[c].key /\ Present(j) =>
             /\ call[c].pc = "reset" /\ j = call[c].found
             /\ job[j].status \in TERMINAL_STATUSES

CallsServed == OneRowPerKey /\ \A c \in Caller : CallServed(c)

-----------------------------------------------------------------------------
(* Steps that make no work *)

\* No row appears and no terminal row becomes active again.
NothingNew ==
    \A j \in Job : \/ job'[j].status = job[j].status
                   \/ job[j].status \in ACTIVE_STATUSES
                   \/ job'[j].status = "DELETED"

LEMMA StatusGroups ==
    ASSUME TypeOK, NEW j \in Job
    PROVE  /\ job[j].status \in ACTIVE_STATUSES \cup TERMINAL_STATUSES \cup ABSENT
           /\ ~(job[j].status \in ACTIVE_STATUSES /\ job[j].status \in TERMINAL_STATUSES)
           /\ job[j].status \in ACTIVE_STATUSES => Present(j)
           /\ job[j].status \in TERMINAL_STATUSES => Present(j)
           /\ Present(j) => job[j].status \in ACTIVE_STATUSES \cup TERMINAL_STATUSES
BY DEF TypeOK, Row, Present, ABSENT, ACTIVE_STATUSES, RUNNABLE_STATUSES,
       RECLAIMABLE_STATUSES, TERMINAL_STATUSES

\* What a call knows stays true when nothing new appears.
LEMMA NothingNewKeeps ==
    ASSUME TypeOK, CallsServed, NothingNew, UNCHANGED <<call, served>>
    PROVE  CallsServed'
<1>1. \A j \in Job : Present(j)' => Present(j)
  BY StatusGroups DEF NothingNew, Present, ABSENT
<1>2. OneRowPerKey'
  BY <1>1 DEF CallsServed, OneRowPerKey
<1>3. ASSUME NEW c \in Caller PROVE CallServed(c)'
  <2>1. CallServed(c)
    BY DEF CallsServed
  <2>2. ASSUME call[c].pc \in Searching, ~served[c], NEW j \in Job,
               KeyOf[j] = call[c].key, Present(j)'
        PROVE  /\ call[c].pc = "reset" /\ j = call[c].found
               /\ job'[j].status \in TERMINAL_STATUSES
    <3>1. /\ call[c].pc = "reset" /\ j = call[c].found
          /\ job[j].status \in TERMINAL_STATUSES
      BY <1>1, <2>1, <2>2 DEF CallServed
    <3>2. job'[j].status = job[j].status
      BY <2>2, <3>1, StatusGroups DEF NothingNew, Present, ABSENT
    <3> QED BY <3>1, <3>2
  <2> QED BY <2>1, <2>2 DEF CallServed, Key
<1> QED BY <1>2, <1>3 DEF CallsServed

LEMMA OneActiveWritten ==
    ASSUME TypeOK, NEW j \in Job, NEW row, SetRow(j, row),
           row = job[j] \/ job[j].status \in ACTIVE_STATUSES
    PROVE  NothingNew
BY DEF TypeOK, SetRow, NothingNew

LEMMA OwnedIsActive ==
    ASSUME NEW r, NEW w
    PROVE  /\ OwnedRunning(r, w) => r.status \in ACTIVE_STATUSES
           /\ OwnedClaimed(r, w) => r.status \in ACTIVE_STATUSES
           /\ Claimable(r) => r.status \in ACTIVE_STATUSES
BY DEF OwnedRunning, OwnedClaimed, Claimable, ACTIVE_STATUSES, RECLAIMABLE_STATUSES

\* A worker writes active rows only.
LEMMA WorkerMakesNothing ==
    ASSUME IInv, NEW w \in Worker, WorkerStep(w) \/ WorkerFault(w)
    PROVE  NothingNew /\ UNCHANGED <<call, served>>
<1> DEFINE j == InHand(w)
<1>1. TypeOK /\ (worker[w].pc \in Executing => j \in Job)
  BY DEF IInv, HandsFull
<1>2. ASSUME UNCHANGED job PROVE NothingNew
  BY <1>2 DEF NothingNew
<1>3. CASE \/ Poll(w) \/ Stop(w) \/ ClaimNothing(w) \/ StartSkipped(w) \/ HandlerReturns(w)
           \/ HandlerAborts(w) \/ FailRead(w) \/ Crash(w) \/ Shutdown(w)
           \/ \E permanent \in BOOLEAN : HandlerThrows(w, permanent)
  <2>1. UNCHANGED <<job, call, served>>
    BY <1>3 DEF Poll, Stop, ClaimNothing, StartSkipped, HandlerReturns, HandlerAborts,
                FailRead, Crash, Shutdown, HandlerThrows, OnlyWorker
  <2> QED BY <1>2, <2>1
<1>4. ASSUME NEW k \in Job, Claim(w, k) PROVE NothingNew /\ UNCHANGED <<call, served>>
  BY <1>1, <1>4, OneActiveWritten, OwnedIsActive DEF Claim, OnlyWorkerAndJob
<1>5. CASE Start(w)
  BY <1>1, <1>5, OneActiveWritten, OwnedIsActive DEF Start, Executing
<1>6. CASE Heartbeat(w)
  BY <1>1, <1>2, <1>6, OneActiveWritten, OwnedIsActive
     DEF Heartbeat, BeatDue, Executing, OnlyWorkerAndJob
<1>7. CASE Complete(w)
  BY <1>1, <1>7, OneActiveWritten, OwnedIsActive DEF Complete, Executing, OnlyWorkerAndJob
<1>8. CASE FailWrite(w)
  <2>1. PICK row \in FailedRows(w) : SetRow(j, row)
    BY <1>8 DEF FailWrite
  <2>2. row = job[j] \/ job[j].status \in ACTIVE_STATUSES
    BY OwnedIsActive DEF FailedRows
  <2> QED BY <1>1, <1>8, <2>1, <2>2, OneActiveWritten DEF FailWrite, Executing, OnlyWorkerAndJob
<1>9. CASE ClaimThrows(w)
  BY <1>1, <1>2, <1>9, OneActiveWritten, OwnedIsActive DEF ClaimThrows, OnlyWorkerAndJob
<1>10. CASE StartThrows(w)
  BY <1>1, <1>2, <1>10, OneActiveWritten, OwnedIsActive DEF StartThrows, Executing
<1>11. CASE HeartbeatThrows(w) \/ CompleteThrows(w) \/ FailThrows(w)
  <2>1. PICK row : SetRow(j, row) /\ (row = job[j] \/ OwnedRunning(job[j], w))
    BY <1>11 DEF HeartbeatThrows, CompleteThrows, FailThrows, MayWrite, FailedRows
  <2>2. j \in Job /\ UNCHANGED <<call, served>>
    BY <1>1, <1>11 DEF HeartbeatThrows, CompleteThrows, FailThrows, BeatDue, Executing,
                       OnlyWorkerAndJob
  <2> QED BY <1>1, <2>1, <2>2, OneActiveWritten, OwnedIsActive
<1> QED
  BY <1>3, <1>4, <1>5, <1>6, <1>7, <1>8, <1>9, <1>10, <1>11 DEF WorkerStep, WorkerFault

LEMMA RemovalMakesNothing ==
    ASSUME TypeOK,
           \/ Tick
           \/ \E j \in Job : Cancel(j) \/ Archive(j)
           \/ \E old \in SUBSET Job : PruneTerminalJobs(old)
    PROVE  NothingNew /\ UNCHANGED <<call, served>>
<1>1. CASE Tick
  BY <1>1 DEF Tick, OlderRow, RowOf, NothingNew
<1>2. ASSUME NEW j \in Job, Cancel(j) PROVE NothingNew /\ UNCHANGED <<call, served>>
  BY <1>2, OneActiveWritten DEF Cancel, UnchangedHistory
<1>3. ASSUME NEW j \in Job, Archive(j) PROVE NothingNew /\ UNCHANGED <<call, served>>
  BY <1>3 DEF Archive, UnchangedHistory, TypeOK, SetRow, NothingNew, DeletedRow,
              UnlockedRow, RowOf
<1>4. ASSUME NEW old \in SUBSET Job, PruneTerminalJobs(old)
      PROVE  NothingNew /\ UNCHANGED <<call, served>>
  BY <1>4 DEF PruneTerminalJobs, UnchangedHistory, NothingNew, DeletedRow, UnlockedRow, RowOf
<1> QED BY <1>1, <1>2, <1>3, <1>4

-----------------------------------------------------------------------------
(* Steps that make a row fresh work *)

\* A write of fresh work serves every call in progress for the row's key.
LEMMA FreshRow ==
    ASSUME TypeOK, CallsServed, NEW j \in Job, NEW row, row.status = "PENDING",
           SetRow(j, row), Freshened(j),
           \/ Present(j)
           \/ KeyOf[j] = None \/ RowsOf(KeyOf[j]) = {}
    PROVE  /\ OneRowPerKey'
           /\ \A c \in Caller : served[c] => served'[c]
           /\ \A c \in Caller : KeyOf[j] # None /\ call[c].key = KeyOf[j] => served'[c]
           /\ \A i \in Job \ {j} : job'[i] = job[i]
           /\ Present(j)'
<1>1. /\ job'[j] = row
      /\ \A i \in Job \ {j} : job'[i] = job[i]
  BY DEF TypeOK, SetRow
<1>2. Present(j)'
  BY <1>1 DEF Present, ABSENT
<1>3. \A i \in Job \ {j} : Present(i)' => Present(i)
  BY <1>1 DEF Present
<1>4. OneRowPerKey'
  BY <1>3 DEF CallsServed, OneRowPerKey, RowsOf
<1> QED BY <1>1, <1>2, <1>4 DEF Freshened

\* ... and keeps what every call in progress knows.
LEMMA FreshRowKeeps ==
    ASSUME TypeOK, CallsServed, NEW j \in Job, NEW row, row.status = "PENDING",
           SetRow(j, row), Freshened(j),
           \/ Present(j)
           \/ KeyOf[j] = None \/ RowsOf(KeyOf[j]) = {},
           NEW c \in Caller, call'[c] = call[c]
    PROVE  CallServed(c)'
<1>1. CallServed(c)
  BY DEF CallsServed
<1>2. ASSUME call[c].pc \in Searching, ~served'[c], NEW i \in Job,
             KeyOf[i] = call[c].key, Present(i)'
      PROVE  /\ call[c].pc = "reset" /\ i = call[c].found
             /\ job'[i].status \in TERMINAL_STATUSES
  <2>1. KeyOf[i] # None /\ ~served[c]
    BY <1>1, <1>2, FreshRow DEF CallServed, Key
  <2>2. i # j
    BY <1>2, <2>1, FreshRow
  <2>3. job'[i] = job[i] /\ Present(i)
    BY <1>2, <2>2, FreshRow DEF Present
  <2> QED BY <1>1, <1>2, <2>1, <2>3 DEF CallServed
<1> QED BY <1>1, <1>2, FreshRow DEF CallServed, Key

\* A step of one call leaves the others with what they know.
LEMMA OtherCalls ==
    ASSUME CallsServed, NEW c \in Caller, UNCHANGED job,
           \A d \in Caller \ {c} : call'[d] = call[d] /\ served'[d] = served[d],
           CallServed(c)'
    PROVE  CallsServed'
<1>1. OneRowPerKey'
  BY DEF CallsServed, OneRowPerKey, Present
<1>2. ASSUME NEW d \in Caller \ {c} PROVE CallServed(d)'
  <2>1. CallServed(d)
    BY DEF CallsServed
  <2> QED BY <2>1 DEF CallServed, Present, Key
<1> QED BY <1>1, <1>2 DEF CallsServed

LEMMA PendingIsPending ==
    ASSUME NEW delay
    PROVE  PendingRow(delay).status = "PENDING" /\ RetriedRow.status = "PENDING"
BY DEF PendingRow, RetriedRow, UnlockedRow, RowOf

LEMMA InsertKeeps ==
    ASSUME TypeOK, CallsServed, NEW j \in Job, NEW delay, Insert(j, delay),
           NEW c \in Caller, call'[c] = call[c]
    PROVE  CallServed(c)'
BY FreshRowKeeps, PendingIsPending DEF Insert

\* What a call knows when it looks its key up.
LEMMA FindServes ==
    ASSUME IInv, CallsServed, NEW c \in Caller, NEW k \in Key, EnqueueFind(c, k)
    PROVE  CallsServed'
<1>1. /\ UNCHANGED job
      /\ \A d \in Caller \ {c} : call'[d] = call[d] /\ served'[d] = served[d]
  BY DEF EnqueueFind, Return, IInv, TypeOK
<1>2. CASE /\ RowsOf(k) = {}
           /\ call' = [call EXCEPT ![c] = [pc |-> "create", key |-> k, found |-> None]]
           /\ served' = [served EXCEPT ![c] = FALSE]
  <2>1. call'[c].pc = "create" /\ call'[c].key = k
    BY <1>2 DEF IInv, TypeOK
  <2>2. \A j \in Job : ~(KeyOf[j] = k /\ Present(j)')
    BY <1>1, <1>2 DEF RowsOf, Present
  <2>3. CallServed(c)'
    BY <2>1, <2>2 DEF CallServed, Searching, Returning, Key
  <2> QED BY <1>1, <2>3, OtherCalls
<1>3. ASSUME NEW j \in RowsOf(k), job[j].status \in ACTIVE_STATUSES,
             Return(c, "ok"),
             served' = [served EXCEPT ![c] = job[j].status \in ACTIVE_STATUSES]
      PROVE  CallsServed'
  <2>1. call'[c].pc = "ok" /\ served'[c]
    BY <1>3 DEF Return, IdleCall, IInv, TypeOK
  <2>2. CallServed(c)'
    BY <2>1 DEF CallServed, Searching, Returning
  <2> QED BY <1>1, <2>2, OtherCalls
<1>4. ASSUME NEW j \in RowsOf(k), job[j].status \notin ACTIVE_STATUSES,
             call' = [call EXCEPT ![c] = [pc |-> "reset", key |-> k, found |-> j]],
             served' = [served EXCEPT ![c] = job[j].status \in ACTIVE_STATUSES]
      PROVE  CallsServed'
  <2>1. call'[c].pc = "reset" /\ call'[c].key = k /\ call'[c].found = j
    BY <1>4 DEF IInv, TypeOK
  <2>2. /\ j \in Job /\ KeyOf[j] = k /\ Present(j)
        /\ job[j].status \in TERMINAL_STATUSES
    BY <1>4, StatusGroups DEF RowsOf, IInv
  <2>3. \A i \in Job : KeyOf[i] = k /\ Present(i)' => i = j
    BY <1>1, <2>2 DEF CallsServed, OneRowPerKey, Present, Key
  <2>4. CallServed(c)'
    BY <1>1, <2>1, <2>2, <2>3 DEF CallServed, Searching, Returning, Key
  <2> QED BY <1>1, <2>4, OtherCalls
<1> QED BY <1>2, <1>3, <1>4 DEF EnqueueFind

\* ... when it resets the row it found, or finds it active or gone.
LEMMA ResetServes ==
    ASSUME IInv, CallsServed, NEW c \in Caller, NEW delay, EnqueueReset(c, delay)
    PROVE  CallsServed'
<1> DEFINE j == call[c].found
<1>1. /\ call[c].pc = "reset" /\ j \in Job /\ call[c].key \in Key
      /\ KeyOf[j] = call[c].key /\ CallServed(c)
  BY DEF EnqueueReset, IInv, HandsFull, CallsServed, CallServed, Searching
<1>2. CASE job[j].status \in TERMINAL_STATUSES
  <2>1. /\ SetRow(j, PendingRow(delay)) /\ Freshened(j) /\ SetCall(c, "confirm")
        /\ Present(j)
    BY <1>1, <1>2, StatusGroups DEF EnqueueReset, IInv
  <2>2. /\ call'[c].pc = "confirm" /\ call'[c].key = call[c].key
        /\ \A d \in Caller \ {c} : call'[d] = call[d]
    BY <2>1 DEF SetCall, IInv, TypeOK, CallState
  <2>3. OneRowPerKey' /\ served'[c]
    BY <1>1, <2>1, FreshRow, PendingIsPending DEF IInv, Key
  <2>4. CallServed(c)'
    BY <1>1, <2>2, <2>3 DEF CallServed, Searching, Key
  <2>5. \A d \in Caller \ {c} : CallServed(d)'
    BY <1>1, <2>1, <2>2, FreshRowKeeps, PendingIsPending DEF IInv
  <2> QED BY <2>3, <2>4, <2>5 DEF CallsServed
<1>3. CASE job[j].status \notin TERMINAL_STATUSES
  <2>1. SetCall(c, "reread") /\ UNCHANGED <<job, starter, served>>
    BY <1>3 DEF EnqueueReset
  <2>2. /\ call'[c].pc = "reread" /\ call'[c].key = call[c].key
        /\ \A d \in Caller \ {c} : call'[d] = call[d]
    BY <2>1 DEF SetCall, IInv, TypeOK, CallState
  <2>3. ~served[c] => \A i \in Job : ~(KeyOf[i] = call[c].key /\ Present(i))
    BY <1>1, <1>3 DEF CallServed, Searching
  <2>4. CallServed(c)'
    BY <1>1, <2>1, <2>2, <2>3 DEF CallServed, Searching, Returning, Present, Key
  <2> QED BY <2>1, <2>2, <2>4, OtherCalls
<1> QED BY <1>2, <1>3

\* ... when it confirms the reset, looks again, loses the race to create, or
\* returns the winner: these statements write nothing.
LEMMA RereadServes ==
    ASSUME IInv, CallsServed, NEW c \in Caller,
           EnqueueConfirm(c) \/ EnqueueReread(c) \/ EnqueueConflict(c) \/ EnqueueWinner(c)
    PROVE  CallsServed'
<1>1. UNCHANGED <<job, served>>
  BY DEF EnqueueConfirm, EnqueueReread, EnqueueConflict, EnqueueWinner, UnchangedHistory
<1>2. CallServed(c)
  BY DEF CallsServed
<1>3. ASSUME NEW pc \in {"ok", "error"}, Return(c, pc), pc = "ok" => served[c]
      PROVE  CallsServed'
  <2>1. call'[c].pc = pc /\ \A d \in Caller \ {c} : call'[d] = call[d]
    BY <1>3 DEF Return, IdleCall, IInv, TypeOK
  <2>2. CallServed(c)'
    BY <1>1, <1>3, <2>1 DEF CallServed, Searching, Returning
  <2> QED BY <1>1, <2>1, <2>2, OtherCalls
<1>4. ASSUME NEW pc \in {"create", "winner"}, SetCall(c, pc), call[c].key \in Key,
             pc = "create" => RowsOf(call[c].key) = {},
             pc = "winner" => served[c]
      PROVE  CallsServed'
  <2>1. /\ call'[c].pc = pc /\ call'[c].key = call[c].key
        /\ \A d \in Caller \ {c} : call'[d] = call[d]
    BY <1>4 DEF SetCall, IInv, TypeOK, CallState
  <2>2. CallServed(c)'
    BY <1>1, <1>4, <2>1 DEF CallServed, Searching, Returning, RowsOf, Present, Key
  <2> QED BY <1>1, <2>1, <2>2, OtherCalls
<1>5. CASE EnqueueConfirm(c)
  <2>1. served[c]
    BY <1>2, <1>5 DEF EnqueueConfirm, CallServed, Returning
  <2>2. \E pc \in {"ok", "error"} : Return(c, pc)
    BY <1>5 DEF EnqueueConfirm
  <2> QED BY <1>3, <2>1, <2>2
<1>6. CASE EnqueueReread(c)
  <2>1. call[c].key \in Key
    BY <1>2, <1>6 DEF EnqueueReread, CallServed, Searching
  <2>2. RowsOf(call[c].key) # {} => served[c]
    BY <1>2, <1>6 DEF EnqueueReread, CallServed, Searching, RowsOf
  <2> QED BY <1>3, <1>4, <1>6, <2>1, <2>2 DEF EnqueueReread
<1>7. CASE EnqueueConflict(c)
  <2>1. call[c].key \in Key /\ served[c]
    BY <1>2, <1>7 DEF EnqueueConflict, CallServed, Searching, RowsOf
  <2> QED BY <1>4, <1>7, <2>1 DEF EnqueueConflict
<1>8. CASE EnqueueWinner(c)
  <2>1. served[c]
    BY <1>2, <1>8 DEF EnqueueWinner, CallServed, Returning
  <2>2. \E pc \in {"ok", "error"} : Return(c, pc)
    BY <1>8 DEF EnqueueWinner
  <2> QED BY <1>3, <2>1, <2>2
<1> QED BY <1>5, <1>6, <1>7, <1>8

\* ... and when it creates the row.
LEMMA CreateServes ==
    ASSUME IInv, CallsServed, NEW c \in Caller, NEW j \in Job, NEW delay,
           EnqueueCreate(c, j, delay)
    PROVE  CallsServed'
<1>1. /\ call[c].pc = "create" /\ KeyOf[j] = call[c].key /\ Insert(j, delay)
      /\ Return(c, "ok")
  BY DEF EnqueueCreate
<1>2. call[c].key # None
  BY <1>1 DEF CallsServed, CallServed, Searching, Key
<1>3. call'[c].pc = "ok" /\ \A d \in Caller \ {c} : call'[d] = call[d]
  BY <1>1 DEF Return, IdleCall, IInv, TypeOK
<1>4. OneRowPerKey' /\ served'[c]
  BY <1>1, <1>2, FreshRow, PendingIsPending DEF Insert, IInv
<1>5. CallServed(c)'
  BY <1>3, <1>4 DEF CallServed, Searching
<1>6. \A d \in Caller \ {c} : CallServed(d)'
  BY <1>1, <1>3, InsertKeeps DEF IInv
<1> QED BY <1>4, <1>5, <1>6 DEF CallsServed

-----------------------------------------------------------------------------
(* The promise to callers                                                    *)

LEMMA InitServed == Init => CallsServed
BY DEF Init, CallsServed, OneRowPerKey, CallServed, Present, UnbornRow, RowOf, ABSENT,
       IdleCall, Searching, Returning

LEMMA NextServed == IInv /\ CallsServed /\ [Next]_vars => CallsServed'
<1> SUFFICES ASSUME IInv, CallsServed, [Next]_vars PROVE CallsServed'
  OBVIOUS
<1>0. TypeOK
  BY DEF IInv
<1>1. ASSUME NothingNew, UNCHANGED <<call, served>> PROVE CallsServed'
  BY <1>0, <1>1, NothingNewKeeps
<1>2. CASE UNCHANGED vars
  BY <1>1, <1>2 DEF vars, NothingNew
<1>3. ASSUME NEW w \in Worker, WorkerStep(w) \/ WorkerFault(w) PROVE CallsServed'
  BY <1>1, <1>3, WorkerMakesNothing
<1>4. ASSUME NEW j \in Job, Retry(j) PROVE CallsServed'
  <2>1. SetRow(j, RetriedRow) /\ Freshened(j) /\ call' = call /\ Present(j)
    BY <1>4 DEF Retry, Present, RETRYABLE_STATUSES, ABSENT
  <2>2. OneRowPerKey'
    BY <1>0, <2>1, FreshRow, PendingIsPending
  <2>3. \A c \in Caller : CallServed(c)'
    BY <1>0, <2>1, FreshRowKeeps, PendingIsPending
  <2> QED BY <2>2, <2>3 DEF CallsServed
<1>5. CASE OperatorStep
  <2>1. CASE \/ \E j \in Job : Cancel(j) \/ Archive(j)
             \/ \E old \in SUBSET Job : PruneTerminalJobs(old)
    BY <1>0, <1>1, <2>1, RemovalMakesNothing
  <2> QED BY <1>4, <1>5, <2>1 DEF OperatorStep
<1>6. CASE Tick
  BY <1>0, <1>1, <1>6, RemovalMakesNothing
<1>7. ASSUME NEW j \in Job, NEW delay, EnqueuePlain(j, delay) \/ EnqueueInTx(j, delay)
      PROVE  CallsServed'
  <2>1. Insert(j, delay) /\ call' = call
    BY <1>7 DEF EnqueuePlain, EnqueueInTx
  <2>2. OneRowPerKey'
    BY <1>0, <2>1, FreshRow, PendingIsPending DEF Insert
  <2>3. \A c \in Caller : CallServed(c)'
    BY <1>0, <2>1, InsertKeeps
  <2> QED BY <2>2, <2>3 DEF CallsServed
<1>8. CASE EnqueueStep
  BY <1>7, <1>8, FindServes, ResetServes, RereadServes, CreateServes DEF EnqueueStep, CallStep
<1> QED BY <1>2, <1>3, <1>5, <1>6, <1>8 DEF Next

\* A call of enqueueDeduped that returns a job has seen the key's row active since
\* it began, for every number of callers, keys, rows and workers, whoever resets,
\* creates, runs, retries, archives or prunes rows between its statements.
THEOREM EnqueueServesItsCaller == Spec => []EnqueueServed
<1>1. CallsServed => EnqueueServed
  BY DEF CallsServed, CallServed, EnqueueServed, Returning
<1> QED BY <1>1, InitServed, NextServed, Invariant, PTL DEF Spec

-----------------------------------------------------------------------------
(* Leases that are kept *)

\* What may not happen: each of these lets a handler outlive its lock.
Timely == Env \cap {"stall", "dberror", "shutdown", "cancel"} = {}

\* A handler that runs holds a lock that its heartbeats keep fresh.
LeaseKept ==
    \A w \in Worker :
        /\ worker[w].pc = "claimed" => worker[w].scope = "live"
        /\ worker[w].pc = "running" =>
             /\ InHand(w) \in Job /\ OwnedRunning(job[InHand(w)], w)
             /\ worker[w].scope = "live"
             /\ job[InHand(w)].lockAge + worker[w].beat <= HeartbeatEvery

LEMMA NotReclaimed ==
    ASSUME TypeOK, LeaseKept, NEW w \in Worker, worker[w].pc = "running"
    PROVE  ~Claimable(job[InHand(w)])
<1>1. /\ InHand(w) \in Job /\ job[InHand(w)].status = "RUNNING"
      /\ job[InHand(w)].lockAge + worker[w].beat <= HeartbeatEvery
  BY DEF LeaseKept, OwnedRunning
<1>2. job[InHand(w)].lockAge \in Nat /\ worker[w].beat \in Nat
  BY <1>1, LockTtlAssumption, HeartbeatAssumption DEF TypeOK, Row, WorkerState
<1>3. job[InHand(w)].lockAge <= HeartbeatEvery
  BY <1>1, <1>2, HeartbeatAssumption
<1> QED
  BY <1>1, <1>2, <1>3, HeartbeatAssumption, LockTtlAssumption
  DEF Claimable, RUNNABLE_STATUSES

\* A step that leaves the running workers and their rows as they are, but for the
\* worker w, whose new state keeps its lease.
LEMMA OneWorkerLease ==
    ASSUME LeaseKept, NEW w \in Worker,
           \A v \in Worker \ {w} : worker'[v] = worker[v],
           \A v \in Worker \ {w} :
               worker[v].pc = "running" => job'[InHand(v)] = job[InHand(v)],
           worker'[w].pc = "claimed" => worker'[w].scope = "live",
           worker'[w].pc = "running" =>
             /\ InHand(w)' \in Job /\ OwnedRunning(job'[InHand(w)'], w)
             /\ worker'[w].scope = "live"
             /\ job'[InHand(w)'].lockAge + worker'[w].beat <= HeartbeatEvery
    PROVE  LeaseKept'
<1> SUFFICES ASSUME NEW v \in Worker
             PROVE  /\ worker'[v].pc = "claimed" => worker'[v].scope = "live"
                    /\ worker'[v].pc = "running" =>
                         /\ InHand(v)' \in Job /\ OwnedRunning(job'[InHand(v)'], v)
                         /\ worker'[v].scope = "live"
                         /\ job'[InHand(v)'].lockAge + worker'[v].beat <= HeartbeatEvery
  BY DEF LeaseKept, OwnedRunning
<1>1. CASE v = w
  BY <1>1 DEF InHand
<1>2. CASE v # w
  BY <1>2 DEF LeaseKept, InHand
<1> QED BY <1>1, <1>2

\* Another worker's row is not written as one's own.
LEMMA OwnRowWritten ==
    ASSUME TypeOK, LeaseKept, NEW w \in Worker, NEW j \in Job, NEW row, SetRow(j, row),
           row = job[j] \/ OwnedRunning(job[j], w) \/ OwnedClaimed(job[j], w)
                        \/ Claimable(job[j]) \/ job[j].status # "RUNNING"
    PROVE  \A v \in Worker \ {w} :
               worker[v].pc = "running" => job'[InHand(v)] = job[InHand(v)]
<1> SUFFICES ASSUME NEW v \in Worker \ {w}, worker[v].pc = "running"
             PROVE  job'[InHand(v)] = job[InHand(v)]
  OBVIOUS
<1>1. /\ InHand(v) \in Job /\ OwnedRunning(job[InHand(v)], v)
      /\ ~Claimable(job[InHand(v)])
  BY NotReclaimed DEF LeaseKept
<1>2. InHand(v) = j => row = job[j]
  BY <1>1 DEF OwnedRunning, OwnedClaimed
<1> QED BY <1>1, <1>2 DEF TypeOK, SetRow

LEMMA WorkerSet ==
    ASSUME TypeOK, NEW w \in Worker, NEW st, SetWorker(w, st)
    PROVE  worker'[w] = st /\ \A v \in Worker \ {w} : worker'[v] = worker[v]
BY DEF TypeOK, SetWorker

LEMMA PlainStates ==
    /\ IdleWorker.pc = "idle" /\ Polling.pc = "polling" /\ Ended.pc = "gone"
    /\ \A j, pc, scope, beat :
         /\ Holding(j, pc, scope, beat).pc = pc
         /\ Holding(j, pc, scope, beat).job = j
         /\ Holding(j, pc, scope, beat).scope = scope
         /\ Holding(j, pc, scope, beat).beat = beat
    /\ \A w, pc, permanent, seen : Recording(w, pc, permanent, seen).pc = pc
BY DEF IdleWorker, Polling, Ended, Holding, Recording, WorkerOf

\* A worker that comes to no handler has no lease to keep.
LEMMA LeavesHandler ==
    ASSUME TypeOK, LeaseKept, NEW w \in Worker, NEW st, SetWorker(w, st),
           st.pc \notin {"claimed", "running"},
           \A v \in Worker \ {w} :
               worker[v].pc = "running" => job'[InHand(v)] = job[InHand(v)]
    PROVE  LeaseKept'
BY WorkerSet, OneWorkerLease

LEMMA WorkerKeepsLease ==
    ASSUME IInv, LeaseKept, NEW w \in Worker, WorkerStep(w)
    PROVE  LeaseKept'
<1> DEFINE j == InHand(w)
<1> DEFINE OthersKept == \A v \in Worker \ {w} :
                            worker[v].pc = "running" => job'[InHand(v)] = job[InHand(v)]
<1>1. TypeOK /\ (worker[w].pc \in Executing => j \in Job)
  BY DEF IInv, HandsFull
<1>2. ASSUME UNCHANGED job PROVE OthersKept
  BY <1>2
<1>3. CASE Poll(w) \/ Stop(w) \/ ClaimNothing(w) \/ StartSkipped(w)
  BY <1>1, <1>2, <1>3, LeavesHandler, PlainStates
     DEF Poll, Stop, ClaimNothing, StartSkipped, OnlyWorker
<1>4. CASE HandlerReturns(w) \/ HandlerAborts(w)
  BY <1>1, <1>2, <1>4, LeavesHandler, PlainStates DEF HandlerReturns, HandlerAborts, OnlyWorker
<1>5. ASSUME NEW permanent \in BOOLEAN, HandlerThrows(w, permanent) PROVE LeaseKept'
  <2>1. AfterError(w, permanent).pc \notin {"claimed", "running"}
    BY PlainStates DEF AfterError
  <2> QED BY <1>1, <1>2, <1>5, <2>1, LeavesHandler DEF HandlerThrows, OnlyWorker
<1>6. CASE FailRead(w)
  BY <1>1, <1>2, <1>6, LeavesHandler, PlainStates DEF FailRead, OnlyWorker
<1>7. CASE Complete(w)
  <2>1. OthersKept
    BY <1>1, <1>7, OwnRowWritten DEF Complete, Executing
  <2> QED BY <1>1, <1>7, <2>1, LeavesHandler, PlainStates DEF Complete
<1>8. CASE FailWrite(w)
  <2>1. PICK row \in FailedRows(w) : SetRow(j, row)
    BY <1>8 DEF FailWrite
  <2>2. row = job[j] \/ OwnedRunning(job[j], w)
    BY DEF FailedRows
  <2>3. OthersKept
    BY <1>1, <1>8, <2>1, <2>2, OwnRowWritten DEF FailWrite, Executing
  <2> QED BY <1>1, <1>8, <2>3, LeavesHandler, PlainStates DEF FailWrite
<1>9. ASSUME NEW k \in Job, Claim(w, k) PROVE LeaseKept'
  <2>1. OthersKept
    BY <1>1, <1>9, OwnRowWritten DEF Claim
  <2>2. /\ worker'[w].pc = "claimed" /\ worker'[w].scope = "live"
        /\ \A v \in Worker \ {w} : worker'[v] = worker[v]
    BY <1>1, <1>9, WorkerSet, PlainStates DEF Claim
  <2> QED BY <2>1, <2>2, OneWorkerLease
<1>10. CASE Start(w)
  <2>1. OthersKept /\ j \in Job
    BY <1>1, <1>10, OwnRowWritten DEF Start, Executing
  <2>2. /\ worker'[w].pc = "running" /\ InHand(w)' = j /\ worker'[w].scope = "live"
        /\ worker'[w].beat = HeartbeatEvery
        /\ \A v \in Worker \ {w} : worker'[v] = worker[v]
    BY <1>1, <1>10, WorkerSet, PlainStates DEF Start, LeaseKept, InHand
  <2>3. OwnedRunning(job'[j], w) /\ job'[j].lockAge = 0
    BY <1>1, <1>10, <2>1 DEF Start, SetRow, TypeOK, OwnedClaimed, OwnedRunning, StartedRow, RowOf
  <2>4. 0 + HeartbeatEvery <= HeartbeatEvery
    BY HeartbeatAssumption
  <2> QED BY <2>1, <2>2, <2>3, <2>4, OneWorkerLease
<1>11. CASE Heartbeat(w)
  <2>1. j \in Job /\ OwnedRunning(job[j], w) /\ SetRow(j, HeartbeatRow(job[j]))
    BY <1>11 DEF Heartbeat, BeatDue, LeaseKept
  <2>2. OthersKept
    BY <1>1, <2>1, OwnRowWritten
  <2>3. /\ worker'[w].pc = "running" /\ InHand(w)' = j /\ worker'[w].scope = "live"
        /\ worker'[w].beat = HeartbeatEvery
        /\ \A v \in Worker \ {w} : worker'[v] = worker[v]
    BY <1>1, <1>11, <2>1, WorkerSet, PlainStates DEF Heartbeat, InHand
  <2>4. OwnedRunning(job'[j], w) /\ job'[j].lockAge = 0
    BY <1>1, <2>1 DEF SetRow, TypeOK, OwnedRunning, HeartbeatRow, RowOf
  <2>5. 0 + HeartbeatEvery <= HeartbeatEvery
    BY HeartbeatAssumption
  <2> QED BY <2>2, <2>1, <2>3, <2>4, <2>5, OneWorkerLease
<1> QED
  BY <1>3, <1>4, <1>5, <1>6, <1>7, <1>8, <1>9, <1>10, <1>11 DEF WorkerStep

\* A crash ends a handler; the faults that end its heartbeats are excluded.
LEMMA FaultKeepsLease ==
    ASSUME IInv, LeaseKept, Timely, NEW w \in Worker, WorkerFault(w)
    PROVE  LeaseKept'
<1>1. Crash(w)
  BY DEF WorkerFault, Timely, ClaimThrows, StartThrows, HeartbeatThrows, CompleteThrows,
         FailThrows, Shutdown
<1> QED BY <1>1, LeavesHandler, PlainStates DEF Crash, OnlyWorker, IInv

\* Operators and callers write no running row.
LEMMA OthersKeepLease ==
    ASSUME IInv, LeaseKept, Timely, OperatorStep \/ EnqueueStep
    PROVE  LeaseKept'
<1>1. TypeOK
  BY DEF IInv
<1>2. ASSUME UNCHANGED worker,
             \A j \in Job : job'[j] = job[j] \/ job[j].status # "RUNNING"
      PROVE  LeaseKept'
  BY <1>2 DEF LeaseKept, InHand, OwnedRunning
<1>3. ASSUME NEW j \in Job, NEW row, SetRow(j, row), job[j].status # "RUNNING"
      PROVE  \A i \in Job : job'[i] = job[i] \/ job[i].status # "RUNNING"
  BY <1>1, <1>3 DEF TypeOK, SetRow
<1>4. ASSUME NEW j \in Job, Retry(j) \/ Cancel(j) \/ Archive(j) PROVE LeaseKept'
  <2>1. ~Cancel(j)
    BY DEF Cancel, Timely
  <2> QED BY <1>2, <1>3, <1>4, <2>1
          DEF Retry, Archive, RETRYABLE_STATUSES, TERMINAL_STATUSES
<1>5. ASSUME NEW old \in SUBSET Job, PruneTerminalJobs(old) PROVE LeaseKept'
  BY <1>2, <1>5 DEF PruneTerminalJobs, TERMINAL_STATUSES
<1>6. ASSUME NEW j \in Job, NEW delay, Insert(j, delay), UNCHANGED worker PROVE LeaseKept'
  BY <1>2, <1>3, <1>6 DEF Insert
<1>7. ASSUME NEW c \in Caller, NEW delay, EnqueueReset(c, delay) PROVE LeaseKept'
  <2>1. call[c].found \in Job
    BY <1>7 DEF EnqueueReset, IInv, HandsFull
  <2> QED BY <1>2, <1>3, <1>7, <2>1 DEF EnqueueReset, TERMINAL_STATUSES
<1>8. ASSUME NEW c \in Caller,
             \/ EnqueueConfirm(c) \/ EnqueueReread(c) \/ EnqueueConflict(c)
             \/ EnqueueWinner(c) \/ \E k \in Key : EnqueueFind(c, k)
      PROVE  LeaseKept'
  BY <1>2, <1>8 DEF EnqueueConfirm, EnqueueReread, EnqueueConflict, EnqueueWinner,
                    EnqueueFind
<1> QED
  BY <1>4, <1>5, <1>6, <1>7, <1>8
  DEF OperatorStep, EnqueueStep, CallStep, EnqueueCreate, EnqueuePlain, EnqueueInTx

\* A tick ages the lock by what it takes from the time to the next heartbeat.
LEMMA TickKeepsLease ==
    ASSUME IInv, LeaseKept, Timely, Tick
    PROVE  LeaseKept'
<1> SUFFICES ASSUME NEW w \in Worker
             PROVE  /\ worker'[w].pc = "claimed" => worker'[w].scope = "live"
                    /\ worker'[w].pc = "running" =>
                         /\ InHand(w)' \in Job /\ OwnedRunning(job'[InHand(w)'], w)
                         /\ worker'[w].scope = "live"
                         /\ job'[InHand(w)'].lockAge + worker'[w].beat <= HeartbeatEvery
  BY DEF LeaseKept, OwnedRunning
<1>1. /\ worker'[w].pc = worker[w].pc /\ worker'[w].scope = worker[w].scope
      /\ worker'[w].job = worker[w].job
      /\ worker'[w].beat = IF worker[w].beat = 0 THEN 0 ELSE worker[w].beat - 1
  BY DEF Tick, IInv, TypeOK, WorkerState
<1>2. KeepsUp(w)
  BY DEF Tick, Timely
<1>3. worker[w].pc # "claimed"
  BY <1>2 DEF KeepsUp, Executing
<1>4. CASE worker[w].pc = "running"
  <2> DEFINE j == InHand(w)
  <2>1. /\ j \in Job /\ OwnedRunning(job[j], w) /\ worker[w].scope = "live"
        /\ job[j].lockAge + worker[w].beat <= HeartbeatEvery
    BY <1>4 DEF LeaseKept
  <2>2. worker[w].beat # 0 /\ worker[w].beat \in Nat /\ job[j].lockAge \in Nat
    BY <1>2, <1>4, <2>1, HeartbeatAssumption, LockTtlAssumption
       DEF KeepsUp, BeatDue, IInv, TypeOK, WorkerState, Row
  <2>3. job'[j] = OlderRow(job[j])
    BY <2>1 DEF Tick
  <2>4. /\ OwnedRunning(job'[j], w)
        /\ job'[j].lockAge \in {job[j].lockAge, job[j].lockAge + 1}
    BY <2>1, <2>3 DEF OwnedRunning, OlderRow, RowOf
  <2>5. job'[j].lockAge + (worker[w].beat - 1) <= HeartbeatEvery
    BY <2>1, <2>2, <2>4, HeartbeatAssumption
  <2> QED BY <1>1, <1>4, <2>1, <2>2, <2>4, <2>5 DEF InHand
<1> QED BY <1>1, <1>3, <1>4

LEMMA InitLease == Init => LeaseKept
<1> SUFFICES ASSUME Init PROVE LeaseKept
  OBVIOUS
<1>1. \A w \in Worker : worker[w].pc = "idle"
  BY PlainStates DEF Init
<1> QED BY <1>1 DEF LeaseKept

LEMMA NextLease == Timely /\ IInv /\ LeaseKept /\ [Next]_vars => LeaseKept'
<1> SUFFICES ASSUME Timely, IInv, LeaseKept, [Next]_vars PROVE LeaseKept'
  OBVIOUS
<1>1. CASE UNCHANGED vars
  BY <1>1 DEF vars, LeaseKept, InHand, OwnedRunning
<1> QED
  BY <1>1, WorkerKeepsLease, FaultKeepsLease, OthersKeepLease, TickKeepsLease DEF Next

\* "Locked so multiple workers never run the same job" (worker/index.ts), for every
\* number of workers and jobs and every TTL beyond the heartbeat interval, with
\* crashes, retries, callers and removals in any order: when the clock does not
\* outrun heartbeats and statements, no statement throws, and no shutdown or
\* cancellation comes between a handler and its lock.
THEOREM OneRunAtATime == Timely /\ Spec => []OneRunPerJob
<1>1. LeaseKept => OneRunPerJob
  <2> SUFFICES ASSUME LeaseKept, NEW v \in Worker, NEW w \in Worker,
                      worker[v].pc = "running", worker[w].pc = "running",
                      InHand(v) = InHand(w)
               PROVE  v = w
    BY DEF OneRunPerJob
  <2> QED BY DEF LeaseKept, OwnedRunning
<1>2. Timely /\ Spec => []LeaseKept
  <2>1. SUFFICES ASSUME Timely PROVE Spec => []LeaseKept
    OBVIOUS
  <2>2. IInv /\ LeaseKept /\ [Next]_vars => LeaseKept'
    BY <2>1, NextLease
  <2> QED BY <2>2, InitLease, Invariant, PTL DEF Spec
<1> QED BY <1>1, <1>2, PTL

-----------------------------------------------------------------------------
(* Rows and phases *)

\* The phase of an allowed row.
LEMMA Phases ==
    ASSUME NEW r, RowOK(r)
    PROVE  /\ Phase(r) = "new" <=> r.status = "UNBORN"
           /\ Phase(r) = "waiting" <=> r.status \in RUNNABLE_STATUSES
           /\ Phase(r) = "leased" <=> r.status \in RECLAIMABLE_STATUSES
           /\ Phase(r) = "settled" <=> r.status \in TERMINAL_STATUSES
           /\ Phase(r) = "gone" <=> r.status = "DELETED"
BY DEF RowOK, Row, Phase, ABSENT, ACTIVE_STATUSES, RUNNABLE_STATUSES,
       RECLAIMABLE_STATUSES, TERMINAL_STATUSES

\* The row stands for work in this phase, with this holder and these tries.
IsWork(r, phase, holder, tries) ==
    Phase(r) = phase /\ r.lockedBy = holder /\ r.attempts = tries

\* Writing one row moves one piece of work.
OneMoves(j, phase, holder, tries) ==
    \A k \in Job : /\ Phase(job'[k]) = IF k = j THEN phase ELSE Phase(job[k])
                   /\ job'[k].lockedBy = IF k = j THEN holder ELSE job[k].lockedBy
                   /\ job'[k].attempts = IF k = j THEN tries ELSE job[k].attempts

LEMMA SetRowMoves ==
    ASSUME TypeOK, NEW j \in Job, NEW row, SetRow(j, row), NEW phase, NEW holder, NEW tries,
           IsWork(row, phase, holder, tries)
    PROVE  \A k \in Job : /\ Phase(job'[k]) = IF k = j THEN phase ELSE Phase(job[k])
                          /\ job'[k].lockedBy = IF k = j THEN holder ELSE job[k].lockedBy
                          /\ job'[k].attempts = IF k = j THEN tries ELSE job[k].attempts
<1>1. \A k \in Job : job'[k] = IF k = j THEN row ELSE job[k]
  BY DEF TypeOK, SetRow
<1> QED BY <1>1 DEF IsWork

\* A write that keeps phase, holder and attempts of the row stutters.
LEMMA OneStutters ==
    ASSUME TypeOK, NEW j \in Job, NEW row, SetRow(j, row),
           Phase(row) = Phase(job[j]), row.lockedBy = job[j].lockedBy,
           row.attempts = job[j].attempts
    PROVE  UNCHANGED Queue!vars
<1>1. \A k \in Job : /\ Phase(job'[k]) = Phase(job[k])
                     /\ job'[k].lockedBy = job[k].lockedBy
                     /\ job'[k].attempts = job[k].attempts
  BY DEF TypeOK, SetRow
<1> QED BY <1>1 DEF Queue!vars

LEMMA SameTableStutters == ASSUME UNCHANGED job PROVE UNCHANGED Queue!vars
BY DEF Queue!vars

-----------------------------------------------------------------------------
(* Each write as a step of the abstract queue *)

\* The values the mapping gives a piece of work.
LEMMA Mapped ==
    ASSUME NEW j \in Job
    PROVE  /\ [k \in Job |-> Phase(job[k])][j] = Phase(job[j])
           /\ [k \in Job |-> job[k].lockedBy][j] = job[j].lockedBy
           /\ [k \in Job |-> job[k].attempts][j] = job[j].attempts
OBVIOUS

\* What each guarded UPDATE makes of the work its row stands for.
LEMMA LeasedRows ==
    ASSUME NEW r, NEW w
    PROVE  IsWork(ClaimedRow(r, w), "leased", w, r.attempts)
BY DEF IsWork, ClaimedRow, RowOf, Phase, RUNNABLE_STATUSES, RECLAIMABLE_STATUSES,
       TERMINAL_STATUSES

LEMMA KeptRows ==
    ASSUME NEW r
    PROVE  /\ IsWork(StartedRow(r), "leased", r.lockedBy, r.attempts)
           /\ IsWork(HeartbeatRow(r), Phase(r), r.lockedBy, r.attempts)
           /\ IsWork(OlderRow(r), Phase(r), r.lockedBy, r.attempts)
BY DEF IsWork, StartedRow, HeartbeatRow, OlderRow, RowOf, Phase, RUNNABLE_STATUSES,
       RECLAIMABLE_STATUSES, TERMINAL_STATUSES

LEMMA SettledRows ==
    ASSUME NEW r
    PROVE  /\ IsWork(CompletedRow(r), "settled", None, r.attempts)
           /\ IsWork(CancelledRow(r), "settled", None, r.attempts)
           /\ IsWork(DeadLetteredRow(r, r.attempts), "settled", None, r.attempts + 1)
BY DEF IsWork, CompletedRow, CancelledRow, DeadLetteredRow, UnlockedRow, RowOf, Phase,
       RUNNABLE_STATUSES, RECLAIMABLE_STATUSES, TERMINAL_STATUSES

LEMMA WaitingRows ==
    ASSUME NEW delay
    PROVE  /\ \A seen : IsWork(FailedRow(seen, delay), "waiting", None, seen + 1)
           /\ IsWork(PendingRow(delay), "waiting", None, 0)
BY DEF IsWork, FailedRow, PendingRow, UnlockedRow, RowOf, Phase, RUNNABLE_STATUSES,
       RECLAIMABLE_STATUSES, TERMINAL_STATUSES

LEMMA FixedRows ==
    /\ IsWork(RetriedRow, "waiting", None, 0)
    /\ IsWork(DeletedRow, "gone", None, 0)
    /\ IsWork(UnbornRow, "new", None, 0)
BY DEF IsWork, RetriedRow, DeletedRow, UnbornRow, UnlockedRow, RowOf, Phase,
       RUNNABLE_STATUSES, RECLAIMABLE_STATUSES, TERMINAL_STATUSES

\* A claim leases the work; a start or a heartbeat changes nothing of it.
LEMMA ClaimSimulates ==
    ASSUME TypeOK, RowConsistent, NEW j \in Job, NEW w \in Worker, Claimable(job[j]),
           SetRow(j, ClaimedRow(job[j], w))
    PROVE  Queue!Lease(j, w)
<1>1. Phase(job[j]) \in {"waiting", "leased"}
  BY InvRowOK, Phases DEF Claimable
<1>2. OneMoves(j, "leased", w, job[j].attempts)
  BY LeasedRows, SetRowMoves DEF OneMoves
<1> QED BY <1>1, <1>2, Mapped DEF OneMoves, Queue!Becomes, Queue!Lease, Queue!Unsettled

LEMMA StartSimulates ==
    ASSUME TypeOK, RowConsistent, NEW j \in Job, NEW w, OwnedClaimed(job[j], w),
           SetRow(j, StartedRow(job[j]))
    PROVE  UNCHANGED Queue!vars
<1>1. Phase(job[j]) = "leased"
  BY InvRowOK, Phases DEF OwnedClaimed, RECLAIMABLE_STATUSES
<1> QED BY <1>1, OneStutters, KeptRows DEF IsWork

LEMMA HeartbeatSimulates ==
    ASSUME TypeOK, NEW j \in Job, SetRow(j, HeartbeatRow(job[j]))
    PROVE  UNCHANGED Queue!vars
BY OneStutters, KeptRows DEF IsWork

LEMMA CompleteSimulates ==
    ASSUME TypeOK, RowConsistent, NEW j \in Job, NEW w, OwnedRunning(job[j], w),
           SetRow(j, CompletedRow(job[j]))
    PROVE  Queue!Settle(j)
<1>1. Phase(job[j]) = "leased"
  BY InvRowOK, Phases DEF OwnedRunning, RECLAIMABLE_STATUSES
<1>2. OneMoves(j, "settled", None, job[j].attempts)
  BY SettledRows, SetRowMoves DEF OneMoves
<1> QED BY <1>1, <1>2, Mapped DEF OneMoves, Queue!Becomes, Queue!Settle

\* failJob settles the work or gives it back with one more try counted.
LEMMA FailSimulates ==
    ASSUME IInv, NEW w \in Worker, worker[w].pc = "recording", NEW j \in Job,
           j = InHand(w), NEW row \in FailedRows(w), SetRow(j, row)
    PROVE  Queue!Settle(j) \/ Queue!GiveBack(j) \/ UNCHANGED Queue!vars
<1> USE DEF IInv
<1>1. j \in Job /\ RowOK(job[j])
  BY InvRowOK DEF HandsFull, Executing
<1>2. CASE ~OwnedRunning(job[j], w)
  BY <1>1, <1>2, OneStutters DEF FailedRows
<1>3. CASE OwnedRunning(job[j], w)
  <2> DEFINE seen == worker[w].seen
  <2>1. Phase(job[j]) = "leased" /\ seen = job[j].attempts
    BY <1>1, <1>3, Phases DEF OwnedRunning, RECLAIMABLE_STATUSES, SeenCurrent
  <2>2. CASE worker[w].permanent \/ Exhausted(seen)
    <3>1. row = DeadLetteredRow(job[j], seen)
      BY <1>3, <2>2 DEF FailedRows
    <3>2. OneMoves(j, "settled", None, job[j].attempts + 1)
      BY <1>1, <2>1, <3>1, SettledRows, SetRowMoves DEF OneMoves
    <3> QED BY <1>1, <2>1, <3>2, Mapped DEF OneMoves, Queue!Becomes, Queue!Settle
  <2>3. CASE ~(worker[w].permanent \/ Exhausted(seen))
    <3>1. PICK delay \in 0..MaxDelay : row = FailedRow(seen, delay)
      BY <1>3, <2>3 DEF FailedRows
    <3>2. OneMoves(j, "waiting", None, job[j].attempts + 1)
      BY <1>1, <2>1, <3>1, WaitingRows, SetRowMoves DEF OneMoves
    <3>3. job[j].attempts + 1 < MaxAttempts
      BY <1>1, <2>1, <2>3, MaxAttemptsAssumption DEF Exhausted, RowOK, Row
    <3> QED BY <1>1, <2>1, <3>2, <3>3, Mapped DEF OneMoves, Queue!Becomes, Queue!GiveBack
  <2> QED BY <2>2, <2>3
<1> QED BY <1>2, <1>3

\* A fresh row, a reset and a retry submit the work.
LEMMA PendingSimulates ==
    ASSUME TypeOK, RowConsistent, NEW j \in Job, NEW delay,
           job[j].status \in {"UNBORN"} \cup TERMINAL_STATUSES,
           SetRow(j, PendingRow(delay))
    PROVE  Queue!Submit(j)
<1>1. Phase(job[j]) \in {"new", "settled"}
  BY InvRowOK, Phases
<1>2. OneMoves(j, "waiting", None, 0)
  BY WaitingRows, SetRowMoves DEF OneMoves
<1> QED BY <1>1, <1>2, Mapped DEF OneMoves, Queue!Becomes, Queue!Submit

LEMMA RetrySimulates ==
    ASSUME TypeOK, RowConsistent, NEW j \in Job, Retry(j)
    PROVE  Queue!Submit(j)
<1>1. Phase(job[j]) \in {"waiting", "settled"}
  BY InvRowOK, Phases DEF Retry, RETRYABLE_STATUSES, RUNNABLE_STATUSES, TERMINAL_STATUSES
<1>2. OneMoves(j, "waiting", None, 0)
  BY FixedRows, SetRowMoves DEF OneMoves, Retry
<1> QED BY <1>1, <1>2, Mapped DEF OneMoves, Queue!Becomes, Queue!Submit

LEMMA CancelSimulates ==
    ASSUME TypeOK, RowConsistent, NEW j \in Job, Cancel(j)
    PROVE  Queue!Withdraw(j) \/ Queue!Settle(j)
<1>1. Phase(job[j]) \in {"waiting", "leased"}
  BY InvRowOK, Phases DEF Cancel, ACTIVE_STATUSES
<1>2. OneMoves(j, "settled", None, job[j].attempts)
  BY SettledRows, SetRowMoves DEF OneMoves, Cancel
<1> QED BY <1>1, <1>2, Mapped DEF OneMoves, Queue!Becomes, Queue!Withdraw, Queue!Settle

\* Archiving and pruning remove settled work.
LEMMA RemoveSimulates ==
    ASSUME TypeOK, RowConsistent, NEW old \in SUBSET Job,
           \A j \in old : job[j].status \in TERMINAL_STATUSES,
           job' = [j \in Job |-> IF j \in old THEN DeletedRow ELSE job[j]]
    PROVE  Queue!Remove(old)
<1>1. \A j \in old : Phase(job[j]) = "settled" /\ job[j].lockedBy = None
  <2> SUFFICES ASSUME NEW j \in old PROVE Phase(job[j]) = "settled" /\ job[j].lockedBy = None
    OBVIOUS
  <2>1. RowOK(job[j])
    BY InvRowOK
  <2> QED BY <2>1, Phases DEF RowOK, RECLAIMABLE_STATUSES, TERMINAL_STATUSES
<1>2. \A j \in Job : /\ Phase(job'[j]) = IF j \in old THEN "gone" ELSE Phase(job[j])
                     /\ job'[j].attempts = IF j \in old THEN 0 ELSE job[j].attempts
                     /\ job'[j].lockedBy = job[j].lockedBy
  BY <1>1, FixedRows DEF IsWork
<1> QED BY <1>1, <1>2 DEF Queue!Remove

LEMMA ArchiveSimulates ==
    ASSUME TypeOK, RowConsistent, NEW j \in Job, Archive(j)
    PROVE  Queue!Remove({j})
<1>1. job' = [k \in Job |-> IF k \in {j} THEN DeletedRow ELSE job[k]]
  BY DEF Archive, SetRow, TypeOK
<1>2. \A k \in {j} : job[k].status \in TERMINAL_STATUSES
  BY DEF Archive
<1> QED BY <1>1, <1>2, RemoveSimulates

LEMMA PruneSimulates ==
    ASSUME TypeOK, RowConsistent, NEW old \in SUBSET Job, PruneTerminalJobs(old)
    PROVE  Queue!Remove(old)
BY RemoveSimulates DEF PruneTerminalJobs

-----------------------------------------------------------------------------
(* Every step *)

QueueStep == Queue!Next \/ UNCHANGED Queue!vars

\* What a worker's own steps do to the table.
LEMMA WorkerStepSimulates ==
    ASSUME IInv, NEW w \in Worker, WorkerStep(w)
    PROVE  QueueStep
<1> USE DEF IInv, QueueStep
<1>hand. worker[w].pc \in Executing => InHand(w) \in Job
  BY DEF HandsFull
<1>1. CASE UNCHANGED job
  BY <1>1, SameTableStutters
<1>2. ASSUME NEW j \in Job, Claim(w, j) PROVE QueueStep
  BY <1>2, ClaimSimulates DEF Claim, Queue!Next
<1>3. CASE Start(w)
  BY <1>3, <1>hand, StartSimulates DEF Start, Executing
<1>4. CASE Heartbeat(w)
  BY <1>1, <1>4, <1>hand, HeartbeatSimulates DEF Heartbeat, BeatDue, Executing
<1>5. CASE Complete(w)
  <2>1. InHand(w) \in Job
    BY <1>5, <1>hand DEF Complete, Executing
  <2>2. CASE OwnedRunning(job[InHand(w)], w)
    <3>1. SetRow(InHand(w), CompletedRow(job[InHand(w)]))
      BY <1>5, <2>2 DEF Complete
    <3> QED BY <2>1, <2>2, <3>1, CompleteSimulates DEF Queue!Next
  <2>3. CASE ~OwnedRunning(job[InHand(w)], w)
    <3>1. SetRow(InHand(w), job[InHand(w)])
      BY <1>5, <2>3 DEF Complete
    <3> QED BY <2>1, <3>1, OneStutters
  <2> QED BY <2>2, <2>3
<1>6. CASE FailWrite(w)
  <2>1. InHand(w) \in Job /\ worker[w].pc = "recording"
    BY <1>6, <1>hand DEF FailWrite, Executing
  <2>2. PICK row \in FailedRows(w) : SetRow(InHand(w), row)
    BY <1>6 DEF FailWrite
  <2> QED BY <2>1, <2>2, FailSimulates DEF Queue!Next
<1>7. CASE \/ Poll(w) \/ Stop(w) \/ ClaimNothing(w) \/ StartSkipped(w) \/ HandlerReturns(w)
           \/ HandlerAborts(w) \/ FailRead(w)
           \/ \E permanent \in BOOLEAN : HandlerThrows(w, permanent)
  BY <1>1, <1>7 DEF Poll, Stop, ClaimNothing, StartSkipped, HandlerReturns, HandlerAborts,
                    FailRead, HandlerThrows, OnlyWorker
<1> QED BY <1>2, <1>3, <1>4, <1>5, <1>6, <1>7 DEF WorkerStep

\* A statement that throws has done what it would have done, or nothing.
LEMMA WorkerFaultSimulates ==
    ASSUME IInv, NEW w \in Worker, WorkerFault(w)
    PROVE  QueueStep
<1> DEFINE j == InHand(w)
<1> USE DEF IInv, QueueStep
<1>hand. worker[w].pc \in Executing => j \in Job
  BY DEF HandsFull
<1>1. CASE UNCHANGED job
  BY <1>1, SameTableStutters
<1>2. CASE j \in Job /\ SetRow(j, job[j])
  BY <1>2, OneStutters
<1>3. CASE ClaimThrows(w)
  <2>1. ASSUME NEW k \in Job, Claimable(job[k]), SetRow(k, ClaimedRow(job[k], w))
        PROVE  QueueStep
    BY <2>1, ClaimSimulates DEF Queue!Next
  <2> QED BY <1>1, <1>3, <2>1 DEF ClaimThrows
<1>4. CASE StartThrows(w)
  BY <1>1, <1>4, <1>hand, StartSimulates DEF StartThrows, Executing
<1>5. CASE HeartbeatThrows(w)
  <2>1. j \in Job
    BY <1>5, <1>hand DEF HeartbeatThrows, BeatDue, Executing
  <2>2. SetRow(j, job[j]) \/ SetRow(j, HeartbeatRow(job[j]))
    BY <1>5 DEF HeartbeatThrows, MayWrite
  <2> QED BY <1>2, <2>1, <2>2, HeartbeatSimulates
<1>6. CASE CompleteThrows(w)
  <2>1. j \in Job
    BY <1>6, <1>hand DEF CompleteThrows, Executing
  <2>2. \/ SetRow(j, job[j])
        \/ OwnedRunning(job[j], w) /\ SetRow(j, CompletedRow(job[j]))
    BY <1>6 DEF CompleteThrows, MayWrite
  <2>3. ASSUME OwnedRunning(job[j], w), SetRow(j, CompletedRow(job[j])) PROVE QueueStep
    BY <2>1, <2>3, CompleteSimulates DEF Queue!Next
  <2> QED BY <1>2, <2>1, <2>2, <2>3
<1>7. CASE FailThrows(w)
  <2>1. j \in Job
    BY <1>7, <1>hand DEF FailThrows, Executing
  <2>2. \/ SetRow(j, job[j])
        \/ worker[w].pc = "recording" /\ \E row \in FailedRows(w) : SetRow(j, row)
    BY <1>7 DEF FailThrows, MayWrite
  <2>3. ASSUME worker[w].pc = "recording", NEW row \in FailedRows(w), SetRow(j, row)
        PROVE  QueueStep
    BY <2>1, <2>3, FailSimulates DEF Queue!Next
  <2> QED BY <1>2, <2>1, <2>2, <2>3
<1>8. CASE Crash(w) \/ Shutdown(w)
  BY <1>1, <1>8 DEF Crash, Shutdown, OnlyWorker
<1> QED BY <1>3, <1>4, <1>5, <1>6, <1>7, <1>8 DEF WorkerFault

LEMMA OperatorSimulates == ASSUME IInv, OperatorStep PROVE QueueStep
<1> USE DEF IInv, QueueStep
<1>1. ASSUME NEW j \in Job, Retry(j) PROVE QueueStep
  BY <1>1, RetrySimulates DEF Queue!Next
<1>2. ASSUME NEW j \in Job, Cancel(j) PROVE QueueStep
  BY <1>2, CancelSimulates DEF Queue!Next
<1>3. ASSUME NEW j \in Job, Archive(j) PROVE QueueStep
  BY <1>3, ArchiveSimulates DEF Queue!Next
<1>4. ASSUME NEW old \in SUBSET Job, PruneTerminalJobs(old) PROVE QueueStep
  BY <1>4, PruneSimulates DEF Queue!Next
<1> QED BY <1>1, <1>2, <1>3, <1>4 DEF OperatorStep

LEMMA EnqueueSimulates == ASSUME IInv, EnqueueStep PROVE QueueStep
<1> USE DEF IInv, QueueStep
<1>1. ASSUME NEW j \in Job, NEW delay,
             job[j].status \in {"UNBORN"} \cup TERMINAL_STATUSES,
             SetRow(j, PendingRow(delay))
      PROVE  QueueStep
  BY <1>1, PendingSimulates DEF Queue!Next
<1>2. CASE UNCHANGED job
  BY <1>2, SameTableStutters
<1>3. ASSUME NEW c \in Caller,
             \/ EnqueueConfirm(c) \/ EnqueueReread(c) \/ EnqueueConflict(c)
             \/ EnqueueWinner(c) \/ \E k \in Key : EnqueueFind(c, k)
      PROVE  QueueStep
  BY <1>2, <1>3 DEF EnqueueConfirm, EnqueueReread, EnqueueConflict, EnqueueWinner,
                    EnqueueFind
<1>4. ASSUME NEW c \in Caller, NEW delay, EnqueueReset(c, delay) PROVE QueueStep
  <2>1. call[c].found \in Job
    BY <1>4 DEF EnqueueReset, HandsFull
  <2> QED BY <1>1, <1>2, <1>4, <2>1 DEF EnqueueReset
<1>5. ASSUME NEW j \in Job, NEW delay, Insert(j, delay) PROVE QueueStep
  BY <1>1, <1>5 DEF Insert
<1> QED BY <1>3, <1>4, <1>5 DEF EnqueueStep, CallStep, EnqueueCreate, EnqueuePlain, EnqueueInTx

LEMMA TickSimulates == ASSUME Tick PROVE QueueStep
<1>1. \A j \in Job : /\ Phase(job'[j]) = Phase(job[j])
                     /\ job'[j].lockedBy = job[j].lockedBy
                     /\ job'[j].attempts = job[j].attempts
  BY KeptRows DEF Tick, IsWork
<1> QED BY <1>1 DEF Queue!vars, QueueStep

-----------------------------------------------------------------------------
(* The promise to the system                                                 *)

LEMMA InitSimulates == Init => Queue!Init
BY FixedRows DEF Init, IsWork, Queue!Init

LEMMA NextSimulates == IInv /\ [Next]_vars => [Queue!Next]_(Queue!vars)
<1> SUFFICES ASSUME IInv, [Next]_vars PROVE QueueStep
  BY DEF QueueStep
<1>1. CASE UNCHANGED vars
  BY <1>1, SameTableStutters DEF vars, QueueStep
<1> QED
  BY <1>1, WorkerStepSimulates, WorkerFaultSimulates, OperatorSimulates, EnqueueSimulates,
     TickSimulates DEF Next

\* The job queue keeps the promises of WorkQueue, for every number of jobs,
\* workers and callers, every retry policy and every kind of fault: whatever
\* workers, callers and operators do to a row, in any order, is one of the moves
\* that WorkQueue allows the work it stands for.
THEOREM QueueImplementsWorkQueue == Spec => ImplementsWorkQueue
BY InitSimulates, NextSimulates, Invariant, PTL DEF Spec, ImplementsWorkQueue, Queue!Spec

=============================================================================
