--------------------------- MODULE CommandDispatch ---------------------------
(***************************************************************************)
(* Dispatching a command batch (domain/command/service.go): admitCommand   *)
(* saves the batch, enqueues its messages under the execution service's    *)
(* admission and reconciles an enqueue whose outcome it does not know;     *)
(* finalizeDispatch then starts the status routine, which follows the      *)
(* batch and writes its '.completed' activity.  Composed with the          *)
(* execution service, this is the whole life of a command.                 *)
(***************************************************************************)
EXTENDS CommandExecution

CONSTANT MaxCallbackRetries   \* maxCallbackRetries

ASSUME DispatchAssumption == MaxCallbackRetries \in Nat \ {0}

VARIABLES
  client,     \* where the caller of admitCommand is, or what it was told
  owner,      \* the run whose process dispatches the batch
  enqueue,    \* the enqueue transaction
  clock,      \* the database's CURRENT_TIMESTAMP
  seen,       \* history: batches whose enqueue was complete when b's began
  routine,    \* where the status routine is
  marked,     \* batches whose routine has set processingMarkedInDB
  finished,   \* ... has set batchMarkedFinished
  callback,   \* ... has set callbackDone
  attempts,   \* its callbackRetryCount
  activity    \* result of the '.completed' activity row

request == <<client, owner, enqueue, created, clock, seen>>
follow == <<routine, marked, finished, callback, attempts, activity>>
dispatch == <<request, follow>>
vars == <<tables, execution, dispatch>>

TypeOK ==
  /\ QueueTypeOK /\ ExecutionTypeOK
  /\ client \in [Batches -> {"new", "saved", "enqueueing", "reconciling",
                             "ok", "error", "unknown", "dead"}]
  /\ owner \in [Batches -> Runs \cup {"nobody"}]
  /\ enqueue \in [Batches -> {"none", "begun", "locked", "committed"}]
  /\ clock \in Nat
  /\ seen \in [Batches -> SUBSET Batches]
  /\ routine \in [Batches -> {"off", "tick", "check", "call", "mark", "end"}]
  /\ marked \subseteq Batches /\ finished \subseteq Batches /\ callback \subseteq Batches
  /\ attempts \in [Batches -> 0..(2 * MaxCallbackRetries)]
  /\ activity \in [Batches -> {"none", "success", "failure"}]

Init ==
  /\ QueueInit /\ ExecutionInit
  /\ client = [b \in Batches |-> "new"]
  /\ owner = [b \in Batches |-> "nobody"]
  /\ enqueue = [b \in Batches |-> "none"]
  /\ clock = 1
  /\ seen = [b \in Batches |-> {}]
  /\ routine = [b \in Batches |-> "off"]
  /\ marked = {} /\ finished = {} /\ callback = {}
  /\ attempts = [b \in Batches |-> 0]
  /\ activity = [b \in Batches |-> "none"]
-----------------------------------------------------------------------------
(* admitCommand.                                                           *)

ClientAt(b, from, to) == client[b] = from /\ client' = [client EXCEPT ![b] = to]

\* The batch is saved by a process whose execution service is running.
SaveBatch(b, r) ==
  /\ run[r] = "running"
  /\ ClientAt(b, "new", "saved")
  /\ owner' = [owner EXCEPT ![b] = r]
  /\ CreateCommandBatchLog(b)
  /\ UNCHANGED <<execution, enqueue, created, clock, seen, follow>>

\* The save commits but is reported as an error: no enqueue follows.
SaveBatchUnanswered(b, r) ==
  /\ run[r] = "running"
  /\ ClientAt(b, "new", "error")
  /\ owner' = [owner EXCEPT ![b] = r]
  /\ CreateCommandBatchLog(b)
  /\ Fault /\ UNCHANGED <<run, threads, enqueue, created, clock, seen, follow>>

\* withAdmission, and the start of the enqueue transaction, which fixes the
\* created_at of its rows.  The clock may, or may not, have moved on.
BeginEnqueue(b) ==
  /\ ClientAt(b, "saved", "enqueueing")
  /\ run[owner[b]] = "running"
  /\ enqueue' = [enqueue EXCEPT ![b] = "begun"]
  /\ clock' \in {clock, clock + 1}
  /\ created' = [created EXCEPT ![b] = clock']
  /\ seen' = [seen EXCEPT ![b] = {c \in Batches : enqueue[c] = "committed"}]
  /\ UNCHANGED <<tables, execution, owner, follow>>

\* withAdmission refuses: the execution service stopped before the enqueue.
RefuseEnqueue(b) ==
  /\ ClientAt(b, "saved", "reconciling")
  /\ run[owner[b]] # "running"
  /\ UNCHANGED <<tables, execution, owner, enqueue, created, clock, seen, follow>>

\* LockCommandBatch; the batch has to be PENDING.  The inserted rows are not
\* visible before the commit.
LockAndInsert(b) ==
  /\ client[b] = "enqueueing" /\ enqueue[b] = "begun" /\ batch[b] = "PENDING"
  /\ enqueue' = [enqueue EXCEPT ![b] = "locked"]
  /\ UNCHANGED <<tables, execution, client, owner, created, clock, seen, follow>>

\* finalizeDispatch starts the status routine.
StartRoutine(b) ==
  /\ routine' = [routine EXCEPT ![b] = "tick"]
  /\ UNCHANGED <<marked, finished, callback, attempts, activity>>

\* The enqueue commits, and its caller, if it still waits, learns of it.  A
\* transaction that begins after this one has a later CURRENT_TIMESTAMP.
CommitEnqueue(b) ==
  /\ enqueue[b] = "locked"
  /\ CreateQueueMessages(b)
  /\ enqueue' = [enqueue EXCEPT ![b] = "committed"]
  /\ clock' = clock + 1
  /\ IF client[b] = "enqueueing"
     THEN ClientAt(b, "enqueueing", "ok") /\ StartRoutine(b)
     ELSE UNCHANGED <<client, follow>>
  /\ UNCHANGED <<execution, owner, created, seen>>

\* The caller's enqueue returns an error, or its context ends: a transaction
\* that holds the lock may be committing at this very moment.
LoseEnqueue(b) ==
  /\ ClientAt(b, "enqueueing", "reconciling")
  /\ enqueue' = [enqueue EXCEPT ![b] = IF @ = "begun" THEN "none" ELSE @]
  /\ Fault /\ UNCHANGED <<tables, run, threads, owner, created, clock, seen, follow>>

\* A transaction nobody waits for any more is rolled back.
RollBackEnqueue(b) ==
  /\ enqueue[b] = "locked" /\ client[b] # "enqueueing"
  /\ enqueue' = [enqueue EXCEPT ![b] = "none"]
  /\ UNCHANGED <<tables, execution, client, owner, created, clock, seen, follow>>

Enqueued(b) == \A m \in Rows(b) : message[m] # "none"

\* Faulty variant: the rows are counted without taking the batch lock.
ReconcileUnlocked(b) ==
  /\ client[b] = "reconciling"
  /\ IF Enqueued(b)
     THEN /\ client' = [client EXCEPT ![b] = "ok"]
          /\ StartRoutine(b) /\ UNCHANGED tables
     ELSE /\ client' = [client EXCEPT ![b] = "error"]
          /\ MarkCommandBatchFinished(b, {"PENDING"}) /\ UNCHANGED follow
  /\ UNCHANGED <<execution, owner, enqueue, created, clock, seen>>

\* reconcileFailedEnqueue, under the batch lock.
Reconcile(b) ==
  /\ client[b] = "reconciling" /\ enqueue[b] # "locked"
  /\ IF Enqueued(b)
     THEN /\ client' = [client EXCEPT ![b] = "ok"]
          /\ StartRoutine(b) /\ UNCHANGED tables
     ELSE /\ client' = [client EXCEPT ![b] = "error"]
          /\ MarkCommandBatchFinished(b, {"PENDING"}) /\ UNCHANGED follow
  /\ UNCHANGED <<execution, owner, enqueue, created, clock, seen>>

\* The reconciliation fails too, and the caller is told so.
ReconcileFails(b) ==
  /\ ClientAt(b, "reconciling", "unknown")
  /\ Fault /\ UNCHANGED <<tables, run, threads, owner, enqueue, created, clock, seen, follow>>
-----------------------------------------------------------------------------
(* initializeStatusUpdateRoutine; a tick is several transactions.          *)

RoutineAt(b, from, to) == routine[b] = from /\ routine' = [routine EXCEPT ![b] = to]

\* statusUpdateIsProcessingBranch, unless it has succeeded before.
MarkProcessing(b) ==
  /\ RoutineAt(b, "tick", "check") /\ b \notin finished /\ b \notin marked
  /\ MarkCommandBatchProcessing(b)
  /\ marked' = IF StartsProcessing(b) THEN marked \cup {b} ELSE marked
  /\ UNCHANGED <<execution, request, finished, callback, attempts, activity>>

\* It fails, possibly after the commit, and the routine returns.
MarkProcessingFails(b) ==
  /\ RoutineAt(b, "tick", "end") /\ b \notin finished /\ b \notin marked
  /\ MarkCommandBatchProcessing(b) \/ UNCHANGED tables
  /\ Fault
  /\ UNCHANGED <<run, threads, request, marked, finished, callback, attempts, activity>>

SkipProcessing(b) ==
  /\ RoutineAt(b, "tick", IF b \in finished THEN "call" ELSE "check")
  /\ b \in finished \/ b \in marked
  /\ UNCHANGED <<tables, execution, request, marked, finished, callback, attempts, activity>>

\* Faulty variant: the batch is taken for finished once no row is PENDING.
CheckFinishedEarly(b) ==
  /\ RoutineAt(b, "check",
       IF \A m \in Rows(b) : message[m] # "PENDING" THEN "call" ELSE "tick")
  /\ UNCHANGED <<tables, execution, request, marked, finished, callback, attempts, activity>>

\* statusUpdateIsFinishedBranch.
CheckFinished(b) ==
  /\ RoutineAt(b, "check", IF IsBatchFinished(b) THEN "call" ELSE "tick")
  /\ UNCHANGED <<tables, execution, request, marked, finished, callback, attempts, activity>>

CheckFinishedFails(b) ==
  /\ RoutineAt(b, "check", "end")
  /\ Fault
  /\ UNCHANGED <<tables, run, threads, request, marked, finished, callback, attempts, activity>>

\* The callback counts the failed device logs and writes the activity row,
\* once (the unique index), and is not called again.
Complete(b) ==
  /\ RoutineAt(b, "call", "mark") /\ b \notin callback
  /\ callback' = callback \cup {b}
  /\ activity' = [activity EXCEPT ![b] =
       IF @ # "none" THEN @
       ELSE IF \E m \in Rows(b) : devlog[m] = "FAILED" THEN "failure" ELSE "success"]
  /\ UNCHANGED <<tables, execution, request, marked, finished, attempts>>

\* The callback fails.  Before the batch is marked the whole tick is repeated,
\* up to MaxCallbackRetries; after that it is given up at twice as many.
CompleteFails(b) ==
  LET n == attempts[b] + 1 IN
  /\ RoutineAt(b, "call",
       IF b \notin finished /\ n < MaxCallbackRetries THEN "tick" ELSE "mark")
  /\ b \notin callback
  /\ attempts' = [attempts EXCEPT ![b] = n]
  /\ callback' = IF n >= 2 * MaxCallbackRetries THEN callback \cup {b} ELSE callback
  /\ Fault /\ UNCHANGED <<tables, run, threads, request, marked, finished, activity>>

SkipComplete(b) ==
  /\ RoutineAt(b, "call", "mark") /\ b \in callback
  /\ UNCHANGED <<tables, execution, request, marked, finished, callback, attempts, activity>>

AfterMark(b) == IF b \in callback THEN "end" ELSE "tick"

\* getMarkFinishedBatchFunction: which rows it expects depends on marked.
MarkFinished(b) ==
  /\ RoutineAt(b, "mark", AfterMark(b)) /\ b \notin finished
  /\ MarkCommandBatchFinished(b, IF b \in marked THEN Open ELSE {"PENDING"})
  /\ finished' = finished \cup {b}
  /\ UNCHANGED <<execution, request, marked, callback, attempts, activity>>

\* It fails, possibly after the commit: the next tick tries again.
MarkFinishedFails(b) ==
  /\ RoutineAt(b, "mark", "tick") /\ b \notin finished
  /\ MarkCommandBatchFinished(b, IF b \in marked THEN Open ELSE {"PENDING"}) \/ UNCHANGED tables
  /\ Fault
  /\ UNCHANGED <<run, threads, request, marked, finished, callback, attempts, activity>>

SkipMark(b) ==
  /\ RoutineAt(b, "mark", AfterMark(b)) /\ b \in finished
  /\ UNCHANGED <<tables, execution, request, marked, finished, callback, attempts, activity>>
-----------------------------------------------------------------------------
Mine(r) == {b \in Batches : owner[b] = r}

\* finishRun waits for the admitted enqueues too.
EndRun(r) ==
  /\ FinishRun(r, Cardinality({b \in Mine(r) : client[b] = "enqueueing"}))
  /\ UNCHANGED dispatch

\* The callers and routines of a process die with it.  A transaction that has
\* not reached its commit is rolled back; one that has may still commit.
Crash(r) ==
  /\ Die(r)
  /\ client' = [b \in Batches |->
       IF b \in Mine(r) /\ client[b] \in {"saved", "enqueueing", "reconciling"}
       THEN "dead" ELSE client[b]]
  /\ enqueue' = [b \in Batches |->
       IF b \in Mine(r) /\ enqueue[b] = "begun" THEN "none" ELSE enqueue[b]]
  /\ routine' = [b \in Batches |->
       IF b \in Mine(r) /\ routine[b] # "off" THEN "end" ELSE routine[b]]
  /\ UNCHANGED <<owner, created, clock, seen, marked, finished, callback, attempts, activity>>

Caller(b) ==
  \/ \E r \in Runs : SaveBatch(b, r) \/ SaveBatchUnanswered(b, r)
  \/ BeginEnqueue(b) \/ RefuseEnqueue(b) \/ LockAndInsert(b)
  \/ LoseEnqueue(b) \/ Reconcile(b) \/ ReconcileFails(b)

EnqueueEnds(b) == CommitEnqueue(b) \/ RollBackEnqueue(b)

Routine(b) ==
  \/ MarkProcessing(b) \/ MarkProcessingFails(b) \/ SkipProcessing(b)
  \/ CheckFinished(b) \/ CheckFinishedFails(b)
  \/ Complete(b) \/ CompleteFails(b) \/ SkipComplete(b)
  \/ MarkFinished(b) \/ MarkFinishedFails(b) \/ SkipMark(b)

Next ==
  \/ ExecutionStep /\ UNCHANGED dispatch
  \/ \E r \in Runs : EndRun(r) \/ Crash(r)
  \/ \E b \in Batches : Caller(b) \/ EnqueueEnds(b) \/ Routine(b)

Spec == Init /\ [][Next]_vars
-----------------------------------------------------------------------------
(* Correctness.                                                            *)

\* A terminal queue status, and a device log, are written once: no worker,
\* reaper or restarted process overwrites them (the status guards of queue.sql;
\* RFC 0002: a stalled process "cannot overwrite terminal command state").
TerminalStays ==
  [][\A m \in Messages :
       /\ message[m] \in Terminal => message'[m] = message[m]
       /\ devlog[m] # "none" => devlog'[m] = devlog[m]]_vars

\* A command that was enqueued completely before another for the same device
\* began to be enqueued is decided before the other is first handed to a worker,
\* whatever retries, reaps and crashes happen (GetMessagesToProcess).
DeviceOrder ==
  \A m, n \in Messages :
    /\ m[2] = n[2] /\ n[1] \in seen[m[1]]
    /\ message[m] \in {"PROCESSING"} \cup Terminal \/ retries[m] > 0
    => message[n] \in Terminal

\* No command is executed by two workers at a time, of one process or of two
\* (ClaimMessageForProcessing; interrupted work is failed, never requeued).
OneWorker ==
  \A r, q \in Runs : \A v \in workers[r], w \in workers[q] :
    v[1] = w[1] => r = q /\ v = w

\* The semaphore counts the workers and the processor's reservation, on every
\* path of startQueueProcessorThread: no slot leaks and none is released twice.
SlotsAccounted ==
  \A r \in Runs :
    slots[r] = reserved[r] + Cardinality(workers[r]) /\ slots[r] <= MaxWorkers

\* A FINISHED batch has no open message, now or later: either all its messages
\* are decided or it never gets any (reconcileFailedEnqueue under the lock).
FinishedIsFinal ==
  \A b \in Batches : batch[b] = "FINISHED" =>
    \/ \A m \in Rows(b) : message[m] \in Terminal
    \/ \A m \in Rows(b) : message[m] = "none"

\* What admitCommand tells its caller is true, and stays true: after an error no
\* message of the batch is ever queued, after a success all of them are.
CallerToldTruth ==
  \A b \in Batches :
    /\ client[b] = "error" => \A m \in Rows(b) : message[m] = "none"
    /\ client[b] = "ok" => Enqueued(b)

\* A status routine that marked its batch really left it FINISHED: the choice
\* between the two UPDATEs never misses the state the batch is in.
MarkIsEffective ==
  \A b \in finished : batch[b] = "FINISHED"

\* The '.completed' activity is written when every message is decided, and
\* says failure exactly if one of them failed.
CompletedIsTrue ==
  \A b \in Batches : activity[b] # "none" =>
    /\ \A m \in Rows(b) : message[m] \in Terminal
    /\ activity[b] = "failure" <=> \E m \in Rows(b) : message[m] = "FAILED"

\* The promise of the whole component, as CommandLedger states it.
Ledger == INSTANCE CommandLedger WITH
  Commands <- Messages,
  status <- [m \in Messages |-> IF message[m] \in Open THEN "queued" ELSE message[m]],
  log <- devlog,
  closed <- {b \in Batches : batch[b] = "FINISHED"}

\* Queue, execution service and dispatch together keep the ledger.
KeepsLedger == Ledger!Spec
-----------------------------------------------------------------------------
(* Liveness.  The goroutines of a live process run; a command ends, by its  *)
(* timeout if need be; a row that stays PROCESSING exceeds its cutoff; a    *)
(* transaction ends; a process that died is followed by another.            *)

Restart == \E r \in Runs : Start(r) \/ RestartReap(r) \/ RestartFinish(r)
Overdue(m) == \E r \in Runs, S \in SUBSET Messages : m \in S /\ ReapStuck(r, S)

Fairness ==
  /\ WF_vars(Restart /\ UNCHANGED dispatch)
  /\ \A r \in Runs :
       /\ WF_vars(Processor(r) /\ UNCHANGED dispatch)
       /\ WF_vars(Workers(r) /\ UNCHANGED dispatch)
       /\ WF_vars(Reaper(r) /\ UNCHANGED dispatch)
       /\ WF_vars(EndRun(r))
       /\ WF_vars(run[r] = "done" /\ Crash(r))
  /\ \A m \in Messages : SF_vars(Overdue(m) /\ UNCHANGED dispatch)
  /\ \A b \in Batches : WF_vars(EnqueueEnds(b)) /\ WF_vars(Routine(b))

FairSpec == Spec /\ Fairness

\* Every queued command is decided in the end and its batch FINISHED, even if
\* the process that dispatched or executed it died, unless every process there
\* is has died (startStuckMessageReaper, reapAfterRestart).
CommandsEnd ==
  \A b \in Batches :
    (\E m \in Rows(b) : message[m] # "none") ~>
      (batch[b] = "FINISHED" \/ \A r \in Runs : run[r] = "dead")
=============================================================================
