-------------------------- MODULE CommandExecution --------------------------
(***************************************************************************)
(* The execution service (domain/command/execution_service.go): the        *)
(* restart reap, the queue processor with its worker slots, the workers    *)
(* and the stuck-message reaper.                                           *)
(*                                                                         *)
(* A run is the one activation of the service in one server process.  A    *)
(* run that has ended, or whose process has died, never returns; a         *)
(* restart or a takeover is another run.  MaxLive = 1 says that a process  *)
(* is gone before the next one starts; with MaxLive = 2 a stalled old      *)
(* process overlaps its successor.                                         *)
(***************************************************************************)
EXTENDS CommandQueue

CONSTANTS
  Runs,
  MaxWorkers,     \* Config.MaxWorkers, the capacity of workerSemaphore
  DequeLimit,     \* queue.Config.DequeLimit
  MaxLive,        \* how many processes are alive at a time
  MaxFaults       \* bound: failed or unanswered transactions

ASSUME ExecutionAssumption ==
  /\ MaxWorkers \in Nat \ {0} /\ DequeLimit \in Nat \ {0}
  /\ MaxLive \in Nat /\ MaxFaults \in Nat

VARIABLES
  run,        \* life of the activation
  processor,  \* where startQueueProcessorThread is
  reserved,   \* slots it holds for messages that it has not dequeued yet
  picked,     \* rows its Dequeue has selected, with the retry_count it read
  workers,    \* messages being executed, with that retry_count
  slots,      \* length of workerSemaphore
  reaper,     \* where startStuckMessageReaper is
  faults

threads == <<processor, reserved, picked, workers, slots, reaper>>
execution == <<run, threads, faults>>

Alive == {"reaping", "finishing", "running", "stopping", "done"}
AliveRuns == {r \in Runs : run[r] \in Alive}
Known == Messages \X (0..MaxFailureRetries)

ExecutionTypeOK ==
  /\ run \in [Runs -> Alive \cup {"off", "dead"}]
  /\ processor \in [Runs -> {"off", "reserve", "select", "claim"}]
  /\ reserved \in [Runs -> 0..MaxWorkers]
  /\ picked \in [Runs -> SUBSET Known]
  /\ workers \in [Runs -> SUBSET Known]
  /\ slots \in [Runs -> 0..MaxWorkers]
  /\ reaper \in [Runs -> {"off", "tick", "finish"}]
  /\ faults \in 0..MaxFaults

ExecutionInit ==
  /\ run = [r \in Runs |-> "off"]
  /\ processor = [r \in Runs |-> "off"]
  /\ reserved = [r \in Runs |-> 0]
  /\ picked = [r \in Runs |-> {}]
  /\ workers = [r \in Runs |-> {}]
  /\ slots = [r \in Runs |-> 0]
  /\ reaper = [r \in Runs |-> "off"]
  /\ faults = 0

Fault == faults < MaxFaults /\ faults' = faults + 1
-----------------------------------------------------------------------------
(* Start, with the two halves of reapAfterRestart.                         *)

Start(r) ==
  /\ run[r] = "off" /\ Cardinality(AliveRuns) < MaxLive
  /\ run' = [run EXCEPT ![r] = "reaping"]
  /\ UNCHANGED <<tables, threads, faults>>

RestartReap(r) ==
  /\ run[r] = "reaping"
  /\ ReapMessages(Processing)
  /\ run' = [run EXCEPT ![r] = "finishing"]
  /\ UNCHANGED <<threads, faults>>

RestartFinish(r) ==
  /\ run[r] = "finishing"
  /\ FinishTerminalCommandBatches
  /\ run' = [run EXCEPT ![r] = "running"]
  /\ processor' = [processor EXCEPT ![r] = "reserve"]
  /\ reaper' = [reaper EXCEPT ![r] = "tick"]
  /\ UNCHANGED <<reserved, picked, workers, slots, faults>>

\* Stop, Abort, or the end of the activation's context: admission closes.
BeginStop(r) ==
  /\ run[r] = "running"
  /\ run' = [run EXCEPT ![r] = "stopping"]
  /\ UNCHANGED <<tables, threads, faults>>

\* finishRun, once the wait group is empty; admitted counts the enqueues in it.
FinishRun(r, admitted) ==
  /\ run[r] = "stopping"
  /\ processor[r] = "off" /\ reaper[r] = "off" /\ workers[r] = {} /\ admitted = 0
  /\ run' = [run EXCEPT ![r] = "done"]
  /\ UNCHANGED <<tables, threads, faults>>

\* The process dies, or exits.
Die(r) ==
  /\ run[r] \in Alive
  /\ run' = [run EXCEPT ![r] = "dead"]
  /\ processor' = [processor EXCEPT ![r] = "off"]
  /\ reserved' = [reserved EXCEPT ![r] = 0]
  /\ picked' = [picked EXCEPT ![r] = {}]
  /\ workers' = [workers EXCEPT ![r] = {}]
  /\ slots' = [slots EXCEPT ![r] = 0]
  /\ reaper' = [reaper EXCEPT ![r] = "off"]
  /\ UNCHANGED <<tables, faults>>
-----------------------------------------------------------------------------
(* startQueueProcessorThread.                                              *)

\* reserveWorkerSlots: waits for one slot and takes the other free ones too.
ReserveWorkerSlots(r) ==
  /\ processor[r] = "reserve" /\ slots[r] < MaxWorkers
  /\ reserved' = [reserved EXCEPT ![r] = MaxWorkers - slots[r]]
  /\ slots' = [slots EXCEPT ![r] = MaxWorkers]
  /\ processor' = [processor EXCEPT ![r] = "select"]
  /\ UNCHANGED <<tables, run, picked, workers, reaper, faults>>

\* The processor gives back n slots and goes to s.
Release(r, n, s) ==
  /\ slots' = [slots EXCEPT ![r] = @ - n]
  /\ reserved' = [reserved EXCEPT ![r] = 0]
  /\ picked' = [picked EXCEPT ![r] = {}]
  /\ processor' = [processor EXCEPT ![r] = s]

\* Where the processor goes when it has nothing to start: it waits a while, and
\* returns if the admission context has ended.
Idle(r) == IF run[r] = "running" THEN "reserve" ELSE "off"

Limit(r) == IF reserved[r] < DequeLimit THEN reserved[r] ELSE DequeLimit

\* The SELECT of Dequeue.  It takes no lock.
DequeueSelect(r) ==
  /\ processor[r] = "select"
  /\ \E S \in MessagesToProcess(Limit(r)) :
       IF S = {}
       THEN Release(r, reserved[r], Idle(r))
       ELSE /\ picked' = [picked EXCEPT ![r] = {<<m, retries[m]>> : m \in S}]
            /\ processor' = [processor EXCEPT ![r] = "claim"]
            /\ UNCHANGED <<reserved, slots>>
  /\ UNCHANGED <<tables, run, workers, reaper, faults>>

Picked(r) == {p[1] : p \in picked[r]}
Won(r) == {p \in picked[r] : p[1] \in Claimed(Picked(r))}

\* Dequeue claims the selected rows, commits, and a worker is started for each
\* row it won; the slots left over are released.
DequeueClaim(r) ==
  /\ processor[r] = "claim"
  /\ ClaimMessages(Picked(r))
  /\ workers' = [workers EXCEPT ![r] = @ \cup Won(r)]
  /\ Release(r, reserved[r] - Cardinality(Won(r)), "reserve")
  /\ UNCHANGED <<run, reaper, faults>>

\* Dequeue fails and rolls back, or commits without an answer: the rows stay
\* claimed with nobody to execute them.
DequeueOutcome(r) == UNCHANGED tables \/ ClaimMessages(Picked(r))

\* Faulty variant: the slots are kept when the dequeue fails for good.
DequeueGiveUpKeeping(r) ==
  /\ processor[r] \in {"select", "claim"}
  /\ DequeueOutcome(r) /\ Fault
  /\ Release(r, 0, Idle(r))
  /\ UNCHANGED <<run, workers, reaper>>

\* dequeueWithRetry has used up its retries.
DequeueGiveUp(r) ==
  /\ processor[r] \in {"select", "claim"}
  /\ DequeueOutcome(r) /\ Fault
  /\ Release(r, reserved[r], Idle(r))
  /\ UNCHANGED <<run, workers, reaper>>

\* dequeueWithRetry tries again with the slots it has.
DequeueRetry(r) ==
  /\ run[r] = "running" /\ processor[r] \in {"select", "claim"}
  /\ DequeueOutcome(r) /\ Fault
  /\ picked' = [picked EXCEPT ![r] = {}]
  /\ processor' = [processor EXCEPT ![r] = "select"]
  /\ UNCHANGED <<run, reserved, slots, workers, reaper>>

\* The admission context ended: an open Dequeue is rolled back.
ProcessorExit(r) ==
  /\ run[r] = "stopping" /\ processor[r] # "off"
  /\ Release(r, reserved[r], "off")
  /\ UNCHANGED <<tables, run, workers, reaper, faults>>
-----------------------------------------------------------------------------
(* The workers and the reaper.                                             *)

WorkerEnds(r, w) ==
  /\ workers' = [workers EXCEPT ![r] = @ \ {w}]
  /\ slots' = [slots EXCEPT ![r] = @ - 1]
  /\ UNCHANGED <<run, processor, reserved, picked, reaper>>

\* workerProcessCommand: the command ran on the device, with some result.
WorkerProcessCommand(r, w, result) ==
  /\ w \in workers[r]
  /\ RecordResult(w[1], result, w[2])
  /\ WorkerEnds(r, w) /\ UNCHANGED faults

\* Its transaction failed: the row is left to the reaper.
WorkerFails(r, w) ==
  /\ w \in workers[r] /\ Fault
  /\ WorkerEnds(r, w) /\ UNCHANGED tables

\* One tick of the reaper fails the rows S that exceeded their cutoff.
ReapStuck(r, S) ==
  /\ run[r] = "running" /\ reaper[r] = "tick"
  /\ S \subseteq Processing
  /\ ReapMessages(S)
  /\ reaper' = [reaper EXCEPT ![r] = "finish"]
  /\ UNCHANGED <<run, processor, reserved, picked, workers, slots, faults>>

FinishStuck(r) ==
  /\ reaper[r] = "finish"
  /\ FinishTerminalCommandBatches
  /\ reaper' = [reaper EXCEPT ![r] = "tick"]
  /\ UNCHANGED <<run, processor, reserved, picked, workers, slots, faults>>

ReaperExit(r) ==
  /\ run[r] = "stopping" /\ reaper[r] # "off"
  /\ reaper' = [reaper EXCEPT ![r] = "off"]
  /\ UNCHANGED <<tables, run, processor, reserved, picked, workers, slots, faults>>

Processor(r) ==
  \/ ReserveWorkerSlots(r) \/ DequeueSelect(r) \/ DequeueClaim(r)
  \/ DequeueGiveUp(r) \/ DequeueRetry(r) \/ ProcessorExit(r)

Workers(r) ==
  \E w \in Known :
    (\E result \in Results : WorkerProcessCommand(r, w, result)) \/ WorkerFails(r, w)

Reaper(r) ==
  (\E S \in SUBSET Messages : ReapStuck(r, S)) \/ FinishStuck(r) \/ ReaperExit(r)

ExecutionStep ==
  \E r \in Runs :
    \/ Start(r) \/ RestartReap(r) \/ RestartFinish(r) \/ BeginStop(r)
    \/ Processor(r) \/ Workers(r) \/ Reaper(r)
=============================================================================
