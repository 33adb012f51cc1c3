---------------------------- MODULE CommandQueue ----------------------------
(***************************************************************************)
(* The tables of the command queue and the transactions on them            *)
(* (sqlc/queries/queue.sql, command.sql; infrastructure/queue).            *)
(*                                                                         *)
(* A command batch has one queue_message row per target device, so a       *)
(* message is a pair <<batch, device>>.  An operator below is the effect   *)
(* of one committed transaction; who runs it, and when, is in              *)
(* CommandExecution and CommandDispatch.                                   *)
(***************************************************************************)
EXTENDS Integers, FiniteSets

CONSTANTS
  Batches,            \* command batches
  Devices,
  Targets,            \* [Batches -> devices the batch is for]
  MaxFailureRetries   \* queue.Config.MaxFailureRetries

ASSUME QueueAssumption ==
  /\ Targets \in [Batches -> (SUBSET Devices) \ {{}}]
  /\ MaxFailureRetries \in Nat \ {0}

ASSUME FiniteAssumption == IsFiniteSet(Batches) /\ IsFiniteSet(Devices)

VARIABLES
  message,    \* status of a queue_message row; "none" while there is no row
  retries,    \* retry_count
  created,    \* created_at of the batch's rows: when their transaction began
  batch,      \* command_batch_log.status
  devlog      \* command_on_device_log.status

tables == <<message, retries, batch, devlog>>

Messages == {m \in Batches \X Devices : m[2] \in Targets[m[1]]}
Rows(b) == {m \in Messages : m[1] = b}
Open == {"PENDING", "PROCESSING"}
Terminal == {"SUCCESS", "FAILED"}
Results == {"ok", "permanent", "transient"}

QueueTypeOK ==
  /\ message \in [Messages -> {"none"} \cup Open \cup Terminal]
  /\ retries \in [Messages -> 0..MaxFailureRetries]
  /\ created \in [Batches -> Nat]
  /\ batch \in [Batches -> {"none", "PENDING", "PROCESSING", "FINISHED"}]
  /\ devlog \in [Messages -> {"none"} \cup Terminal]

QueueInit ==
  /\ message = [m \in Messages |-> "none"]
  /\ retries = [m \in Messages |-> 0]
  /\ created = [b \in Batches |-> 0]
  /\ batch = [b \in Batches |-> "none"]
  /\ devlog = [m \in Messages |-> "none"]
-----------------------------------------------------------------------------
\* saveCommandBatchLogToDB.
CreateCommandBatchLog(b) ==
  /\ batch' = [batch EXCEPT ![b] = "PENDING"]
  /\ UNCHANGED <<message, retries, devlog>>

\* The rows of b appear together, when the enqueue transaction commits.
CreateQueueMessages(b) ==
  /\ message' = [m \in Messages |-> IF m[1] = b THEN "PENDING" ELSE message[m]]
  /\ UNCHANGED <<retries, batch, devlog>>

\* GetMessagesToProcess: a row waits for the older unfinished rows of its
\* device.  Rows that are equally old do not wait for each other.
Blocks(n, m) ==
  n[2] = m[2] /\ message[n] \in Open /\ created[n[1]] < created[m[1]]

Ready ==
  {m \in Messages : /\ message[m] = "PENDING"
                    /\ retries[m] < MaxFailureRetries
                    /\ ~ \E n \in Messages : Blocks(n, m)}

\* ORDER BY created_at LIMIT n: the sets of rows the query may return.
MessagesToProcess(n) ==
  {S \in SUBSET Ready :
     /\ Cardinality(S) = IF n < Cardinality(Ready) THEN n ELSE Cardinality(Ready)
     /\ \A m \in S, k \in Ready \ S : created[m[1]] <= created[k[1]]}

\* ClaimMessageForProcessing, for each selected row that still is PENDING.
Claimed(S) == {m \in S : message[m] = "PENDING"}

ClaimMessages(S) ==
  /\ message' = [m \in Messages |->
                   IF m \in Claimed(S) THEN "PROCESSING" ELSE message[m]]
  /\ UNCHANGED <<retries, batch, devlog>>

\* The status markQueueMessageStatus gives a PROCESSING row: UpdateMessageStatus,
\* UpdateMessagePermanentlyFailed or UpdateMessageAfterFailure.
StatusAfter(m, result) ==
  CASE result = "ok" -> "SUCCESS"
    [] result = "permanent" -> "FAILED"
    [] result = "transient" ->
         IF retries[m] + 1 >= MaxFailureRetries THEN "FAILED" ELSE "PENDING"

\* The worker's own idea of a terminal result: it counts from the retry_count
\* that it read when it dequeued the message.
IsTerminal(result, known) == result = "transient" => known + 1 >= MaxFailureRetries

\* Faulty variant: the device log is written even if the row was reaped.
RecordResultAlways(m, result, known) ==
  /\ IF message[m] = "PROCESSING"
     THEN /\ message' = [message EXCEPT ![m] = StatusAfter(m, result)]
          /\ retries' = IF result = "transient"
                        THEN [retries EXCEPT ![m] = @ + 1] ELSE retries
     ELSE UNCHANGED <<message, retries>>
  /\ devlog' = IF IsTerminal(result, known)
               THEN [devlog EXCEPT ![m] = IF result = "ok" THEN "SUCCESS" ELSE "FAILED"]
               ELSE devlog
  /\ UNCHANGED batch

\* The transaction of workerProcessCommand.  A row that is no longer PROCESSING
\* was reaped: nothing is written.
RecordResult(m, result, known) ==
  /\ IF message[m] = "PROCESSING"
     THEN /\ message' = [message EXCEPT ![m] = StatusAfter(m, result)]
          /\ retries' = IF result = "transient"
                        THEN [retries EXCEPT ![m] = @ + 1] ELSE retries
          /\ devlog' = IF IsTerminal(result, known)
                       THEN [devlog EXCEPT ![m] =
                               IF result = "ok" THEN "SUCCESS" ELSE "FAILED"]
                       ELSE devlog
     ELSE UNCHANGED <<message, retries, devlog>>
  /\ UNCHANGED batch

\* reapMessages: the rows S, all of them PROCESSING, are failed and logged.
ReapMessages(S) ==
  /\ message' = [m \in Messages |-> IF m \in S THEN "FAILED" ELSE message[m]]
  /\ devlog' = [m \in Messages |-> IF m \in S THEN "FAILED" ELSE devlog[m]]
  /\ UNCHANGED <<retries, batch>>

Processing == {m \in Messages : message[m] = "PROCESSING"}

\* IsBatchFinished: there are rows, and none is open.
IsBatchFinished(b) ==
  /\ \E m \in Rows(b) : message[m] # "none"
  /\ \A m \in Rows(b) : message[m] \in Terminal

FinishProcessingOnly ==
  /\ batch' = [b \in Batches |->
                 IF batch[b] = "PROCESSING" /\ IsBatchFinished(b) THEN "FINISHED" ELSE batch[b]]
  /\ UNCHANGED <<message, retries, devlog>>

FinishTerminalCommandBatches ==
  /\ batch' = [b \in Batches |->
                 IF batch[b] \in Open /\ IsBatchFinished(b) THEN "FINISHED" ELSE batch[b]]
  /\ UNCHANGED <<message, retries, devlog>>

\* MarkCommandBatchProcessing updates the row if this holds.
StartsProcessing(b) ==
  batch[b] = "PENDING" /\ \E m \in Rows(b) : message[m] = "PROCESSING"

MarkCommandBatchProcessing(b) ==
  /\ batch' = IF StartsProcessing(b) THEN [batch EXCEPT ![b] = "PROCESSING"] ELSE batch
  /\ UNCHANGED <<message, retries, devlog>>

\* MarkCommandBatchFinished if from = Open, ...FinishedWithStartedAt if
\* from = {"PENDING"}.
MarkCommandBatchFinished(b, from) ==
  /\ batch' = IF batch[b] \in from THEN [batch EXCEPT ![b] = "FINISHED"] ELSE batch
  /\ UNCHANGED <<message, retries, devlog>>
=============================================================================
