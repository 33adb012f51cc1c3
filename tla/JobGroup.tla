------------------------------ MODULE JobGroup ------------------------------
(***************************************************************************)
(* runtimejobs.Group: one activation at a time of an ordered set of jobs.  *)
(* operationMu serialises Start, Stop and Abort, so at most one operation  *)
(* is under way; each job is started and stopped in a step of its own.     *)
(* Abort differs from Stop only by telling the jobs to hurry (abortJobs),  *)
(* so one action stands for both.                                          *)
(*                                                                         *)
(* The jobs are external: they keep the Lifecycle contract of lifecycle.go *)
(* (a failed Start leaves the job down, a Stop that returns nil has        *)
(* drained it); a Stop that fails may leave the job up.                    *)
(***************************************************************************)
EXTENDS Integers

CONSTANTS
  N,               \* number of jobs
  MaxGeneration    \* bound on g.generation

ASSUME JobAssumption == N \in Nat \ {0} /\ MaxGeneration \in Nat

VARIABLES
  group,       \* g.state
  job,         \* g.jobStatuses[i].state
  credit,      \* generation whose report set lastProgress of job i; 0 if none
  up,          \* the jobs with work under way
  ctx,         \* the activation's context; "none" while g.cancel is nil
  generation,  \* g.generation
  terminal,    \* jobs that g.terminalErr says failed to stop; {} if it is nil
  op,          \* the operation that holds operationMu
  at,          \* the job it is at
  failed,      \* jobs in stopErrors
  monitors     \* generations with a monitorProgress goroutine

jobVars == <<group, job, credit, up, ctx, generation, terminal, op, at, failed, monitors>>

Jobs == 1..N
States == {"stopped", "starting", "running", "stopping", "failed"}

JobTypeOK ==
  /\ group \in States /\ job \in [Jobs -> States]
  /\ credit \in [Jobs -> 0..MaxGeneration]
  /\ up \subseteq Jobs
  /\ ctx \in {"none", "live", "ended"}
  /\ generation \in 0..MaxGeneration
  /\ terminal \subseteq Jobs /\ failed \subseteq Jobs
  /\ op \in {"none", "start", "startJob", "rollback", "stop"}
  /\ at \in 0..(N + 1)
  /\ monitors \subseteq 1..MaxGeneration

JobInit ==
  /\ group = "stopped" /\ job = [i \in Jobs |-> "stopped"]
  /\ credit = [i \in Jobs |-> 0]
  /\ up = {} /\ ctx = "none" /\ generation = 0
  /\ terminal = {} /\ op = "none" /\ at = 0 /\ failed = {} /\ monitors = {}
-----------------------------------------------------------------------------

\* Start with a context that is live or has ended already: beginActivation.
\* With a terminal error, or during an activation, Start changes nothing.
Start(c) ==
  /\ op = "none" /\ ctx = "none" /\ generation + 2 <= MaxGeneration
  /\ terminal = {}
  /\ generation' = generation + 1
  /\ ctx' = c
  /\ group' = "starting"
  /\ job' = [i \in Jobs |-> "stopped"]
  /\ credit' = [i \in Jobs |-> 0]
  /\ op' = "start" /\ at' = 1
  /\ UNCHANGED <<up, terminal, failed, monitors>>

\* The context given to Start ends.
ContextEnds ==
  /\ ctx = "live" /\ ctx' = "ended"
  /\ UNCHANGED <<group, job, credit, up, generation, terminal, op, at, failed, monitors>>

\* failStart: endActivation, then the jobs before i are stopped.
FailStart(i) ==
  /\ ctx' = "none" /\ generation' = generation + 1
  /\ op' = "rollback" /\ at' = i - 1 /\ failed' = {}
  /\ UNCHANGED <<group, credit, up, terminal, monitors>>

\* The next job's Start is called, unless the context has ended.
BeginJob ==
  /\ op = "start" /\ at \in Jobs
  /\ IF ctx = "ended"
     THEN job' = [job EXCEPT ![at] = "failed"] /\ FailStart(at)
     ELSE /\ job' = [job EXCEPT ![at] = "starting"]
          /\ op' = "startJob"
          /\ UNCHANGED <<group, credit, up, ctx, generation, terminal, at, failed, monitors>>

JobStarted ==
  /\ op = "startJob"
  /\ job' = [job EXCEPT ![at] = "running"]
  /\ up' = up \cup {at}
  /\ op' = "start" /\ at' = at + 1
  /\ UNCHANGED <<group, credit, ctx, generation, terminal, failed, monitors>>

JobFails ==
  /\ op = "startJob"
  /\ job' = [job EXCEPT ![at] = "failed"]
  /\ FailStart(at)

\* All jobs are started; the group runs unless the context has ended meanwhile.
Started ==
  /\ op = "start" /\ at = N + 1 /\ ctx = "live"
  /\ group' = "running" /\ op' = "none" /\ at' = 0
  /\ monitors' = monitors \cup {generation}
  /\ UNCHANGED <<job, credit, up, ctx, generation, terminal, failed>>

StartedTooLate ==
  /\ op = "start" /\ at = N + 1 /\ ctx = "ended"
  /\ FailStart(at) /\ UNCHANGED job
-----------------------------------------------------------------------------
\* Stop, or Abort, of the current activation: endActivation.
Stop ==
  /\ op = "none" /\ terminal = {} /\ ctx # "none"
  /\ ctx' = "none" /\ generation' = generation + 1
  /\ group' = "stopping"
  /\ op' = "stop" /\ at' = N /\ failed' = {}
  /\ UNCHANGED <<job, credit, up, terminal, monitors>>

\* Faulty variant: the jobs are stopped in the order in which they started.
StopJobForward(ok) ==
  LET i == N + 1 - at IN
  /\ op \in {"rollback", "stop"} /\ at \in Jobs
  /\ job' = [job EXCEPT ![i] = IF ok THEN "stopped" ELSE "failed"]
  /\ up' = IF ok THEN up \ {i} ELSE up
  /\ failed' = IF ok THEN failed ELSE failed \cup {i}
  /\ at' = at - 1
  /\ UNCHANGED <<group, credit, ctx, generation, terminal, op, monitors>>

\* One round of stopJobs: the job's Stop returns nil, or fails or runs out of
\* the cleanup budget.
StopJob(ok) ==
  /\ op \in {"rollback", "stop"} /\ at \in Jobs
  /\ job' = [job EXCEPT ![at] = IF ok THEN "stopped" ELSE "failed"]
  /\ up' = IF ok THEN up \ {at} ELSE up
  /\ failed' = IF ok THEN failed ELSE failed \cup {at}
  /\ at' = at - 1
  /\ UNCHANGED <<group, credit, ctx, generation, terminal, op, monitors>>

\* finishStop, or the end of failStart: an incomplete cleanup is terminal.
Stopped ==
  /\ op \in {"rollback", "stop"} /\ at = 0
  /\ group' = IF failed = {} THEN "stopped" ELSE "failed"
  /\ terminal' = failed
  /\ op' = "none" /\ failed' = {}
  /\ UNCHANGED <<job, credit, up, ctx, generation, at, monitors>>

\* A job whose Stop failed winds down later.
JobQuits(i) ==
  /\ i \in up /\ job[i] = "failed"
  /\ up' = up \ {i}
  /\ UNCHANGED <<group, job, credit, ctx, generation, terminal, op, at, failed, monitors>>
-----------------------------------------------------------------------------
\* A monitor goroutine whose context has ended: by the caller, or because
\* endActivation cancelled it, even if another activation has begun since.
Ended(g) == g # generation \/ ctx = "ended"

\* markActivationStopping.
MonitorMarks(g) ==
  /\ g \in monitors /\ Ended(g)
  /\ monitors' = monitors \ {g}
  /\ IF g = generation /\ group = "running"
     THEN /\ group' = "stopping"
          /\ job' = [i \in Jobs |-> IF job[i] = "running" THEN "stopping" ELSE job[i]]
     ELSE UNCHANGED <<group, job>>
  /\ UNCHANGED <<credit, up, ctx, generation, terminal, op, at, failed>>

\* A loop of job i, started in activation g, reports progress (trackProgress).
Report(i, g) ==
  /\ g \in 1..generation
  /\ g = generation /\ job[i] \in {"starting", "running"}
  /\ credit' = [credit EXCEPT ![i] = g]
  /\ UNCHANGED <<group, job, up, ctx, generation, terminal, op, at, failed, monitors>>

\* The steps of an operation under way, and those of the goroutines.
Operation ==
  \/ BeginJob \/ JobStarted \/ JobFails \/ Started \/ StartedTooLate
  \/ (\E ok \in BOOLEAN : StopJob(ok)) \/ Stopped
Background ==
  \/ \E g \in monitors : MonitorMarks(g)
  \/ \E i \in Jobs : JobQuits(i) \/ \E g \in 1..MaxGeneration : Report(i, g)

JobNext ==
  \/ (\E c \in {"live", "ended"} : Start(c)) \/ Stop \/ ContextEnds
  \/ Operation \/ Background

JobSpec == JobInit /\ [][JobNext]_jobVars
-----------------------------------------------------------------------------
\* A job is started only when it is down and every job before it is up: no job
\* survives into another activation, whatever failed to start or to stop.
StartsInOrder ==
  [][\A i \in Jobs : i \notin up /\ i \in up' => up = 1..(i - 1)]_jobVars

\* During a stop or rollback a job is stopped only after every later job was
\* stopped or refused to stop.
StopsInReverse ==
  [][\A i \in Jobs : i \in up /\ i \notin up' /\ job[i] # "failed" =>
       \A j \in Jobs : j > i /\ j \in up => job[j] = "failed"]_jobVars

\* A group that calls itself stopped has no work under way, and one that
\* failed to clean up says so for ever (terminalErr is checked by Start).
StoppedIsDown ==
  /\ group = "stopped" => up = {}
  /\ terminal # {} => group = "failed"

\* The group leaves "running" only because its own activation ends: neither a
\* monitor nor a report of an earlier activation touches a later one.
OwnActivationOnly ==
  [][/\ group = "running" /\ group' = "stopping" => ctx = "ended" \/ ctx' = "none"
     /\ \A i \in Jobs : ctx' # "none" => credit'[i] \in {0, generation'}]_jobVars
=============================================================================
