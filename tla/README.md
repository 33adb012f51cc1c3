# Proto Fleet: a verification development

Proto Fleet is a Go server (`fleetd`) that manages a fleet of mining devices,
with plugins that speak to the devices, agents on remote networks, an updater
and two web clients. This directory models the parts whose correctness depends
on the order in which concurrent things happen: which `fleetd` process may
dispatch work, how a process starts, serves and stops, how a command travels
from a request through the database queue to a device and back, how the server
and its updater replace themselves, how schedules and firmware rollouts drive
commands, how remote agents are commanded, and how devices keep being polled.

All paths below are relative to `server/internal` unless they say otherwise.

## 1. The system and its hard parts

| part | state | operations | what makes it hard | what must hold | here |
|---|---|---|---|---|---|
| HA lease (`ha/coordinator.go`, `observer.go`, `store.go`, `sqlc/queries/ha.sql`) | ownership row, coordinator's term, lease timer | observe, acquire, confirm, renew, demote | lost and late statements, failover that loses writes, clocks, timer against renewal | never two active dispatchers (RFC 0002) | `FleetLease` |
| runtime and gate (`ha/runtime.go`, `gate.go`) | lifetime, admissions, drain | run, admit, release, deactivate | requests crossing the end of an activation, cleanup that blocks | serve only with jobs up; end, and end quietly | `FleetRuntime` |
| job group (`runtimejobs/group.go`) | states of group and jobs, activation | start, rollback, stop, abort, monitor | one of several jobs fails, leftovers of an old activation | order; stopped means down | `JobGroup` |
| command queue (`infrastructure/queue`, `sqlc/queries/queue.sql`) | queue rows, batch headers, device logs | enqueue, dequeue, verdict, reap, finish | two processes on one table | one worker, device order, decisions are final | `CommandQueue` |
| command execution (`domain/command/execution_service.go`) | run, slots, workers | start, dequeue loop, worker, reaper, stop | crash, stalled process, ambiguous commit | recovery loses and repeats nothing it should not | `CommandExecution` |
| command dispatch (`domain/command/service.go`) | caller, status routine | save batch, enqueue, reconcile, finish | commit without an answer, routine dies | the caller is told the truth; batches end | `CommandDispatch` |
| updater (`updater/`) | operation record, marker, deployment directories | trigger, activate, acknowledge, recover | crash between any two writes | always a runnable deployment; a recorded success is real | `UpdateOperation`, `UpdateActivation`, `Updater` |
| self-update (`updater/`) | executable, backup, handoff marker | install, exec, become ready, roll back, repair | a release that does not start, a crash in the handoff | no release is tried twice; a daemon serves again | `SelfUpdate` |
| schedules (`domain/schedule/processor.go`) | cron jobs and timers, status column | sync, execute, end of window, recover | read before lock, stale generation | a window holds and is reverted; what a user ended stays ended | `ScheduleRow`, `ScheduleProcessor` |
| fleet-node control (`domain/fleetnode/control`) | streams, in-flight commands | register, send, ack, disconnect | replaced streams, full buffers | a terminal ack is not lost | `ControlRegistry` |
| fleet-node sessions | session row, challenge, fence | handshake, connect, revoke | handshakes against each other and against revocation | revoked means out; the newest session gets in, older ones are out | `FleetNodeSession` |
| fleet-node agent and gateway | workers, slots, reports, targets | discover, pair, report, publish | a session ends under running workers; a store fails | results reported as paired are stored; no target is stranded | `FleetNodeAgent` |
| telemetry (`domain/telemetry`) | activation, claims, samples, the scheduler's maps | poll, refresh, sample, stop, fail, recover | claims, generations, drain; three maps with three locks | no stale sample; no device drops out of the rotation | `TelemetryFlights`, `TelemetryScheduler` |
| rollout (`domain/rollout`) | assignment, targets, reservations, provenance | assign, tick, pause, cancel, retry, roll back | operators and miners between the transactions of a tick | offline budget; review gate; provenance is true | `FirmwareRollout`, `RolloutEnforcement` |
| curtailment (`domain/curtailment`) | events, targets | tick, confirm, restore | fast path against tick | an ended event dispatches nothing | not modelled |

Curtailment is as large as all the modelled parts together and has no model yet.
The other parts (registration of fleet nodes and their artifacts, pairing and
discovery, plugins, records of sites and inventory, identity, RPC handlers, SQL
stores, command lines, web clients, API definitions) are I/O, single-transaction
records or translation; `PROJECT.json` lists each with its reason.

## 2. Modules

    RuntimeOwnership      what active/passive ownership promises
    FleetLease            the coordinators, PostgreSQL and the DCS; implements it
    FleetLeaseProofs      proofs
    JobGroup              the group of background jobs
    FleetRuntime          EXTENDS JobGroup: Run and the request gate
    FleetRuntimeProofs    proofs about both
    CommandQueue          tables and SQL statements
    CommandExecution      EXTENDS CommandQueue: processes that execute
    CommandDispatch       EXTENDS CommandExecution: callers and status routines
    CommandLedger         what the command path promises; CommandDispatch implements it
    CommandProofs         proofs
    UpdateOperation       the updater's operation record and its clients
    UpdateActivation      EXTENDS UpdateOperation: the run of an operation
    Updater               EXTENDS UpdateActivation: the process, recovery at startup
    UpdaterProofs         proofs about the three
    SelfUpdate            the updater's replacement of its own executable
    SelfUpdateProofs      proofs
    ScheduleRow           the schedule table, its users and time
    ScheduleProcessor     EXTENDS ScheduleRow: jobs, executions, loops, activations
    ControlRegistry       the control streams of one fleet node and calls on them
    FleetNodeAgent        EXTENDS ControlRegistry: the agent, reports, the gateway
    FleetNodeSession      handshakes, session fence, revocation
    FleetNodeAgentProofs, FleetNodeSessionProofs       proofs about the three
    TelemetryFlights      claims and samples of one device
    TelemetryScheduler    how one device stays in the polling rotation
    TelemetrySchedulerProofs                   proofs
    FirmwareRollout       rows of one channel and one model, operators, miners
    RolloutEnforcement    EXTENDS FirmwareRollout: the enforcement tick
    MC*                   model values and scopes for TLC

Definitions whose comment begins with "Faulty variant" are deliberate mistakes.
They occur in no specification; each is there to show that a property notices it.

### 2.1 `FleetLease`

`ha` decides which `fleetd` process is active. One attempt of a `Coordinator`
(`tryAcquire`) is: read the leader key from the DCS (`ObserveLeader`), check
PostgreSQL's identity against it and send `AcquireFleetRuntimeLease`
(`SendAcquire`, `ExecAcquire`), read the DCS again (`ConfirmLeader`), ask for the
remaining life of the leader's DCS lease (`ReadLeaseTTL`), renew once more
(`SendActivation`, `ExecRenew`) and activate until a local deadline (`Activate`).
`renewActive` repeats the observation around a renewal (`SendRenew`, `ExecRenew`,
`UpdateActive`). Each is an action, so elections, clock ticks, crashes, other
processes and statements whose client has given up can come between any two.

| state | code |
|---|---|
| `lease` | row `fleet-active` of `fleet_runtime_lease` |
| `pc`, `snap`, `call`, `got`, `started`, `proof`, `candidate` | where `Run` is, and its locals |
| `active`, `own`, `deadline`, `leaseVersion`, `armed`, `fired` | `activeCtx`, `ownership`, the lease timer and its callbacks |
| `holder`, `acquireAfter` | `holderID`, `acquireAfter` |
| `cluster`, `gens`, `leaderExp`, `writer`, `replica`, `orphans` | the DCS, PostgreSQL, statements in flight (external) |

Environment: a new leader key appears only once the DCS lease of the previous one
has run out (a planned Patroni switchover is outside the model); Patroni fences a
demoted server (RFC 0002), which executes no statement; a standby may lack the
last writes; clocks of servers differ by a constant `Skew`; local clocks run at
the rate of real time. A timer callback may be late, so properties speak of a
process that is active *and* before its deadline (`Live`). Simplified: a reply is
received in the step that executes its statement (a lost reply is an orphan); the
identity query is merged with the sending; a contended attempt goes idle at once;
`observed`, `updatedAt` and the version bumps of a passive process are left out.

### 2.2 `JobGroup` and `FleetRuntime`

`JobGroup` has one action per step of `Start` (`BeginJob`, then the job's own
`Start` returning or failing), of the rollback in `failStart`, and of `stopJobs`; the
context may end at any time, and the monitor and progress reports of an activation
may act after it ended. `Stop` and `Abort` are merged, and the "starting" and
"stopping" states of a single job are not told apart. Jobs keep the contract of
`runtimejobs/lifecycle.go`. `FleetRuntime` follows `Run`: `pc` is the place in it,
`lifetime` the context `WaitForActive` returned, `gate`, `admissions`, `drained` and
`request` the gate, whose `Admit` is two actions because the activation can end
between the count and the check. Health and endpoint monitors are free choices.

### 2.3 `CommandQueue`, `CommandExecution`, `CommandDispatch`

A message is a pair of batch and device. `CommandQueue` has one operator per SQL
statement. `Dequeue` is two actions (select, claim), because the select takes no
lock; a claim may commit without an answer. `CommandExecution` has runs of the
service (one per process lifetime): recovery after a restart, the dequeue loop with
its slot accounting, workers, the reaper, stop and crash. `CommandDispatch` adds the
caller (`admitCommand`: save, enqueue, reconcile) and the status routine
(`initializeStatusUpdateRoutine`), tick by tick. `MaxFaults` bounds failing and
unanswered transactions; `MaxLive` is how many processes run at once: 1 for an
orderly deployment, 2 for a stalled process beside its successor.

Simplified: any PROCESSING row may be overdue for the reaper; the limits of 100 rows
per reap or finish are not reached; device effects, filters, payloads, the requeue of
rig configurations, the reset of firmware status, enqueues inside a caller's
transaction, and routines without callback are left out; the error branch of the
locked insert for a batch that is not PENDING is a guard. `created_at` is the time of
the transaction's start, so `DeviceOrder` is about requests that do not overlap.

### 2.4 `UpdateOperation`, `UpdateActivation`, `Updater`

`disk` is the state file and `op` the record in memory; `marker` the activation
marker; `current`, `previous` and `staged` the versions in the deployment, its
predecessor and the staging directory; `app` the version that runs and `migrated` the
newest one whose start was attempted on this host (an HA peer that
was updated first and may have migrated, while this host restarts its previous release
when the takeover fails, is outside). Every write, rename and command is an action; a
write may fail before or after the file was replaced, and the process may die between
any two. `Updater` adds startup: load, reconcile, recover the application, serve.
A crash between a rename and the sync of its directory equals a crash before or after
the rename; the repair at startup with HA is a load followed by the loss of the
process; failing starts of a recovered application are counted with `MaxCrashes`; a
graceful exit leads to a stopped process that need not be booted again. The run has one
operation (`MaxOps` 1; two are out of TLC's reach), the theorems any number. That is why
`AlwaysStartable` speaks of markers only without a failing write or during the first
operation: after a marker that could not be removed, `loadState` refuses to start once
a second operation has been recorded.

### 2.5 `SelfUpdate`

`dest` is the supervised executable, `backup` its hard-linked predecessor, `mark` the
handoff marker. The process is a daemon or, with HA, a repair before the HA services
start; there is one at a time. Good releases become ready, bad ones do not.
`UnprovenIsMarked` and `ServesAgain` hold until a second file operation fails: when the
sync after a swap fails and the restore of the backup fails too, the next `Upgrade`
unlinks the backup; and when a marker could not be removed, a crash between the unlink
and the link of the next installation ends in refused starts.

### 2.6 `ScheduleRow`, `ScheduleProcessor`

`row` is the table, `over` the timings that have no run left, `jobs` the registered
jobs with their generations and timers, `exec` the executions. Reading the table and
applying what was read are separate actions of `syncSchedules`, as are the check of a
window's end and its revert. An abort cancels the work context, so every store call
after it fails. `revertToActive` stores no `last_run_at`. `MaxGen` exceeds the number
of registrations a behaviour can make. `WindowHolds` is about schedules no user touched
and stores that answer: a job whose timer has fired can stay dead after a pause or an
edit in the wrong moment, until the next reconcile that sees another timing.

Simplified: `UpdateSchedule` reads the status without a lock and writes it back; it
refuses a running schedule and its statement excludes running rows, so against the
processor this is one step, and only a second user could tell. `revertToActive` computes
the next run from the schedule as the execution read it, the model from the row, which is
the same while a running row cannot be edited. Left out are the errors of `registerJob`,
and of `ComputeNextRun`, which set the schedule active without a next run.

### 2.7 `ControlRegistry`, `FleetNodeAgent`, `FleetNodeSession`

`conn` is the registered stream, `inflight` the commands of its connection, `outgoing`
and `sent` what waits and what was sent, `events` a call's channel of reports and acks.
Command ids are unique; every command needs the first protocol version; what is on its
way when a session ends is lost with it. `FleetNodeAgent` replaces the free node of
`ControlRegistry` by the run command: workers that outlive the session, an exclusive
slot and a pool, discovery and pairing, and reports, which the gateway admits, stores and
publishes. A pairing result that fails to be stored is rejected and its target
reinstated, and the command's ack is partial; a discovered device that fails to be stored
fails its report, and one that is out of the command's scope or owned by another node is
dropped without an error. A command may be refused, and one whose deadline passes is
acked as partial. Reports carry chunks in the code and one result each here; the
refusals (incapable agent, bad request, failed scan, failed report) are one code; report
quotas and artifact transfers are left out.

`FleetNodeSession` has the handshake in its steps (challenge, rotation under
`sessionRotationMu`, reply), the fence the registry keeps, streams authenticated with a
session, revocation in two steps, and restarts that forget fence and streams.

### 2.8 `TelemetryFlights`, `TelemetryScheduler`

Both are about one device. What devices share is the queue's slots and the loop of
`RemoveDevices`, which returns at the first device it does not find and leaves the rest
managed: here a removal may end that way without touching the device.
`TelemetryFlights` has the claim (`inFlight`), the entries that hold it (polls, status
polls, refreshes, direct reads), the sample retained for others to join, the generation
that a removal raises, and the stop of the service. `TelemetryScheduler` has the
scheduler's maps (managed, queue, failures), the service's (tracked, awaiting the first
sample), the routines that move a device between them, and a miner that is up, down or
saturated. There the claim is one variable, released in one step, and the two stores of
`AddFailedDevices` are merged; that one variable will do is what `ClaimIsHeld` of
`TelemetryFlights` says. A poll forgets the failures whether or not the miner gave
metrics, unless the node was saturated, there was no miner to ask, or the metrics were
another's. `RetainedIsCurrent`
is about what is retained and by whom, with one start of the service (`MaxStarts` 1).
Organisations are left out.

### 2.9 `FirmwareRollout`, `RolloutEnforcement`

One channel, one pair of manufacturer and model, the methods that are not delegated. A
tick of the enforcement loop is a sequence of transactions, and operators and miners act
in between. A transaction under the channel's or rollout's row lock is one action, but for
those that record provenance: they list the evidence and then write it, each row by
compare and set, and commands complete between the two statements. The locks they hold
meanwhile (`ChannelLocked`, `RolloutLocked`, `ScopesLocked`) keep other transactions out.
Miners that join, leave or are renamed take none of these locks. `UpdateChannel` changes
the offline limit while rollouts run, and the artifact of a rollout may be missing when it
is to be sent. The method an `ApplyFirmware` call may give is left out: a rollout keeps
the method it was created with, as one of a channel with that method does.
Thresholds and baselines of the health check are free choices; a dispatch enqueues in
its transaction; nobody flashes a miner behind the channel's back but by a `manual`
command. `history` and the review counter are not part of the program: they remember
who is at risk, what was halted, and what was reviewed. A comment at `applyResolved`
says the loop starts only all-at-once reconciliation rollouts; the code uses the
channel's method, and so does the model.

## 3. Runs

| run | question | bounds |
|---|---|---|
| `lease_failover` | two processes, a failover to a server with another clock that may lack the last writes, crashes; with late statements, or renewals, or a rebuilt DCS | 2 servers, 2 generations, 2 clusters, 1 late statement |
| `command_outcome` | one command through a process, its crash and its successor; refinement of `CommandLedger`; every batch ends | 2 faults, 2 retries, processes in turn |
| `runtime_life` | one activation from waiting to exit, requests at every moment, with and without HA; it ends | 3 jobs, 2 requests |
| `updater_update` | one update with failing writes and crashes anywhere; it ends | 2 faults, 2 crashes, 3 versions |
| `selfupdate_handoff` | good and bad releases, crashes, repairs; a daemon serves again | 3 releases, 2 faults, 3 crashes, 2 repairs |
| `schedule_activation` | one schedule of any kind, its user, both loops, a stop or loss of the process and a recovery | 1 user operation, 1 refusal, 1 stop |
| `agent_control` | two streams, one of an old protocol, a reporting and a miner command, a failing store | 1 device, pool of 1 |
| `session_fenced` | three handshakes, two streams, a restart, a lost reply, revocation | as said |
| `flights_collect` | worker, refresher and sampler compete for a device while the service stops | 1 of each, 1 poll, 1 removal |
| `poll_devices` | a device with lost status writes and a failing or saturated miner, a stop, an unpairing or a refresh | 1 worker, 1 failure to the limit |
| `rollout_truth` | one miner, three artifacts, two of them of one version, two assignments; commands that complete between the listing of evidence and its write | 2 rollouts, 2 disturbances (a failing command is one) |
| `rollout_gates` | two miners in reviewed batches with an offline budget of one that may be raised to two | 2 rollouts, 2 disturbances |

All pass. The bounds admit the cases the properties are about: a failover inside a
term and a takeover after it, a retry and then a final failure, a crash with a claimed
message, a second start of the updater after a crash in its recovery, a handshake that
overtakes another, a target that leaves during a batch.

Three runs are scoped: their MC module lets each behaviour meet one kind of trouble, or
one of two, of those it names, because all of them at once are out of reach.
`lease_failover` has late statements, a rebuilt DCS, or renewals (with late renewals),
each together with crashes and failovers; `flights_collect` has a refresh or a removal;
`poll_devices` a miner that is down, one that is saturated, a stop, an unpairing or a
refresh, each with lost status writes. The scope only withholds steps that no fairness
is assumed of. The theorems of section 4 about `FleetLease` and `TelemetryScheduler`
have no such limit.

Not reached in these instances: the branch of `Deliver` where an agent has no free slot
(`agent_control` has as many slots as commands). Deadlock checking is off where a run may
end: processes stop for good, clocks and identities reach their bounds.

Fairness.

* `CommandDispatch`: goroutines run (weak fairness), a process is restarted while one is
  left, and a message whose worker is gone is found overdue (strong fairness, since the
  row may leave and re-enter PROCESSING before the reaper's tick). Faults are bounded,
  crashes by the number of processes.
* `FleetRuntime`: goroutines run; the `Start` of a job returns, its `Stop` returns or
  runs out of the cleanup budget; waits end when their context does. Requests may hang.
* `Updater`: the operation's goroutine and the startup of a booted process run. Nobody
  need boot it, call it or acknowledge. `OperationEnds` excepts a failing final write.
* `SelfUpdate`: the supervisor restarts the process; a good release that is started
  again and again becomes ready once (strong fairness). The unit has
  `Restart=on-failure`; after a clean exit the restart is an operator's.
* `ScheduleProcessor`: timers fire, loops tick, executions proceed.
* `TelemetryFlights`, `TelemetryScheduler`: tickers and goroutines run (weak); a
  `select` that is offered a case again and again takes it, and a claim that becomes
  free again and again is got (strong).

## 4. Proofs

Eight modules hold theorems that TLAPS checks to the last leaf, for every value of the
constants that meets the assumptions stated with them. `PROJECT.json` lists the results;
this section says along which invariant they go.

| module | assumptions | inductive invariant |
|---|---|---|
| `FleetLeaseProofs` | `ConstantsAssumption` | `IInv`, and `TInv` on top of it |
| `FleetRuntimeProofs` | `JobAssumption`, `RuntimeAssumption` | `GInv` of the group, `RInv` of the process |
| `CommandProofs` | `QueueAssumption`, `FiniteAssumption`, `ExecutionAssumption`, `DispatchAssumption` | `CInv`; `DInv` and `Slots` on top of it |
| `UpdaterProofs` | `BoundsAssumption` | `UInv` |
| `SelfUpdateProofs` | `ReleasesAssumption` | `SInv` |
| `FleetNodeAgentProofs` | `RegistryAssumption`, `AgentAssumption` | `RegistryInv`, `AInv` |
| `FleetNodeSessionProofs` | `SessionAssumption` | `SInv` |
| `TelemetrySchedulerProofs` | `SchedulerAssumption` | `TInv` |

The assumptions say what kind of thing a constant is: counts and durations are natural
numbers, and positive where the code needs them to be; sentinels are none of the values
they stand beside; the sets that are counted (requests, batches, devices) are finite.

**Lease.** `AtMostOneLive` is not inductive: it says nothing of a process that is about
to be live. `IInv` adds what each coordinator's locals hold at each place (`Locals`),
that holder IDs are not shared (`Holders`), that nothing names a generation to come
(`Generations`), and that a term that is active, or about to be activated or extended, is
claimed until its deadline (`Claims`): the row is of that term and outlives the deadline
on the writer's clock, and the leader it was won under keeps its DCS lease as long. Two
claims on one row are one holder. `TInv`
adds the last term of every cluster, and that a candidate's token is newer than it, which
gives `TermsIncrease` and the refinement of `RuntimeOwnership`. The timer needs only that
a callback's version is that of a term whose deadline has passed.

**Runtime.** `GInv` says by phase of the group which jobs are up, `RInv` ties the phases
of `Run` to those of the group, the gate and the context. Every step of the process is a
step of the group or leaves it alone (`RuntimeDrivesGroup`), so what is proved of
`JobGroup` alone holds inside the runtime.

**Commands.** `CInv` is described at the head of the module: rows exist exactly when the
enqueue committed, the batch lock ties that to caller and closing, a worker's row is
PROCESSING or was reaped, timestamps order what does not overlap. It holds with any
number of live processes, and gives the caller's truth, device order, one worker per
message, and that decided rows and finished batches are final. The semaphore is accounted
for by `Slots`: the processor selects no more rows than it reserved slots, a claimed row
had no worker, and each way out gives back the rest. What the ledger promises needs more
and holds less widely: `DInv` says that the retry count a worker carries is still the
row's (`Fresh`), so that the status it computes for the device log is the one the row
gets (`Agrees`). That is true while one process is alive at a time, and the theorems
`ActivityIsTrue` and `CommandsKeepLedger` say `MaxLive = 1`; with a stalled process beside
its successor a claim may carry an older count than the row has, and a row can become
FAILED without a device log. `OneWorker`, `DeviceOrder` and the others do not depend on it.

**Updater.** `UInv` has, besides types: which records agree at which place of startup
and run (`Process`, `Identity`), what the deployment directories hold at each step of an
activation (`Deployments`), which marker lies there and of which operation (`Marker`,
`Markers`), and what must be installed and running when a success is on disk
(`Successes`). The theorems are for any number of operations, callers, failing writes and
crashes. **Self-update.** `SInv` follows the files through installation, handoff and
repair; one half (`Authority`) holds whatever fails, the other (`UntilSecondFault`) until
a second file operation fails.

**Fleet nodes.** `RegistryInv`: a command in flight is awaited, and an ack stays in its
channel. `AInv`: an OK ack of a pairing, anywhere on its way, means that every result was
stored, and a report is admitted, stored and published before the next. The agent's steps are steps of
a free node as `ControlRegistry` has it. The session's `SInv` orders row, fence and
streams: a revoked node holds no stream, and once the handshake that wrote the row is done
and the fence is not that of a revocation, the fence is the row's session or none and no
stream of another session is registered. **Telemetry scheduler.** The head of the
module gives the argument.

Only model-checked:

* liveness (every property under fairness), which these provers do not reach;
* the invariants of `ScheduleProcessor`, `TelemetryFlights` and `RolloutEnforcement`
  (`TimersCounted`, `WindowHolds`, `ClaimIsHeld`, `FreshSample`, `RetainedIsCurrent`,
  `ProvenanceIsTrue`) and their action properties (`ProcessorLeavesAlone`,
  `SendsAreAuthorized`, `HistoryStands`, `RiskWithinLimit`, `ReviewGateHolds`): no
  inductive invariant has been worked out for them yet.

## 5. States that nothing excludes

Two states the command path can reach are not excluded by anything the code says, so no
property speaks of them. A process that dies between saving a batch header and enqueueing
leaves a PENDING batch without messages for good. And the `.completed` activity entry of
a batch is lost with the process of its routine: its successor finishes the batch in
`FinishTerminalCommandBatches` but writes no entry.
