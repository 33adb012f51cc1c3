------------------------- MODULE ScheduleProcessor --------------------------
(***************************************************************************)
(* schedule.Processor: jobs registered from the table by a reconcile loop, *)
(* executions of jobs that fire, the loop that ends windows, and the       *)
(* activation that is started, stopped or lost with the process.           *)
(***************************************************************************)
EXTENDS ScheduleRow, FiniteSets

CONSTANTS
  Workers,      \* bound: executions at one time
  MaxGen,       \* bound: registrations of jobs in one activation
  MaxFaults,    \* bound: failing store calls
  MaxRefusals,  \* bound: failing target resolutions and dispatches
  MaxStops      \* bound: stops, aborts and losses of the process

VARIABLES
  act,      \* none, starting, running, stopping (admission closed), stopped (timers stopped)
  startup,  \* Start: recover, sync, or done
  aborted,  \* workCtx is cancelled: every store call and dispatch fails
  jobs,     \* per schedule: gen (0: no job), timing, armed (the timer or cron entry is pending)
  nextGen,
  timers,   \* timerWG
  exec,     \* per worker: an execution of a schedule
  sync,     \* syncSchedules: pc, and the timings read from the table (0: not active)
  check,    \* checkEndOfWindow: pc, and the schedules still to look at
  command,  \* history: the last command dispatched for a schedule
  faults, refusals, stops

memory == <<act, startup, aborted, jobs, nextGen, timers, exec, sync, check>>
bounds == <<faults, refusals, stops>>
vars == <<rowVars, memory, command, bounds>>

NoJob == [gen |-> 0, timing |-> 1, armed |-> FALSE]
Idle(s) == [pc |-> "idle", s |-> s, job |-> 0, gen |-> 0, past |-> FALSE]
NoRead == [s \in Schedules |-> 0]
AnySchedule == CHOOSE s \in Schedules : TRUE
Init ==
  /\ RowInit
  /\ act = "none" /\ startup = "done" /\ aborted = FALSE
  /\ jobs = [s \in Schedules |-> NoJob] /\ nextGen = 0 /\ timers = 0
  /\ exec = [w \in Workers |-> Idle(AnySchedule)]
  /\ sync = [pc |-> "idle", read |-> NoRead] /\ check = [pc |-> "idle", todo |-> {}]
  /\ command = [s \in Schedules |-> "none"]
  /\ faults = 0 /\ refusals = 0 /\ stops = 0

\* A call of the store works, or fails; with a cancelled context it fails.
Works == ~ aborted /\ UNCHANGED faults
Fails == IF aborted THEN UNCHANGED faults ELSE faults < MaxFaults /\ faults' = faults + 1
\* An update that fails may have been stored, unless its context was cancelled.
MaybeStored(update) == UNCHANGED row \/ (~ aborted /\ update)
Accepts == ~ aborted /\ UNCHANGED refusals
Refuses == IF aborted THEN UNCHANGED refusals ELSE refusals < MaxRefusals /\ refusals' = refusals + 1

Admits == act \in {"starting", "running"}
Running == {w \in Workers : exec[w].pc # "idle"}
-----------------------------------------------------------------------------
(* Jobs.  One that runs once has a timer, the others have a cron entry.    *)

\* Faulty variant: the count goes down whether or not the timer was stopped.
RemovedCounting(s) ==
  /\ jobs' = [jobs EXCEPT ![s] = NoJob]
  /\ timers' = timers - (IF s \in OneTime /\ jobs[s].gen # 0 THEN 1 ELSE 0)

\* removeJobLocked: a timer that could be stopped no longer counts.
removeJob(s) ==
  /\ jobs' = [jobs EXCEPT ![s] = NoJob]
  /\ timers' = timers - (IF s \in OneTime /\ jobs[s].armed THEN 1 ELSE 0)

removeJobIfCurrent(s, gen) ==
  IF gen # 0 /\ jobs[s].gen = gen THEN removeJob(s) ELSE UNCHANGED <<jobs, timers>>
-----------------------------------------------------------------------------
(* executeSchedule.                                                        *)

ExecFrame == UNCHANGED <<over, userOps, act, startup, aborted, nextGen, sync, check, stops>>
Goto(w, pc) == exec' = [exec EXCEPT ![w].pc = pc]
NoJobChange == UNCHANGED <<jobs, timers>>

\* A timer fires, or a cron entry whose last execution has returned.
Fire(s, w) ==
  /\ jobs[s].armed /\ exec[w].pc = "idle"
  /\ IF s \in OneTime
     THEN Admits /\ jobs[s].timing \in over[s]
     ELSE act = "running" /\ \A v \in Running : exec[v].s # s \/ exec[v].job # jobs[s].gen
  /\ exec' = [exec EXCEPT ![w] = [Idle(s) EXCEPT !.pc = "gen", !.job = jobs[s].gen]]
  /\ jobs' = [jobs EXCEPT ![s].armed = s \notin OneTime]
  /\ ExecFrame /\ UNCHANGED <<row, timers, command, faults, refusals>>

\* executeIfActive after the admission was closed.
FireTooLate(s) ==
  /\ s \in OneTime /\ jobs[s].armed /\ jobs[s].timing \in over[s] /\ act = "stopping"
  /\ jobs' = [jobs EXCEPT ![s].armed = FALSE] /\ timers' = timers - 1
  /\ ExecFrame /\ UNCHANGED <<row, exec, command, faults, refusals>>

currentJobGeneration(w) ==
  /\ exec[w].pc = "gen"
  /\ exec' = [exec EXCEPT ![w].pc = "set", ![w].gen = jobs[exec[w].s].gen]
  /\ ExecFrame /\ NoJobChange /\ UNCHANGED <<row, command, faults, refusals>>

SetRunning(w) ==
  LET s == exec[w].s IN
  /\ exec[w].pc = "set"
  /\ \/ /\ Works /\ row[s].status = "active"
        /\ SetScheduleRunning(s) /\ Goto(w, "read")
     \/ /\ Works /\ row[s].status # "active"
        /\ UNCHANGED row /\ Goto(w, "return")
     \/ /\ Fails /\ Goto(w, "return")
        /\ MaybeStored(row[s].status = "active" /\ SetScheduleRunning(s))
  /\ ExecFrame /\ NoJobChange /\ UNCHANGED <<command, refusals>>

\* GetScheduleByID, and its dates: not begun, past the end date, or on.
ReadRow(w) ==
  LET s == exec[w].s IN
  /\ exec[w].pc = "read"
  /\ \/ Fails /\ Goto(w, "revert")
     \/ Works /\ row[s].status = "deleted" /\ Goto(w, "revert")
     \/ Works /\ row[s].status # "deleted" /\ ~ NoNextRun(s) /\ Goto(w, "early")
     \/ Works /\ row[s].status # "deleted" /\ NoNextRun(s) /\ s \notin OneTime /\ Goto(w, "complete")
     \/ /\ Works /\ row[s].status # "deleted"
        /\ exec' = [exec EXCEPT ![w].pc = "dispatch", ![w].past = NoNextRun(s)]
  /\ ExecFrame /\ NoJobChange /\ UNCHANGED <<row, command, refusals>>

\* resolveTargets, and dispatch unless there is no device.
Dispatch(w) ==
  LET s == exec[w].s IN
  /\ exec[w].pc = "dispatch"
  /\ \/ Accepts /\ Goto(w, "after") /\ command' = [command EXCEPT ![s] = "run"]
     \/ Accepts /\ Goto(w, "after") /\ command' = [command EXCEPT ![s] = "none"]
     \/ Refuses /\ Goto(w, "revert") /\ UNCHANGED command
  /\ ExecFrame /\ NoJobChange /\ UNCHANGED <<row, faults>>

\* The status updateAfterRun stores: a window stays running until its end.
StatusAfterRun(s, past) ==
  IF s \in Window THEN "running" ELSE IF past THEN "completed" ELSE "active"
LastRun(s) == IF s \in Window THEN "open" ELSE "none"  \* only windows look at it

\* updateAfterRunWithGeneration and transitionToCompletedWithGeneration.
UpdateAfterRun(w) ==
  LET s == exec[w].s
      status == IF exec[w].pc = "complete" THEN "completed" ELSE StatusAfterRun(s, exec[w].past) IN
  /\ exec[w].pc \in {"after", "complete"}
  /\ \/ /\ Works /\ UpdateScheduleAfterRun(s, status, LastRun(s))
        /\ Goto(w, IF status = "completed" THEN "drop" ELSE "return")
     \/ /\ Fails /\ Goto(w, "revert")
        /\ MaybeStored(UpdateScheduleAfterRun(s, status, LastRun(s)))
  /\ ExecFrame /\ NoJobChange /\ UNCHANGED <<command, refusals>>

\* RevertScheduleToActive; before the start date the job stays.
RevertRow(w) ==
  LET s == exec[w].s IN
  /\ exec[w].pc \in {"revert", "early"}
  /\ \/ /\ Works /\ RevertScheduleToActive(s)
        /\ Goto(w, IF exec[w].pc = "early" THEN "return" ELSE "retry")
     \/ /\ Fails /\ Goto(w, "return")
        /\ MaybeStored(RevertScheduleToActive(s))
  /\ ExecFrame /\ NoJobChange /\ UNCHANGED <<command, refusals>>

removeJobForRetry(w) ==
  /\ exec[w].pc = "retry" /\ removeJobIfCurrent(exec[w].s, exec[w].gen) /\ Goto(w, "return")
  /\ ExecFrame /\ UNCHANGED <<row, command, faults, refusals>>

RemoveCompleted(w) ==
  /\ exec[w].pc = "drop" /\ removeJob(exec[w].s) /\ Goto(w, "return")
  /\ ExecFrame /\ UNCHANGED <<row, command, faults, refusals>>

Return(w) ==
  /\ exec[w].pc = "return" /\ exec' = [exec EXCEPT ![w] = Idle(AnySchedule)]
  /\ timers' = timers - (IF exec[w].s \in OneTime THEN 1 ELSE 0)
  /\ ExecFrame /\ UNCHANGED <<row, jobs, command, faults, refusals>>

executeSchedule(w) ==
  \/ currentJobGeneration(w) \/ SetRunning(w) \/ ReadRow(w) \/ Dispatch(w) \/ UpdateAfterRun(w)
  \/ RevertRow(w) \/ removeJobForRetry(w) \/ RemoveCompleted(w) \/ Return(w)
-----------------------------------------------------------------------------
(* syncSchedules, at startup and in the reconcile loop.                    *)

LoopFrame == UNCHANGED <<rowVars, exec, command, refusals, stops>>
SyncIdle == [pc |-> "idle", read |-> NoRead]

\* A failing startup closes the admission and stops what it began.
SyncRead ==
  /\ sync.pc = "idle"
  /\ \/ act = "running"
     \/ act = "starting" /\ startup = "sync"
  /\ \/ /\ Works /\ UNCHANGED <<act, startup>>
        /\ sync' = [pc |-> "apply", read |-> [s \in Schedules |-> IF s \in Active THEN row[s].timing ELSE 0]]
     \/ /\ Fails /\ UNCHANGED sync
        /\ IF startup = "sync" THEN act' = "stopping" /\ startup' = "done" ELSE UNCHANGED <<act, startup>>
  /\ LoopFrame /\ UNCHANGED <<aborted, jobs, nextGen, timers, check>>

\* Which jobs the diff registers, and which it removes, those replaced included.
Registers == {s \in Schedules : sync.read[s] # 0 /\ (jobs[s].gen = 0 \/ jobs[s].timing # sync.read[s])}
Removes == {s \in Schedules : jobs[s].gen # 0 /\ jobs[s].timing # sync.read[s]}

Order(S) == CHOOSE f \in [S -> 1..Cardinality(S)] : \A s, t \in S : s # t => f[s] # f[t]
SyncApply ==
  /\ sync.pc = "apply" /\ sync' = SyncIdle
  /\ nextGen + Cardinality(Registers) <= MaxGen
  /\ nextGen' = nextGen + Cardinality(Registers)
  /\ jobs' = [s \in Schedules |->
       IF s \in Registers
       THEN [gen |-> nextGen + Order(Registers)[s], timing |-> sync.read[s], armed |-> TRUE]
       ELSE IF s \in Removes THEN NoJob ELSE jobs[s]]
  /\ timers' = timers + Cardinality(Registers \cap OneTime)
                      - Cardinality({s \in Removes \cap OneTime : jobs[s].armed})
  /\ IF startup = "sync"
     THEN /\ startup' = "done"
          /\ act' = (IF act = "starting" THEN "running" ELSE act)
     ELSE UNCHANGED <<act, startup>>
  /\ LoopFrame /\ UNCHANGED <<aborted, check, faults>>
-----------------------------------------------------------------------------
(* checkEndOfWindow.                                                       *)

CheckFrame == UNCHANGED <<over, userOps, act, startup, aborted, nextGen, exec, sync, stops>>
CheckNext(s) == check' = [pc |-> IF check.todo = {s} THEN "idle" ELSE "each", todo |-> check.todo \ {s}]

\* Faulty variant: windows without a next run are passed over.
CheckReadNext ==
  LET ended == {s \in Window : row[s].status = "running" /\ row[s].last = "over" /\ ~ NoNextRun(s)} IN
  /\ act = "running" /\ check.pc = "idle" /\ Works /\ ended # {}
  /\ check' = [pc |-> "each", todo |-> ended]
  /\ CheckFrame /\ NoJobChange /\ UNCHANGED <<row, command, refusals>>

\* The running windows that have ended; one without a last run has not begun.
CheckRead ==
  LET ended == {s \in Window : row[s].status = "running" /\ row[s].last = "over"} IN
  /\ act = "running" /\ check.pc = "idle" /\ Works /\ ended # {}
  /\ check' = [pc |-> "each", todo |-> ended]
  /\ CheckFrame /\ NoJobChange /\ UNCHANGED <<row, command, refusals>>

DispatchRevert(s) ==
  /\ check.pc = "each" /\ s \in check.todo
  /\ \/ /\ Accepts /\ command' = [command EXCEPT ![s] = "revert"]
        /\ check' = [check EXCEPT !.pc = "update"]
     \/ Refuses /\ CheckNext(s) /\ UNCHANGED command
  /\ CheckFrame /\ NoJobChange /\ UNCHANGED <<row, faults>>

\* Faulty variant: the last run is kept.
RevertKeepingLast(s) ==
  LET status == IF NoNextRun(s) THEN "completed" ELSE "active" IN
  /\ check.pc = "update" /\ s \in check.todo /\ CheckNext(s)
  /\ Works /\ UpdateScheduleAfterRun(s, status, row[s].last) /\ NoJobChange
  /\ CheckFrame /\ UNCHANGED <<command, refusals>>

\* revertToActive forgets the last run; without a next one the schedule is over.
revertToActive(s) ==
  LET status == IF NoNextRun(s) THEN "completed" ELSE "active" IN
  /\ check.pc = "update" /\ s \in check.todo /\ CheckNext(s)
  /\ \/ /\ Works /\ UpdateScheduleAfterRun(s, status, "none")
        /\ IF status = "completed" THEN removeJob(s) ELSE NoJobChange
     \/ /\ Fails /\ NoJobChange
        /\ MaybeStored(UpdateScheduleAfterRun(s, status, "none"))
  /\ CheckFrame /\ UNCHANGED <<command, refusals>>
-----------------------------------------------------------------------------
(* The activation.                                                         *)

LifeFrame == UNCHANGED <<rowVars, command, refusals>>

Start ==
  /\ act = "none" /\ act' = "starting" /\ startup' = "recover"
  /\ LifeFrame /\ UNCHANGED <<aborted, jobs, nextGen, timers, exec, sync, check, faults, stops>>

\* recoverStaleRunning: what was running is active again, except a window that
\* has a last run.
recoverStaleRunning ==
  LET stale == {s \in Schedules : row[s].status = "running" /\ ~ (s \in Window /\ row[s].last # "none")}
      reset(S) == row' = [s \in Schedules |-> IF s \in S THEN [row[s] EXCEPT !.status = "active"] ELSE row[s]] IN
  /\ startup = "recover"
  /\ \/ act = "starting" /\ Works /\ reset(stale) /\ startup' = "sync" /\ UNCHANGED act
     \/ /\ \/ act = "stopping" /\ UNCHANGED faults
           \/ act = "starting" /\ Fails
        /\ \E S \in SUBSET stale : reset(S)
        /\ act' = "stopping" /\ startup' = "done"
  /\ UNCHANGED <<over, userOps, aborted, jobs, nextGen, timers, exec, sync, check, command, refusals, stops>>

\* Stop: the admission closes; Abort, or a deadline, cancels the admitted work.
Stop ==
  /\ Admits /\ stops < MaxStops /\ stops' = stops + 1 /\ act' = "stopping"
  /\ startup' = (IF startup = "sync" /\ sync.pc = "idle" THEN "done" ELSE startup)
  /\ aborted' \in BOOLEAN
  /\ LifeFrame /\ UNCHANGED <<jobs, nextGen, timers, exec, sync, check, faults>>

\* finishStop once startup, the cron executions and the two loops have ended.
StopTimers ==
  /\ act = "stopping" /\ startup = "done" /\ sync.pc = "idle" /\ check.pc = "idle"
  /\ \A w \in Running : exec[w].s \in OneTime
  /\ act' = "stopped"
  /\ jobs' = [s \in Schedules |-> IF s \in OneTime THEN [jobs[s] EXCEPT !.armed = FALSE] ELSE jobs[s]]
  /\ timers' = timers - Cardinality({s \in OneTime : jobs[s].armed})
  /\ LifeFrame /\ UNCHANGED <<startup, aborted, nextGen, exec, sync, check, faults, stops>>

finishStop ==
  /\ act = "stopped" /\ timers = 0 /\ act' = "none" /\ aborted' = FALSE
  /\ jobs' = [s \in Schedules |-> NoJob] /\ nextGen' = 0
  /\ LifeFrame /\ UNCHANGED <<startup, timers, exec, sync, check, faults, stops>>

\* The process is lost; only the table stays.
Crash ==
  /\ act # "none" /\ stops < MaxStops /\ stops' = stops + 1
  /\ act' = "none" /\ startup' = "done" /\ aborted' = FALSE
  /\ jobs' = [s \in Schedules |-> NoJob] /\ nextGen' = 0 /\ timers' = 0
  /\ exec' = [w \in Workers |-> Idle(AnySchedule)]
  /\ sync' = SyncIdle /\ check' = [pc |-> "idle", todo |-> {}]
  /\ LifeFrame /\ UNCHANGED faults
-----------------------------------------------------------------------------
Loops ==
  \/ SyncRead \/ SyncApply \/ CheckRead
  \/ \E s \in Schedules : DispatchRevert(s) \/ revertToActive(s)
Lifecycle == Start \/ recoverStaleRunning \/ StopTimers \/ finishStop
Environment == \E s \in Schedules : User(s) \/ TimePasses(s) \/ WindowEnds(s)

Next ==
  \/ \E w \in Workers : executeSchedule(w) \/ \E s \in Schedules : Fire(s, w)
  \/ \E s \in Schedules : FireTooLate(s)
  \/ Loops \/ Lifecycle \/ Stop \/ Crash
  \/ Environment /\ UNCHANGED <<memory, command, bounds>>

\* Timers fire, the executions and loops go on, a stopped process is started
\* again, and windows end.
Fairness ==
  /\ \A w \in Workers : WF_vars(executeSchedule(w))
  /\ \A s \in Schedules : WF_vars(\E w \in Workers : Fire(s, w)) /\ WF_vars(FireTooLate(s))
  /\ \A s \in Schedules : WF_vars(WindowEnds(s) /\ UNCHANGED <<memory, command, bounds>>)
  /\ WF_vars(SyncRead) /\ WF_vars(SyncApply) /\ WF_vars(Lifecycle)
  /\ WF_vars(CheckRead) /\ WF_vars(\E s \in Schedules : DispatchRevert(s) \/ revertToActive(s))

Spec == Init /\ [][Next]_vars
FairSpec == Spec /\ Fairness
-----------------------------------------------------------------------------
(* Properties.                                                             *)

TypeOK ==
  /\ RowTypeOK
  /\ act \in {"none", "starting", "running", "stopping", "stopped"}
  /\ startup \in {"recover", "sync", "done"} /\ aborted \in BOOLEAN
  /\ jobs \in [Schedules -> [gen : 0..MaxGen, timing : 1..MaxEdits, armed : BOOLEAN]]
  /\ nextGen \in 0..MaxGen /\ timers \in Nat
  /\ \A w \in Workers : exec[w].s \in Schedules /\ exec[w].gen \in 0..MaxGen
  /\ command \in [Schedules -> {"none", "run", "revert"}]

\* timerWG, which a stop waits for, counts the timers that can still fire and
\* the callbacks that run, across fires, replacements, removals and stops.
TimersCounted ==
  timers = Cardinality({s \in OneTime : jobs[s].armed})
         + Cardinality({w \in Running : exec[w].s \in OneTime})

\* A schedule that its user paused, that was deleted or that is completed is not
\* brought back by an execution or a check that began before.
ProcessorLeavesAlone ==
  [][\A s \in Schedules : row[s].status \notin {"active", "running"} =>
       row'[s].status = row[s].status \/ User(s)]_vars

\* No user has paused, edited or deleted a schedule.
Untouched == userOps = 0

\* "legitimately running": while a window is open that no user has touched, the
\* last command dispatched for it is the one that opened it.
WindowHolds ==
  \A s \in Window : row[s].status = "running" /\ row[s].last = "open" /\ Untouched => command[s] # "revert"

\* A window that has ended is reverted.
WindowReverts == \A s \in Schedules :
  (s \in Window /\ row[s].status = "running" /\ row[s].last = "over")
    ~> (row[s].status # "running" \/ row[s].last # "over")
=============================================================================
