------------------------- MODULE TelemetryScheduler -------------------------
(***************************************************************************)
(* How one device keeps being polled: the scheduler's three maps, each     *)
(* with its own synchronisation, the routines that take the device out of  *)
(* the queue and put it back, the failure count that takes it out of the   *)
(* rotation, the status polls that bring it back, and pairing and          *)
(* unpairing next to all of them.  The claim of inFlight is exclusive and  *)
(* released by its holder, which TelemetryFlights shows.                   *)
(***************************************************************************)
EXTENDS Naturals

CONSTANTS
  Workers,        \* the workers
  Refreshers,     \* callers of RefreshDevice
  Adders,         \* callers of AddDevices: "loader" (devicePollingRoutine) and "pairing"
  Limit,          \* ConcurrencyLimit, the capacity of tasks
  MaxFailures,    \* MaxConsecutiveFailures
  MaxUnpairs,     \* bound: calls of RemoveDevices
  Events,         \* what may happen besides: "overlap" (pairing during the call of RemoveDevices),
                  \* "stop", "down", "busy" (of the miner), "lossy" (a status result dropped or not written)
  None

ASSUME SchedulerAssumption ==
  /\ Limit \in Nat \ {0} /\ MaxFailures \in Nat \ {0} /\ "loader" \in Adders /\ Adders \subseteq {"loader", "pairing"}
  /\ Workers \cap Refreshers = {} /\ None \notin Workers \cup Refreshers
  /\ MaxUnpairs \in Nat /\ Events \subseteq {"overlap", "stop", "down", "busy", "lossy"}

Procs == Workers \cup Refreshers

VARIABLES
  world,    \* paired: in the database; unpairs so far; miner: what a call of it meets; state: of the activation
  sched,    \* managed: absent, queued, out; devices: in the queue; failures
  service,  \* tracked: in devicesForStatusPolling; awaiting: awaitingInitialTelemetry; active: its last known
            \* status; unsaved: the status writer's pending update
  queue,    \* batch: gatherMetricsRoutine's; tasks: the channel; status: a status task with its claim
  claim,    \* who holds the device in inFlight
  proc,     \* per worker or refresher: pc, kind, had (it was awaiting), count, busy (resource exhausted)
  adder,    \* per caller of AddDevices: pc
  remover,  \* pc of the caller of RemoveDevices
  poller    \* pc of statusPollingRoutine

vars == <<world, sched, service, queue, claim, proc, adder, remover, poller>>

Idle == [pc |-> "idle", kind |-> "none", had |-> FALSE, count |-> 0, busy |-> FALSE]
Running == world.state = "running"
Stopping == world.state = "stopping"
\* A failure count that became the time of the failure.
HasFailed == sched.failures = MaxFailures

Worlds == [paired : BOOLEAN, miner : {"up", "down", "busy"}, state : {"stopped", "running", "stopping"},
           unpairs : 0..MaxUnpairs]
Schedules == [managed : {"absent", "queued", "out"}, devices : BOOLEAN, failures : 0..MaxFailures]
Services == [tracked : BOOLEAN, awaiting : BOOLEAN, active : BOOLEAN, unsaved : {"none", "active", "other"}]
Queues == [batch : BOOLEAN, tasks : 0..Limit, status : BOOLEAN]
ProcStates ==
  [pc : {"idle", "try", "admit", "fetch", "clear", "add", "requeue", "read", "write", "send", "restore", "release"},
   kind : {"none", "full", "status", "refresh", "skip"}, had : BOOLEAN, count : 0..MaxFailures, busy : BOOLEAN]

\* Types, with the capacity of the channel.
TypeOK ==
  /\ world \in Worlds /\ sched \in Schedules /\ service \in Services /\ queue \in Queues
  /\ claim \in Procs \cup {"status", None} /\ proc \in [Procs -> ProcStates]
  /\ adder \in [Adders -> {"idle", "track", "await", "manage", "queue"}]
  /\ remover \in {"idle", "untrack", "forget", "unmanage"} /\ poller \in {"idle", "try", "won"}

Init ==
  /\ world \in [paired : BOOLEAN, miner : {"up"}, state : {"stopped"}, unpairs : {0}]
  /\ sched = [managed |-> "absent", devices |-> FALSE, failures |-> 0]
  /\ service = [tracked |-> FALSE, awaiting |-> FALSE, active |-> FALSE, unsaved |-> "none"]
  /\ queue = [batch |-> FALSE, tasks |-> 0, status |-> FALSE] /\ claim = None
  /\ proc = [p \in Procs |-> Idle] /\ adder = [a \in Adders |-> "idle"]
  /\ remover = "idle" /\ poller = "idle"
-----------------------------------------------------------------------------
(* The scheduler.                                                          *)

\* addDevices, under mu: a device that is absent or queued already is left alone.
addDevices(s) == IF s.managed = "out" THEN [s EXCEPT !.managed = "queued", !.devices = TRUE] ELSE s

\* AddDevices, by a caller that does not stop between its two steps.
AddedAtOnce == addDevices([sched EXCEPT !.failures = 0])

\* FetchDevices, under mu.
Fetched == [sched EXCEPT !.managed = "out", !.devices = FALSE]

\* RemoveDevices, under mu.  An absent device ends it, this one or one named
\* before it in the same call, which leaves this one managed.  failedDevices is
\* kept.
Unmanaged == {sched, [sched EXCEPT !.managed = "absent", !.devices = FALSE]}
-----------------------------------------------------------------------------
(* AddDevices and RemoveDevices of the service.                            *)

ServiceFrame == UNCHANGED <<queue, claim, proc, poller>>
Goes(a, from, to) == adder[a] = from /\ adder' = [adder EXCEPT ![a] = to]

\* loadPairedDevices reads the database, then calls AddDevices.
loadPairedDevices ==
  /\ Running /\ world.paired /\ Goes("loader", "idle", "track")
  /\ ServiceFrame /\ UNCHANGED <<world, sched, service, remover>>

\* By way of a caller that adds the device at once, or leaves it to the loader.
Pair ==
  /\ ~world.paired /\ world' = [world EXCEPT !.paired = TRUE] /\ (remover = "idle" \/ "overlap" \in Events)
  /\ IF "pairing" \in Adders THEN Goes("pairing", "idle", "track") ELSE UNCHANGED adder
  /\ ServiceFrame /\ UNCHANGED <<sched, service, remover>>

AddDevices(a) ==
  /\ \/ /\ Goes(a, "track", IF service.tracked THEN "manage" ELSE "await")
        /\ service' = [service EXCEPT !.tracked = TRUE] /\ UNCHANGED sched
     \/ Goes(a, "await", "manage") /\ service' = [service EXCEPT !.awaiting = TRUE] /\ UNCHANGED sched
  /\ ServiceFrame /\ UNCHANGED <<world, remover>>

\* AddNewDevices: LoadOrStore in managedDevices, then devices under mu.
AddNewDevices(a) ==
  /\ \/ /\ Goes(a, "manage", IF sched.managed = "absent" THEN "queue" ELSE "idle")
        /\ sched' = [sched EXCEPT !.managed = IF @ = "absent" THEN "queued" ELSE @]
     \/ Goes(a, "queue", "idle") /\ sched' = [sched EXCEPT !.devices = TRUE]
  /\ ServiceFrame /\ UNCHANGED <<world, service, remover>>

Unpair ==
  /\ world.unpairs < MaxUnpairs /\ world.paired /\ remover = "idle"
  /\ world' = [world EXCEPT !.paired = FALSE, !.unpairs = @ + 1] /\ remover' = "untrack"
  /\ ServiceFrame /\ UNCHANGED <<sched, service, adder>>

RemoveDevices ==
  /\ \/ /\ remover = "untrack" /\ remover' = "forget"
        /\ service' = [service EXCEPT !.tracked = FALSE] /\ UNCHANGED sched
     \/ /\ remover = "forget" /\ remover' = "unmanage"
        /\ service' = [service EXCEPT !.awaiting = FALSE, !.active = FALSE] /\ UNCHANGED sched
     \/ remover = "unmanage" /\ remover' = "idle" /\ sched' \in Unmanaged /\ UNCHANGED service
  /\ ServiceFrame /\ UNCHANGED <<world, adder>>
-----------------------------------------------------------------------------
(* The routines that make polls.                                           *)

RoutineFrame == UNCHANGED <<world, adder, remover>>

gatherMetricsRoutine ==
  /\ Running /\ sched.devices /\ ~queue.batch
  /\ sched' = Fetched /\ queue' = [queue EXCEPT !.batch = TRUE]
  /\ RoutineFrame /\ UNCHANGED <<service, claim, proc, poller>>

\* Faulty variant: what was fetched is dropped when the routine is cancelled.
GatherDrops ==
  /\ queue.batch
  /\ \/ queue.tasks < Limit /\ queue' = [queue EXCEPT !.batch = FALSE, !.tasks = @ + 1]
     \/ Stopping /\ queue' = [queue EXCEPT !.batch = FALSE]
  /\ RoutineFrame /\ UNCHANGED <<sched, service, claim, proc, poller>>

\* What was fetched is sent, or put back when the routine is cancelled.
GatherSends ==
  /\ queue.batch
  /\ \/ queue.tasks < Limit /\ queue' = [queue EXCEPT !.batch = FALSE, !.tasks = @ + 1] /\ UNCHANGED sched
     \/ Stopping /\ queue' = [queue EXCEPT !.batch = FALSE] /\ sched' = AddedAtOnce
  /\ RoutineFrame /\ UNCHANGED <<service, claim, proc, poller>>

\* Faulty variant: a device last seen active is skipped, failed or not.
EligibleByStatus == service.tracked /\ (service.awaiting => HasFailed) /\ ~service.active

\* A device awaiting its first poll, or last seen active, is polled only when
\* it has failed.
Eligible == service.tracked /\ ((service.awaiting \/ service.active) => HasFailed)

statusPollingRoutine ==
  /\ Running /\ poller = "idle" /\ Eligible /\ poller' = "try"
  /\ RoutineFrame /\ UNCHANGED <<sched, service, queue, claim, proc>>

PollerClaims ==
  /\ \/ poller = "try" /\ claim = None /\ claim' = "status" /\ poller' = "won" /\ UNCHANGED queue
     \/ poller = "try" /\ claim # None /\ poller' = "idle" /\ UNCHANGED <<claim, queue>>
     \/ poller = "won" /\ poller' = "idle" /\ queue' = [queue EXCEPT !.status = TRUE] /\ UNCHANGED claim
     \/ poller = "won" /\ Stopping /\ poller' = "idle" /\ claim' = None /\ UNCHANGED queue
  /\ RoutineFrame /\ UNCHANGED <<sched, service, proc>>

\* statusWriterRoutine's flush: the update is written and remembered,
FlushStatus ==
  /\ service.unsaved # "none"
  /\ service' = [service EXCEPT !.active = (service.unsaved = "active"), !.unsaved = "none"]
  /\ RoutineFrame /\ UNCHANGED <<sched, queue, claim, proc, poller>>

\* or given up, when the write fails or the row is another service's to write.
FlushGivesUp ==
  /\ "lossy" \in Events /\ service.unsaved # "none" /\ service' = [service EXCEPT !.unsaved = "none"]
  /\ RoutineFrame /\ UNCHANGED <<sched, queue, claim, proc, poller>>
-----------------------------------------------------------------------------
(* The workers, and RefreshDevice, which runs a poll itself.               *)

ProcFrame == UNCHANGED <<world, adder, remover, poller>>
Step(p, from, r) == proc[p].pc = from /\ proc' = [proc EXCEPT ![p] = r]
To(p, from, to) == Step(p, from, [proc[p] EXCEPT !.pc = to])

TakeTask(w) ==
  /\ queue.tasks > 0 /\ queue' = [queue EXCEPT !.tasks = @ - 1]
  /\ Step(w, "idle", [Idle EXCEPT !.pc = "try", !.kind = "full"])
  /\ ProcFrame /\ UNCHANGED <<sched, service, claim>>

TakeStatusTask(w) ==
  /\ queue.status /\ queue' = [queue EXCEPT !.status = FALSE]
  /\ Step(w, "idle", [Idle EXCEPT !.pc = "fetch", !.kind = "status"])
  /\ ProcFrame /\ UNCHANGED <<sched, service, claim>>

RefreshDevice(r) ==
  /\ Running /\ Step(r, "idle", [Idle EXCEPT !.pc = "try", !.kind = "refresh"])
  /\ ProcFrame /\ UNCHANGED <<sched, service, queue, claim>>

Claims(p) ==
  /\ claim = None /\ claim' = p /\ To(p, "try", IF proc[p].kind = "full" THEN "admit" ELSE "fetch")
  /\ ProcFrame /\ UNCHANGED <<sched, service, queue>>

\* A claimed device: the worker puts the task back, as AddDevices does; the
\* refresher waits, or gives up.
Skips(p) ==
  /\ claim # None
  /\ \/ p \in Workers /\ Step(p, "try", [Idle EXCEPT !.pc = "clear", !.kind = "skip"])
     \/ p \in Refreshers /\ Step(p, "try", Idle)
  /\ ProcFrame /\ UNCHANGED <<sched, service, queue, claim>>

Admits(w) ==
  /\ Step(w, "admit", [proc[w] EXCEPT !.pc = "fetch", !.had = service.awaiting])
  /\ service' = [service EXCEPT !.awaiting = FALSE]
  /\ ProcFrame /\ UNCHANGED <<sched, queue, claim>>

\* What the miner answers; cancelled, it is an error.
Answers == {world.miner} \cup (IF Stopping THEN {"down"} ELSE {})

\* collectTelemetryFromDevice: RequeueDevices when the node is saturated,
\* AddFailedDevices without a miner to ask or with another's metrics, and
\* AddDevices otherwise, whether or not the miner gave metrics.
Fetches(p) ==
  /\ proc[p].kind \in {"full", "refresh"}
  /\ \E a \in Answers :
       \/ a \in {"up", "down"} /\ To(p, "fetch", "clear")
       \/ a = "busy" /\ Step(p, "fetch", [proc[p] EXCEPT !.pc = "requeue", !.busy = TRUE])
       \/ a = "down" /\ To(p, "fetch", "read")
  /\ ProcFrame /\ UNCHANGED <<sched, service, queue, claim>>

\* processStatusOnly: a failed device that is up goes back to the scheduler.
FetchesStatus(w) ==
  /\ proc[w].kind = "status"
  /\ \E a \in Answers :
       \/ a = "up" /\ To(w, "fetch", IF HasFailed THEN "clear" ELSE "send")
       \/ a = "down" /\ To(w, "fetch", "send")
       \/ a = "busy" /\ To(w, "fetch", "release")
  /\ ProcFrame /\ UNCHANGED <<sched, service, queue, claim>>

\* AddDevices forgets the failures first.
ClearsFailures(p) ==
  /\ To(p, "clear", "add") /\ sched' = [sched EXCEPT !.failures = 0]
  /\ ProcFrame /\ UNCHANGED <<service, queue, claim>>

\* Then it adds the device.  To collectTelemetryFromDevice an absent device is
\* a failure.
Adds(p) ==
  /\ sched' = addDevices(sched)
  /\ \/ proc[p].kind = "skip" /\ Step(p, "add", Idle)
     \/ proc[p].kind = "status" /\ To(p, "add", "send")
     \/ /\ proc[p].kind \in {"full", "refresh"}
        /\ To(p, "add", IF sched.managed = "absent" THEN "read" ELSE "send")
  /\ ProcFrame /\ UNCHANGED <<service, queue, claim>>

\* RequeueDevices, and the last step of AddFailedDevices.
Requeues(p) ==
  /\ sched' = addDevices(sched) /\ To(p, "requeue", IF proc[p].busy THEN "restore" ELSE "send")
  /\ ProcFrame /\ UNCHANGED <<service, queue, claim>>

\* AddFailedDevices reads the count; one that is a time ends it.
ReadsFailures(p) ==
  /\ Step(p, "read", [proc[p] EXCEPT !.count = sched.failures,
                                     !.pc = IF HasFailed THEN "send" ELSE "write"])
  /\ ProcFrame /\ UNCHANGED <<sched, service, queue, claim>>

\* It stores the next count; at the limit the time, and the device stays out.
WritesFailures(p) ==
  /\ sched' = [sched EXCEPT !.failures = proc[p].count + 1]
  /\ To(p, "write", IF proc[p].count + 1 >= MaxFailures THEN "send" ELSE "requeue")
  /\ ProcFrame /\ UNCHANGED <<service, queue, claim>>

\* The status goes to the writer,
SendsStatus(p) ==
  /\ To(p, "send", "restore")
  /\ \E a \in Answers \ {"busy"} : service' = [service EXCEPT !.unsaved = IF a = "up" THEN "active" ELSE "other"]
  /\ ProcFrame /\ UNCHANGED <<sched, queue, claim>>

\* unless its channel is full, or the node is saturated when it is asked for a
\* status that did not come with metrics.
DropsStatus(p) ==
  /\ \E a \in Answers : /\ (a = "busy" \/ "lossy" \in Events)
                         /\ Step(p, "send", [proc[p] EXCEPT !.pc = "restore", !.busy = (a = "busy")])
  /\ ProcFrame /\ UNCHANGED <<sched, service, queue, claim>>

\* A first poll that met a saturated node is still awaited.
Restores(p) ==
  /\ To(p, "restore", "release")
  /\ service' = [service EXCEPT !.awaiting = @ \/ (proc[p].kind = "full" /\ proc[p].had /\ proc[p].busy)]
  /\ ProcFrame /\ UNCHANGED <<sched, queue, claim>>

Releases(p) ==
  /\ Step(p, "release", Idle) /\ claim' = None
  /\ ProcFrame /\ UNCHANGED <<sched, service, queue>>
-----------------------------------------------------------------------------
(* The activation and the miner.                                           *)

Start ==
  /\ world.state = "stopped" /\ world' = [world EXCEPT !.state = "running"]
  /\ UNCHANGED <<sched, service, queue, claim, proc, adder, remover, poller>>

Stop ==
  /\ "stop" \in Events /\ Running /\ world' = [world EXCEPT !.state = "stopping"]
  /\ UNCHANGED <<sched, service, queue, claim, proc, adder, remover, poller>>

\* Everything of the activation has ended, its writer last; tasks go back to
\* the scheduler, a status task gives up its claim.
finishActivation ==
  /\ Stopping /\ ~queue.batch /\ poller = "idle" /\ adder["loader"] = "idle" /\ \A p \in Procs : proc[p] = Idle
  /\ service.unsaved = "none"
  /\ world' = [world EXCEPT !.state = "stopped"]
  /\ sched' = IF queue.tasks > 0 THEN AddedAtOnce ELSE sched
  /\ claim' = IF queue.status THEN None ELSE claim
  /\ queue' = [batch |-> FALSE, tasks |-> 0, status |-> FALSE]
  /\ UNCHANGED <<service, proc, adder, remover, poller>>

MinerChanges ==
  /\ \E m \in {"up", "down", "busy"} : (m = "up" \/ m \in Events) /\ world' = [world EXCEPT !.miner = m]
  /\ UNCHANGED <<sched, service, queue, claim, proc, adder, remover, poller>>

WorkerStep(w) == Admits(w) \/ FetchesStatus(w)
Works(p) ==
  \/ Skips(p) \/ Fetches(p) \/ ClearsFailures(p) \/ Adds(p) \/ Requeues(p) \/ ReadsFailures(p)
  \/ WritesFailures(p) \/ SendsStatus(p) \/ DropsStatus(p) \/ Restores(p) \/ Releases(p)
Adding(a) == AddDevices(a) \/ AddNewDevices(a)

Next ==
  \/ loadPairedDevices \/ Pair \/ Unpair \/ RemoveDevices
  \/ gatherMetricsRoutine \/ GatherSends \/ statusPollingRoutine \/ PollerClaims \/ FlushStatus \/ FlushGivesUp
  \/ \E a \in Adders : Adding(a)
  \/ \E r \in Refreshers : RefreshDevice(r)
  \/ \E w \in Workers : TakeTask(w) \/ TakeStatusTask(w) \/ WorkerStep(w)
  \/ \E p \in Procs : Claims(p) \/ Works(p)
  \/ Start \/ Stop \/ finishActivation \/ MinerChanges

Spec == Init /\ [][Next]_vars

\* The routines, the workers and the callers go on, and the tickers tick.  A
\* select takes either channel at some turn when both are ready at every turn.
\* The channel of status results is not full, and the write of a status does
\* not fail, each and every time.  A poll that is tried again and again finds
\* the device unclaimed at some try if it is unclaimed during tries again and
\* again.
Fairness ==
  /\ WF_vars(loadPairedDevices) /\ WF_vars(RemoveDevices) /\ WF_vars(gatherMetricsRoutine) /\ WF_vars(GatherSends)
  /\ WF_vars(statusPollingRoutine) /\ WF_vars(PollerClaims) /\ SF_vars(FlushStatus) /\ WF_vars(finishActivation)
  /\ \A a \in Adders : WF_vars(Adding(a))
  /\ \A w \in Workers : WF_vars(WorkerStep(w)) /\ SF_vars(TakeTask(w)) /\ SF_vars(TakeStatusTask(w))
  /\ \A p \in Procs : SF_vars(Claims(p)) /\ WF_vars(Works(p)) /\ SF_vars(SendsStatus(p))

FairSpec == Spec /\ Fairness
-----------------------------------------------------------------------------
(* Properties.                                                             *)

\* Someone has the task of putting the device back, or has just taken it.
InHand == \/ queue.batch \/ queue.tasks > 0
          \/ \E a \in Adders : adder[a] = "queue"
          \/ \E p \in Procs : \/ proc[p].pc \in {"clear", "add", "requeue"}
                              \/ /\ proc[p].kind = "full"
                                 /\ proc[p].pc \in {"try", "admit", "fetch", "read", "write"}

\* A device the scheduler manages is in its queue, in someone's hands, or
\* failed, and then status polls look after it: nothing loses it, not a poll
\* skipped because of another claim, not a shutdown with polls fetched but not
\* sent or sent but not taken, not a failure count that another poll clears
\* between being read and being written, and not a removal next to an addition.
NoDeviceLost == sched.managed # "absent" => sched.devices \/ InHand \/ HasFailed

\* A miner that stays paired and up, while the service runs, is polled again
\* and again, however often it failed before, whatever status was remembered of
\* it, and however its pairing raced with its removal.
RecoveredIsPolled ==
  <>[](world.paired /\ world.miner = "up" /\ Running)
    => []<>(\E p \in Procs : proc[p].pc = "clear" /\ proc[p].kind \in {"full", "refresh"})

=============================================================================
