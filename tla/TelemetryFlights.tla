-------------------------- MODULE TelemetryFlights --------------------------
(***************************************************************************)
(* TelemetryService and one device: who holds its claim in inFlight, what  *)
(* becomes of the sample a flight fetches, and the activation that all of  *)
(* them belong to.  Flights are scheduled polls and status polls, run by   *)
(* the workers, refreshes, run by their caller, and the direct reads of    *)
(* samplers, run by the workers.  Which polls the scheduler makes is       *)
(* TelemetryScheduler's matter; here one may be due at any time.           *)
(***************************************************************************)
EXTENDS Naturals, FiniteSets

CONSTANTS
  Workers,        \* ConcurrencyLimit of them
  Refreshers,     \* calls of RefreshDevice
  Samplers,       \* calls of SampleDeviceMetrics
  MaxPolls,       \* bound: polls of the device
  MaxStarts,      \* bound: activations
  MaxRemovals,    \* bound: calls of RemoveDevices
  None

Polls == 1..MaxPolls
Entries == Polls \cup Refreshers \cup Samplers   \* every flight has an inFlightEntry of its own
Limit == Cardinality(Workers)
SampleSlots == IF Limit \div 2 < 1 THEN 1 ELSE Limit \div 2

ASSUME FlightsAssumption ==
  /\ None \notin Entries /\ IsFiniteSet(Workers) /\ Workers # {}
  /\ MaxPolls \in Nat /\ MaxStarts \in Nat \ {0} /\ MaxRemovals \in Nat
  /\ Polls \cap (Refreshers \cup Samplers) = {} /\ Refreshers \cap Samplers = {}

VARIABLES
  activation,  \* none, running, stopping: state, starts; accepting: acceptingProducers; writing: its writers run
  tasks, statusTasks, sampleTasks,  \* channels, as sets of entries
  slots,       \* sampleSlots
  poller,      \* statusPollingRoutine: pc, e
  polls,       \* polls so far
  worker,      \* per worker: pc, e
  refresh,     \* per refresher: pc, on (the entry it waits for)
  sampler,     \* per sampler: pc, on, result, from (the flight of its sample)
  entry,       \* per entry: kind, gen, after (samplers whose bound is earlier), metrics, done
  inFlight,    \* the entry that holds the claim
  retained,    \* retainedSamples: an entry and the activation, or None
  generation,  \* sampleGenerations
  began        \* history, per entry: samplers dispatched when its fetch began

vars == <<activation, tasks, statusTasks, sampleTasks, slots, poller, polls, worker, refresh, sampler,
          entry, inFlight, retained, generation, began>>
channels == <<tasks, statusTasks, sampleTasks>>

Idle == [pc |-> "idle", e |-> None]
Stopping == activation.state = "stopping"
Dispatched == {q \in Samplers : sampler[q].pc # "new"}
Registered == {r \in Refreshers : refresh[r].pc \notin {"new", "over"}}
                \cup {q \in Samplers : sampler[q].pc \notin {"new", "ready", "over"}}

\* Types, with the capacity of the channels.
TypeOK ==
  /\ activation \in [state : {"none", "running", "stopping"}, starts : 0..MaxStarts,
                     accepting : BOOLEAN, writing : BOOLEAN]
  /\ tasks \subseteq Polls /\ statusTasks \subseteq Polls /\ sampleTasks \subseteq Samplers
  /\ \A c \in {tasks, statusTasks, sampleTasks} : Cardinality(c) <= Limit
  /\ slots \in 0..SampleSlots
  /\ poller \in [pc : {"idle", "try", "won", "exited"}, e : Polls \cup {None}] /\ polls \in 0..MaxPolls
  /\ worker \in [Workers -> [pc : {"idle", "try", "fetch", "fetching", "rest", "exited"},
                             e : Entries \cup {None}]]
  /\ refresh \in [Refreshers -> [pc : {"new", "try", "wait", "fetch", "fetching", "flush", "over"},
                                 on : Entries \cup {None}]]
  /\ sampler \in [Samplers -> [pc : {"new", "ready", "look", "flight", "join", "wait", "slot", "try", "won",
                                     "await", "over"},
                               on : Entries \cup {None}, from : Entries \cup {None},
                               result : {"none", "ok", "error", "inactive", "timeout"}]]
  /\ entry \in [Entries -> [kind : {"full", "status", "refresh", "sample"}, gen : 0..MaxRemovals,
                            after : SUBSET Samplers, metrics : {"none", "ok", "error"}, done : BOOLEAN]]
  /\ inFlight \in Entries \cup {None} /\ generation \in 0..MaxRemovals
  /\ retained = None \/ retained \in [e : Entries, start : 1..MaxStarts]
  /\ began \in [Entries -> SUBSET Samplers]

Init ==
  /\ activation = [state |-> "none", starts |-> 0, accepting |-> FALSE, writing |-> FALSE]
  /\ tasks = {} /\ statusTasks = {} /\ sampleTasks = {} /\ slots = 0 /\ polls = 0
  /\ poller = [pc |-> "exited", e |-> None] /\ worker = [w \in Workers |-> [pc |-> "exited", e |-> None]]
  /\ refresh = [r \in Refreshers |-> [pc |-> "new", on |-> None]]
  /\ sampler = [q \in Samplers |-> [pc |-> "new", on |-> None, from |-> None, result |-> "none"]]
  /\ entry = [e \in Entries |-> [kind |-> "full", gen |-> 0, after |-> {}, metrics |-> "none", done |-> FALSE]]
  /\ inFlight = None /\ retained = None /\ generation = 0 /\ began = [e \in Entries |-> {}]
-----------------------------------------------------------------------------
(* Entries.                                                                *)

\* newDeviceInFlightEntry: the start of the flight and the generation are taken
\* before the claim is tried.
NewEntry(e, kind) ==
  [entry EXCEPT ![e] = [kind |-> kind, gen |-> generation, after |-> Dispatched,
                        metrics |-> "none", done |-> FALSE]]

\* Faulty variant: the metrics of a flight that began before a removal count.
PublishAnyGeneration(e, ok) ==
  IF ok THEN /\ entry' = [entry EXCEPT ![e].metrics = "ok"]
             /\ retained' = [e |-> e, start |-> activation.starts]
  ELSE entry' = [entry EXCEPT ![e].metrics = "error"] /\ UNCHANGED retained

\* publishFlightSample, publishCurrentGenerationSample: to whoever joined, and
\* to be reused; not if the device was removed since the flight began.
Publish(e, ok) ==
  IF ok /\ entry[e].gen = generation
  THEN /\ entry' = [entry EXCEPT ![e].metrics = "ok"]
       /\ retained' = [e |-> e, start |-> activation.starts]
  ELSE entry' = [entry EXCEPT ![e].metrics = "error"] /\ UNCHANGED retained

\* The claim is over; a flight that ended without metrics says so.
Released(e) ==
  [entry EXCEPT ![e].metrics = IF @ = "none" THEN "error" ELSE @, ![e].done = TRUE]

releaseInFlight(e) ==
  /\ inFlight' = IF inFlight = e THEN None ELSE inFlight
  /\ entry' = Released(e)

\* releaseInFlightByID: whichever entry holds the claim.
releaseInFlightByID ==
  IF inFlight = None THEN UNCHANGED <<inFlight, entry>> ELSE releaseInFlight(inFlight)
-----------------------------------------------------------------------------
(* Polls: gatherMetricsRoutine and statusPollingRoutine.                   *)

gatherMetricsRoutine ==
  /\ activation.state # "none" /\ poller.pc # "exited"
  /\ polls < MaxPolls /\ polls' = polls + 1 /\ Cardinality(tasks) < Limit
  /\ tasks' = tasks \cup {polls'}
  /\ UNCHANGED <<activation, statusTasks, sampleTasks, slots, poller, worker, refresh, sampler, entry, inFlight,
                 retained, generation, began>>

statusPollingRoutine ==
  /\ poller.pc = "idle" /\ polls < MaxPolls /\ polls' = polls + 1
  /\ poller' = [pc |-> "try", e |-> polls'] /\ entry' = NewEntry(polls', "status")
  /\ UNCHANGED <<activation, channels, slots, worker, refresh, sampler, inFlight, retained, generation, began>>

PollerTries ==
  /\ poller.pc = "try"
  /\ IF inFlight = None THEN inFlight' = poller.e /\ poller' = [poller EXCEPT !.pc = "won"]
     ELSE poller' = Idle /\ UNCHANGED inFlight
  /\ UNCHANGED <<activation, channels, slots, polls, worker, refresh, sampler, entry, retained, generation, began>>

\* The claim goes with the task; cancelled at the channel, the routine gives it
\* back.
PollerHandsOver ==
  /\ poller.pc = "won" /\ poller' = Idle
  /\ \/ /\ Cardinality(statusTasks) < Limit /\ statusTasks' = statusTasks \cup {poller.e}
        /\ UNCHANGED <<entry, inFlight>>
     \/ Stopping /\ releaseInFlight(poller.e) /\ UNCHANGED statusTasks
  /\ UNCHANGED <<activation, tasks, sampleTasks, slots, polls, worker, refresh, sampler, retained, generation, began>>

\* The background routines see that their context is done.
PollerExits ==
  /\ poller.pc = "idle" /\ Stopping /\ poller' = [Idle EXCEPT !.pc = "exited"]
  /\ UNCHANGED <<activation, channels, slots, polls, worker, refresh, sampler, entry, inFlight, retained,
                 generation, began>>
-----------------------------------------------------------------------------
(* Workers.                                                                *)

WorkerFrame == UNCHANGED <<activation, poller, polls, refresh, sampler, generation>>

TakeTask(w, e) ==
  /\ worker[w].pc = "idle" /\ e \in tasks /\ tasks' = tasks \ {e}
  /\ worker' = [worker EXCEPT ![w] = [pc |-> "try", e |-> e]] /\ entry' = NewEntry(e, "full")
  /\ WorkerFrame /\ UNCHANGED <<statusTasks, sampleTasks, slots, inFlight, retained, began>>

\* A poll that finds the device claimed goes back to the scheduler.
WorkerTries(w) ==
  /\ worker[w].pc = "try"
  /\ IF inFlight = None
     THEN inFlight' = worker[w].e /\ worker' = [worker EXCEPT ![w].pc = "fetch"]
     ELSE worker' = [worker EXCEPT ![w] = Idle] /\ UNCHANGED inFlight
  /\ WorkerFrame /\ UNCHANGED <<channels, slots, entry, retained, began>>

TakeStatusTask(w, e) ==
  /\ worker[w].pc = "idle" /\ e \in statusTasks /\ statusTasks' = statusTasks \ {e}
  /\ worker' = [worker EXCEPT ![w] = [pc |-> "rest", e |-> e]]
  /\ WorkerFrame /\ UNCHANGED <<tasks, sampleTasks, slots, entry, inFlight, retained, began>>

\* A direct read whose sampler has gone is only released.
TakeSampleTask(w, q) ==
  /\ worker[w].pc = "idle" /\ q \in sampleTasks /\ sampleTasks' = sampleTasks \ {q}
  /\ worker' = [worker EXCEPT ![w] =
                  [pc |-> IF sampler[q].pc = "over" THEN "rest" ELSE "fetch", e |-> q]]
  /\ WorkerFrame /\ UNCHANGED <<tasks, statusTasks, slots, entry, inFlight, retained, began>>

WorkerFetches(w) ==
  /\ worker[w].pc = "fetch" /\ worker' = [worker EXCEPT ![w].pc = "fetching"]
  /\ began' = [began EXCEPT ![worker[w].e] = Dispatched]
  /\ WorkerFrame /\ UNCHANGED <<channels, slots, entry, inFlight, retained>>

Publishes(w) ==
  /\ worker[w].pc = "fetching" /\ worker' = [worker EXCEPT ![w].pc = "rest"]
  /\ \E ok \in BOOLEAN : Publish(worker[w].e, ok)
  /\ WorkerFrame /\ UNCHANGED <<channels, slots, inFlight, began>>

\* A poll publishes into the entry that inFlight named when its fetch began, if
\* it still does when the fetch ends: its own, as ClaimIsHeld says.
WorkerPublishes(w) == worker[w].e \in Polls /\ Publishes(w)

\* A direct read has its entry from its task.
processSample(w) == worker[w].e \in Samplers /\ Publishes(w)

\* After the rest of processDevice, processStatusOnly or processSample.
WorkerReleases(w) ==
  LET e == worker[w].e IN
  /\ worker[w].pc = "rest" /\ worker' = [worker EXCEPT ![w] = Idle]
  /\ IF entry[e].kind = "status" THEN releaseInFlightByID ELSE releaseInFlight(e)
  /\ slots' = IF e \in Samplers THEN slots - 1 ELSE slots
  /\ WorkerFrame /\ UNCHANGED <<channels, retained, began>>

WorkerExits(w) ==
  /\ worker[w].pc = "idle" /\ Stopping /\ worker' = [worker EXCEPT ![w].pc = "exited"]
  /\ WorkerFrame /\ UNCHANGED <<channels, slots, entry, inFlight, retained, began>>
-----------------------------------------------------------------------------
(* RefreshDevice.                                                          *)

RefreshFrame == UNCHANGED <<activation, channels, slots, poller, polls, worker, sampler, generation>>

\* registerActivationProducer: the context may be cancelled after it was
\* looked at; then acceptingProducers decides.
CanRegister == activation.accepting

RefreshDevice(r) ==
  /\ refresh[r].pc = "new"
  /\ IF CanRegister THEN refresh' = [refresh EXCEPT ![r].pc = "try"] /\ entry' = NewEntry(r, "refresh")
     ELSE refresh' = [refresh EXCEPT ![r] = [pc |-> "over", on |-> None]] /\ UNCHANGED entry
  /\ RefreshFrame /\ UNCHANGED <<inFlight, retained, began>>

claimDeviceForRefresh(r) ==
  /\ refresh[r].pc = "try"
  /\ IF inFlight = None
     THEN inFlight' = r /\ refresh' = [refresh EXCEPT ![r].pc = "fetch"]
     ELSE refresh' = [refresh EXCEPT ![r] = [pc |-> "wait", on |-> inFlight]] /\ UNCHANGED inFlight
  /\ RefreshFrame /\ UNCHANGED <<entry, retained, began>>

\* It tries again with a new entry, or gives up: inactive, or out of time.
RefreshWoken(r) ==
  /\ refresh[r].pc = "wait" /\ entry[refresh[r].on].done
  /\ refresh' = [refresh EXCEPT ![r] = [pc |-> "try", on |-> None]] /\ entry' = NewEntry(r, "refresh")
  /\ RefreshFrame /\ UNCHANGED <<inFlight, retained, began>>

RefreshInactive(r) ==
  /\ refresh[r].pc = "wait" /\ Stopping /\ refresh' = [refresh EXCEPT ![r] = [pc |-> "over", on |-> None]]
  /\ RefreshFrame /\ UNCHANGED <<entry, inFlight, retained, began>>

RefreshTimeout(r) ==
  /\ refresh[r].pc = "wait" /\ refresh' = [refresh EXCEPT ![r] = [pc |-> "over", on |-> None]]
  /\ RefreshFrame /\ UNCHANGED <<entry, inFlight, retained, began>>

RefreshFetches(r) ==
  /\ refresh[r].pc = "fetch" /\ refresh' = [refresh EXCEPT ![r].pc = "fetching"]
  /\ began' = [began EXCEPT ![r] = Dispatched]
  /\ RefreshFrame /\ UNCHANGED <<entry, inFlight, retained>>

RefreshPublishes(r) ==
  /\ refresh[r].pc = "fetching" /\ refresh' = [refresh EXCEPT ![r].pc = "flush"]
  /\ \E ok \in BOOLEAN : Publish(r, ok)
  /\ RefreshFrame /\ UNCHANGED <<inFlight, began>>

\* The writers answer the flush requests, which do not watch for the end of
\* the activation; then the claim is released.
RefreshReleases(r) ==
  /\ refresh[r].pc = "flush" /\ activation.writing /\ refresh' = [refresh EXCEPT ![r] = [pc |-> "over", on |-> None]]
  /\ releaseInFlightByID
  /\ RefreshFrame /\ UNCHANGED <<retained, began>>
-----------------------------------------------------------------------------
(* SampleDeviceMetrics.                                                    *)

SampleFrame == UNCHANGED <<activation, tasks, statusTasks, poller, polls, worker, refresh, generation, began>>
Goes(q, from, to) == sampler[q].pc = from /\ sampler' = [sampler EXCEPT ![q].pc = to, ![q].on = None]
Returns(q, result, e) ==
  sampler' = [sampler EXCEPT ![q] = [pc |-> "over", on |-> None, from |-> e, result |-> result]]

\* The caller knows that the command was dispatched whose effect the sample is
\* to show, and takes the time: SampledAfter.
Dispatch(q) ==
  /\ Goes(q, "new", "ready")
  /\ SampleFrame /\ UNCHANGED <<sampleTasks, slots, entry, inFlight, retained>>

SampleDeviceMetrics(q) ==
  /\ sampler[q].pc = "ready"
  /\ IF CanRegister THEN Goes(q, "ready", "look") ELSE Returns(q, "inactive", None)
  /\ SampleFrame /\ UNCHANGED <<sampleTasks, slots, entry, inFlight, retained>>

\* Faulty variant: a sample of any age is reused.
ReuseAny(q) ==
  /\ sampler[q].pc = "look"
  /\ \/ Stopping /\ Returns(q, "inactive", None)
     \/ ~ Stopping /\ retained # None /\ Returns(q, "ok", retained.e)
     \/ ~ Stopping /\ retained = None /\ Goes(q, "look", "flight")
  /\ SampleFrame /\ UNCHANGED <<sampleTasks, slots, entry, inFlight, retained>>

\* 1. Reuse.
Reuse(q) ==
  /\ sampler[q].pc = "look"
  /\ \/ Stopping /\ Returns(q, "inactive", None)
     \/ ~ Stopping /\ retained # None /\ q \in entry[retained.e].after /\ Returns(q, "ok", retained.e)
     \/ ~ Stopping /\ (retained # None => q \notin entry[retained.e].after) /\ Goes(q, "look", "flight")
  /\ SampleFrame /\ UNCHANGED <<sampleTasks, slots, entry, inFlight, retained>>

Joinable(q, e) == entry[e].kind \in {"full", "sample"} /\ q \in entry[e].after

\* 2. Join or wait out the flight; 3. without one, a direct read.
Flight(q) ==
  /\ sampler[q].pc = "flight"
  /\ sampler' = [sampler EXCEPT ![q].on = inFlight, ![q].pc =
                   IF inFlight = None THEN "slot" ELSE IF Joinable(q, inFlight) THEN "join" ELSE "wait"]
  /\ SampleFrame /\ UNCHANGED <<sampleTasks, slots, entry, inFlight, retained>>

Joined(q) ==
  LET e == sampler[q].on IN
  /\ sampler[q].pc = "join" /\ entry[e].metrics # "none" /\ Returns(q, entry[e].metrics, e)
  /\ SampleFrame /\ UNCHANGED <<sampleTasks, slots, entry, inFlight, retained>>

WaitedOut(q) ==
  /\ Goes(q, "wait", "look") /\ entry[sampler[q].on].done
  /\ SampleFrame /\ UNCHANGED <<sampleTasks, slots, entry, inFlight, retained>>

GetSlot(q) ==
  /\ slots < SampleSlots /\ slots' = slots + 1 /\ Goes(q, "slot", "try") /\ entry' = NewEntry(q, "sample")
  /\ SampleFrame /\ UNCHANGED <<sampleTasks, inFlight, retained>>

\* A claim lost to another flight costs nothing.
SamplerTries(q) ==
  /\ sampler[q].pc = "try"
  /\ IF inFlight = None THEN inFlight' = q /\ Goes(q, "try", "won") /\ UNCHANGED slots
     ELSE Goes(q, "try", "look") /\ slots' = slots - 1 /\ UNCHANGED inFlight
  /\ SampleFrame /\ UNCHANGED <<sampleTasks, entry, retained>>

\* The claim and the slot go with the task.
Enqueue(q) ==
  /\ Cardinality(sampleTasks) < Limit /\ sampleTasks' = sampleTasks \cup {q} /\ Goes(q, "won", "await")
  /\ SampleFrame /\ UNCHANGED <<slots, entry, inFlight, retained>>

Awaited(q) ==
  /\ sampler[q].pc = "await" /\ entry[q].metrics # "none" /\ Returns(q, entry[q].metrics, q)
  /\ SampleFrame /\ UNCHANGED <<sampleTasks, slots, entry, inFlight, retained>>

\* Faulty variant: it releases the claim it has handed over.
GiveUpReleasing(q, result) ==
  /\ sampler[q].pc \in {"join", "wait", "slot", "won", "await"} /\ Returns(q, result, None)
  /\ IF sampler[q].pc \in {"won", "await"} THEN releaseInFlight(q) /\ slots' = slots - 1
     ELSE UNCHANGED <<entry, inFlight, slots>>
  /\ SampleFrame /\ UNCHANGED <<sampleTasks, retained>>

\* Inactive or out of time; a claim not yet handed over is released.
GiveUp(q, result) ==
  /\ sampler[q].pc \in {"join", "wait", "slot", "won", "await"} /\ Returns(q, result, None)
  /\ IF sampler[q].pc = "won" THEN releaseInFlight(q) /\ slots' = slots - 1
     ELSE UNCHANGED <<entry, inFlight, slots>>
  /\ SampleFrame /\ UNCHANGED <<sampleTasks, retained>>

SamplerInactive(q) == Stopping /\ GiveUp(q, "inactive")
SamplerTimeout(q) == GiveUp(q, "timeout")
-----------------------------------------------------------------------------
(* Lifecycle, removal and retention.                                       *)

Start ==
  /\ activation.state = "none" /\ activation.starts < MaxStarts
  /\ activation' = [state |-> "running", starts |-> activation.starts + 1, accepting |-> TRUE, writing |-> TRUE]
  /\ worker' = [w \in Workers |-> Idle] /\ poller' = Idle
  /\ UNCHANGED <<channels, slots, polls, refresh, sampler, entry, inFlight, retained, generation, began>>

\* Stop, or the end of the context that Start was given.
Stop ==
  /\ activation.state = "running" /\ activation' = [activation EXCEPT !.state = "stopping"]
  /\ UNCHANGED <<channels, slots, poller, polls, worker, refresh, sampler, entry, inFlight, retained,
                 generation, began>>

\* drainProducers, from the writers' context: no producer is admitted any more.
drainProducers ==
  /\ Stopping /\ activation.accepting /\ activation' = [activation EXCEPT !.accepting = FALSE]
  /\ UNCHANGED <<channels, slots, poller, polls, worker, refresh, sampler, entry, inFlight, retained,
                 generation, began>>

ProducersDone == Registered = {} /\ \A w \in Workers : worker[w].pc = "exited"

\* Faulty variant: the writers end with the activation's own context.
WritersEndAtOnce ==
  /\ Stopping /\ activation.writing /\ activation' = [activation EXCEPT !.writing = FALSE]
  /\ UNCHANGED <<channels, slots, poller, polls, worker, refresh, sampler, entry, inFlight, retained,
                 generation, began>>

\* The writers end after the last producer.
WritersEnd ==
  /\ Stopping /\ ~ activation.accepting /\ ProducersDone
  /\ activation.writing /\ activation' = [activation EXCEPT !.writing = FALSE]
  /\ UNCHANGED <<channels, slots, poller, polls, worker, refresh, sampler, entry, inFlight, retained,
                 generation, began>>

FinishGuard == Stopping /\ ~ activation.writing /\ poller.pc = "exited" /\ ~ activation.accepting /\ ProducersDone

\* The background routines and the producers are gone: what is left in the
\* channels is released (a device has one claim, so at most one task has it),
\* and retention is cleared.
finishActivation ==
  LET left == statusTasks \cup sampleTasks IN
  /\ FinishGuard /\ activation' = [activation EXCEPT !.state = "none"]
  /\ tasks' = {} /\ statusTasks' = {} /\ sampleTasks' = {} /\ slots' = slots - Cardinality(sampleTasks)
  /\ IF left = {} THEN UNCHANGED <<inFlight, entry>> ELSE releaseInFlightByID
  /\ retained' = None
  /\ UNCHANGED <<poller, polls, worker, refresh, sampler, generation, began>>

\* RemoveDevices; the device may be paired again with the same identifier.
invalidateDeviceSamples ==
  /\ generation < MaxRemovals /\ generation' = generation + 1 /\ retained' = None
  /\ UNCHANGED <<activation, channels, slots, poller, polls, worker, refresh, sampler, entry, inFlight, began>>

\* sampleReuseWindow passes.
evictExpiredRetainedSamples ==
  /\ retained # None /\ retained' = None
  /\ UNCHANGED <<activation, channels, slots, poller, polls, worker, refresh, sampler, entry, inFlight,
                 generation, began>>
-----------------------------------------------------------------------------
Poller == statusPollingRoutine \/ PollerTries \/ PollerHandsOver \/ PollerExits

Work(w) ==
  \/ \E e \in Entries : TakeTask(w, e) \/ TakeStatusTask(w, e) \/ TakeSampleTask(w, e)
  \/ WorkerTries(w) \/ WorkerFetches(w) \/ WorkerPublishes(w) \/ processSample(w) \/ WorkerReleases(w)
  \/ WorkerExits(w)

Refresh(r) ==
  \/ claimDeviceForRefresh(r) \/ RefreshWoken(r) \/ RefreshInactive(r)
  \/ RefreshFetches(r) \/ RefreshPublishes(r) \/ RefreshReleases(r)

Sample(q) ==
  \/ Reuse(q) \/ Flight(q) \/ Joined(q) \/ WaitedOut(q) \/ GetSlot(q) \/ SamplerTries(q)
  \/ Enqueue(q) \/ Awaited(q) \/ SamplerInactive(q)

Finish == drainProducers \/ WritersEnd \/ finishActivation

Next ==
  \/ gatherMetricsRoutine \/ Poller \/ \E w \in Workers : Work(w)
  \/ \E r \in Refreshers : RefreshDevice(r) \/ Refresh(r) \/ RefreshTimeout(r)
  \/ \E q \in Samplers : Dispatch(q) \/ SampleDeviceMetrics(q) \/ Sample(q) \/ SamplerTimeout(q)
  \/ Start \/ Stop \/ Finish \/ invalidateDeviceSamples \/ evictExpiredRetainedSamples

Spec == Init /\ [][Next]_vars

\* The goroutines run, every device call returns (MetricTimeout bounds it), and
\* a routine whose context is done sees it.  No timeout of a caller is needed,
\* and polls need not be due.
Fairness ==
  /\ WF_vars(PollerTries) /\ WF_vars(PollerHandsOver) /\ WF_vars(PollerExits)
  /\ \A w \in Workers : WF_vars(WorkerTries(w) \/ WorkerFetches(w) \/ Publishes(w) \/ WorkerReleases(w))
  /\ \A w \in Workers : SF_vars(WorkerExits(w)) /\ WF_vars(\E e \in Entries : TakeSampleTask(w, e))
  /\ \A r \in Refreshers : WF_vars(Refresh(r))
  /\ \A q \in Samplers : WF_vars(Sample(q))
  /\ WF_vars(Finish)

FairSpec == Spec /\ Fairness
-----------------------------------------------------------------------------
(* Properties.                                                             *)

\* Who holds a claim: between winning it and releasing it or handing it over.
Holders ==
  {<<w, worker[w].e>> : w \in {v \in Workers : worker[v].pc \in {"fetch", "fetching", "rest"}}}
    \cup {<<r, r>> : r \in {r \in Refreshers : refresh[r].pc \in {"fetch", "fetching", "flush"}}}
    \cup {<<q, q>> : q \in {q \in Samplers : sampler[q].pc = "won"}}
    \cup {<<"task", e>> : e \in statusTasks \cup sampleTasks}
    \cup (IF poller.pc = "won" THEN {<<"poller", poller.e>>} ELSE {})

\* "The claim holder is the only releaser by invariant": one flight at a time
\* holds the device and inFlight names it; a claim nobody holds any more would
\* keep the device from being polled for good.
ClaimIsHeld == {h[2] : h \in Holders} = {inFlight} \ {None} /\ Cardinality(Holders) <= 1

\* "If removal wins, every waiter receives an unusable result; if publication
\* wins, removal subsequently ... deletes the retained sample", and "no
\* old-epoch result can repopulate retention".
RetainedIsCurrent ==
  retained # None => /\ entry[retained.e].gen = generation
                     /\ activation.state # "none" /\ retained.start = activation.starts

\* "A flight whose start is after a dispatch timestamp therefore observed the
\* device strictly after that dispatch": so did the sample a caller gets,
\* reused, joined or read for it.
FreshSample == \A q \in Samplers : sampler[q].result = "ok" => q \in began[sampler[q].from]

\* Stop ends, without a timeout of anybody: no producer waits for a claim, a
\* slot, a task or a flush that those it waits for will not give any more.
StopEnds == Stopping ~> activation.state = "none"

=============================================================================
