---------------------------- MODULE FleetRuntime ----------------------------
(***************************************************************************)
(* ha.Runtime and ha.Gate on top of the job group: one server process from *)
(* its start to its exit.  The process waits for ownership (lifetime is    *)
(* the context of WaitForActive), starts the jobs, checks their health,    *)
(* opens the gate to requests, and takes all of that back when it is shut  *)
(* down, loses ownership or becomes unhealthy.  Without HA there is no     *)
(* coordinator: the lifetime is the process's own context.                 *)
(***************************************************************************)
EXTENDS JobGroup, FiniteSets

CONSTANT Requests

ASSUME RuntimeAssumption == IsFiniteSet(Requests)

VARIABLES
  ha,          \* r.owner # nil
  pc,          \* where Run is
  shutdown,    \* Run's context has ended
  lifetime,    \* the active context
  renewing,    \* the coordinator has not been cancelled
  gate,        \* "closed" until activate, "open", and "shut" after deactivate
  admissions,  \* active.admissions
  drained,     \* active.drained is closed
  request,     \* where a request is in Admit
  result       \* what Run returned

gateVars == <<gate, admissions, drained, request>>
runVars == <<ha, pc, shutdown, lifetime, renewing, result>>
vars == <<jobVars, gateVars, runVars>>

TypeOK ==
  /\ JobTypeOK
  /\ ha \in BOOLEAN /\ shutdown \in BOOLEAN /\ renewing \in BOOLEAN /\ drained \in BOOLEAN
  /\ pc \in {"wait", "start", "health", "serve", "stop", "abort", "drain", "exit"}
  /\ lifetime \in {"none", "live", "ended"}
  /\ gate \in {"closed", "open", "shut"}
  /\ admissions \in 0..Cardinality(Requests)
  /\ request \in [Requests -> {"out", "counted", "in"}]
  /\ result \in {"none", "clean", "error", "aborted"}

Init ==
  /\ JobInit
  /\ ha \in BOOLEAN
  /\ pc = IF ha THEN "wait" ELSE "start"
  /\ lifetime = IF ha THEN "none" ELSE "live"
  /\ renewing = ha
  /\ shutdown = FALSE /\ result = "none"
  /\ gate = "closed" /\ admissions = 0 /\ drained = FALSE
  /\ request = [q \in Requests |-> "out"]
-----------------------------------------------------------------------------
(* The gate.  GateLive: the activation's context has not ended.            *)

GateLive == gate = "open" /\ lifetime = "live"

\* closeIfDrained, after admissions has become n.
CloseIfDrained(n) == drained' = (drained \/ (gate' = "shut" /\ n = 0))

\* The first half of Admit, under the mutex.
Admit(q) ==
  /\ result = "none" /\ request[q] = "out" /\ GateLive
  /\ admissions' = admissions + 1
  /\ request' = [request EXCEPT ![q] = "counted"]
  /\ UNCHANGED <<jobVars, runVars, gate, drained>>

Leave(q) ==
  /\ admissions' = admissions - 1
  /\ request' = [request EXCEPT ![q] = "out"]
  /\ UNCHANGED gate
  /\ CloseIfDrained(admissions')

\* The second half: the activation may have ended in between.
Recheck(q) ==
  /\ result = "none" /\ request[q] = "counted"
  /\ IF GateLive
     THEN request' = [request EXCEPT ![q] = "in"] /\ UNCHANGED <<gate, admissions, drained>>
     ELSE Leave(q)
  /\ UNCHANGED <<jobVars, runVars>>

ReleaseRequest(q) ==
  /\ result = "none" /\ request[q] = "in"
  /\ Leave(q) /\ UNCHANGED <<jobVars, runVars>>
-----------------------------------------------------------------------------
(* The contexts.                                                           *)

\* The end of the lifetime ends the activation's context of the job group.
EndLifetime ==
  /\ lifetime' = IF lifetime = "live" THEN "ended" ELSE lifetime
  /\ IF ctx = "live" THEN ContextEnds ELSE UNCHANGED jobVars

\* Run's context ends; without HA it is the lifetime as well.
Shutdown ==
  /\ result = "none" /\ ~ shutdown /\ shutdown' = TRUE
  /\ IF ha THEN UNCHANGED <<lifetime, jobVars>> ELSE EndLifetime
  /\ UNCHANGED <<gateVars, ha, pc, renewing, result>>

\* Ownership ends: lost, or given up by a coordinator that was cancelled.
LoseOwnership ==
  /\ result = "none" /\ ha /\ lifetime = "live"
  /\ EndLifetime
  /\ UNCHANGED <<gateVars, ha, pc, shutdown, renewing, result>>
-----------------------------------------------------------------------------
(* Run.                                                                    *)

Goto(s) == pc' = s /\ UNCHANGED <<ha, shutdown, lifetime, renewing, result>>

\* Run returns; the deferred cancel stops the coordinator.
Return(r) ==
  /\ pc' = "exit" /\ result' = r /\ renewing' = FALSE
  /\ UNCHANGED <<ha, shutdown, lifetime>>

\* The select on the activation, the coordinator's result and the context.  A
\* coordinator that ended is an error, even if it ended because of a shutdown.
BecomeActive ==
  /\ pc = "wait" /\ lifetime = "none"
  /\ lifetime' = "live" /\ pc' = "start"
  /\ UNCHANGED <<jobVars, gateVars, ha, shutdown, renewing, result>>

GiveUpWaiting ==
  /\ pc = "wait"
  /\ \/ shutdown /\ Return("clean")
     \/ Return("error")
  /\ UNCHANGED <<jobVars, gateVars>>

StartJobs ==
  /\ pc = "start" /\ group = "stopped" /\ generation = 0
  /\ Start(lifetime)
  /\ UNCHANGED <<runVars, gateVars>>

\* group.Start has returned.
JobsStarted ==
  /\ pc = "start" /\ op = "none" /\ generation > 0
  /\ IF ctx = "none" THEN Return("error") ELSE Goto("health")
  /\ UNCHANGED <<jobVars, gateVars>>

Healthy ==
  /\ pc = "health" /\ Goto("serve")
  /\ gate' = "open"
  /\ UNCHANGED <<jobVars, admissions, drained, request>>

UnhealthyAtStart ==
  /\ pc = "health" /\ Goto(IF ha THEN "abort" ELSE "stop")
  /\ UNCHANGED <<jobVars, gateVars>>

\* Faulty variant: the jobs are stopped while the gate is still open.
StopServingOpen ==
  /\ pc = "serve"
  /\ UNCHANGED gateVars
  /\ pc' = IF ha /\ ~ shutdown THEN "abort" ELSE "stop"
  /\ renewing' = (renewing /\ pc' = "stop")
  /\ UNCHANGED <<jobVars, ha, shutdown, lifetime, result>>

\* waitWhileHealthy returns (shutdown, the end of the lifetime, a failed health
\* or endpoint check) and the gate is deactivated.  With HA, unless the process
\* is shut down, renewal stops before the cleanup.
StopServing ==
  /\ pc = "serve"
  /\ gate' = "shut" /\ UNCHANGED <<admissions, request>>
  /\ CloseIfDrained(admissions)
  /\ pc' = IF ha /\ ~ shutdown THEN "abort" ELSE "stop"
  /\ renewing' = (renewing /\ pc' = "stop")
  /\ UNCHANGED <<jobVars, ha, shutdown, lifetime, result>>

StopJobs ==
  /\ pc \in {"stop", "abort"} /\ Stop
  /\ UNCHANGED <<runVars, gateVars>>

\* group.Stop or group.Abort has returned.
JobsStopped ==
  /\ pc \in {"stop", "abort"} /\ op = "none" /\ ctx = "none"
  /\ IF pc = "abort" THEN Return("aborted")
     ELSE IF terminal # {} THEN Return("error")
     ELSE IF ha THEN Goto("drain")
     ELSE Return(IF shutdown THEN "clean" ELSE "error")
  /\ UNCHANGED <<jobVars, gateVars>>

Drained ==
  /\ pc = "drain" /\ drained /\ Return("clean")
  /\ UNCHANGED <<jobVars, gateVars>>

\* Faulty variant: a drain that runs out of time is no error.
DrainTimesOutCleanly ==
  /\ pc = "drain" /\ Return("clean")
  /\ UNCHANGED <<jobVars, gateVars>>

\* Faulty variant: the drain waits without a deadline.
DrainWaits ==
  /\ pc = "drain" /\ drained /\ Return("error")
  /\ UNCHANGED <<jobVars, gateVars>>

DrainTimesOut ==
  /\ pc = "drain" /\ Return("error")
  /\ UNCHANGED <<jobVars, gateVars>>

GroupStep == result = "none" /\ (Operation \/ Background) /\ UNCHANGED <<runVars, gateVars>>

RunStep ==
  \/ BecomeActive \/ GiveUpWaiting \/ StartJobs \/ JobsStarted
  \/ Healthy \/ UnhealthyAtStart \/ StopServing
  \/ StopJobs \/ JobsStopped \/ Drained \/ DrainTimesOut

RequestStep == \E q \in Requests : Admit(q) \/ Recheck(q) \/ ReleaseRequest(q)

Next == RunStep \/ GroupStep \/ RequestStep \/ Shutdown \/ LoseOwnership

\* Go runs the goroutines of Run and of the group; the Start of a job returns, its
\* Stop returns or runs out of the cleanup budget; the wait for ownership and the
\* select in waitWhileHealthy end at the latest when their context does.
\* Requests may never return.
Fairness ==
  /\ WF_vars(shutdown /\ (GiveUpWaiting \/ StopServing))
  /\ WF_vars(lifetime = "ended" /\ StopServing)
  /\ WF_vars(StartJobs \/ JobsStarted \/ Healthy \/ UnhealthyAtStart)
  /\ WF_vars(StopJobs \/ JobsStopped \/ Drained \/ DrainTimesOut)
  /\ WF_vars(result = "none" /\ Operation /\ UNCHANGED <<runVars, gateVars>>)

Spec == Init /\ [][Next]_vars
FairSpec == Spec /\ Fairness
-----------------------------------------------------------------------------
\* Whenever the gate admits requests all jobs are up and the group is running:
\* the gate opens after the last job started and closes before the first stops.
ServesOnlyWithJobs == GateLive => group = "running" /\ up = Jobs

\* Run reports a clean stop of a process that served only when no job is up and
\* (with HA) no request holds an admission any more: the drained channel closes
\* exactly with the last release.
CleanExitIsQuiet ==
  result = "clean" => up = {} /\ (ha => \A q \in Requests : request[q] = "out")

\* The count of admissions is that of the requests, so the drained channel
\* neither closes early nor stays open for ever.
AdmissionsCounted ==
  /\ admissions = Cardinality({q \in Requests : request[q] # "out"})
  /\ drained <=> (gate = "shut" /\ admissions = 0)

\* A process that is shut down or loses ownership ends, and stops renewing its
\* lease, even if requests never return and jobs never stop: every wait in Run
\* but that for a job's Start is bounded.
RunEnds ==
  (shutdown \/ lifetime = "ended") ~> (result # "none" /\ ~ renewing)
=============================================================================
