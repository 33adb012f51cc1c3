-------------------------- MODULE FleetRuntimeProofs ------------------------
(***************************************************************************)
(* The job group by itself, and then Run, the gate and the job group       *)
(* together, for any number of jobs and any finite set of requests.        *)
(***************************************************************************)
EXTENDS FleetRuntime, FiniteSetTheorems, TLAPS
-----------------------------------------------------------------------------
(***************************************************************************)
(* The job group, for any number of jobs and activations.                  *)
(*                                                                         *)
(* The invariant says which jobs can be up in each phase of an operation:  *)
(* a start has brought up exactly the jobs before the one it is at, a      *)
(* running activation has all of them up, a stop that is at job i leaves   *)
(* behind only jobs that refused to stop, and remembers that there are     *)
(* some.  So a group without a terminal error and without an activation    *)
(* has no job up, which is what makes the next Start safe.                 *)
(***************************************************************************)
Starting == op \in {"start", "startJob"}
Clearing == op \in {"rollback", "stop"}

\* Types, as far as the argument needs them.
Typed ==
  /\ job \in [Jobs -> States] /\ up \subseteq Jobs
  /\ group \in States /\ ctx \in {"none", "live", "ended"}
  /\ op \in {"none", "start", "startJob", "rollback", "stop"}
  /\ at \in Int /\ terminal \subseteq Jobs /\ failed \subseteq Jobs

StartPhase ==
  Starting => /\ at \in 1..(N + 1) /\ up = 1..(at - 1)
              /\ op = "startJob" => at \in Jobs
              /\ ctx # "none" /\ terminal = {} /\ group = "starting"

ClearPhase ==
  Clearing => /\ at \in 0..N /\ ctx = "none" /\ terminal = {}
              /\ group \in {"starting", "stopping"}
              /\ \A j \in up : j > at => job[j] = "failed" /\ j \in failed

IdlePhase ==
  op = "none" => /\ ctx # "none" => terminal = {} /\ up = Jobs /\ group \in {"running", "stopping"}
                 /\ ctx = "none" => group \in {"stopped", "failed"}
                 /\ ctx = "none" /\ terminal = {} => up = {}
                 /\ terminal # {} <=> group = "failed"

\* While there is an activation no job that is up has failed.
Sound == ctx # "none" => \A j \in up : job[j] # "failed"

GInv == Typed /\ StartPhase /\ ClearPhase /\ IdlePhase /\ Sound
-----------------------------------------------------------------------------
\* The initial state satisfies the invariant.
LEMMA InitHolds == JobInit => GInv
<1> SUFFICES ASSUME JobInit PROVE GInv
  OBVIOUS
<1> USE JobAssumption DEF JobInit, Starting, Clearing, Jobs, States
<1>1. Typed
  BY DEF Typed
<1>2. StartPhase /\ ClearPhase /\ IdlePhase /\ Sound
  BY SMTT(30) DEF StartPhase, ClearPhase, IdlePhase, Sound
<1> QED BY <1>1, <1>2 DEF GInv

\* Every step of the group or of its environment preserves the invariant.
LEMMA StepHolds == GInv /\ [JobNext]_jobVars => GInv'
<1> SUFFICES ASSUME GInv, [JobNext]_jobVars PROVE GInv'
  OBVIOUS
<1> USE JobAssumption DEF GInv, Typed, StartPhase, ClearPhase, IdlePhase, Sound,
        Starting, Clearing, Jobs, States
<1>1. ASSUME NEW c \in {"live", "ended"}, Start(c) PROVE GInv'
  BY <1>1 DEF Start
<1>2. CASE Stop
  BY <1>2 DEF Stop
<1>3. CASE ContextEnds
  BY <1>3 DEF ContextEnds
<1>4. CASE BeginJob
  <2>1. CASE ctx = "ended"
    <3>1. /\ job' = [job EXCEPT ![at] = "failed"] /\ op' = "rollback" /\ at' = at - 1
          /\ ctx' = "none" /\ failed' = {} /\ at \in Jobs /\ op = "start"
          /\ UNCHANGED <<group, up, terminal>>
      BY <1>4, <2>1 DEF BeginJob, FailStart
    <3>2. ClearPhase'
      BY <3>1
    <3> QED BY <3>1, <3>2
  <2>2. CASE ctx # "ended"
    BY Zenon, <1>4, <2>2 DEF BeginJob
  <2> QED BY <2>1, <2>2
<1>5. CASE JobStarted
  BY <1>5 DEF JobStarted
<1>6. CASE JobFails
  BY <1>6 DEF JobFails, FailStart
<1>7. CASE Started
  <2>1. /\ op' = "none" /\ at' = 0 /\ group' = "running" /\ ctx = "live"
        /\ at = N + 1 /\ op = "start" /\ UNCHANGED <<job, up, ctx, terminal, failed>>
    BY <1>7 DEF Started
  <2>2. up = Jobs
    BY <2>1
  <2>3. Typed'
    BY <2>1
  <2> QED BY Zenon, <2>1, <2>2, <2>3
<1>8. CASE StartedTooLate
  BY <1>8 DEF StartedTooLate, FailStart
<1>9. ASSUME NEW ok \in BOOLEAN, StopJob(ok) PROVE GInv'
  <2>1. CASE ok
    BY <1>9, <2>1 DEF StopJob
  <2>2. CASE ~ ok
    BY <1>9, <2>2 DEF StopJob
  <2> QED BY <2>1, <2>2
<1>10. CASE Stopped
  <2>1. CASE failed # {}
    BY Zenon, <1>10, <2>1 DEF Stopped
  <2>2. CASE failed = {}
    BY <1>10, <2>2 DEF Stopped
  <2> QED BY <2>1, <2>2
<1>11. ASSUME NEW g \in monitors, MonitorMarks(g) PROVE GInv'
  BY <1>11 DEF MonitorMarks, Ended
<1>12. ASSUME NEW i \in Jobs, JobQuits(i) PROVE GInv'
  BY <1>12 DEF JobQuits
<1>13. ASSUME NEW i \in Jobs, NEW g \in 1..MaxGeneration, Report(i, g) PROVE GInv'
  BY <1>13 DEF Report
<1>14. CASE UNCHANGED jobVars
  BY <1>14 DEF jobVars
<1> QED
  BY Zenon, <1>1, <1>2, <1>3, <1>4, <1>5, <1>6, <1>7, <1>8, <1>9, <1>10, <1>11, <1>12,
     <1>13, <1>14 DEF JobNext, Operation, Background

\* The invariant of the job group (Start, Stop, Abort and their rollbacks).
THEOREM GroupInvariant == JobSpec => []GInv
<1> QED BY InitHolds, StepHolds, PTL DEF JobSpec

\* A stopped group has no job up, and a terminal error is never forgotten.
THEOREM StoppedGroupIsDown == JobSpec => []StoppedIsDown
<1>1. GInv => StoppedIsDown
  BY DEF GInv, Typed, StartPhase, ClearPhase, IdlePhase, StoppedIsDown, Starting, Clearing
<1> QED BY <1>1, GroupInvariant, PTL

\* Jobs are started in order, each of them down, whatever happened before.
THEOREM JobsStartInOrder == JobSpec => StartsInOrder
<1>1. GInv /\ [JobNext]_jobVars =>
        [\A i \in Jobs : i \notin up /\ i \in up' => up = 1..(i - 1)]_jobVars
  <2> SUFFICES ASSUME GInv, JobNext, NEW i \in Jobs, i \notin up, i \in up'
               PROVE up = 1..(i - 1)
    OBVIOUS
  <2>1. CASE JobStarted
    BY ZenonT(30), <2>1 DEF JobStarted, GInv, StartPhase, Starting, Typed
  <2>2. CASE ~ JobStarted
    BY <2>2 DEF JobNext, Operation, Background, Start, Stop, ContextEnds, BeginJob,
       JobFails, FailStart, Started, StartedTooLate, StopJob, Stopped, MonitorMarks,
       JobQuits, Report
  <2> QED BY <2>1, <2>2
<1> QED BY <1>1, GroupInvariant, PTL DEF JobSpec, StartsInOrder

\* Jobs are stopped last to first (stopJobs): a job goes down by itself only
\* after every later job that is still up has failed to stop.
THEOREM JobsStopInReverse == JobSpec => StopsInReverse
<1>1. GInv /\ [JobNext]_jobVars =>
        [\A i \in Jobs : i \in up /\ i \notin up' /\ job[i] # "failed" =>
           \A j \in Jobs : j > i /\ j \in up => job[j] = "failed"]_jobVars
  <2> SUFFICES ASSUME GInv, JobNext, NEW i \in Jobs, i \in up, i \notin up', job[i] # "failed"
               PROVE \A j \in Jobs : j > i /\ j \in up => job[j] = "failed"
    BY ZenonT(30)
  <2>1. PICK ok \in BOOLEAN : StopJob(ok)
    BY DEF JobNext, Operation, Background, Start, Stop, ContextEnds, BeginJob, JobStarted,
       JobFails, FailStart, Started, StartedTooLate, Stopped, MonitorMarks, JobQuits, Report
  <2> QED BY <2>1 DEF StopJob, GInv, ClearPhase, Clearing, Typed
<1> QED BY <1>1, GroupInvariant, PTL DEF JobSpec, StopsInReverse
-----------------------------------------------------------------------------
(* Generations, and what is credited to them.                              *)

\* An activation has a generation of its own, and room for the one after it.
\* While it lasts every credit is of its generation.
Generations ==
  /\ JobTypeOK
  /\ ctx # "none" => /\ generation \in 1..(MaxGeneration - 1)
                     /\ \A i \in Jobs : credit[i] \in {0, generation}

\* Every step keeps the types and the credits.
LEMMA GenerationsStep == GInv /\ Generations /\ [JobNext]_jobVars => Generations'
<1> SUFFICES ASSUME GInv, Generations, [JobNext]_jobVars PROVE Generations'
  OBVIOUS
<1> USE JobAssumption DEF Generations, JobTypeOK, States
<1>1. ASSUME NEW c \in {"live", "ended"}, Start(c) PROVE Generations'
  BY <1>1 DEF Start, Jobs
<1>2. CASE Stop
  BY <1>2 DEF Stop
<1>3. CASE ContextEnds
  BY <1>3 DEF ContextEnds
<1>4. CASE BeginJob
  <2>1. CASE ctx = "ended"
    <3>1. /\ job' = [job EXCEPT ![at] = "failed"] /\ op' = "rollback" /\ at' = at - 1 /\ at \in Jobs
          /\ ctx' = "none" /\ generation' = generation + 1 /\ failed' = {}
          /\ UNCHANGED <<group, credit, up, terminal, monitors>>
      BY <1>4, <2>1 DEF BeginJob, FailStart
    <3>2. generation' \in 0..MaxGeneration /\ at' \in 0..(N + 1)
      BY <2>1, <3>1 DEF Jobs
    <3> QED BY <3>1, <3>2
  <2>2. CASE ctx # "ended"
    BY Zenon, <1>4, <2>2 DEF BeginJob, Jobs
  <2> QED BY <2>1, <2>2
<1>5. CASE JobStarted
  BY <1>5 DEF JobStarted, GInv, StartPhase, Starting, Jobs
<1>6. CASE JobFails
  BY <1>6 DEF JobFails, FailStart, GInv, StartPhase, Starting, Jobs
<1>7. CASE Started
  BY <1>7 DEF Started
<1>8. CASE StartedTooLate
  BY <1>8 DEF StartedTooLate, FailStart
<1>9. ASSUME NEW ok \in BOOLEAN, StopJob(ok) PROVE Generations'
  BY SMTT(30), <1>9 DEF StopJob, GInv, ClearPhase, Clearing, Jobs
<1>10. CASE Stopped
  BY <1>10 DEF Stopped
<1>11. ASSUME NEW g \in monitors, MonitorMarks(g) PROVE Generations'
  BY <1>11 DEF MonitorMarks, Ended
<1>12. ASSUME NEW i \in Jobs, JobQuits(i) PROVE Generations'
  BY <1>12 DEF JobQuits
<1>13. ASSUME NEW i \in Jobs, NEW g \in 1..MaxGeneration, Report(i, g) PROVE Generations'
  BY <1>13 DEF Report
<1>14. CASE UNCHANGED jobVars
  BY <1>14 DEF jobVars
<1> HIDE DEF Generations, JobTypeOK
<1> QED
  BY ZenonT(30), <1>1, <1>2, <1>3, <1>4, <1>5, <1>6, <1>7, <1>8, <1>9, <1>10, <1>11, <1>12,
     <1>13, <1>14 DEF JobNext, Operation, Background

\* Types and generations of the group, for any number of activations.
THEOREM JobGenerations == JobSpec => []Generations
<1>1. JobInit => Generations
  BY JobAssumption DEF JobInit, Generations, JobTypeOK, States, Jobs
<1> QED BY <1>1, GroupInvariant, GenerationsStep, PTL DEF JobSpec

\* JobTypeOK, for all constants.
THEOREM JobTypes == JobSpec => []JobTypeOK
<1>1. Generations => JobTypeOK
  BY DEF Generations
<1> QED BY <1>1, JobGenerations, PTL

\* Neither a monitor nor a report of an earlier activation touches a later one.
THEOREM OnlyOwnActivation == JobSpec => OwnActivationOnly
<1>1. GInv /\ Generations /\ Generations' /\ [JobNext]_jobVars =>
        [/\ group = "running" /\ group' = "stopping" => ctx = "ended" \/ ctx' = "none"
         /\ \A i \in Jobs : ctx' # "none" => credit'[i] \in {0, generation'}]_jobVars
  <2> SUFFICES ASSUME GInv, Generations, Generations', JobNext
               PROVE  /\ group = "running" /\ group' = "stopping" => ctx = "ended" \/ ctx' = "none"
                      /\ \A i \in Jobs : ctx' # "none" => credit'[i] \in {0, generation'}
    OBVIOUS
  <2>1. \A i \in Jobs : ctx' # "none" => credit'[i] \in {0, generation'}
    BY ZenonT(30) DEF Generations
  <2>2. group = "running" /\ group' = "stopping" => ctx = "ended" \/ ctx' = "none"
    BY DEF JobNext, Operation, Background, Start, Stop, ContextEnds, BeginJob, JobStarted,
       JobFails, FailStart, Started, StartedTooLate, StopJob, Stopped, MonitorMarks, Ended, JobQuits, Report
  <2> QED BY <2>1, <2>2
<1> QED BY <1>1, GroupInvariant, JobGenerations, PTL DEF JobSpec, OwnActivationOnly
-----------------------------------------------------------------------------
(***************************************************************************)
(* Run and the gate.                                                       *)
(*                                                                         *)
(* Every step of the process is one of the job group or leaves it alone,   *)
(* so the group's invariant carries over.  Where Run is says what the      *)
(* group does: while it checks health or serves, no operation is under way *)
(* and the activation is not over; while it drains, all jobs are down.     *)
(* The group calls itself running until its context ends, which is when    *)
(* the gate's does.                                                        *)
(***************************************************************************)
\* Types of Run, apart from the number of admissions.
RunTyped ==
  /\ ha \in BOOLEAN /\ shutdown \in BOOLEAN /\ renewing \in BOOLEAN /\ drained \in BOOLEAN
  /\ pc \in {"wait", "start", "health", "serve", "stop", "abort", "drain", "exit"}
  /\ lifetime \in {"none", "live", "ended"} /\ gate \in {"closed", "open", "shut"}
  /\ request \in [Requests -> {"out", "counted", "in"}]
  /\ result \in {"none", "clean", "error", "aborted"}

\* Where Run is, and what the group and the lifetime are then.
RunPhase ==
  /\ pc \notin {"wait", "exit"} => lifetime # "none"
  /\ pc = "wait" => op = "none" /\ ctx = "none" /\ up = {} /\ terminal = {} /\ gate = "closed"
  /\ pc \in {"health", "serve"} => op = "none" /\ ctx # "none"
  /\ pc = "drain" => op = "none" /\ ctx = "none" /\ terminal = {} /\ gate # "open"
  /\ pc # "exit" <=> result = "none"
  /\ gate = "open" <=> pc = "serve"
  /\ gate = "shut" => pc \in {"stop", "abort", "drain", "exit"}

\* The activation's context ends with the lifetime, and the group runs until then.
Contexts ==
  /\ ctx # "none" => ctx = lifetime
  /\ op = "none" /\ ctx = "live" => group = "running"

Outside == gate = "closed" => \A q \in Requests : request[q] = "out"

RInv == RunTyped /\ GInv /\ Generations /\ RunPhase /\ Contexts /\ Outside /\ AdmissionsCounted /\ CleanExitIsQuiet
-----------------------------------------------------------------------------
\* Every step of the process is a step of the job group, or leaves it alone.
LEMMA GroupSteps == RInv /\ [Next]_vars => [JobNext]_jobVars
<1> SUFFICES ASSUME RInv, [Next]_vars, ~ UNCHANGED jobVars PROVE JobNext
  OBVIOUS
<1>1. CASE StartJobs
  <2>1. Start(lifetime) /\ lifetime \in {"live", "ended"}
    BY <1>1 DEF StartJobs, RInv, RunPhase, RunTyped
  <2> QED BY <2>1 DEF JobNext
<1>2. CASE StopJobs
  BY <1>2 DEF StopJobs, JobNext
<1>3. CASE GroupStep
  BY <1>3 DEF GroupStep, JobNext
<1>4. CASE Shutdown \/ LoseOwnership
  BY <1>4 DEF Shutdown, LoseOwnership, EndLifetime, JobNext
<1> QED
  BY <1>1, <1>2, <1>3, <1>4 DEF Next, RunStep, RequestStep, BecomeActive, GiveUpWaiting, JobsStarted, Healthy,
     UnhealthyAtStart, StopServing, JobsStopped, Drained, DrainTimesOut, Admit, Recheck, ReleaseRequest, vars

\* What the group may do by itself: with no operation under way only a monitor
\* of an activation that has ended does anything.
LEMMA GroupAlone ==
  GInv /\ (Operation \/ Background) =>
    /\ ctx' \in {ctx, "none"}
    /\ op = "none" => op' = "none" /\ ctx' = ctx /\ terminal' = terminal /\ up' \subseteq up
                      /\ (group' = group \/ ctx = "ended")
    /\ op # "none" /\ op' = "none" /\ ctx' = "live" => group' = "running"
<1> SUFFICES ASSUME GInv, Operation \/ Background
             PROVE  /\ ctx' \in {ctx, "none"}
                    /\ op = "none" => op' = "none" /\ ctx' = ctx /\ terminal' = terminal /\ up' \subseteq up
                                      /\ (group' = group \/ ctx = "ended")
                    /\ op # "none" /\ op' = "none" /\ ctx' = "live" => group' = "running"
  BY ZenonT(30)
<1>1. CASE Operation
  BY SMTT(30), <1>1 DEF Operation, BeginJob, JobStarted, JobFails, FailStart, Started, StartedTooLate, StopJob, Stopped,
     GInv, ClearPhase, Clearing
<1>2. CASE Background
  BY <1>2 DEF Background, MonitorMarks, Ended, JobQuits, Report
<1> QED BY <1>1, <1>2
-----------------------------------------------------------------------------
(* Where Run is.                                                           *)

\* The steps of the group, and the ends of the contexts.
LEMMA PhaseOfGroup ==
  ASSUME RInv, GroupStep \/ Shutdown \/ LoseOwnership
  PROVE  RunTyped' /\ RunPhase' /\ Contexts'
<1> USE DEF RInv
<1>1. CASE GroupStep
  <2>1. UNCHANGED <<runVars, gateVars>> /\ (Operation \/ Background)
    BY <1>1 DEF GroupStep
  <2>2. RunTyped'
    BY <2>1 DEF runVars, gateVars, RunTyped
  <2>3. RunPhase' /\ Contexts'
    BY SMTT(30), <2>1, GroupAlone DEF runVars, gateVars, RunPhase, Contexts
  <2> QED BY <2>2, <2>3
<1>2. CASE Shutdown \/ LoseOwnership
  <2>1. /\ UNCHANGED <<gateVars, ha, pc, renewing, result>> /\ shutdown' \in BOOLEAN
        /\ UNCHANGED <<op, up, terminal, group>>
        /\ \/ UNCHANGED <<lifetime, ctx>>
           \/ /\ lifetime' = (IF lifetime = "live" THEN "ended" ELSE lifetime)
              /\ ctx' = (IF ctx = "live" THEN "ended" ELSE ctx)
    BY Zenon, <1>2 DEF Shutdown, LoseOwnership, EndLifetime, ContextEnds, jobVars, RunTyped
  <2>2. RunTyped'
    BY <2>1 DEF gateVars, RunTyped
  <2>3. RunPhase' /\ Contexts'
    BY <2>1 DEF gateVars, RunPhase, Contexts
  <2> QED BY <2>2, <2>3
<1> QED BY <1>1, <1>2

\* The steps of Run.
LEMMA PhaseOfRun ==
  ASSUME RInv, RunStep
  PROVE  RunTyped' /\ RunPhase' /\ Contexts'
<1> USE DEF RInv, RunTyped, RunPhase, Contexts, runVars, gateVars, jobVars
<1>1. CASE BecomeActive
  BY <1>1 DEF BecomeActive
<1>2. CASE GiveUpWaiting
  BY Zenon, <1>2 DEF GiveUpWaiting, Return
<1>3. CASE StartJobs
  BY <1>3 DEF StartJobs, Start
<1>4. CASE JobsStarted
  BY Zenon, <1>4 DEF JobsStarted, Return, Goto
<1>5. CASE Healthy
  BY <1>5 DEF Healthy, Goto
<1>6. CASE UnhealthyAtStart
  BY <1>6 DEF UnhealthyAtStart, Goto
<1>7. CASE StopServing
  BY <1>7 DEF StopServing, CloseIfDrained
<1>8. CASE StopJobs
  BY SMTT(30), <1>8 DEF StopJobs, Stop
<1>9. CASE JobsStopped
  BY Zenon, <1>9 DEF JobsStopped, Return, Goto
<1>10. CASE Drained \/ DrainTimesOut
  BY Zenon, <1>10 DEF Drained, DrainTimesOut, Return
<1> QED BY Zenon, <1>1, <1>2, <1>3, <1>4, <1>5, <1>6, <1>7, <1>8, <1>9, <1>10 DEF RunStep

\* Requests pass the gate without Run.
LEMMA PhaseOfRequests ==
  ASSUME RInv, RequestStep
  PROVE  RunTyped' /\ RunPhase' /\ Contexts'
<1>1. PICK q \in Requests : Admit(q) \/ Recheck(q) \/ ReleaseRequest(q)
  BY DEF RequestStep
<1>2. UNCHANGED <<jobVars, runVars, gate>> /\ drained' \in BOOLEAN
  BY Zenon, <1>1 DEF Admit, Recheck, ReleaseRequest, Leave, CloseIfDrained, RInv, RunTyped
<1>3. request' \in [Requests -> {"out", "counted", "in"}]
  BY <1>1 DEF Admit, Recheck, ReleaseRequest, Leave, RInv, RunTyped
<1> QED BY <1>2, <1>3 DEF RInv, RunTyped, RunPhase, Contexts, jobVars, runVars
-----------------------------------------------------------------------------
(* The admissions.                                                         *)

Inside == {q \in Requests : request[q] # "out"}

\* A request that enters or leaves changes the count by one, and there are
\* never more than there are requests.
LEMMA InsideCount ==
  ASSUME RunTyped, NEW q \in Requests
  PROVE  /\ IsFiniteSet(Inside) /\ Cardinality(Inside) \in Nat
         /\ Cardinality(Inside) = 0 <=> Inside = {}
         /\ q \notin Inside => Cardinality(Inside \cup {q}) = Cardinality(Inside) + 1
         /\ q \in Inside => Cardinality(Inside \ {q}) = Cardinality(Inside) - 1
         /\ Cardinality(Inside) <= Cardinality(Requests)
<1>1. IsFiniteSet(Inside) /\ Cardinality(Inside) <= Cardinality(Requests)
  BY RuntimeAssumption, FS_Subset DEF Inside
<1> QED BY Zenon, <1>1, FS_CardinalityType, FS_EmptySet, FS_AddElement, FS_RemoveElement

\* A request leaves.
LEMMA LeaveCounts ==
  ASSUME RInv, NEW q \in Requests, request[q] # "out", Leave(q)
  PROVE  Outside' /\ AdmissionsCounted'
<1>1. admissions = Cardinality(Inside) /\ drained \in BOOLEAN /\ (drained <=> gate = "shut" /\ admissions = 0)
  BY DEF RInv, RunTyped, AdmissionsCounted, Inside
<1>2. Inside' = Inside \ {q} /\ q \in Inside
  BY DEF Leave, Inside, RInv, RunTyped
<1>3. admissions' = Cardinality(Inside')
  BY <1>1, <1>2, InsideCount DEF Leave, RInv
<1>4. admissions # 0
  BY Zenon, <1>1, <1>2, InsideCount DEF RInv
<1>5. drained' <=> gate' = "shut" /\ admissions' = 0
  BY Zenon, <1>1, <1>4 DEF Leave, CloseIfDrained
<1>6. Outside'
  BY DEF Leave, Outside, RInv, RunTyped
<1> QED BY <1>3, <1>5, <1>6 DEF AdmissionsCounted, Inside

\* The steps of requests.
LEMMA RequestsCount ==
  ASSUME RInv, RequestStep
  PROVE  Outside' /\ AdmissionsCounted'
<1>1. PICK q \in Requests : Admit(q) \/ Recheck(q) \/ ReleaseRequest(q)
  BY DEF RequestStep
<1>2. CASE Admit(q)
  <2>1. admissions = Cardinality(Inside) /\ drained \in BOOLEAN /\ (drained <=> gate = "shut" /\ admissions = 0)
    BY DEF RInv, RunTyped, AdmissionsCounted, Inside
  <2>2. gate = "open" /\ gate' = gate /\ drained' = drained
    BY <1>2 DEF Admit, GateLive
  <2>3. Inside' = Inside \cup {q} /\ q \notin Inside
    BY <1>2 DEF Admit, Inside, RInv, RunTyped
  <2>4. admissions' = Cardinality(Inside')
    BY <1>2, <2>1, <2>3, InsideCount DEF Admit, RInv
  <2>5. drained' <=> gate' = "shut" /\ admissions' = 0
    BY Zenon, <2>1, <2>2
  <2> QED BY <2>2, <2>4, <2>5 DEF AdmissionsCounted, Inside, Outside
<1>3. CASE Recheck(q) /\ GateLive
  <2>1. /\ request[q] = "counted" /\ request' = [request EXCEPT ![q] = "in"]
        /\ UNCHANGED <<gate, admissions, drained>>
    BY <1>3 DEF Recheck
  <2>2. Inside' = Inside
    BY <2>1 DEF Inside, RInv, RunTyped
  <2>3. gate = "open"
    BY <1>3 DEF GateLive
  <2> QED BY <2>1, <2>2, <2>3 DEF AdmissionsCounted, Inside, Outside, RInv
<1>4. CASE Recheck(q) /\ ~ GateLive
  BY <1>4, LeaveCounts DEF Recheck
<1>5. CASE ReleaseRequest(q)
  BY <1>5, LeaveCounts DEF ReleaseRequest
<1> QED BY <1>1, <1>2, <1>3, <1>4, <1>5

\* The gate opens and shuts.
LEMMA GateCounts ==
  ASSUME RInv, Healthy \/ StopServing
  PROVE  Outside' /\ AdmissionsCounted'
<1>1. drained \in BOOLEAN /\ (drained <=> gate = "shut" /\ admissions = 0)
  BY DEF RInv, RunTyped, AdmissionsCounted
<1>2. UNCHANGED <<admissions, request>> /\ gate' # "closed"
  BY DEF Healthy, StopServing
<1>3. drained' <=> gate' = "shut" /\ admissions' = 0
  <2>1. CASE StopServing
    <3>1. gate = "open"
      BY <2>1 DEF StopServing, RInv, RunPhase
    <3> QED BY Zenon, <1>1, <1>2, <2>1, <3>1 DEF StopServing, CloseIfDrained
  <2>2. CASE Healthy
    <3>1. gate = "closed" /\ gate' = "open" /\ drained' = drained
      BY SMTT(30), <2>2 DEF Healthy, RInv, RunPhase, RunTyped
    <3> QED BY Zenon, <1>1, <3>1
  <2> QED BY <2>1, <2>2
<1> QED BY <1>2, <1>3 DEF AdmissionsCounted, Outside, RInv
-----------------------------------------------------------------------------
\* Every other step leaves the gate alone.
LEMMA StepCounts ==
  ASSUME RInv, [Next]_vars
  PROVE  Outside' /\ AdmissionsCounted'
<1>1. CASE RequestStep
  BY <1>1, RequestsCount
<1>2. CASE Healthy \/ StopServing
  BY <1>2, GateCounts
<1>3. CASE UNCHANGED gateVars
  BY <1>3 DEF gateVars, RInv, Outside, AdmissionsCounted
<1> QED
  BY <1>1, <1>2, <1>3 DEF Next, RunStep, BecomeActive, GiveUpWaiting, StartJobs, JobsStarted, UnhealthyAtStart,
     StopJobs, JobsStopped, Drained, DrainTimesOut, GroupStep, Shutdown, LoseOwnership, vars

\* Run returns "clean" when the jobs are down and, with HA, the gate is drained;
\* nothing happens after that.
LEMMA StepQuiet ==
  ASSUME RInv, [Next]_vars
  PROVE  CleanExitIsQuiet'
<1> SUFFICES ASSUME result' = "clean"
             PROVE  up' = {} /\ (ha' => \A q \in Requests : request'[q] = "out")
  BY DEF CleanExitIsQuiet
<1>1. CASE result = "clean"
  <2>1. pc = "exit"
    BY SMTT(30), <1>1 DEF RInv, RunPhase
  <2>2. UNCHANGED <<up, ha, request>>
    BY Zenon, <1>1, <2>1 DEF Next, RunStep, RequestStep, BecomeActive, GiveUpWaiting, StartJobs, JobsStarted, Healthy,
       UnhealthyAtStart, StopServing, StopJobs, JobsStopped, Drained, DrainTimesOut, GroupStep, Shutdown,
       LoseOwnership, Admit, Recheck, ReleaseRequest, vars, jobVars, runVars, gateVars
  <2> QED BY <1>1, <2>2 DEF RInv, CleanExitIsQuiet
<1>2. CASE result # "clean"
  <2>1. \/ GiveUpWaiting \/ Drained
        \/ JobsStopped /\ ~ ha /\ op = "none" /\ ctx = "none" /\ terminal = {}
    BY Zenon, <1>2 DEF Next, RunStep, RequestStep, BecomeActive, StartJobs, JobsStarted, Healthy, Return, Goto,
       UnhealthyAtStart, StopServing, StopJobs, JobsStopped, DrainTimesOut, GroupStep, Shutdown,
       LoseOwnership, Admit, Recheck, ReleaseRequest, vars, jobVars, runVars, gateVars
  <2>2. UNCHANGED <<up, ha, request>>
    BY <2>1 DEF GiveUpWaiting, Drained, JobsStopped, Return, Goto, jobVars, gateVars
  <2>3. up = {}
    BY <2>1 DEF GiveUpWaiting, Drained, RInv, RunPhase, GInv, IdlePhase
  <2>4. ha => \A q \in Requests : request[q] = "out"
    <3>1. CASE GiveUpWaiting
      BY <3>1 DEF GiveUpWaiting, RInv, RunPhase, Outside
    <3>2. CASE Drained
      <4>1. admissions = 0 /\ admissions = Cardinality(Inside)
        BY <3>2 DEF Drained, RInv, AdmissionsCounted, Inside
      <4> SUFFICES ASSUME NEW q \in Requests PROVE request[q] = "out"
        OBVIOUS
      <4>2. Inside = {}
        BY Zenon, <4>1, InsideCount DEF RInv
      <4> QED BY <4>2 DEF Inside
    <3> QED BY <2>1, <3>1, <3>2
  <2> QED BY SMTT(30), <2>2, <2>3, <2>4
<1> QED BY <1>1, <1>2

\* RInv is inductive.
THEOREM RuntimeInvariant == Spec => []RInv
<1>1. Init => RInv
  <2> SUFFICES ASSUME Init PROVE RInv
    OBVIOUS
  <2>1. GInv /\ Generations
    BY InitHolds, JobAssumption DEF Init, JobInit, Generations, JobTypeOK, States, Jobs
  <2>2. RunTyped
    BY Zenon DEF Init, RunTyped
  <2>3. RunPhase /\ Contexts /\ Outside /\ CleanExitIsQuiet
    BY DEF Init, JobInit, RunPhase, Contexts, Outside, CleanExitIsQuiet
  <2>4. AdmissionsCounted
    <3>1. {q \in Requests : request[q] # "out"} = {}
      BY DEF Init
    <3>2. admissions = 0 /\ drained = FALSE /\ gate = "closed"
      BY DEF Init
    <3> QED BY <3>1, <3>2, FS_EmptySet DEF AdmissionsCounted
  <2> QED BY SMTT(30), <2>1, <2>2, <2>3, <2>4 DEF RInv
<1>2. RInv /\ [Next]_vars => RInv'
  <2> SUFFICES ASSUME RInv, [Next]_vars PROVE RInv'
    OBVIOUS
  <2>1. GInv' /\ Generations'
    BY GroupSteps, StepHolds, GenerationsStep DEF RInv
  <2>2. RunTyped' /\ RunPhase' /\ Contexts'
    <3>1. CASE UNCHANGED vars
      BY SMTT(30), <3>1 DEF vars, jobVars, runVars, gateVars, RInv, RunTyped, RunPhase, Contexts
    <3> QED BY ZenonT(30), <3>1, PhaseOfGroup, PhaseOfRun, PhaseOfRequests DEF Next
  <2> QED BY <2>1, <2>2, StepCounts, StepQuiet DEF RInv
<1> QED BY <1>1, <1>2, PTL DEF Spec

\* Types, for all constants.
THEOREM RuntimeTypes == Spec => []TypeOK
<1>1. RInv => TypeOK
  <2> SUFFICES ASSUME RInv PROVE TypeOK
    OBVIOUS
  <2>1. admissions \in 0..Cardinality(Requests)
    <3>1. admissions = Cardinality(Inside)
      BY DEF RInv, AdmissionsCounted, Inside
    <3>2. IsFiniteSet(Inside) /\ Cardinality(Inside) <= Cardinality(Requests)
      BY RuntimeAssumption, FS_Subset DEF Inside
    <3>3. Cardinality(Inside) \in Nat /\ Cardinality(Requests) \in Nat
      BY ZenonT(30), <3>2, RuntimeAssumption, FS_CardinalityType
    <3> QED BY <3>1, <3>2, <3>3
  <2> QED BY <2>1 DEF RInv, RunTyped, Generations, TypeOK
<1> QED BY <1>1, RuntimeInvariant, PTL

\* Whenever the gate admits requests all jobs are up: the group's context ends
\* with the lifetime of the gate, and no job is stopped before the gate shuts.
THEOREM RuntimeServesWithJobs == Spec => []ServesOnlyWithJobs
<1>1. RInv => ServesOnlyWithJobs
  BY DEF RInv, RunPhase, RunTyped, Contexts, GInv, IdlePhase, ServesOnlyWithJobs, GateLive
<1> QED BY <1>1, RuntimeInvariant, PTL

\* A clean stop leaves no job up and, with HA, no request inside.
THEOREM RuntimeExitsQuietly == Spec => []CleanExitIsQuiet
<1>1. RInv => CleanExitIsQuiet
  BY DEF RInv
<1> QED BY <1>1, RuntimeInvariant, PTL

\* The gate's count is that of the requests inside, and the drained channel is
\* closed exactly when the gate is shut and the count is zero.
THEOREM RuntimeCounts == Spec => []AdmissionsCounted
<1>1. RInv => AdmissionsCounted
  BY DEF RInv
<1> QED BY <1>1, RuntimeInvariant, PTL

\* The runtime drives its job group only as the group allows, so what the group
\* promises (order of starts and stops, no leftovers of an activation) holds in it.
THEOREM RuntimeDrivesGroup == Spec => JobSpec
<1>1. Init => JobInit
  BY DEF Init
<1>2. RInv /\ [Next]_vars => [JobNext]_jobVars
  BY GroupSteps
<1> QED BY <1>1, <1>2, RuntimeInvariant, PTL DEF Spec, JobSpec

\* In the process, too, jobs are stopped only in the reverse order.
THEOREM RuntimeStopsInReverse == Spec => StopsInReverse
<1> QED BY RuntimeDrivesGroup, JobsStopInReverse, PTL
=============================================================================
