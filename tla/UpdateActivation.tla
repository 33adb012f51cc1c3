-------------------------- MODULE UpdateActivation -------------------------
(***************************************************************************)
(* updater.Manager, second part: run.  An operation is prepared, marks its *)
(* activation, stops the application (with HA), swaps the deployment by    *)
(* two renames, clears the mark and starts the new stack.  Every write,    *)
(* rename and command is a step of its own, so that a crash may fall       *)
(* between any two.                                                        *)
(***************************************************************************)
EXTENDS UpdateOperation

\* What a step of run leaves alone unless it says otherwise.
RunFrame == UNCHANGED <<client, life>>
Goto(s) == pc' = s /\ UNCHANGED verdict

\* run calls fail, failPendingRecovery, or failActivation.
Fail(cmd, pending) ==
  pc' = "fail" /\ verdict' = [recovery |-> cmd, pending |-> pending, restart |-> FALSE]
FailActivation(restart) ==
  pc' = "layout" /\ verdict' = [recovery |-> NoCommand, pending |-> FALSE, restart |-> restart]
-----------------------------------------------------------------------------
(* Preparation.  A phase's work, then advance to the next phase; work      *)
(* under a cancelled context fails.                                        *)

NextPhase == [queued |-> "downloading", downloading |-> "verifying",
              verifying |-> "staging", staging |-> "preflight"]

Prepare ==
  /\ pc \in DOMAIN NextPhase /\ (cancelled => pc = "queued")
  /\ op' = [op EXCEPT !.phase = NextPhase[pc]]
  /\ staged' = IF pc = "staging" THEN op.target ELSE staged
  /\ \/ Saved(op') /\ Goto(NextPhase[pc])
     \/ NotSaved(op') /\ Fail(NoCommand, FALSE)
  /\ RunFrame /\ UNCHANGED <<marker, current, previous, world>>

PreparationFails ==
  /\ pc \in PreparingPhases /\ Fail(NoCommand, FALSE)
  /\ RunFrame /\ UNCHANGED <<files, layout, world, op, faults>>

\* The preflight, the sync of the staged tree and, with HA, the role check.
Prepared ==
  /\ pc = "preflight" /\ ~ cancelled /\ Goto("begin")
  /\ RunFrame /\ UNCHANGED <<files, layout, world, op, faults>>
-----------------------------------------------------------------------------
(* beginActivation, under the lock: the marker, then the phase.            *)

\* Faulty variant: the activation begins without its marker.
BeginUnmarked ==
  /\ pc = "begin"
  /\ IF closing THEN Fail(NoCommand, FALSE) ELSE Goto("mark")
  /\ RunFrame /\ UNCHANGED <<files, layout, world, op, faults>>

BeginActivation ==
  /\ pc = "begin"
  /\ \/ (closing \/ marker # NoMarker) /\ Fail(NoCommand, FALSE) /\ UNCHANGED <<marker, faults>>
     \/ /\ ~ closing /\ marker = NoMarker
        /\ \/ marker' = MarkerOf(op) /\ Goto("mark") /\ UNCHANGED faults
           \/ Fault /\ marker' \in {marker, MarkerOf(op)} /\ Fail(NoCommand, FALSE)
  /\ RunFrame /\ UNCHANGED <<disk, layout, world, op>>

MarkActivating ==
  /\ pc = "mark"
  /\ op' = [op EXCEPT !.phase = "activating"]
  /\ \/ Saved(op') /\ UNCHANGED marker /\ Goto(IF ha THEN "command" ELSE "drop")
     \/ /\ faults < MaxFaults /\ disk' \in {disk, op'}
        /\ \/ marker' = NoMarker /\ faults' = faults + 1
           \/ faults + 1 < MaxFaults /\ faults' = faults + 2 /\ UNCHANGED marker
        /\ Fail(NoCommand, FALSE)
  /\ RunFrame /\ UNCHANGED <<layout, world>>
-----------------------------------------------------------------------------
(* HA: the application's commands.  A failed start may have done nothing,  *)
(* have migrated and left it down, or have brought it up all the same.     *)

StartSucceeds(v) ==
  /\ app' = v /\ migrated' = IF v > migrated THEN v ELSE migrated
  /\ UNCHANGED stoppedBy
StartFails(v) ==
  \/ UNCHANGED world
  \/ /\ app' \in {None, v} /\ migrated' = IF v > migrated THEN v ELSE migrated
     /\ stoppedBy' = IF app' = None THEN op.started ELSE stoppedBy

SetPreviousCommand ==
  /\ pc = "command"
  /\ op' = [op EXCEPT !.recovery = Forward(current)]
  /\ \/ Saved(op') /\ Goto("stop")
     \/ NotSaved(op') /\ FailActivation(FALSE)
  /\ RunFrame /\ UNCHANGED <<marker, layout, world>>

\* The qualification barrier before the stop of a completing update fails.
BarrierFails ==
  /\ pc = "stop" /\ op.complete
  /\ Cleared \/ NotCleared
  /\ Fail(NoCommand, FALSE)
  /\ RunFrame /\ UNCHANGED <<disk, layout, world, op>>

StopApplication ==
  /\ pc = "stop"
  /\ \/ /\ app' = None /\ stoppedBy' = op.started
        /\ Goto(IF op.complete THEN "takeover" ELSE "drop")
     \/ /\ app' \in {None, app}
        /\ stoppedBy' = IF app' = None THEN op.started ELSE stoppedBy
        /\ IF op.complete THEN Goto("restart") ELSE FailActivation(TRUE)
  /\ RunFrame /\ UNCHANGED <<files, layout, migrated, op, faults>>

WaitTakeover ==
  /\ pc = "takeover" /\ (Goto("drop") \/ Goto("restart"))
  /\ RunFrame /\ UNCHANGED <<files, layout, world, op, faults>>

restartHAApplication ==
  /\ pc = "restart"
  /\ \/ StartSucceeds(current) /\ Goto("restarted")
     \/ StartFails(current) /\ Fail(Forward(current), TRUE)
  /\ RunFrame /\ UNCHANGED <<files, layout, op, faults>>

Restarted ==
  /\ pc = "restarted"
  /\ \/ Cleared /\ Fail(NoCommand, FALSE)
     \/ NotCleared /\ Fail(Forward(current), TRUE)
  /\ RunFrame /\ UNCHANGED <<disk, layout, world, op>>
-----------------------------------------------------------------------------
(* activateDeployment.                                                     *)

SwapFrame == RunFrame /\ UNCHANGED <<files, world, op>>

RemovePrevious ==
  /\ pc = "drop" /\ SwapFrame /\ UNCHANGED <<current, staged>>
  /\ \/ previous' = None /\ Goto("backup") /\ UNCHANGED faults
     \/ Fault /\ previous' \in {previous, None} /\ FailActivation(ha)

BackUpCurrent ==
  /\ pc = "backup" /\ SwapFrame /\ UNCHANGED staged
  /\ \/ /\ previous' = current /\ current' = None
        /\ \/ Goto("install") /\ UNCHANGED faults
           \/ Fault /\ Goto("restore")
     \/ Fault /\ FailActivation(ha) /\ UNCHANGED <<current, previous>>

\* The rename of the staged release; with HA a barrier comes before it.
InstallStaged ==
  /\ pc = "install" /\ SwapFrame /\ UNCHANGED previous
  /\ \/ /\ current' = staged /\ staged' = None
        /\ \/ Goto("swapped") /\ UNCHANGED faults
           \/ Fault /\ Goto("rollback")
     \/ /\ Goto("restore") /\ UNCHANGED <<current, staged>>
        /\ \/ ha /\ UNCHANGED faults
           \/ Fault

rollbackPreparedDeployment ==
  /\ pc = "rollback" /\ SwapFrame /\ UNCHANGED previous
  /\ \/ staged' = current /\ current' = None /\ Goto("restore") /\ UNCHANGED faults
     \/ Fault /\ FailActivation(ha) /\ UNCHANGED <<current, staged>>

restorePreviousDeployment ==
  /\ pc = "restore" /\ SwapFrame /\ UNCHANGED staged
  /\ FailActivation(ha)
  /\ \/ current' = previous /\ previous' = None /\ UNCHANGED faults
     \/ Fault /\ UNCHANGED <<current, previous>>
-----------------------------------------------------------------------------
(* The new deployment is in place: its command, the marker, its start.     *)

SetTargetCommand ==
  /\ pc = "swapped"
  /\ op' = [op EXCEPT !.recovery = Forward(op.target)]
  /\ \/ Saved(op') /\ Goto("unmark")
     \/ NotSaved(op') /\ IF ha THEN FailActivation(TRUE) ELSE Fail(op'.recovery, FALSE)
  /\ RunFrame /\ UNCHANGED <<marker, layout, world>>

ClearMarker ==
  /\ pc = "unmark"
  /\ \/ Cleared /\ Goto("activate")
     \/ NotCleared /\ FailActivation(ha)
  /\ RunFrame /\ UNCHANGED <<disk, layout, world, op>>

\* Faulty variant: a stack that does not start is rolled back.
RunActivationRollsBack ==
  /\ pc = "activate"
  /\ \/ StartSucceeds(op.target) /\ Goto("succeed")
     \/ StartFails(op.target) /\ Goto("rollback")
  /\ RunFrame /\ UNCHANGED <<files, layout, op, faults>>

RunActivation ==
  /\ pc = "activate"
  /\ \/ StartSucceeds(op.target) /\ Goto("succeed")
        /\ UNCHANGED faults
     \/ /\ StartFails(op.target)
        /\ \/ Fail(Forward(op.target), FALSE) /\ UNCHANGED faults
           \/ ~ ha /\ Fault /\ Fail(NoCommand, FALSE)
  /\ RunFrame /\ UNCHANGED <<files, layout, op>>

\* A refreshed updater closes the manager before it is replaced.
Succeed ==
  LET o == [advanceOutcomeRevision(op) EXCEPT !.phase = "succeeded", !.recovery = NoCommand] IN
  /\ pc = "succeed" /\ Goto("cleanup")
  /\ \/ Saved(o) /\ op' = o /\ closing' \in {closing, TRUE}
     \/ NotSaved(o) /\ UNCHANGED <<op, closing>>
  /\ UNCHANGED <<client, marker, layout, world, ha, proc, cancelled, crashes>>
-----------------------------------------------------------------------------
(* failActivation: the layout, the marker, the restart, the verdict.       *)

\* Without HA only a target with its preflight proof can be run again.
LayoutCommand(v, target) ==
  IF ha THEN {Forward(v)} ELSE {NoCommand} \cup (IF v = target THEN {Forward(v)} ELSE {})

Conclude(cmd) ==
  /\ pc' = "fail"
  /\ verdict' = [verdict EXCEPT !.recovery = cmd, !.pending = verdict.restart /\ cmd # NoCommand]
Continue(s, cmd) == pc' = s /\ verdict' = [verdict EXCEPT !.recovery = cmd]

ReconcileFailedLayout ==
  /\ pc = "layout"
  /\ \/ /\ current # None /\ UNCHANGED <<current, previous>>
        /\ \E cmd \in LayoutCommand(current, op.target) :
             \/ Continue("clear", cmd) /\ UNCHANGED faults
             \/ Fault /\ Conclude(cmd)
     \/ /\ current = None /\ previous = None /\ Conclude(NoCommand)
        /\ UNCHANGED <<current, previous, faults>>
     \/ /\ current = None /\ previous # None
        /\ \/ /\ current' = previous /\ previous' = None
              /\ \/ Continue("clear", IF ha THEN Forward(previous) ELSE NoCommand) /\ UNCHANGED faults
                 \/ Fault /\ Conclude(RestoreCommand)
           \/ Fault /\ Conclude(RestoreCommand) /\ UNCHANGED <<current, previous>>
  /\ RunFrame /\ UNCHANGED <<files, staged, world, op>>

ClearFailedMarker ==
  /\ pc = "clear"
  /\ \/ Cleared /\ IF verdict.restart THEN Goto("restartLayout") ELSE Conclude(verdict.recovery)
     \/ NotCleared /\ Conclude(verdict.recovery)
  /\ RunFrame /\ UNCHANGED <<disk, layout, world, op>>

RestartLayout ==
  /\ pc = "restartLayout"
  /\ \/ StartSucceeds(current) /\ Conclude(NoCommand)
     \/ StartFails(current) /\ Conclude(verdict.recovery)
  /\ RunFrame /\ UNCHANGED <<files, layout, op, faults>>

finishFailure ==
  LET o == Failed(op, verdict.recovery, verdict.pending) IN
  /\ pc = "fail" /\ Goto("cleanup")
  /\ \/ Saved(o) /\ op' = o
     \/ NotSaved(o) /\ UNCHANGED op
  /\ RunFrame /\ UNCHANGED <<marker, layout, world>>

finishOperation ==
  /\ pc = "cleanup" /\ Goto("idle") /\ staged' = None
  /\ RunFrame /\ UNCHANGED <<files, current, previous, world, op, faults>>

Run ==
  \/ Prepare \/ PreparationFails \/ Prepared \/ BeginActivation \/ MarkActivating
  \/ SetPreviousCommand \/ BarrierFails \/ StopApplication \/ WaitTakeover
  \/ restartHAApplication \/ Restarted
  \/ RemovePrevious \/ BackUpCurrent \/ InstallStaged
  \/ rollbackPreparedDeployment \/ restorePreviousDeployment
  \/ SetTargetCommand \/ ClearMarker \/ RunActivation \/ Succeed
  \/ ReconcileFailedLayout \/ ClearFailedMarker \/ RestartLayout
  \/ finishFailure \/ finishOperation
=============================================================================
