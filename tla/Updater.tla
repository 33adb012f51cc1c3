------------------------------ MODULE Updater ------------------------------
(***************************************************************************)
(* updater.Manager, third part: the life of the updater process.  It loads *)
(* the state file, reconciles the deployment with it, restarts an          *)
(* application an interrupted HA update left stopped, serves, and ends: by *)
(* a shutdown, by an error of its start, or by a crash between any two     *)
(* steps.                                                                  *)
(***************************************************************************)
EXTENDS UpdateActivation

vars == <<ha, disk, marker, current, previous, staged, app, migrated, proc, op, pc, verdict,
          closing, cancelled, request, seen, acked, stoppedBy, faults, crashes>>

NoVerdict == [recovery |-> NoCommand, pending |-> FALSE, restart |-> FALSE]
RunPoints == PreparingPhases \cup
  {"idle", "begin", "mark", "command", "stop", "takeover", "restart", "restarted", "drop",
   "backup", "install", "rollback", "restore", "swapped", "unmark", "activate", "succeed",
   "layout", "clear", "restartLayout", "fail", "cleanup"}
Operations ==
  [id : Ids \cup {0}, target : 0..MaxVersion, complete : BOOLEAN, started : 0..MaxOps,
   phase : Phases, recovery : Commands, pending : BOOLEAN, rev : Nat, ack : BOOLEAN]

TypeOK ==
  /\ ha \in BOOLEAN /\ closing \in BOOLEAN /\ cancelled \in BOOLEAN
  /\ {disk, op, seen, acked} \subseteq Operations
  /\ request \in [Callers -> Operations]
  /\ marker \in [id : Ids \cup {0}, target : 0..MaxVersion]
  /\ {current, previous, staged, app, migrated} \subseteq 0..MaxVersion
  /\ proc \in {"stopped", "down", "save", "unmark", "recover", "serve"}
  /\ pc \in RunPoints
  /\ verdict \in [recovery : Commands, pending : BOOLEAN, restart : BOOLEAN]
  /\ stoppedBy \in 0..MaxOps /\ faults \in 0..MaxFaults /\ crashes \in 0..MaxCrashes

Init ==
  /\ ha \in BOOLEAN
  /\ disk = NoOp /\ marker = NoMarker /\ op = NoOp
  /\ current = 1 /\ previous = None /\ staged = None
  /\ app = 1 /\ migrated = 1 /\ stoppedBy = 0
  /\ proc = "down" /\ pc = "idle" /\ verdict = NoVerdict
  /\ closing = FALSE /\ cancelled = FALSE
  /\ request = [c \in Callers |-> NoOp] /\ seen = NoOp /\ acked = NoOp
  /\ faults = 0 /\ crashes = 0
-----------------------------------------------------------------------------
(* The end of a process.                                                   *)

Lost(p) ==
  /\ proc' = p /\ op' = NoOp /\ pc' = "idle" /\ verdict' = NoVerdict
  /\ closing' = FALSE /\ cancelled' = FALSE
  /\ request' = [c \in Callers |-> NoOp]
  /\ UNCHANGED <<ha, seen, acked>>

Crash ==
  /\ proc \notin {"stopped", "down"} /\ crashes < MaxCrashes /\ crashes' = crashes + 1
  /\ Lost("down") /\ UNCHANGED <<files, layout, world, faults>>

\* An operation that is past the activation boundary is not cancelled.
Shutdown ==
  /\ proc = "serve" /\ Unlocked /\ closing' = TRUE
  /\ cancelled' = (cancelled \/ (pc # "idle" /\ op.phase # "activating"))
  /\ UNCHANGED <<files, layout, world, client, ha, proc, crashes, op, pc, verdict, faults>>

\* Shutdown returns once the operation has ended.
Exit ==
  /\ proc = "serve" /\ closing /\ pc = "idle"
  /\ Lost("stopped") /\ UNCHANGED <<files, layout, world, crashes, faults>>

Boot ==
  /\ proc = "stopped" /\ proc' = "down"
  /\ UNCHANGED <<files, layout, world, client, ha, closing, cancelled, crashes,
                 op, pc, verdict, faults>>
-----------------------------------------------------------------------------
(* loadState.  Readable and LayoutUsable are the conditions under which it *)
(* does not refuse to start.                                               *)

Readable ==
  marker # NoMarker =>
    disk # NoOp /\ marker = MarkerOf(disk) /\ disk.phase # "succeeded"

LayoutUsable == current # None \/ (marker # NoMarker /\ previous # None)

Marked == marker # NoMarker

\* The command reconcileDeploymentLayout leaves when a deployment is there.
DerivedCommands(o) ==
  IF o.phase = "activating" \/ Marked THEN LayoutCommand(current, o.target)
  ELSE {IF Terminal(o) THEN o.recovery ELSE NoCommand}

\* Faulty variant: an interrupted operation stays as it was.
LoadedAsIs(o, cmd, restored) == [o EXCEPT !.recovery = cmd]

\* Faulty variant: an activation past its swap is taken for a success.
LoadedAsSuccess(o, cmd, restored) ==
  IF o.phase = "activating" /\ ~ Marked
  THEN [advanceOutcomeRevision(o) EXCEPT !.phase = "succeeded", !.recovery = NoCommand]
  ELSE IF Terminal(o) THEN o ELSE Failed(o, cmd, FALSE)

Loaded(o, cmd, restored) ==
  LET pending == Marked /\ ha /\ cmd # NoCommand
      same == [o EXCEPT !.recovery = cmd, !.pending = @ \/ pending] IN
  IF ~ Terminal(o) THEN Failed(o, cmd, ha /\ cmd # NoCommand)
  ELSE IF restored THEN Failed(o, cmd, o.pending \/ pending)
  ELSE IF same = o THEN o ELSE advanceOutcomeRevision(same)

RestorePrevious == current' = previous /\ previous' = None

loadState ==
  /\ proc = "down" /\ Readable /\ LayoutUsable
  /\ IF disk = NoOp
     THEN proc' = "recover" /\ UNCHANGED <<op, current, previous>>
     ELSE /\ proc' = "save"
          /\ IF current # None
             THEN /\ \E cmd \in DerivedCommands(disk) : op' = Loaded(disk, cmd, FALSE)
                  /\ UNCHANGED <<current, previous>>
             ELSE /\ op' = Loaded(disk, IF ha THEN Forward(previous) ELSE NoCommand, TRUE)
                  /\ RestorePrevious
  /\ UNCHANGED <<files, staged, world, client, ha, closing, cancelled, crashes,
                 pc, verdict, faults>>

\* A rename or a sync fails; the guidance is written if there is any.
LoadFails ==
  LET rewritten(cmd) == [advanceOutcomeRevision(disk) EXCEPT !.phase = "failed", !.recovery = cmd]
      Rewrite(cmd) == disk' \in {disk} \cup (IF cmd = NoCommand THEN {} ELSE {rewritten(cmd)}) IN
  /\ proc = "down" /\ Readable /\ LayoutUsable /\ Marked /\ Fault
  /\ IF current # None
     THEN /\ \E cmd \in LayoutCommand(current, disk.target) : Rewrite(cmd)
          /\ UNCHANGED <<current, previous>>
     ELSE /\ Rewrite(RestoreCommand)
          /\ RestorePrevious \/ UNCHANGED <<current, previous>>
  /\ UNCHANGED <<marker, staged, world, client, life, op, pc, verdict>>

SaveLoaded ==
  /\ proc = "save"
  /\ \/ /\ Saved(op) /\ proc' = (IF Marked THEN "unmark" ELSE "recover")
        /\ UNCHANGED <<client, ha, closing, cancelled, op, pc, verdict>>
     \/ NotSaved(op) /\ Lost("down")
  /\ UNCHANGED <<marker, layout, world, crashes>>

UnmarkLoaded ==
  /\ proc = "unmark"
  /\ \/ /\ Cleared /\ proc' = "recover"
        /\ UNCHANGED <<client, ha, closing, cancelled, op, pc, verdict>>
     \/ NotCleared /\ Lost("down")
  /\ UNCHANGED <<disk, layout, world, crashes>>

\* The staging directory is swept, then RecoverApplication; its failures to
\* start the application are counted with the crashes to bound them.
RecoverApplication ==
  LET recovered == [advanceOutcomeRevision(op) EXCEPT !.recovery = NoCommand, !.pending = FALSE]
      again == [advanceOutcomeRevision(op) EXCEPT !.phase = "failed"] IN
  /\ proc = "recover" /\ staged' = None
  /\ \/ /\ ~ op.pending \/ op.recovery = NoCommand
        /\ proc' = "serve"
        /\ UNCHANGED <<disk, world, client, ha, closing, cancelled, op, pc, verdict, faults, crashes>>
     \/ /\ op.pending /\ op.recovery # NoCommand /\ StartSucceeds(current) /\ UNCHANGED crashes
        /\ \/ /\ Saved(recovered) /\ op' = recovered /\ proc' = "serve"
              /\ UNCHANGED <<client, ha, closing, cancelled, pc, verdict>>
           \/ NotSaved(recovered) /\ Lost("down")
     \/ /\ op.pending /\ op.recovery # NoCommand /\ StartFails(current)
        /\ crashes < MaxCrashes /\ crashes' = crashes + 1
        /\ Saved(again) \/ NotSaved(again)
        /\ Lost("down")
  /\ UNCHANGED <<marker, current, previous>>

Startup == loadState \/ LoadFails \/ SaveLoaded \/ UnmarkLoaded \/ RecoverApplication

Next ==
  \/ Run \/ Startup \/ Crash \/ Shutdown \/ Exit \/ Boot \/ Status \/ Acknowledge
  \/ \E c \in Callers : TriggerAdmit(c)
  \/ \E c \in Callers, id \in Ids, v \in Versions, complete \in BOOLEAN :
       TriggerCheck(c, id, v, complete)

\* The steps of a run have deadlines; a process that died is restarted by systemd.
Fairness == WF_vars(Run) /\ WF_vars(Startup)

Spec == Init /\ [][Next]_vars
FairSpec == Spec /\ Fairness
-----------------------------------------------------------------------------
(* Properties.                                                             *)

\* Whatever the moment of a crash, loadState can start from what is on disk:
\* there is a deployment, or one that may be put back, and a marker belongs to
\* the operation of the state file.  The latter takes a failing write and a
\* second operation to lose: trigger reads the marker before it locks, so an
\* operation may be admitted beside the marker another one could not remove.
AlwaysStartable == LayoutUsable /\ (faults = 0 \/ disk.started <= 1 => Readable)

\* No deployment and no application is older than a version whose start was
\* attempted ("a present forward deployment is never rolled back because
\* migrations may already be applied").
NeverOlderThanSchema ==
  /\ current # None => current >= migrated
  /\ app # None => app >= migrated

\* A recorded success is of a version that is installed and runs.
SuccessIsReal == disk.phase = "succeeded" /\ pc = "idle" => current = disk.target /\ app = disk.target

\* Unless a write fails, an admitted operation gets a durable outcome, however
\* often the process is lost.
OperationEnds == (disk # NoOp /\ ~ Terminal(disk)) ~> (Terminal(disk) \/ faults > 0)

=============================================================================
