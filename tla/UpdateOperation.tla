-------------------------- MODULE UpdateOperation --------------------------
(***************************************************************************)
(* updater.Manager, first part: the operation record, its state file, and  *)
(* the three requests clients make of it (trigger, status, acknowledge).   *)
(* The record exists in memory (op) and on disk; a write may fail before   *)
(* or after the file has been replaced.  UpdateActivation adds the run of  *)
(* an operation, Updater the life of the process.                          *)
(***************************************************************************)
EXTENDS Naturals

CONSTANTS
  Ids,          \* operation identifiers; a caller may reuse an old one
  Callers,      \* concurrent callers of TriggerWithID
  MaxVersion,   \* bound: releases are 1..MaxVersion, 1 is installed first
  MaxOps,       \* bound: admitted operations
  MaxFaults,    \* bound: failed writes, renames, removals and syncs
  MaxCrashes    \* bound: losses of the process

ASSUME BoundsAssumption ==
  /\ MaxVersion \in Nat \ {0} /\ MaxOps \in Nat /\ MaxFaults \in Nat /\ MaxCrashes \in Nat
  /\ 0 \notin Ids

VARIABLES
  ha,                 \* DeploymentMode is HA
  disk, marker,       \* the state file and the activation marker; NoOp, NoMarker when absent
  current, previous,  \* versions in deployment and deployment.previous; 0 when absent
  staged,             \* version in the staging directory
  app,                \* the Fleet application: the version that runs, 0 when down
  migrated,           \* the newest version whose start was attempted
  proc,               \* the process: down, or how far its start is, or serve
  op,                 \* m.operation
  pc,                 \* where the run of the operation is; idle: ~ operationRunning
  verdict,            \* what the run is about to record as its failure
  closing, cancelled, \* m.closing; the operation's context is cancelled
  request,            \* triggers between their two locked sections
  seen,               \* a status a client has read
  acked,              \* the status that was last acknowledged
  stoppedBy,          \* the operation that last left the application down
  faults, crashes

files == <<disk, marker>>
layout == <<current, previous, staged>>
world == <<app, migrated, stoppedBy>>
client == <<request, seen, acked>>
life == <<ha, proc, closing, cancelled, crashes>>

Versions == 1..MaxVersion
None == 0
Command(do, v) == [do |-> do, version |-> v]
NoCommand == Command("none", None)
RestoreCommand == Command("restore", None)

\* activationRecoveryCommand: app-start of a version with HA, run-fleet.sh without.
Forward(v) == IF ha THEN Command("start", v) ELSE Command("run", None)
Commands == [do : {"none", "start", "run", "restore"}, version : 0..MaxVersion]

PreparingPhases == {"queued", "downloading", "verifying", "staging", "preflight"}
Phases == PreparingPhases \cup {"activating", "succeeded", "failed"}
Operation(id, v, complete, started) ==
  [id |-> id, target |-> v, complete |-> complete, started |-> started, phase |-> "queued",
   recovery |-> NoCommand, pending |-> FALSE, rev |-> 0, ack |-> FALSE]
NoOp == Operation(0, None, FALSE, 0)
NoMarker == [id |-> 0, target |-> None]
Terminal(o) == o.phase \in {"succeeded", "failed"}
MarkerOf(o) == [id |-> o.id, target |-> o.target]

advanceOutcomeRevision(o) == [o EXCEPT !.rev = @ + 1, !.ack = FALSE]
Failed(o, cmd, pending) ==
  [advanceOutcomeRevision(o) EXCEPT !.phase = "failed", !.recovery = cmd, !.pending = pending]
-----------------------------------------------------------------------------
(* Failures of the file system.  persistLocked replaces the file and then  *)
(* syncs its directory: an error may come before or after the replacement. *)

Fault == faults < MaxFaults /\ faults' = faults + 1
Saved(o) == disk' = o /\ UNCHANGED faults
NotSaved(o) == Fault /\ disk' \in {disk, o}
Cleared == marker' = NoMarker /\ UNCHANGED faults
NotCleared == marker # NoMarker /\ Fault /\ marker' \in {marker, NoMarker}

\* m.mu is free: BeginActivation holds it across its two writes.
Unlocked == pc # "mark"
-----------------------------------------------------------------------------
(* trigger: the checks before the lock, then the admission under it.       *)

TriggerCheck(c, id, v, complete) ==
  /\ proc = "serve" /\ Unlocked /\ request[c] = NoOp
  /\ complete => ha
  /\ op.id # id /\ ~ op.pending /\ marker = NoMarker
  /\ request' = [request EXCEPT ![c] = Operation(id, v, complete, 0)]
  /\ UNCHANGED <<files, layout, world, life, op, pc, verdict, seen, acked, faults>>

Admissible(r) ==
  /\ op.id # r.id /\ ~ op.pending /\ ~ closing
  /\ op = NoOp \/ Terminal(op)
  /\ pc = "idle"
  /\ current # None /\ r.target > current

\* StartedAt is the time, or just after the previous one when the clock stands still.
TriggerAdmit(c) ==
  LET r == request[c]
      new == [r EXCEPT !.started = op.started + 1] IN
  /\ proc = "serve" /\ Unlocked /\ r # NoOp
  /\ request' = [request EXCEPT ![c] = NoOp]
  /\ IF ~ Admissible(r)
     THEN UNCHANGED <<disk, op, pc, staged, cancelled, faults>>
     ELSE /\ op.started < MaxOps
          /\ staged' = None
          /\ \/ Saved(new) /\ op' = new /\ pc' = "queued" /\ cancelled' = FALSE
             \/ NotSaved(new) /\ UNCHANGED <<op, pc, cancelled>>
  /\ UNCHANGED <<marker, current, previous, world, ha, proc, closing, crashes, verdict, seen, acked>>
-----------------------------------------------------------------------------
(* Status and Acknowledge.                                                 *)

\* Status; only an outcome can be acknowledged, other answers are not kept.
Status ==
  /\ proc = "serve" /\ Unlocked /\ Terminal(op) /\ seen' = op
  /\ UNCHANGED <<files, layout, world, life, op, pc, verdict, request, acked, faults>>

SameOutcome(o, s) == o.id = s.id /\ o.started = s.started /\ o.rev = s.rev

\* The client acknowledges the outcome it has seen, however long ago.
Acknowledge ==
  LET o == [op EXCEPT !.ack = TRUE] IN
  /\ proc = "serve" /\ Unlocked /\ op # NoOp /\ seen # NoOp /\ seen.rev > 0
  /\ SameOutcome(op, seen) /\ Terminal(op) /\ ~ op.ack
  /\ \/ Saved(o) /\ op' = o
     \/ NotSaved(o) /\ op' = op
  /\ acked' = seen
  /\ UNCHANGED <<marker, layout, world, life, pc, verdict, request, seen>>
=============================================================================
