--------------------------- MODULE UpdaterProofs ----------------------------
(***************************************************************************)
(* Proofs about Updater: whatever fails and whenever the process is lost,  *)
(* nothing older than the schema is installed or runs, a recorded success  *)
(* is real, and the next start finds what it needs.                        *)
(***************************************************************************)
EXTENDS Updater, TLAPS

USE DEF files, layout, world, client, life

-----------------------------------------------------------------------------
(* The invariant.                                                          *)

\* The marker is that of the operation.
Holding == {"mark", "command", "stop", "takeover", "restart", "restarted", "drop", "backup",
            "install", "rollback", "restore", "swapped", "unmark"}

SameOperation(x, y) == x.id = y.id /\ x.target = y.target /\ x.started = y.started

\* The operation runs only in a process that serves.  Until then the operation
\* is the one that was loaded, over a deployment.
Process ==
  /\ proc # "serve" => pc = "idle"
  /\ proc \in {"stopped", "down"} => op = NoOp
  /\ proc \in {"save", "unmark", "recover"} => current # None
  /\ proc \in {"unmark", "recover"} => disk = op
  /\ proc = "recover" => marker = NoMarker
  /\ proc \notin {"stopped", "down"} /\ op = NoOp => marker = NoMarker

\* A trigger between its locked sections carries a fresh operation, and one that
\* runs is the one on disk.
Identity ==
  /\ \A c \in Callers : request[c] # NoOp =>
       request[c].id \in Ids /\ request[c].phase = "queued" /\ ~ request[c].pending
  /\ op # NoOp => op.started >= 1
  /\ disk # NoOp => disk.started >= 1
  /\ pc # "idle" => op.id \in Ids
  /\ pc # "idle" \/ proc \in {"save", "unmark", "recover"} => SameOperation(disk, op)

\* The deployments, by the place the run has reached.
Before == PreparingPhases \cup {"begin", "mark", "command", "stop", "takeover", "drop", "backup"}
Deployments ==
  /\ pc \in Before => current # None /\ op.target > current
  /\ pc \in {"preflight", "begin", "mark", "command", "stop", "takeover", "drop", "backup", "install"} =>
       staged = op.target
  /\ pc \in {"install", "rollback", "restore"} => previous # None /\ previous >= migrated
  /\ pc \in {"install", "restore"} => current = None
  /\ pc = "install" => op.target > previous
  /\ pc \in {"rollback", "swapped", "unmark", "activate", "succeed"} =>
       current = op.target /\ op.target # None
  /\ pc \in {"restart", "restarted", "clear", "restartLayout"} => current # None
  /\ pc = "succeed" => app = op.target
  /\ current = None /\ previous # None => previous >= migrated

\* The marker, while the deployment may be swapped.
Marker ==
  /\ pc \in Holding => marker = MarkerOf(op)
  /\ pc \in {"activate", "succeed"} => marker = NoMarker
  /\ LayoutUsable

\* What a record of success says.
Success(o) ==
  o.phase = "succeeded" =>
    /\ pc \in {"idle", "cleanup"} /\ marker = NoMarker
    /\ current = o.target /\ app = o.target /\ o.target # None /\ ~ o.pending
Successes ==
  /\ Success(disk) /\ Success(op)
  /\ pc \notin {"idle", "cleanup"} => ~ op.pending

\* Without a failing write a marker outlives its operation only where the
\* recovery of the application is pending.
Uncleared ==
  faults = 0 /\ proc = "serve" /\ pc \notin Holding \cup {"layout", "clear"} =>
    \/ marker = NoMarker
    \/ pc = "fail" /\ verdict.pending
    \/ pc \in {"cleanup", "idle"} /\ op.pending

First(o) == faults = 0 \/ o.started <= 1
Markers ==
  /\ Uncleared
  /\ First(disk) /\ marker # NoMarker => marker = MarkerOf(disk)
  /\ First(op) /\ marker # NoMarker /\ proc \notin {"stopped", "down"} => marker = MarkerOf(op)

-----------------------------------------------------------------------------
(* Records.                                                                *)

\* x is a record of the operation of o.
Kept(x, o) == x \in Operations /\ SameOperation(x, o)

\* The guidance an outcome may carry.
LEMMA NoCommandType == NoCommand \in Commands /\ RestoreCommand \in Commands
  BY BoundsAssumption DEF NoCommand, RestoreCommand, Command, Commands, None

\* The updates the steps make of a record.
LEMMA PhaseUpdate ==
  ASSUME NEW o \in Operations, NEW p \in Phases
  PROVE  LET x == [o EXCEPT !.phase = p] IN
         Kept(x, o) /\ x.phase = p /\ x.pending = o.pending
<1> DEFINE x == [o EXCEPT !.phase = p]
<1>1. x \in Operations
  BY DEF Operations
<1>2. SameOperation(x, o) /\ x.phase = p /\ x.pending = o.pending
  BY DEF Operations, SameOperation
<1> QED
  BY Zenon, <1>1, <1>2 DEF Kept

\* A record given new guidance.
LEMMA RecoveryUpdate ==
  ASSUME NEW o \in Operations, NEW cmd \in Commands
  PROVE  LET x == [o EXCEPT !.recovery = cmd] IN
         Kept(x, o) /\ x.phase = o.phase /\ x.pending = o.pending
<1> DEFINE x == [o EXCEPT !.recovery = cmd]
<1>1. x \in Operations
  BY DEF Operations
<1>2. SameOperation(x, o) /\ x.phase = o.phase /\ x.pending = o.pending
  BY DEF Operations, SameOperation
<1> QED
  BY Zenon, <1>1, <1>2 DEF Kept

\* A record that is acknowledged.
LEMMA AckUpdate ==
  ASSUME NEW o \in Operations
  PROVE  LET x == [o EXCEPT !.ack = TRUE] IN
         Kept(x, o) /\ x.phase = o.phase /\ x.pending = o.pending
<1> DEFINE x == [o EXCEPT !.ack = TRUE]
<1>1. x \in Operations
  BY Zenon DEF Operations
<1>2. SameOperation(x, o) /\ x.phase = o.phase /\ x.pending = o.pending
  BY DEF Operations, SameOperation
<1> QED
  BY Zenon, <1>1, <1>2 DEF Kept

\* advanceOutcomeRevision.
LEMMA RevisionUpdate ==
  ASSUME NEW o \in Operations
  PROVE  LET x == advanceOutcomeRevision(o) IN
         Kept(x, o) /\ x.phase = o.phase /\ x.pending = o.pending /\ x.recovery = o.recovery
<1> DEFINE x == advanceOutcomeRevision(o)
<1>0. o.rev + 1 \in Nat
  BY DEF Operations
<1>1. x \in Operations
  <2>1. \A n \in Nat : [o EXCEPT !.rev = n, !.ack = FALSE] \in Operations
    BY Zenon DEF Operations
  <2> QED
    BY Zenon, <1>0, <2>1 DEF advanceOutcomeRevision
<1>2. SameOperation(x, o) /\ x.phase = o.phase /\ x.pending = o.pending /\ x.recovery = o.recovery
  BY DEF Operations, SameOperation, advanceOutcomeRevision
<1> QED
  BY Zenon, <1>1, <1>2 DEF Kept

\* A record of failure.
LEMMA FailedUpdate ==
  ASSUME NEW o \in Operations, NEW cmd \in Commands, NEW pending \in BOOLEAN
  PROVE  LET x == Failed(o, cmd, pending) IN
         Kept(x, o) /\ x.phase = "failed" /\ x.pending = pending
<1> DEFINE a == advanceOutcomeRevision(o)
           x == [a EXCEPT !.phase = "failed", !.recovery = cmd, !.pending = pending]
<1>0. a \in Operations /\ SameOperation(a, o)
  BY Zenon, RevisionUpdate DEF Kept
<1> HIDE DEF a
<1>1. x \in Operations
  BY Zenon, <1>0 DEF Operations, Phases
<1>2. SameOperation(x, a) /\ x.phase = "failed" /\ x.pending = pending
  BY <1>0 DEF Operations, SameOperation
<1>3. SameOperation(x, o)
  BY Zenon, <1>0, <1>2 DEF SameOperation
<1> QED
  BY Zenon, <1>1, <1>2, <1>3 DEF Kept, Failed, a

\* A record of success.
LEMMA SuccessUpdate ==
  ASSUME NEW o \in Operations
  PROVE  LET x == [advanceOutcomeRevision(o) EXCEPT !.phase = "succeeded", !.recovery = NoCommand] IN
         Kept(x, o) /\ x.phase = "succeeded" /\ x.pending = o.pending
<1> DEFINE a == advanceOutcomeRevision(o)
           x == [a EXCEPT !.phase = "succeeded", !.recovery = NoCommand]
<1>0. a \in Operations /\ SameOperation(a, o) /\ a.pending = o.pending
  BY Zenon, RevisionUpdate DEF Kept
<1> HIDE DEF a
<1>1. x \in Operations
  BY Zenon, <1>0, NoCommandType DEF Operations, Phases
<1>2. SameOperation(x, a) /\ x.phase = "succeeded" /\ x.pending = a.pending
  BY <1>0 DEF Operations, SameOperation
<1>3. SameOperation(x, o)
  BY Zenon, <1>0, <1>2 DEF SameOperation
<1> QED
  BY Zenon, <1>0, <1>1, <1>2, <1>3 DEF Kept, a

\* What RecoverApplication and a failing loadState write.
LEMMA RecoveredUpdate ==
  ASSUME NEW o \in Operations
  PROVE  LET x == [advanceOutcomeRevision(o) EXCEPT !.recovery = NoCommand, !.pending = FALSE] IN
         Kept(x, o) /\ x.phase = o.phase /\ x.pending = FALSE
<1> DEFINE a == advanceOutcomeRevision(o)
           x == [a EXCEPT !.recovery = NoCommand, !.pending = FALSE]
<1>0. a \in Operations /\ SameOperation(a, o) /\ a.phase = o.phase
  BY Zenon, RevisionUpdate DEF Kept
<1> HIDE DEF a
<1>1. x \in Operations
  BY Zenon, <1>0, NoCommandType DEF Operations
<1>2. SameOperation(x, a) /\ x.phase = a.phase /\ x.pending = FALSE
  BY <1>0 DEF Operations, SameOperation
<1>3. SameOperation(x, o)
  BY Zenon, <1>0, <1>2 DEF SameOperation
<1> QED
  BY Zenon, <1>0, <1>1, <1>2, <1>3 DEF Kept, a

\* The record a failing start leaves.
LEMMA RewrittenUpdate ==
  ASSUME NEW o \in Operations, NEW cmd \in Commands
  PROVE  LET x == [advanceOutcomeRevision(o) EXCEPT !.phase = "failed", !.recovery = cmd] IN
         Kept(x, o) /\ x.phase = "failed" /\ x.pending = o.pending
<1> DEFINE a == advanceOutcomeRevision(o)
           x == [a EXCEPT !.phase = "failed", !.recovery = cmd]
<1>0. a \in Operations /\ SameOperation(a, o) /\ a.pending = o.pending
  BY Zenon, RevisionUpdate DEF Kept
<1> HIDE DEF a
<1>1. x \in Operations
  BY Zenon, <1>0 DEF Operations, Phases
<1>2. SameOperation(x, a) /\ x.phase = "failed" /\ x.pending = a.pending
  BY <1>0 DEF Operations, SameOperation
<1>3. SameOperation(x, o)
  BY Zenon, <1>0, <1>2 DEF SameOperation
<1> QED
  BY Zenon, <1>0, <1>1, <1>2, <1>3 DEF Kept, a

\* What loadState makes of the operation on disk: a terminal one stays what it
\* is unless the previous deployment was restored, any other has failed.
LEMMA LoadedUpdate ==
  ASSUME NEW o \in Operations, NEW cmd \in Commands, NEW restored \in BOOLEAN, ha \in BOOLEAN
  PROVE  LET x == Loaded(o, cmd, restored) IN
         /\ Kept(x, o) /\ Terminal(x)
         /\ x.phase = "succeeded" => o.phase = "succeeded" /\ ~ restored
         /\ x.phase = "succeeded" /\ x.pending => o.pending \/ Marked
<1> DEFINE pending == Marked /\ ha /\ cmd # NoCommand
           same == [o EXCEPT !.recovery = cmd, !.pending = @ \/ pending]
<1>1. pending \in BOOLEAN /\ (o.pending \/ pending) \in BOOLEAN /\ (ha /\ cmd # NoCommand) \in BOOLEAN
  BY Zenon
<1>2. \A b \in BOOLEAN : LET x == [o EXCEPT !.recovery = cmd, !.pending = b] IN
        x \in Operations /\ SameOperation(x, o) /\ x.phase = o.phase /\ x.pending = b
  BY Zenon DEF Operations, SameOperation
<1>3. same \in Operations /\ SameOperation(same, o) /\ same.phase = o.phase
      /\ same.pending = (o.pending \/ pending)
  BY Zenon, <1>1, <1>2
<1>4. LET y == advanceOutcomeRevision(same) IN
      y \in Operations /\ SameOperation(y, o) /\ y.phase = o.phase /\ y.pending = (o.pending \/ pending)
  BY Zenon, <1>3, RevisionUpdate DEF Kept, SameOperation
<1>5. CASE ~ Terminal(o)
  <2>1. Loaded(o, cmd, restored) = Failed(o, cmd, ha /\ cmd # NoCommand)
    BY Zenon, <1>5 DEF Loaded
  <2> QED
    BY Zenon, <1>1, <2>1, FailedUpdate DEF Terminal
<1>6. CASE Terminal(o) /\ restored
  <2>1. Loaded(o, cmd, restored) = Failed(o, cmd, o.pending \/ pending)
    BY Zenon, <1>6 DEF Loaded
  <2> QED
    BY Zenon, <1>1, <2>1, FailedUpdate DEF Terminal
<1>7. CASE Terminal(o) /\ ~ restored
  <2>1. Loaded(o, cmd, restored) = IF same = o THEN o ELSE advanceOutcomeRevision(same)
    BY Zenon, <1>7 DEF Loaded
  <2>2. Kept(o, o)
    BY Zenon DEF Kept, SameOperation
  <2> HIDE DEF same
  <2> QED
    BY Zenon, <1>4, <1>7, <2>1, <2>2 DEF Kept, Terminal
<1> QED
  BY Zenon, <1>5, <1>6, <1>7

\* Recovery commands.
LEMMA CommandTypes ==
  ASSUME NEW v \in 0..MaxVersion, NEW t
  PROVE  Forward(v) \in Commands /\ LayoutCommand(v, t) \subseteq Commands
<1>1. Forward(v) \in Commands
  BY BoundsAssumption DEF Forward, Command, Commands, None
<1>2. LayoutCommand(v, t) \subseteq {NoCommand, Forward(v)}
  BY DEF LayoutCommand
<1> QED
  BY Zenon, <1>1, <1>2, NoCommandType

\* Fresh operations.
LEMMA OperationTypes ==
  /\ NoOp \in Operations /\ NoOp.pending = FALSE /\ NoOp.phase = "queued" /\ NoOp.started = 0 /\ MarkerOf(NoOp) = NoMarker
  /\ \A id \in Ids, v \in Versions, complete \in BOOLEAN :
       LET o == Operation(id, v, complete, 0) IN
       o \in Operations /\ o.id = id /\ o.phase = "queued" /\ o.pending = FALSE
  /\ \A o \in Operations, n \in 0..MaxOps :
       LET x == [o EXCEPT !.started = n] IN
       /\ x \in Operations /\ x.id = o.id /\ x.target = o.target /\ x.started = n
       /\ x.phase = o.phase /\ x.pending = o.pending
<1> USE BoundsAssumption
<1>1. /\ NoOp.pending = FALSE /\ NoOp.phase = "queued" /\ NoOp.started = 0
      /\ MarkerOf(NoOp) = NoMarker
  BY DEF NoOp, Operation, MarkerOf, NoMarker
<1>2. NoOp \in Operations
  BY NoCommandType DEF NoOp, Operation, Operations, Phases, PreparingPhases, None
<1>3. ASSUME NEW id \in Ids, NEW v \in Versions, NEW complete \in BOOLEAN
      PROVE  LET o == Operation(id, v, complete, 0) IN
             o \in Operations /\ o.id = id /\ o.phase = "queued" /\ o.pending = FALSE
  <2>1. Operation(id, v, complete, 0) \in Operations
    BY NoCommandType DEF Operation, Operations, Phases, PreparingPhases, Versions
  <2> QED
    BY <2>1 DEF Operation
<1>4. ASSUME NEW o \in Operations, NEW n \in 0..MaxOps
      PROVE  LET x == [o EXCEPT !.started = n] IN
             /\ x \in Operations /\ x.id = o.id /\ x.target = o.target /\ x.started = n
             /\ x.phase = o.phase /\ x.pending = o.pending
  BY DEF Operations
<1> QED
  BY Zenon, <1>1, <1>2, <1>3, <1>4
-----------------------------------------------------------------------------
(* Types.                                                                  *)

\* The conjuncts of TypeOK, apart.
Verdicts == [recovery : Commands, pending : BOOLEAN, restart : BOOLEAN]
Flags == ha \in BOOLEAN /\ closing \in BOOLEAN /\ cancelled \in BOOLEAN
Records == disk \in Operations /\ op \in Operations
Clients == seen \in Operations /\ acked \in Operations /\ request \in [Callers -> Operations]
MarkerType == marker \in [id : Ids \cup {0}, target : 0..MaxVersion]
Layouts == current \in 0..MaxVersion /\ previous \in 0..MaxVersion /\ staged \in 0..MaxVersion
World == app \in 0..MaxVersion /\ migrated \in 0..MaxVersion /\ stoppedBy \in 0..MaxOps
Places == proc \in {"stopped", "down", "save", "unmark", "recover", "serve"} /\ pc \in RunPoints
VerdictType == verdict \in Verdicts
Counts == faults \in 0..MaxFaults /\ crashes \in 0..MaxCrashes
Types == /\ Flags /\ Records /\ Clients /\ MarkerType /\ Layouts /\ World /\ Places
         /\ VerdictType /\ Counts

\* Where the run goes, and with which verdict.
LEMMA VerdictTypes ==
  ASSUME VerdictType
  PROVE  /\ \A s : Goto(s) => VerdictType' /\ pc' = s
         /\ \A cmd \in Commands, p \in BOOLEAN :
              Fail(cmd, p) => VerdictType' /\ pc' = "fail" /\ verdict'.pending = p
         /\ \A r \in BOOLEAN : FailActivation(r) => VerdictType' /\ pc' = "layout"
         /\ \A cmd \in Commands : Conclude(cmd) => VerdictType' /\ pc' = "fail"
         /\ \A s : \A cmd \in Commands : Continue(s, cmd) => VerdictType' /\ pc' = s
<1>1. ASSUME NEW s, Goto(s) PROVE VerdictType' /\ pc' = s
  BY Zenon, <1>1 DEF Goto, VerdictType
<1>2. \A cmd \in Commands, p \in BOOLEAN, r \in BOOLEAN :
        LET x == [recovery |-> cmd, pending |-> p, restart |-> r] IN x \in Verdicts /\ x.pending = p
  BY DEF Verdicts
<1>3. ASSUME NEW cmd \in Commands, NEW p \in BOOLEAN, Fail(cmd, p)
      PROVE  VerdictType' /\ pc' = "fail" /\ verdict'.pending = p
  BY Zenon, <1>2, <1>3 DEF Fail, VerdictType
<1>4. ASSUME NEW r \in BOOLEAN, FailActivation(r) PROVE VerdictType' /\ pc' = "layout"
  BY Zenon, <1>2, <1>4, NoCommandType DEF FailActivation, VerdictType
<1>5. ASSUME NEW cmd \in Commands, Conclude(cmd) PROVE VerdictType' /\ pc' = "fail"
  <2>1. (verdict.restart /\ cmd # NoCommand) \in BOOLEAN
    BY Zenon
  <2>2. \A b \in BOOLEAN : [verdict EXCEPT !.recovery = cmd, !.pending = b] \in Verdicts
    BY Zenon DEF VerdictType, Verdicts
  <2> QED
    BY Zenon, <1>5, <2>1, <2>2 DEF Conclude, VerdictType
<1>6. ASSUME NEW s, NEW cmd \in Commands, Continue(s, cmd) PROVE VerdictType' /\ pc' = s
  <2>1. [verdict EXCEPT !.recovery = cmd] \in Verdicts
    BY DEF VerdictType, Verdicts
  <2> QED
    BY Zenon, <1>6, <2>1 DEF Continue, VerdictType
<1> QED
  BY Zenon, <1>1, <1>3, <1>4, <1>5, <1>6

\* Failing writes, markers and starts.
LEMMA FaultTypes ==
  ASSUME Types
  PROVE  /\ Fault => faults' \in 0..MaxFaults /\ faults' > 0
         /\ UNCHANGED faults => faults' \in 0..MaxFaults
         /\ \A o \in Operations : Saved(o) => disk' = o /\ disk' \in Operations /\ faults' = faults
         /\ \A o \in Operations : NotSaved(o) => disk' \in {disk, o} /\ disk' \in Operations /\ Fault
         /\ Cleared => marker' = NoMarker /\ MarkerType' /\ faults' = faults
         /\ NotCleared => marker' \in {marker, NoMarker} /\ MarkerType' /\ Fault
         /\ {MarkerOf(op), NoMarker} \subseteq [id : Ids \cup {0}, target : 0..MaxVersion]
<1> USE BoundsAssumption
<1>0. disk \in Operations /\ MarkerType /\ Counts
  BY Zenon DEF Types, Records
<1>1. Fault => faults' \in 0..MaxFaults /\ faults' > 0
  BY <1>0 DEF Counts, Fault
<1>2. UNCHANGED faults => faults' \in 0..MaxFaults
  BY Zenon, <1>0 DEF Counts
<1>3. NoMarker \in [id : Ids \cup {0}, target : 0..MaxVersion]
  BY DEF NoMarker, None
<1>4. MarkerOf(op) \in [id : Ids \cup {0}, target : 0..MaxVersion]
  BY DEF MarkerOf, Types, Records, Operations
<1> QED
  BY Zenon, <1>0, <1>1, <1>2, <1>3, <1>4 DEF Saved, NotSaved, Cleared, NotCleared, MarkerType

\* A start of the application, whether it succeeds or not.
LEMMA StartTypes ==
  ASSUME Types, NEW v \in 0..MaxVersion, StartSucceeds(v) \/ StartFails(v)
  PROVE  World'
<1>1. op.started \in 0..MaxOps /\ World
  BY Zenon DEF Types, Records, Operations
<1>2. app' \in {app, None, v} /\ migrated' \in {migrated, v} /\ stoppedBy' \in {stoppedBy, op.started}
  BY DEF StartSucceeds, StartFails
<1> QED
  BY <1>1, <1>2, BoundsAssumption DEF World, None

\* What the steps of the run that write it make of the record.
LEMMA PrepareRecords ==
  ASSUME Types, Prepare
  PROVE  /\ Kept(op', op) /\ op'.phase \in PreparingPhases /\ op'.pending = op.pending
         /\ (Saved(op') /\ Goto(NextPhase[pc])) \/ (NotSaved(op') /\ Fail(NoCommand, FALSE))
         /\ NextPhase[pc] \in PreparingPhases
<1>1. pc \in DOMAIN NextPhase
  BY Zenon DEF Prepare
<1>2. NextPhase[pc] \in PreparingPhases
  BY <1>1 DEF NextPhase, PreparingPhases
<1>3. NextPhase[pc] \in Phases /\ op \in Operations
  BY Zenon, <1>2 DEF Phases, Types, Records
<1>4. LET x == [op EXCEPT !.phase = NextPhase[pc]] IN
      Kept(x, op) /\ x.phase = NextPhase[pc] /\ x.pending = op.pending
  BY Zenon, <1>3, PhaseUpdate
<1>5. /\ op' = [op EXCEPT !.phase = NextPhase[pc]]
      /\ (Saved(op') /\ Goto(NextPhase[pc])) \/ (NotSaved(op') /\ Fail(NoCommand, FALSE))
  BY Zenon DEF Prepare
<1> QED
  BY Zenon, <1>2, <1>4, <1>5

\* The record MarkActivating writes.
LEMMA ActivatingRecords ==
  ASSUME Types, MarkActivating
  PROVE  /\ Kept(op', op) /\ op'.phase = "activating" /\ op'.pending = op.pending
         /\ disk' \in {disk, op'}
<1>1. op \in Operations /\ "activating" \in Phases
  BY Zenon DEF Types, Records, Phases
<1>2. LET x == [op EXCEPT !.phase = "activating"] IN
      Kept(x, op) /\ x.phase = "activating" /\ x.pending = op.pending
  BY Zenon, <1>1, PhaseUpdate
<1> QED
  BY Zenon, <1>2 DEF MarkActivating, Saved

\* The record written with the guidance of an HA activation.
LEMMA CommandRecords ==
  ASSUME Types, SetPreviousCommand \/ SetTargetCommand
  PROVE  /\ Kept(op', op) /\ op'.phase = op.phase /\ op'.pending = op.pending
         /\ op'.recovery \in Commands /\ (Saved(op') \/ NotSaved(op'))
<1>1. op \in Operations /\ current \in 0..MaxVersion /\ op.target \in 0..MaxVersion
  BY Zenon DEF Types, Records, Layouts, Operations
<1>2. PICK cmd \in Commands : op' = [op EXCEPT !.recovery = cmd]
  BY Zenon, <1>1, CommandTypes DEF SetPreviousCommand, SetTargetCommand
<1>3. LET x == [op EXCEPT !.recovery = cmd] IN
      Kept(x, op) /\ x.phase = op.phase /\ x.pending = op.pending
  BY Zenon, <1>1, RecoveryUpdate
<1>4. op'.recovery \in Commands
  BY Zenon, <1>2, <1>3 DEF Kept, Operations
<1> QED
  BY Zenon, <1>2, <1>3, <1>4 DEF SetPreviousCommand, SetTargetCommand

\* The record of the outcome.
LEMMA OutcomeRecords ==
  ASSUME Types, Succeed \/ finishFailure
  PROVE  \E o \in Operations :
           /\ SameOperation(o, op)
           /\ Succeed => o.phase = "succeeded" /\ o.pending = op.pending
           /\ finishFailure => o.phase = "failed" /\ o.pending = verdict.pending
           /\ \/ Saved(o) /\ op' = o
              \/ NotSaved(o) /\ op' = op
<1>1. op \in Operations /\ verdict.recovery \in Commands /\ verdict.pending \in BOOLEAN
  BY Zenon DEF Types, Records, VerdictType, Verdicts
<1>2. CASE Succeed
  <2>1. LET x == [advanceOutcomeRevision(op) EXCEPT !.phase = "succeeded", !.recovery = NoCommand] IN
        Kept(x, op) /\ x.phase = "succeeded" /\ x.pending = op.pending
    BY Zenon, <1>1, SuccessUpdate
  <2>2. ~ finishFailure
    BY <1>2 DEF Succeed, finishFailure
  <2> QED
    BY Zenon, <1>2, <2>1, <2>2 DEF Succeed, Kept
<1>3. CASE finishFailure
  <2>1. LET x == Failed(op, verdict.recovery, verdict.pending) IN
        Kept(x, op) /\ x.phase = "failed" /\ x.pending = verdict.pending
    BY Zenon, <1>1, FailedUpdate
  <2>2. ~ Succeed
    BY <1>3 DEF Succeed, finishFailure
  <2> QED
    BY Zenon, <1>3, <2>1, <2>2 DEF finishFailure, Kept
<1> QED
  BY Zenon, <1>2, <1>3

\* A step of the run keeps the types.
LEMMA RunTypes ==
  ASSUME Types, Run
  PROVE  Types'
<1> USE DEF RunFrame, SwapFrame
<1>0. /\ Flags /\ Records /\ Clients /\ MarkerType /\ Layouts /\ World /\ Places /\ VerdictType
      /\ Counts
  BY Zenon DEF Types
<1>a. op \in Operations /\ op.target \in 0..MaxVersion /\ op.started \in 0..MaxOps
      /\ verdict.recovery \in Commands
  BY Zenon DEF Types, Records, Operations, VerdictType, Verdicts
<1>1. CASE Prepare
  <2>1. Flags' /\ Clients' /\ MarkerType' /\ World'
    BY Zenon, <1>0, <1>1 DEF Prepare, Flags, Clients, MarkerType, World
  <2>2. Records'
    BY Zenon, <1>0, <1>1, PrepareRecords, FaultTypes DEF Kept, Records
  <2>3. Layouts'
    BY <1>0, <1>1, BoundsAssumption DEF Prepare, Layouts, Records, Operations, None
  <2>4. Places'
    BY Zenon, <1>0, <1>1, VerdictTypes, NoCommandType, PrepareRecords DEF Prepare, Places, RunPoints
  <2>5. VerdictType'
    BY Zenon, <1>0, <1>a, <1>1, VerdictTypes, NoCommandType, CommandTypes, PrepareRecords DEF Flags, Layouts, Records
  <2>6. Counts'
    BY Zenon, <1>0, <1>a, <1>1, FaultTypes, PrepareRecords DEF Prepare, Kept, Counts
  <2> QED
    BY Zenon, <2>1, <2>2, <2>3, <2>4, <2>5, <2>6 DEF Types
<1>2. CASE PreparationFails
  <2>1. Flags' /\ Records' /\ Clients' /\ MarkerType' /\ Layouts' /\ World' /\ Counts'
    BY Zenon, <1>0, <1>2 DEF PreparationFails, Flags, Records, Clients, MarkerType, Layouts, World, Counts
  <2>2. Places'
    BY Zenon, <1>0, <1>a, <1>2, VerdictTypes, NoCommandType, CommandTypes DEF PreparationFails, Flags, Layouts, Places, RunPoints, PreparingPhases
  <2>3. VerdictType'
    BY Zenon, <1>0, <1>a, <1>2, VerdictTypes, NoCommandType, CommandTypes DEF PreparationFails, Flags, Layouts, Records
  <2> QED
    BY Zenon, <2>1, <2>2, <2>3 DEF Types
<1>3. CASE Prepared
  <2>1. Flags' /\ Records' /\ Clients' /\ MarkerType' /\ Layouts' /\ World' /\ VerdictType' /\ Counts'
    BY Zenon, <1>0, <1>3 DEF Prepared, Goto, Flags, Records, Clients, MarkerType, Layouts, World, VerdictType, Counts
  <2>2. Places'
    BY Zenon, <1>0, <1>a, <1>3, VerdictTypes, NoCommandType, CommandTypes DEF Prepared, Flags, Layouts, Places, RunPoints, PreparingPhases
  <2> QED
    BY Zenon, <2>1, <2>2 DEF Types
<1>4. CASE BeginActivation
  <2>1. Flags' /\ Records' /\ Clients' /\ Layouts' /\ World'
    BY Zenon, <1>0, <1>4 DEF BeginActivation, Flags, Records, Clients, Layouts, World
  <2>2. MarkerType'
    BY Zenon, <1>0, <1>4, FaultTypes DEF BeginActivation, MarkerType
  <2>3. Places'
    BY Zenon, <1>0, <1>a, <1>4, VerdictTypes, NoCommandType, CommandTypes DEF BeginActivation, Flags, Layouts, Places, RunPoints, PreparingPhases
  <2>4. VerdictType'
    BY Zenon, <1>0, <1>a, <1>4, VerdictTypes, NoCommandType, CommandTypes DEF BeginActivation, Flags, Layouts, Records
  <2>5. Counts'
    BY Zenon, <1>0, <1>a, <1>4, FaultTypes DEF BeginActivation, Kept, Counts
  <2> QED
    BY Zenon, <2>1, <2>2, <2>3, <2>4, <2>5 DEF Types
<1>5. CASE MarkActivating
  <2>1. Flags' /\ Clients' /\ Layouts' /\ World'
    BY Zenon, <1>0, <1>5 DEF MarkActivating, Flags, Clients, Layouts, World
  <2>2. Records'
    BY Zenon, <1>0, <1>5, ActivatingRecords, FaultTypes DEF Kept, Records
  <2>3. MarkerType'
    BY Zenon, <1>0, <1>5, FaultTypes DEF MarkActivating, MarkerType
  <2>4. Places'
    BY Zenon, <1>0, <1>a, <1>5, VerdictTypes, NoCommandType, CommandTypes, ActivatingRecords DEF MarkActivating, Flags, Layouts, Places, RunPoints, PreparingPhases
  <2>5. VerdictType'
    BY Zenon, <1>0, <1>a, <1>5, VerdictTypes, NoCommandType, CommandTypes, ActivatingRecords DEF MarkActivating, Flags, Layouts, Records
  <2>6. Counts'
    <3>1. /\ crashes' = crashes
          /\ \/ faults' = faults
             \/ faults < MaxFaults /\ faults' = faults + 1
             \/ faults + 1 < MaxFaults /\ faults' = faults + 2
      BY Zenon, <1>5 DEF MarkActivating, Saved
    <3> QED
      BY <1>0, <3>1, BoundsAssumption DEF Counts
  <2> QED
    BY Zenon, <2>1, <2>2, <2>3, <2>4, <2>5, <2>6 DEF Types
<1>6. CASE SetPreviousCommand
  <2>1. Flags' /\ Clients' /\ MarkerType' /\ Layouts' /\ World'
    BY Zenon, <1>0, <1>6 DEF SetPreviousCommand, Flags, Clients, MarkerType, Layouts, World
  <2>2. Records'
    BY Zenon, <1>0, <1>6, CommandRecords, FaultTypes DEF Kept, Records
  <2>3. Places'
    BY Zenon, <1>0, <1>a, <1>6, VerdictTypes, NoCommandType, CommandTypes, CommandRecords DEF SetPreviousCommand, Flags, Layouts, Places, RunPoints, PreparingPhases
  <2>4. VerdictType'
    BY Zenon, <1>0, <1>a, <1>6, VerdictTypes, NoCommandType, CommandTypes, CommandRecords DEF SetPreviousCommand, Flags, Layouts, Records
  <2>5. Counts'
    BY Zenon, <1>0, <1>a, <1>6, FaultTypes, CommandRecords DEF SetPreviousCommand, Kept, Counts
  <2> QED
    BY Zenon, <2>1, <2>2, <2>3, <2>4, <2>5 DEF Types
<1>7. CASE BarrierFails
  <2>1. Flags' /\ Records' /\ Clients' /\ Layouts' /\ World'
    BY Zenon, <1>0, <1>7 DEF BarrierFails, Flags, Records, Clients, Layouts, World
  <2>2. MarkerType'
    BY Zenon, <1>0, <1>7, FaultTypes DEF BarrierFails, MarkerType
  <2>3. Places'
    BY Zenon, <1>0, <1>a, <1>7, VerdictTypes, NoCommandType, CommandTypes DEF BarrierFails, Flags, Layouts, Places, RunPoints, PreparingPhases
  <2>4. VerdictType'
    BY Zenon, <1>0, <1>a, <1>7, VerdictTypes, NoCommandType, CommandTypes DEF BarrierFails, Flags, Layouts, Records
  <2>5. Counts'
    BY Zenon, <1>0, <1>a, <1>7, FaultTypes DEF BarrierFails, Kept, Counts
  <2> QED
    BY Zenon, <2>1, <2>2, <2>3, <2>4, <2>5 DEF Types
<1>8. CASE StopApplication
  <2>1. Flags' /\ Records' /\ Clients' /\ MarkerType' /\ Layouts' /\ Counts'
    BY Zenon, <1>0, <1>8 DEF StopApplication, Flags, Records, Clients, MarkerType, Layouts, Counts
  <2>2. World'
    <3>1. app' \in {app, None} /\ migrated' = migrated /\ stoppedBy' \in {stoppedBy, op.started}
      BY Zenon, <1>8 DEF StopApplication
    <3> QED
      BY <1>0, <1>a, <3>1, BoundsAssumption DEF World, None
  <2>3. Places'
    BY Zenon, <1>0, <1>a, <1>8, VerdictTypes, NoCommandType, CommandTypes DEF StopApplication, Flags, Layouts, Places, RunPoints, PreparingPhases
  <2>4. VerdictType'
    BY Zenon, <1>0, <1>a, <1>8, VerdictTypes, NoCommandType, CommandTypes DEF StopApplication, Flags, Layouts, Records
  <2> QED
    BY Zenon, <2>1, <2>2, <2>3, <2>4 DEF Types
<1>9. CASE WaitTakeover
  <2>1. Flags' /\ Records' /\ Clients' /\ MarkerType' /\ Layouts' /\ World' /\ VerdictType' /\ Counts'
    BY Zenon, <1>0, <1>9 DEF WaitTakeover, Goto, Flags, Records, Clients, MarkerType, Layouts, World, VerdictType, Counts
  <2>2. Places'
    BY Zenon, <1>0, <1>a, <1>9, VerdictTypes, NoCommandType, CommandTypes DEF WaitTakeover, Flags, Layouts, Places, RunPoints, PreparingPhases
  <2> QED
    BY Zenon, <2>1, <2>2 DEF Types
<1>10. CASE restartHAApplication
  <2>1. Flags' /\ Records' /\ Clients' /\ MarkerType' /\ Layouts' /\ Counts'
    BY Zenon, <1>0, <1>10 DEF restartHAApplication, Flags, Records, Clients, MarkerType, Layouts, Counts
  <2>2. World'
    BY Zenon, <1>0, <1>a, <1>10, StartTypes DEF restartHAApplication, Layouts
  <2>3. Places'
    BY Zenon, <1>0, <1>a, <1>10, VerdictTypes, NoCommandType, CommandTypes DEF restartHAApplication, Flags, Layouts, Places, RunPoints, PreparingPhases
  <2>4. VerdictType'
    BY Zenon, <1>0, <1>a, <1>10, VerdictTypes, NoCommandType, CommandTypes DEF restartHAApplication, Flags, Layouts, Records
  <2> QED
    BY Zenon, <2>1, <2>2, <2>3, <2>4 DEF Types
<1>11. CASE Restarted
  <2>1. Flags' /\ Records' /\ Clients' /\ Layouts' /\ World'
    BY Zenon, <1>0, <1>11 DEF Restarted, Flags, Records, Clients, Layouts, World
  <2>2. MarkerType'
    BY Zenon, <1>0, <1>11, FaultTypes DEF Restarted, MarkerType
  <2>3. Places'
    BY Zenon, <1>0, <1>a, <1>11, VerdictTypes, NoCommandType, CommandTypes DEF Restarted, Flags, Layouts, Places, RunPoints, PreparingPhases
  <2>4. VerdictType'
    BY Zenon, <1>0, <1>a, <1>11, VerdictTypes, NoCommandType, CommandTypes DEF Restarted, Flags, Layouts, Records
  <2>5. Counts'
    BY Zenon, <1>0, <1>a, <1>11, FaultTypes DEF Restarted, Kept, Counts
  <2> QED
    BY Zenon, <2>1, <2>2, <2>3, <2>4, <2>5 DEF Types
<1>12. CASE RemovePrevious
  <2>1. Flags' /\ Records' /\ Clients' /\ MarkerType' /\ World'
    BY Zenon, <1>0, <1>12 DEF RemovePrevious, Flags, Records, Clients, MarkerType, World
  <2>2. Layouts'
    BY <1>0, <1>12, BoundsAssumption DEF RemovePrevious, Layouts, Records, Operations, None
  <2>3. Places'
    BY Zenon, <1>0, <1>a, <1>12, VerdictTypes, NoCommandType, CommandTypes DEF RemovePrevious, Flags, Layouts, Places, RunPoints, PreparingPhases
  <2>4. VerdictType'
    BY Zenon, <1>0, <1>a, <1>12, VerdictTypes, NoCommandType, CommandTypes DEF RemovePrevious, Flags, Layouts, Records
  <2>5. Counts'
    BY Zenon, <1>0, <1>a, <1>12, FaultTypes DEF RemovePrevious, Kept, Counts
  <2> QED
    BY Zenon, <2>1, <2>2, <2>3, <2>4, <2>5 DEF Types
<1>13. CASE BackUpCurrent
  <2>1. Flags' /\ Records' /\ Clients' /\ MarkerType' /\ World'
    BY Zenon, <1>0, <1>13 DEF BackUpCurrent, Flags, Records, Clients, MarkerType, World
  <2>2. Layouts'
    BY <1>0, <1>13, BoundsAssumption DEF BackUpCurrent, Layouts, Records, Operations, None
  <2>3. Places'
    BY Zenon, <1>0, <1>a, <1>13, VerdictTypes, NoCommandType, CommandTypes DEF BackUpCurrent, Flags, Layouts, Places, RunPoints, PreparingPhases
  <2>4. VerdictType'
    BY Zenon, <1>0, <1>a, <1>13, VerdictTypes, NoCommandType, CommandTypes DEF BackUpCurrent, Flags, Layouts, Records
  <2>5. Counts'
    BY Zenon, <1>0, <1>a, <1>13, FaultTypes DEF BackUpCurrent, Kept, Counts
  <2> QED
    BY Zenon, <2>1, <2>2, <2>3, <2>4, <2>5 DEF Types
<1>14. CASE InstallStaged
  <2>1. Flags' /\ Records' /\ Clients' /\ MarkerType' /\ World' /\ VerdictType'
    BY Zenon, <1>0, <1>14 DEF InstallStaged, Goto, Flags, Records, Clients, MarkerType, World, VerdictType
  <2>2. Layouts'
    BY <1>0, <1>14, BoundsAssumption DEF InstallStaged, Layouts, Records, Operations, None
  <2>3. Places'
    BY Zenon, <1>0, <1>a, <1>14, VerdictTypes, NoCommandType, CommandTypes DEF InstallStaged, Flags, Layouts, Places, RunPoints, PreparingPhases
  <2>4. Counts'
    BY Zenon, <1>0, <1>a, <1>14, FaultTypes DEF InstallStaged, Kept, Counts
  <2> QED
    BY Zenon, <2>1, <2>2, <2>3, <2>4 DEF Types
<1>15. CASE rollbackPreparedDeployment
  <2>1. Flags' /\ Records' /\ Clients' /\ MarkerType' /\ World'
    BY Zenon, <1>0, <1>15 DEF rollbackPreparedDeployment, Flags, Records, Clients, MarkerType, World
  <2>2. Layouts'
    BY <1>0, <1>15, BoundsAssumption DEF rollbackPreparedDeployment, Layouts, Records, Operations, None
  <2>3. Places'
    BY Zenon, <1>0, <1>a, <1>15, VerdictTypes, NoCommandType, CommandTypes DEF rollbackPreparedDeployment, Flags, Layouts, Places, RunPoints, PreparingPhases
  <2>4. VerdictType'
    BY Zenon, <1>0, <1>a, <1>15, VerdictTypes, NoCommandType, CommandTypes DEF rollbackPreparedDeployment, Flags, Layouts, Records
  <2>5. Counts'
    BY Zenon, <1>0, <1>a, <1>15, FaultTypes DEF rollbackPreparedDeployment, Kept, Counts
  <2> QED
    BY Zenon, <2>1, <2>2, <2>3, <2>4, <2>5 DEF Types
<1>16. CASE restorePreviousDeployment
  <2>1. Flags' /\ Records' /\ Clients' /\ MarkerType' /\ World'
    BY Zenon, <1>0, <1>16 DEF restorePreviousDeployment, Flags, Records, Clients, MarkerType, World
  <2>2. Layouts'
    BY <1>0, <1>16, BoundsAssumption DEF restorePreviousDeployment, Layouts, Records, Operations, None
  <2>3. Places'
    BY Zenon, <1>0, <1>a, <1>16, VerdictTypes, NoCommandType, CommandTypes DEF restorePreviousDeployment, Flags, Layouts, Places, RunPoints, PreparingPhases
  <2>4. VerdictType'
    BY Zenon, <1>0, <1>a, <1>16, VerdictTypes, NoCommandType, CommandTypes DEF restorePreviousDeployment, Flags, Layouts, Records
  <2>5. Counts'
    BY Zenon, <1>0, <1>a, <1>16, FaultTypes DEF restorePreviousDeployment, Kept, Counts
  <2> QED
    BY Zenon, <2>1, <2>2, <2>3, <2>4, <2>5 DEF Types
<1>17. CASE SetTargetCommand
  <2>1. Flags' /\ Clients' /\ MarkerType' /\ Layouts' /\ World'
    BY Zenon, <1>0, <1>17 DEF SetTargetCommand, Flags, Clients, MarkerType, Layouts, World
  <2>2. Records'
    BY Zenon, <1>0, <1>17, CommandRecords, FaultTypes DEF Kept, Records
  <2>3. Places'
    BY Zenon, <1>0, <1>a, <1>17, VerdictTypes, NoCommandType, CommandTypes, CommandRecords DEF SetTargetCommand, Flags, Layouts, Places, RunPoints, PreparingPhases
  <2>4. VerdictType'
    BY Zenon, <1>0, <1>a, <1>17, VerdictTypes, NoCommandType, CommandTypes, CommandRecords DEF SetTargetCommand, Flags, Layouts, Records
  <2>5. Counts'
    BY Zenon, <1>0, <1>a, <1>17, FaultTypes, CommandRecords DEF SetTargetCommand, Kept, Counts
  <2> QED
    BY Zenon, <2>1, <2>2, <2>3, <2>4, <2>5 DEF Types
<1>18. CASE ClearMarker
  <2>1. Flags' /\ Records' /\ Clients' /\ Layouts' /\ World'
    BY Zenon, <1>0, <1>18 DEF ClearMarker, Flags, Records, Clients, Layouts, World
  <2>2. MarkerType'
    BY Zenon, <1>0, <1>18, FaultTypes DEF ClearMarker, MarkerType
  <2>3. Places'
    BY Zenon, <1>0, <1>a, <1>18, VerdictTypes, NoCommandType, CommandTypes DEF ClearMarker, Flags, Layouts, Places, RunPoints, PreparingPhases
  <2>4. VerdictType'
    BY Zenon, <1>0, <1>a, <1>18, VerdictTypes, NoCommandType, CommandTypes DEF ClearMarker, Flags, Layouts, Records
  <2>5. Counts'
    BY Zenon, <1>0, <1>a, <1>18, FaultTypes DEF ClearMarker, Kept, Counts
  <2> QED
    BY Zenon, <2>1, <2>2, <2>3, <2>4, <2>5 DEF Types
<1>19. CASE RunActivation
  <2>1. Flags' /\ Records' /\ Clients' /\ MarkerType' /\ Layouts'
    BY Zenon, <1>0, <1>19 DEF RunActivation, Flags, Records, Clients, MarkerType, Layouts
  <2>2. World'
    BY Zenon, <1>0, <1>a, <1>19, StartTypes DEF RunActivation, Layouts
  <2>3. Places'
    BY Zenon, <1>0, <1>a, <1>19, VerdictTypes, NoCommandType, CommandTypes DEF RunActivation, Flags, Layouts, Places, RunPoints, PreparingPhases
  <2>4. VerdictType'
    BY Zenon, <1>0, <1>a, <1>19, VerdictTypes, NoCommandType, CommandTypes DEF RunActivation, Flags, Layouts, Records
  <2>5. Counts'
    BY Zenon, <1>0, <1>a, <1>19, FaultTypes DEF RunActivation, Kept, Counts
  <2> QED
    BY Zenon, <2>1, <2>2, <2>3, <2>4, <2>5 DEF Types
<1>20. CASE Succeed
  <2>1. Clients' /\ MarkerType' /\ Layouts' /\ World' /\ VerdictType'
    BY Zenon, <1>0, <1>20 DEF Succeed, Goto, Clients, MarkerType, Layouts, World, VerdictType
  <2>2. Flags'
    BY Zenon, <1>0, <1>20 DEF Succeed, Flags
  <2>3. Records'
    BY Zenon, <1>0, <1>20, OutcomeRecords, FaultTypes DEF Kept, Records
  <2>4. Places'
    BY Zenon, <1>0, <1>a, <1>20, VerdictTypes, NoCommandType, CommandTypes, OutcomeRecords DEF Succeed, Flags, Layouts, Places, RunPoints, PreparingPhases
  <2>5. Counts'
    BY Zenon, <1>0, <1>a, <1>20, FaultTypes, OutcomeRecords DEF Succeed, Kept, Counts
  <2> QED
    BY Zenon, <2>1, <2>2, <2>3, <2>4, <2>5 DEF Types
<1>21. CASE ReconcileFailedLayout
  <2>1. Flags' /\ Records' /\ Clients' /\ MarkerType' /\ World'
    BY Zenon, <1>0, <1>21 DEF ReconcileFailedLayout, Flags, Records, Clients, MarkerType, World
  <2>2. Layouts'
    BY <1>0, <1>21, BoundsAssumption DEF ReconcileFailedLayout, Layouts, Records, Operations, None
  <2>3. Places'
    BY Zenon, <1>0, <1>a, <1>21, VerdictTypes, NoCommandType, CommandTypes DEF ReconcileFailedLayout, Flags, Layouts, Places, RunPoints, PreparingPhases
  <2>4. VerdictType'
    BY Zenon, <1>0, <1>a, <1>21, VerdictTypes, NoCommandType, CommandTypes DEF ReconcileFailedLayout, Flags, Layouts, Records
  <2>5. Counts'
    BY Zenon, <1>0, <1>a, <1>21, FaultTypes DEF ReconcileFailedLayout, Kept, Counts
  <2> QED
    BY Zenon, <2>1, <2>2, <2>3, <2>4, <2>5 DEF Types
<1>22. CASE ClearFailedMarker
  <2>1. Flags' /\ Records' /\ Clients' /\ Layouts' /\ World'
    BY Zenon, <1>0, <1>22 DEF ClearFailedMarker, Flags, Records, Clients, Layouts, World
  <2>2. MarkerType'
    BY Zenon, <1>0, <1>22, FaultTypes DEF ClearFailedMarker, MarkerType
  <2>3. Places'
    BY Zenon, <1>0, <1>a, <1>22, VerdictTypes, NoCommandType, CommandTypes DEF ClearFailedMarker, Flags, Layouts, Places, RunPoints, PreparingPhases
  <2>4. VerdictType'
    BY Zenon, <1>0, <1>a, <1>22, VerdictTypes, NoCommandType, CommandTypes DEF ClearFailedMarker, Flags, Layouts, Records
  <2>5. Counts'
    BY Zenon, <1>0, <1>a, <1>22, FaultTypes DEF ClearFailedMarker, Kept, Counts
  <2> QED
    BY Zenon, <2>1, <2>2, <2>3, <2>4, <2>5 DEF Types
<1>23. CASE RestartLayout
  <2>1. Flags' /\ Records' /\ Clients' /\ MarkerType' /\ Layouts' /\ Counts'
    BY Zenon, <1>0, <1>23 DEF RestartLayout, Flags, Records, Clients, MarkerType, Layouts, Counts
  <2>2. World'
    BY Zenon, <1>0, <1>a, <1>23, StartTypes DEF RestartLayout, Layouts
  <2>3. Places'
    BY Zenon, <1>0, <1>a, <1>23, VerdictTypes, NoCommandType, CommandTypes DEF RestartLayout, Flags, Layouts, Places, RunPoints, PreparingPhases
  <2>4. VerdictType'
    BY Zenon, <1>0, <1>a, <1>23, VerdictTypes, NoCommandType, CommandTypes DEF RestartLayout, Flags, Layouts, Records
  <2> QED
    BY Zenon, <2>1, <2>2, <2>3, <2>4 DEF Types
<1>24. CASE finishFailure
  <2>1. Flags' /\ Clients' /\ MarkerType' /\ Layouts' /\ World' /\ VerdictType'
    BY Zenon, <1>0, <1>24 DEF finishFailure, Goto, Flags, Clients, MarkerType, Layouts, World, VerdictType
  <2>2. Records'
    BY Zenon, <1>0, <1>24, OutcomeRecords, FaultTypes DEF Kept, Records
  <2>3. Places'
    BY Zenon, <1>0, <1>a, <1>24, VerdictTypes, NoCommandType, CommandTypes, OutcomeRecords DEF finishFailure, Flags, Layouts, Places, RunPoints, PreparingPhases
  <2>4. Counts'
    BY Zenon, <1>0, <1>a, <1>24, FaultTypes, OutcomeRecords DEF finishFailure, Kept, Counts
  <2> QED
    BY Zenon, <2>1, <2>2, <2>3, <2>4 DEF Types
<1>25. CASE finishOperation
  <2>1. Flags' /\ Records' /\ Clients' /\ MarkerType' /\ World' /\ VerdictType' /\ Counts'
    BY Zenon, <1>0, <1>25 DEF finishOperation, Goto, Flags, Records, Clients, MarkerType, World, VerdictType, Counts
  <2>2. Layouts'
    BY <1>0, <1>25, BoundsAssumption DEF finishOperation, Layouts, Records, Operations, None
  <2>3. Places'
    BY Zenon, <1>0, <1>a, <1>25, VerdictTypes, NoCommandType, CommandTypes DEF finishOperation, Flags, Layouts, Places, RunPoints, PreparingPhases
  <2> QED
    BY Zenon, <2>1, <2>2, <2>3 DEF Types
<1> QED
  BY Zenon, <1>1, <1>2, <1>3, <1>4, <1>5, <1>6, <1>7, <1>8, <1>9, <1>10, <1>11, <1>12, <1>13, <1>14, <1>15, <1>16, <1>17, <1>18, <1>19, <1>20, <1>21, <1>22, <1>23, <1>24, <1>25 DEF Run

\* What the requests and the start of a process make of the record.
LEMMA AdmitRecords ==
  ASSUME Types, NEW c \in Callers, TriggerAdmit(c)
  PROVE  \/ UNCHANGED <<disk, op, pc, staged, cancelled, faults>>
         \/ \E new \in Operations :
              /\ Admissible(request[c]) /\ request[c] # NoOp /\ staged' = None
              /\ new.id = request[c].id /\ new.target = request[c].target
              /\ new.phase = request[c].phase /\ new.pending = request[c].pending
              /\ new.started = op.started + 1
              /\ \/ Saved(new) /\ op' = new /\ pc' = "queued" /\ cancelled' = FALSE
                 \/ NotSaved(new) /\ UNCHANGED <<op, pc, cancelled>>
<1>1. request[c] \in Operations /\ op.started \in 0..MaxOps
  BY Zenon DEF Types, Clients, Records, Operations
<1>2. CASE Admissible(request[c])
  <2>1. op.started < MaxOps
    BY Zenon, <1>2 DEF TriggerAdmit
  <2>2. op.started + 1 \in 0..MaxOps
    BY <1>1, <2>1, BoundsAssumption
  <2> DEFINE new == [request[c] EXCEPT !.started = op.started + 1]
  <2>3. /\ new \in Operations /\ new.id = request[c].id /\ new.target = request[c].target
        /\ new.phase = request[c].phase /\ new.pending = request[c].pending
        /\ new.started = op.started + 1
    BY ZenonT(30), <1>1, <2>2, OperationTypes
  <2>4. /\ request[c] # NoOp /\ staged' = None
        /\ \/ Saved(new) /\ op' = new /\ pc' = "queued" /\ cancelled' = FALSE
           \/ NotSaved(new) /\ UNCHANGED <<op, pc, cancelled>>
    BY Zenon, <1>2 DEF TriggerAdmit
  <2> HIDE DEF new
  <2> QED
    BY Zenon, <1>2, <2>3, <2>4
<1> QED
  BY Zenon, <1>2 DEF TriggerAdmit

\* The record Acknowledge writes.
LEMMA AcknowledgeRecords ==
  ASSUME Types, Acknowledge
  PROVE  \E o \in Operations :
           /\ SameOperation(o, op) /\ o.phase = op.phase /\ o.pending = op.pending /\ Terminal(op)
           /\ \/ Saved(o) /\ op' = o
              \/ NotSaved(o) /\ op' = op
<1>1. LET x == [op EXCEPT !.ack = TRUE] IN Kept(x, op) /\ x.phase = op.phase /\ x.pending = op.pending
  BY Zenon, AckUpdate DEF Types, Records
<1> QED
  BY Zenon, <1>1 DEF Acknowledge, Kept

\* The record loadState makes of the one on disk.
LEMMA LoadRecords ==
  ASSUME Types, loadState
  PROVE  \/ disk = NoOp /\ proc' = "recover" /\ UNCHANGED <<op, current, previous>>
         \/ /\ disk # NoOp /\ proc' = "save" /\ Kept(op', disk) /\ Terminal(op')
            /\ op'.phase = "succeeded" => disk.phase = "succeeded" /\ (op'.pending => disk.pending \/ Marked)
            /\ \/ current # None /\ UNCHANGED <<current, previous>>
               \/ current = None /\ RestorePrevious /\ op'.phase # "succeeded"
<1>1. /\ disk \in Operations /\ disk.recovery \in Commands /\ current \in 0..MaxVersion
      /\ previous \in 0..MaxVersion /\ ha \in BOOLEAN
  BY Zenon DEF Types, Records, Operations, Layouts, Flags
<1>2. DerivedCommands(disk) \subseteq Commands
  <2>1. \A t : LayoutCommand(current, t) \subseteq Commands
    BY Zenon, <1>1, CommandTypes
  <2> QED
    BY Zenon, <1>1, <2>1, NoCommandType DEF DerivedCommands
<1>3. (IF ha THEN Forward(previous) ELSE NoCommand) \in Commands
  BY Zenon, <1>1, CommandTypes, NoCommandType
<1>4. CASE disk # NoOp /\ current # None
  <2>1. PICK cmd \in Commands : op' = Loaded(disk, cmd, FALSE)
    BY Zenon, <1>2, <1>4 DEF loadState
  <2>2. LET x == Loaded(disk, cmd, FALSE) IN
        /\ Kept(x, disk) /\ Terminal(x)
        /\ x.phase = "succeeded" => disk.phase = "succeeded"
        /\ x.phase = "succeeded" /\ x.pending => disk.pending \/ Marked
    BY Zenon, <1>1, LoadedUpdate
  <2>3. proc' = "save" /\ UNCHANGED <<current, previous>>
    BY Zenon, <1>4 DEF loadState
  <2> QED
    BY Zenon, <1>4, <2>1, <2>2, <2>3
<1>5. CASE disk # NoOp /\ current = None
  <2>1. PICK cmd \in Commands : op' = Loaded(disk, cmd, TRUE)
    BY Zenon, <1>3, <1>5 DEF loadState
  <2>2. LET x == Loaded(disk, cmd, TRUE) IN
        Kept(x, disk) /\ Terminal(x) /\ x.phase # "succeeded"
    BY Zenon, <1>1, LoadedUpdate
  <2>3. proc' = "save" /\ RestorePrevious
    BY Zenon, <1>5 DEF loadState
  <2> QED
    BY Zenon, <1>5, <2>1, <2>2, <2>3
<1> QED
  BY Zenon, <1>4, <1>5 DEF loadState

\* The record a failing loadState writes.
LEMMA LoadFailsRecords ==
  ASSUME Types, LoadFails
  PROVE  /\ disk' = disk \/ (Kept(disk', disk) /\ disk'.phase = "failed")
         /\ \/ UNCHANGED <<current, previous>>
            \/ current = None /\ RestorePrevious
<1>1. disk \in Operations /\ current \in 0..MaxVersion
  BY Zenon DEF Types, Records, Layouts
<1>2. \A cmd \in Commands :
        LET x == [advanceOutcomeRevision(disk) EXCEPT !.phase = "failed", !.recovery = cmd] IN
        Kept(x, disk) /\ x.phase = "failed"
  BY Zenon, <1>1, RewrittenUpdate
<1>3. \A t : LayoutCommand(current, t) \subseteq Commands
  BY Zenon, <1>1, CommandTypes
<1>4. \E cmd \in Commands :
        disk' \in {disk, [advanceOutcomeRevision(disk) EXCEPT !.phase = "failed", !.recovery = cmd]}
  BY Zenon, <1>3, NoCommandType DEF LoadFails
<1> QED
  BY Zenon, <1>2, <1>4 DEF LoadFails

\* The record RecoverApplication writes.
LEMMA RecoverRecords ==
  ASSUME Types, RecoverApplication
  PROVE  \/ UNCHANGED <<disk, op, world, faults, client, ha, closing, cancelled, pc, verdict, crashes>> /\ proc' = "serve"
         \/ /\ op.pending /\ (StartSucceeds(current) \/ StartFails(current))
            /\ \E o \in Operations :
                 /\ SameOperation(o, op) /\ o.phase \in {op.phase, "failed"}
                 /\ \/ Saved(o) /\ op' = o /\ proc' = "serve"
                       /\ UNCHANGED <<client, ha, closing, cancelled, pc, verdict>>
                    \/ (Saved(o) \/ NotSaved(o)) /\ Lost("down")
            /\ crashes' = crashes \/ (crashes < MaxCrashes /\ crashes' = crashes + 1)
<1>1. op \in Operations /\ op.recovery \in Commands
  BY Zenon DEF Types, Records, Operations
<1> DEFINE recovered == [advanceOutcomeRevision(op) EXCEPT !.recovery = NoCommand, !.pending = FALSE]
           again == [advanceOutcomeRevision(op) EXCEPT !.phase = "failed"]
<1>2. recovered \in Operations /\ SameOperation(recovered, op) /\ recovered.phase = op.phase
  BY Zenon, <1>1, RecoveredUpdate DEF Kept
<1>3. again \in Operations /\ SameOperation(again, op) /\ again.phase = "failed"
  <2>1. Kept(advanceOutcomeRevision(op), op)
    BY Zenon, <1>1, RevisionUpdate
  <2>2. "failed" \in Phases
    BY Zenon DEF Phases
  <2>3. Kept(again, advanceOutcomeRevision(op)) /\ again.phase = "failed"
    BY Zenon, <2>1, <2>2, PhaseUpdate DEF Kept
  <2> QED
    BY Zenon, <2>1, <2>3 DEF Kept, SameOperation
<1>4. \/ /\ UNCHANGED <<disk, world, client, ha, closing, cancelled, op, pc, verdict, faults, crashes>>
         /\ proc' = "serve"
      \/ /\ op.pending /\ StartSucceeds(current) /\ UNCHANGED crashes
         /\ \/ /\ Saved(recovered) /\ op' = recovered /\ proc' = "serve"
               /\ UNCHANGED <<client, ha, closing, cancelled, pc, verdict>>
            \/ NotSaved(recovered) /\ Lost("down")
      \/ /\ op.pending /\ StartFails(current) /\ crashes < MaxCrashes /\ crashes' = crashes + 1
         /\ Saved(again) \/ NotSaved(again)
         /\ Lost("down")
  BY Zenon DEF RecoverApplication
<1> HIDE DEF recovered, again
<1> QED
  BY Zenon, <1>2, <1>3, <1>4

\* The end of a process.
LEMMA LostTypes ==
  ASSUME Types, NEW p \in {"stopped", "down"}, Lost(p)
  PROVE  /\ Flags' /\ Clients' /\ Places' /\ VerdictType'
         /\ op' = NoOp /\ op' \in Operations /\ pc' = "idle" /\ proc' = p
         /\ \A c \in Callers : request'[c] = NoOp
<1>1. NoVerdict \in Verdicts
  BY NoCommandType DEF NoVerdict, Verdicts
<1>2. NoOp \in Operations
  BY Zenon, OperationTypes
<1>3. request' = [c \in Callers |-> NoOp]
  BY Zenon DEF Lost
<1>4. Clients' /\ \A c \in Callers : request'[c] = NoOp
  BY Zenon, <1>2, <1>3 DEF Lost, Clients, Types
<1> QED
  BY Zenon, <1>1, <1>2, <1>4 DEF Lost, Flags, Places, RunPoints, VerdictType, Types

\* Any other step keeps the types.
LEMMA OtherTypes ==
  ASSUME Types, Next
  PROVE  Run \/ Types'
<1>0. /\ Flags /\ Records /\ Clients /\ MarkerType /\ Layouts /\ World /\ Places /\ VerdictType
      /\ Counts
  BY Zenon DEF Types
<1>1. ASSUME NEW c \in Callers, NEW id \in Ids, NEW v \in Versions, NEW complete \in BOOLEAN,
             TriggerCheck(c, id, v, complete)
      PROVE  Types'
  <2>1. Clients'
    BY Zenon, <1>0, <1>1, OperationTypes DEF TriggerCheck, Clients
  <2> QED
    BY Zenon, <1>0, <1>1, <2>1 DEF TriggerCheck, Types, Flags, Records, MarkerType, Layouts, World, Places,
       VerdictType, Counts
<1>2. ASSUME NEW c \in Callers, TriggerAdmit(c)
      PROVE  Types'
  <2>1. Clients'
    BY Zenon, <1>0, <1>2, OperationTypes DEF TriggerAdmit, Clients
  <2>2. MarkerType' /\ World' /\ VerdictType'
    BY Zenon, <1>0, <1>2 DEF TriggerAdmit, MarkerType, World, VerdictType
  <2>3. None \in 0..MaxVersion /\ "queued" \in RunPoints
    BY BoundsAssumption DEF None, RunPoints, PreparingPhases
  <2>4. Flags' /\ Records' /\ Layouts' /\ Places' /\ Counts'
    <3>1. UNCHANGED <<current, previous, ha, proc, closing, crashes>>
      BY Zenon, <1>2 DEF TriggerAdmit
    <3>2. CASE UNCHANGED <<disk, op, pc, staged, cancelled, faults>>
      BY Zenon, <1>0, <3>1, <3>2 DEF Flags, Records, Layouts, Places, Counts
    <3>3. CASE \E new \in Operations :
                 /\ staged' = None
                 /\ \/ Saved(new) /\ op' = new /\ pc' = "queued" /\ cancelled' = FALSE
                    \/ NotSaved(new) /\ UNCHANGED <<op, pc, cancelled>>
      BY Zenon, <1>0, <2>3, <3>1, <3>3, FaultTypes DEF Flags, Records, Layouts, Places, Counts
    <3> QED
      BY Zenon, <1>2, <3>2, <3>3, AdmitRecords
  <2> QED
    BY Zenon, <2>1, <2>2, <2>4 DEF Types
<1>3. CASE Status
  BY Zenon, <1>0, <1>3 DEF Status, Types, Flags, Records, Clients, MarkerType, Layouts, World, Places,
     VerdictType, Counts
<1>4. CASE Acknowledge
  <2>1. Records' /\ faults' \in 0..MaxFaults
    BY Zenon, <1>0, <1>4, AcknowledgeRecords, FaultTypes DEF Records
  <2> QED
    BY Zenon, <1>0, <1>4, <2>1 DEF Acknowledge, Types, Flags, Clients, MarkerType, Layouts, World, Places,
       VerdictType, Counts
<1>5. CASE Crash
  <2>1. Counts'
    BY <1>0, <1>5, BoundsAssumption DEF Crash, Counts
  <2>2. Flags' /\ Clients' /\ Places' /\ VerdictType' /\ op' \in Operations
    BY Zenon, <1>5, LostTypes DEF Crash
  <2> QED
    BY Zenon, <1>0, <1>5, <2>1, <2>2 DEF Crash, Types, Records, MarkerType, Layouts, World
<1>6. CASE Shutdown
  <2>1. Flags'
    BY Zenon, <1>0, <1>6 DEF Shutdown, Flags
  <2> QED
    BY Zenon, <1>0, <1>6, <2>1 DEF Shutdown, Types, Records, Clients, MarkerType, Layouts, World, Places,
       VerdictType, Counts
<1>7. CASE Exit
  <2>1. Flags' /\ Clients' /\ Places' /\ VerdictType' /\ op' \in Operations
    BY Zenon, <1>7, LostTypes DEF Exit
  <2> QED
    BY Zenon, <1>0, <1>7, <2>1 DEF Exit, Types, Records, MarkerType, Layouts, World, Counts
<1>8. CASE Boot
  BY Zenon, <1>0, <1>8 DEF Boot, Types, Flags, Records, Clients, MarkerType, Layouts, World, Places,
     VerdictType, Counts
<1>9. CASE loadState
  <2>1. Layouts'
    <3>1. None \in 0..MaxVersion
      BY BoundsAssumption DEF None
    <3> QED
      BY Zenon, <1>0, <1>9, <3>1 DEF loadState, RestorePrevious, Layouts
  <2>2. Records' /\ proc' \in {"recover", "save"}
    BY Zenon, <1>0, <1>9, LoadRecords DEF loadState, Records, Kept
  <2> QED
    BY Zenon, <1>0, <1>9, <2>1, <2>2 DEF loadState, Types, Flags, Clients, MarkerType, World, Places,
       VerdictType, Counts
<1>10. CASE LoadFails
  <2>1. Layouts'
    <3>1. None \in 0..MaxVersion
      BY BoundsAssumption DEF None
    <3> QED
      BY Zenon, <1>0, <1>10, <3>1 DEF LoadFails, RestorePrevious, Layouts
  <2>2. Records' /\ Counts'
    BY Zenon, <1>0, <1>10, LoadFailsRecords, FaultTypes DEF LoadFails, Records, Kept, Counts
  <2> QED
    BY Zenon, <1>0, <1>10, <2>1, <2>2 DEF LoadFails, Types, Flags, Clients, MarkerType, World, Places,
       VerdictType
<1>11. CASE SaveLoaded
  <2>1. MarkerType' /\ Layouts' /\ World'
    BY Zenon, <1>0, <1>11 DEF SaveLoaded, MarkerType, Layouts, World
  <2>2. Counts' /\ disk' \in Operations
    BY Zenon, <1>0, <1>11, FaultTypes DEF SaveLoaded, Counts, Records
  <2>3. Flags' /\ Clients' /\ Places' /\ VerdictType' /\ op' \in Operations
    BY Zenon, <1>0, <1>11, LostTypes DEF SaveLoaded, Flags, Clients, Places, VerdictType, Records
  <2> QED
    BY Zenon, <2>1, <2>2, <2>3 DEF Types, Records
<1>12. CASE UnmarkLoaded
  <2>1. Layouts' /\ World' /\ disk' \in Operations
    BY Zenon, <1>0, <1>12 DEF UnmarkLoaded, Layouts, World, Records
  <2>2. Counts' /\ MarkerType'
    BY Zenon, <1>0, <1>12, FaultTypes DEF UnmarkLoaded, Counts
  <2>3. Flags' /\ Clients' /\ Places' /\ VerdictType' /\ op' \in Operations
    BY Zenon, <1>0, <1>12, LostTypes DEF UnmarkLoaded, Flags, Clients, Places, VerdictType, Records
  <2> QED
    BY Zenon, <2>1, <2>2, <2>3 DEF Types, Records
<1>13. CASE RecoverApplication
  <2>1. MarkerType' /\ Layouts'
    <3>1. None \in 0..MaxVersion
      BY BoundsAssumption DEF None
    <3> QED
      BY Zenon, <1>0, <1>13, <3>1 DEF RecoverApplication, MarkerType, Layouts
  <2>2. CASE UNCHANGED <<disk, op, world, faults, client, ha, closing, cancelled, pc, verdict, crashes>>
             /\ proc' = "serve"
    BY Zenon, <1>0, <2>1, <2>2 DEF Types, Flags, Records, Clients, World, Places, VerdictType, Counts
  <2>3. CASE /\ StartSucceeds(current) \/ StartFails(current)
             /\ \E o \in Operations :
                  \/ Saved(o) /\ op' = o /\ proc' = "serve"
                     /\ UNCHANGED <<client, ha, closing, cancelled, pc, verdict>>
                  \/ (Saved(o) \/ NotSaved(o)) /\ Lost("down")
             /\ crashes' = crashes \/ (crashes < MaxCrashes /\ crashes' = crashes + 1)
    <3>1. World'
      BY Zenon, <1>0, <2>3, StartTypes DEF Layouts
    <3>2. crashes' \in 0..MaxCrashes
      BY <1>0, <2>3, BoundsAssumption DEF Counts
    <3>3. Records' /\ faults' \in 0..MaxFaults
      BY Zenon, <1>0, <2>3, LostTypes, FaultTypes DEF Records
    <3>4. Flags' /\ Clients' /\ Places' /\ VerdictType'
      BY Zenon, <1>0, <2>3, LostTypes DEF Flags, Clients, Places, VerdictType
    <3> QED
      BY Zenon, <2>1, <3>1, <3>2, <3>3, <3>4 DEF Types, Counts
  <2> QED
    BY Zenon, <1>13, <2>2, <2>3, RecoverRecords
<1> QED
  BY Zenon, <1>1, <1>2, <1>3, <1>4, <1>5, <1>6, <1>7, <1>8, <1>9, <1>10, <1>11, <1>12, <1>13
     DEF Next, Startup

-----------------------------------------------------------------------------
(* The steps of the run.                                                   *)

\* The run belongs to a process that serves, and stays with its operation.
LEMMA RunKeeps ==
  ASSUME Types, Process, Identity, Run
  PROVE  /\ pc # "idle" /\ proc = "serve" /\ proc' = "serve" /\ request' = request
         /\ SameOperation(op', op) /\ SameOperation(disk', op) /\ SameOperation(disk, op)
         /\ op.id \in Ids /\ op # NoOp /\ MarkerOf(op) # NoMarker /\ MarkerOf(op') = MarkerOf(op)
<1>1. pc # "idle"
  BY Zenon DEF Run, NextPhase, PreparingPhases, SwapFrame, Prepare, PreparationFails, Prepared, BeginActivation, MarkActivating, SetPreviousCommand,
     BarrierFails, StopApplication, WaitTakeover, restartHAApplication, Restarted,
     RemovePrevious, BackUpCurrent, InstallStaged, rollbackPreparedDeployment,
     restorePreviousDeployment, SetTargetCommand, ClearMarker, RunActivation, Succeed,
     ReconcileFailedLayout, ClearFailedMarker, RestartLayout, finishFailure, finishOperation
<1>2. proc = "serve" /\ op.id \in Ids /\ SameOperation(disk, op)
  BY Zenon, <1>1 DEF Process, Identity
<1>3. proc' = proc /\ request' = request
  BY Zenon DEF Run, SwapFrame, RunFrame, Prepare, PreparationFails, Prepared, BeginActivation, MarkActivating, SetPreviousCommand,
     BarrierFails, StopApplication, WaitTakeover, restartHAApplication, Restarted,
     RemovePrevious, BackUpCurrent, InstallStaged, rollbackPreparedDeployment,
     restorePreviousDeployment, SetTargetCommand, ClearMarker, RunActivation, Succeed,
     ReconcileFailedLayout, ClearFailedMarker, RestartLayout, finishFailure, finishOperation
<1>4. op # NoOp /\ MarkerOf(op) # NoMarker
  <2>1. NoOp.id = 0 /\ NoMarker.id = 0 /\ MarkerOf(op).id = op.id
    BY DEF NoOp, Operation, NoMarker, MarkerOf
  <2> QED
    BY Zenon, <1>2, <2>1, BoundsAssumption
<1>5. SameOperation(op', op) /\ SameOperation(disk', op)
  <2>1. SameOperation(op, op)
    BY Zenon DEF SameOperation
  <2>2. CASE Prepare
    BY Zenon, <1>2, <2>2, PrepareRecords DEF Kept, Saved, NotSaved
  <2>3. CASE MarkActivating
    BY Zenon, <1>2, <2>3, ActivatingRecords DEF Kept
  <2>4. CASE SetPreviousCommand \/ SetTargetCommand
    BY Zenon, <1>2, <2>4, CommandRecords DEF Kept, Saved, NotSaved
  <2>5. CASE Succeed \/ finishFailure
    BY Zenon, <1>2, <2>1, <2>5, OutcomeRecords DEF Saved, NotSaved
  <2>6. CASE UNCHANGED <<op, disk>>
    BY Zenon, <1>2, <2>1, <2>6
  <2> QED
    BY Zenon, <2>2, <2>3, <2>4, <2>5, <2>6 DEF Run, SwapFrame, PreparationFails, Prepared, BeginActivation, BarrierFails, StopApplication, WaitTakeover,
       restartHAApplication, Restarted, RemovePrevious, BackUpCurrent, InstallStaged,
       rollbackPreparedDeployment, restorePreviousDeployment, ClearMarker, RunActivation,
       ReconcileFailedLayout, ClearFailedMarker, RestartLayout, finishOperation
<1>6. MarkerOf(op') = MarkerOf(op)
  BY Zenon, <1>5 DEF SameOperation, MarkerOf
<1> QED
  BY ZenonT(30), <1>1, <1>2, <1>3, <1>4, <1>5, <1>6

\* It keeps the process and the identity of its operation.
LEMMA RunIdentity ==
  ASSUME Types, Process, Identity, Run
  PROVE  Process' /\ Identity'
<1>1. /\ proc' = "serve" /\ request' = request /\ op.id \in Ids /\ op # NoOp
      /\ SameOperation(op', op) /\ SameOperation(disk', op)
  BY Zenon, RunKeeps
<1>2. op'.id = op.id /\ op'.started = op.started /\ disk'.started = op.started
  BY Zenon, <1>1 DEF SameOperation
<1>3. op' # NoOp
  <2>1. NoOp.id = 0
    BY DEF NoOp, Operation
  <2> QED
    BY Zenon, <1>1, <1>2, <2>1, BoundsAssumption
<1>4. op.started >= 1
  BY Zenon, <1>1 DEF Identity
<1>5. SameOperation(disk', op')
  BY Zenon, <1>1 DEF SameOperation
<1>6. Process'
  BY <1>1, <1>3 DEF Process
<1> QED
  BY Zenon, <1>1, <1>2, <1>4, <1>5, <1>6 DEF Identity

\* It keeps the deployments in step with the schema.
LEMMA RunDeployments ==
  ASSUME Types, Process, Identity, Deployments, NeverOlderThanSchema, Run
  PROVE  Deployments' /\ NeverOlderThanSchema'
<1> USE DEF RunFrame, SwapFrame
<1>a. /\ op'.target = op.target /\ op.target \in Nat /\ None = 0
      /\ current \in Nat /\ previous \in Nat /\ staged \in Nat /\ app \in Nat /\ migrated \in Nat
  <2>1. /\ op.target \in 0..MaxVersion /\ current \in 0..MaxVersion /\ previous \in 0..MaxVersion
        /\ staged \in 0..MaxVersion /\ app \in 0..MaxVersion /\ migrated \in 0..MaxVersion
    BY Zenon DEF Types, Records, Operations, Layouts, World
  <2>2. op'.target = op.target
    BY Zenon, RunKeeps DEF SameOperation
  <2> QED
    BY <2>1, <2>2, BoundsAssumption DEF None
<1>1. CASE Prepare
  BY <1>a, <1>1 DEF Prepare, Goto, Fail, NextPhase, Deployments,
     Before, PreparingPhases, NeverOlderThanSchema
<1>2. CASE PreparationFails
  BY <1>a, <1>2 DEF PreparationFails, Goto, Fail, Deployments,
     Before, PreparingPhases, NeverOlderThanSchema
<1>3. CASE Prepared
  BY <1>a, <1>3 DEF Prepared, Goto, Deployments,
     Before, PreparingPhases, NeverOlderThanSchema
<1>4. CASE BeginActivation
  BY <1>a, <1>4 DEF BeginActivation, Goto, Fail, Deployments,
     Before, PreparingPhases, NeverOlderThanSchema
<1>5. CASE MarkActivating
  BY <1>a, <1>5 DEF MarkActivating, Goto, Fail, Deployments,
     Before, PreparingPhases, NeverOlderThanSchema
<1>6. CASE SetPreviousCommand
  BY <1>a, <1>6 DEF SetPreviousCommand, Goto, FailActivation, Deployments,
     Before, PreparingPhases, NeverOlderThanSchema
<1>7. CASE BarrierFails
  BY SMTT(30), <1>a, <1>7 DEF BarrierFails, Goto, Fail, Deployments,
     Before, PreparingPhases, NeverOlderThanSchema
<1>8. CASE StopApplication
  BY <1>a, <1>8 DEF StopApplication, Goto, FailActivation, Deployments,
     Before, PreparingPhases, NeverOlderThanSchema
<1>9. CASE WaitTakeover
  BY <1>a, <1>9 DEF WaitTakeover, Goto, Deployments,
     Before, PreparingPhases, NeverOlderThanSchema
<1>10. CASE restartHAApplication
  BY <1>a, <1>10 DEF restartHAApplication, Goto, Fail, StartSucceeds, StartFails, Deployments,
     Before, PreparingPhases, NeverOlderThanSchema
<1>11. CASE Restarted
  BY <1>a, <1>11 DEF Restarted, Goto, Fail, Deployments,
     Before, PreparingPhases, NeverOlderThanSchema
<1>12. CASE RemovePrevious
  BY <1>a, <1>12 DEF RemovePrevious, Goto, FailActivation, Deployments,
     Before, PreparingPhases, NeverOlderThanSchema
<1>13. CASE BackUpCurrent
  BY <1>a, <1>13 DEF BackUpCurrent, Goto, FailActivation, Deployments,
     Before, PreparingPhases, NeverOlderThanSchema
<1>14. CASE InstallStaged
  BY <1>a, <1>14 DEF InstallStaged, Goto, Deployments,
     Before, PreparingPhases, NeverOlderThanSchema
<1>15. CASE rollbackPreparedDeployment
  BY <1>a, <1>15 DEF rollbackPreparedDeployment, Goto, FailActivation, Deployments,
     Before, PreparingPhases, NeverOlderThanSchema
<1>16. CASE restorePreviousDeployment
  BY <1>a, <1>16 DEF restorePreviousDeployment, Goto, FailActivation, Deployments,
     Before, PreparingPhases, NeverOlderThanSchema
<1>17. CASE SetTargetCommand
  BY <1>a, <1>17 DEF SetTargetCommand, Goto, Fail, FailActivation, Deployments,
     Before, PreparingPhases, NeverOlderThanSchema
<1>18. CASE ClearMarker
  BY <1>a, <1>18 DEF ClearMarker, Goto, FailActivation, Deployments,
     Before, PreparingPhases, NeverOlderThanSchema
<1>19. CASE RunActivation
  BY <1>a, <1>19 DEF RunActivation, Goto, Fail, StartSucceeds, StartFails, Deployments,
     Before, PreparingPhases, NeverOlderThanSchema
<1>20. CASE Succeed
  BY SMTT(30), <1>a, <1>20 DEF Succeed, Goto, Deployments,
     Before, PreparingPhases, NeverOlderThanSchema
<1>21. CASE ReconcileFailedLayout
  BY Zenon, <1>a, <1>21 DEF ReconcileFailedLayout, Continue, Conclude, Deployments,
     Before, PreparingPhases, NeverOlderThanSchema
<1>22. CASE ClearFailedMarker
  BY <1>a, <1>22 DEF ClearFailedMarker, Goto, Conclude, Deployments,
     Before, PreparingPhases, NeverOlderThanSchema
<1>23. CASE RestartLayout
  BY <1>a, <1>23 DEF RestartLayout, Conclude, StartSucceeds, StartFails, Deployments,
     Before, PreparingPhases, NeverOlderThanSchema
<1>24. CASE finishFailure
  BY <1>a, <1>24 DEF finishFailure, Goto, Deployments,
     Before, PreparingPhases, NeverOlderThanSchema
<1>25. CASE finishOperation
  BY <1>a, <1>25 DEF finishOperation, Goto, Deployments,
     Before, PreparingPhases, NeverOlderThanSchema
<1> QED
  BY Zenon, <1>1, <1>2, <1>3, <1>4, <1>5, <1>6, <1>7, <1>8, <1>9, <1>10, <1>11, <1>12, <1>13, <1>14,
     <1>15, <1>16, <1>17, <1>18, <1>19, <1>20, <1>21, <1>22, <1>23, <1>24, <1>25 DEF Run

\* It keeps the marker while the deployment may be absent.
LEMMA RunMarker ==
  ASSUME Types, Process, Identity, Deployments, Marker, Run
  PROVE  Marker'
<1> USE DEF RunFrame, SwapFrame
<1>a. /\ MarkerOf(op) # NoMarker /\ MarkerOf(op') = MarkerOf(op) /\ Marker /\ Deployments
  BY Zenon, RunKeeps
<1>1. CASE Prepare
  BY <1>a, <1>1 DEF Prepare, Goto, Fail, NextPhase, Marker, Holding,
     Deployments, Before, PreparingPhases, LayoutUsable, Cleared, NotCleared
<1>2. CASE PreparationFails
  BY <1>a, <1>2 DEF PreparationFails, Goto, Fail, Marker, Holding,
     Deployments, Before, PreparingPhases, LayoutUsable, Cleared, NotCleared
<1>3. CASE Prepared
  BY <1>a, <1>3 DEF Prepared, Goto, Marker, Holding,
     Deployments, Before, PreparingPhases, LayoutUsable, Cleared, NotCleared
<1>4. CASE BeginActivation
  BY <1>a, <1>4 DEF BeginActivation, Goto, Fail, Marker, Holding,
     Deployments, Before, PreparingPhases, LayoutUsable, Cleared, NotCleared
<1>5. CASE MarkActivating
  BY <1>a, <1>5 DEF MarkActivating, Goto, Fail, Marker, Holding,
     Deployments, Before, PreparingPhases, LayoutUsable, Cleared, NotCleared
<1>6. CASE SetPreviousCommand
  BY <1>a, <1>6 DEF SetPreviousCommand, Goto, FailActivation, Marker, Holding,
     Deployments, Before, PreparingPhases, LayoutUsable, Cleared, NotCleared
<1>7. CASE BarrierFails
  BY <1>a, <1>7 DEF BarrierFails, Goto, Fail, Marker, Holding,
     Deployments, Before, PreparingPhases, LayoutUsable, Cleared, NotCleared
<1>8. CASE StopApplication
  BY <1>a, <1>8 DEF StopApplication, Goto, FailActivation, Marker, Holding,
     Deployments, Before, PreparingPhases, LayoutUsable, Cleared, NotCleared
<1>9. CASE WaitTakeover
  BY SMTT(30), <1>a, <1>9 DEF WaitTakeover, Goto, Marker, Holding,
     Deployments, Before, PreparingPhases, LayoutUsable, Cleared, NotCleared
<1>10. CASE restartHAApplication
  BY ZenonT(30), <1>a, <1>10 DEF restartHAApplication, Goto, Fail, StartSucceeds, StartFails, Marker, Holding,
     Deployments, Before, PreparingPhases, LayoutUsable, Cleared, NotCleared
<1>11. CASE Restarted
  BY <1>a, <1>11 DEF Restarted, Goto, Fail, Marker, Holding,
     Deployments, Before, PreparingPhases, LayoutUsable, Cleared, NotCleared
<1>12. CASE RemovePrevious
  BY SMTT(30), <1>a, <1>12 DEF RemovePrevious, Goto, FailActivation, Marker, Holding,
     Deployments, Before, PreparingPhases, LayoutUsable, Cleared, NotCleared
<1>13. CASE BackUpCurrent
  BY ZenonT(30), <1>a, <1>13 DEF BackUpCurrent, Goto, FailActivation, Marker, Holding,
     Deployments, Before, PreparingPhases, LayoutUsable, Cleared, NotCleared
<1>14. CASE InstallStaged
  BY <1>a, <1>14 DEF InstallStaged, Goto, Marker, Holding,
     Deployments, Before, PreparingPhases, LayoutUsable, Cleared, NotCleared
<1>15. CASE rollbackPreparedDeployment
  BY SMTT(30), <1>a, <1>15 DEF rollbackPreparedDeployment, Goto, FailActivation, Marker, Holding,
     Deployments, Before, PreparingPhases, LayoutUsable, Cleared, NotCleared
<1>16. CASE restorePreviousDeployment
  BY <1>a, <1>16 DEF restorePreviousDeployment, Goto, FailActivation, Marker, Holding,
     Deployments, Before, PreparingPhases, LayoutUsable, Cleared, NotCleared
<1>17. CASE SetTargetCommand
  BY SMTT(30), <1>a, <1>17 DEF SetTargetCommand, Goto, Fail, FailActivation, Marker, Holding,
     Deployments, Before, PreparingPhases, LayoutUsable, Cleared, NotCleared
<1>18. CASE ClearMarker
  BY ZenonT(30), <1>a, <1>18 DEF ClearMarker, Goto, FailActivation, Marker, Holding,
     Deployments, Before, PreparingPhases, LayoutUsable, Cleared, NotCleared
<1>19. CASE RunActivation
  BY <1>a, <1>19 DEF RunActivation, Goto, Fail, StartSucceeds, StartFails, Marker, Holding,
     Deployments, Before, PreparingPhases, LayoutUsable, Cleared, NotCleared
<1>20. CASE Succeed
  BY SMTT(30), <1>a, <1>20 DEF Succeed, Goto, Marker, Holding,
     Deployments, Before, PreparingPhases, LayoutUsable, Cleared, NotCleared
<1>21. CASE ReconcileFailedLayout
  BY Zenon, <1>a, <1>21 DEF ReconcileFailedLayout, Continue, Conclude, Marker, Holding,
     Deployments, Before, PreparingPhases, LayoutUsable, Cleared, NotCleared
<1>22. CASE ClearFailedMarker
  BY <1>a, <1>22 DEF ClearFailedMarker, Goto, Conclude, Marker, Holding,
     Deployments, Before, PreparingPhases, LayoutUsable, Cleared, NotCleared
<1>23. CASE RestartLayout
  BY SMTT(30), <1>a, <1>23 DEF RestartLayout, Conclude, StartSucceeds, StartFails, Marker, Holding,
     Deployments, Before, PreparingPhases, LayoutUsable, Cleared, NotCleared
<1>24. CASE finishFailure
  BY SMTT(30), <1>a, <1>24 DEF finishFailure, Goto, Marker, Holding,
     Deployments, Before, PreparingPhases, LayoutUsable, Cleared, NotCleared
<1>25. CASE finishOperation
  BY <1>a, <1>25 DEF finishOperation, Goto, Marker, Holding,
     Deployments, Before, PreparingPhases, LayoutUsable, Cleared, NotCleared
<1> QED
  BY Zenon, <1>1, <1>2, <1>3, <1>4, <1>5, <1>6, <1>7, <1>8, <1>9, <1>10, <1>11, <1>12, <1>13, <1>14,
     <1>15, <1>16, <1>17, <1>18, <1>19, <1>20, <1>21, <1>22, <1>23, <1>24, <1>25 DEF Run

\* Before its end an operation has not succeeded, and its recovery is not pending.
LEMMA RunPhases ==
  ASSUME Types, Successes, Run
  PROVE  /\ pc \notin {"cleanup", "succeed"} => disk'.phase # "succeeded" /\ op'.phase # "succeeded"
         /\ pc \notin {"cleanup", "fail", "succeed"} => op'.pending = op.pending
         /\ pc \notin {"idle", "cleanup"} => ~ op.pending /\ op.phase # "succeeded" /\ disk.phase # "succeeded"
<1>1. pc \notin {"idle", "cleanup"} => ~ op.pending /\ op.phase # "succeeded" /\ disk.phase # "succeeded"
  BY ZenonT(30) DEF Successes, Success
<1>2. pc # "idle"
  BY Zenon DEF Run, NextPhase, PreparingPhases, SwapFrame, Prepare, PreparationFails, Prepared, BeginActivation, MarkActivating, SetPreviousCommand,
     BarrierFails, StopApplication, WaitTakeover, restartHAApplication, Restarted,
     RemovePrevious, BackUpCurrent, InstallStaged, rollbackPreparedDeployment,
     restorePreviousDeployment, SetTargetCommand, ClearMarker, RunActivation, Succeed,
     ReconcileFailedLayout, ClearFailedMarker, RestartLayout, finishFailure, finishOperation
<1>3. CASE Prepare
  <2>1. "succeeded" \notin PreparingPhases /\ "cleanup" \notin DOMAIN NextPhase
    BY DEF PreparingPhases, NextPhase
  <2>2. pc \notin {"idle", "cleanup"}
    BY Zenon, <1>2, <1>3, <2>1 DEF Prepare
  <2> QED
    BY Zenon, <1>1, <1>3, <2>1, <2>2, PrepareRecords DEF Saved, NotSaved
<1>4. CASE MarkActivating
  <2>1. pc \notin {"idle", "cleanup"} /\ "activating" # "succeeded"
    BY <1>4 DEF MarkActivating
  <2> QED
    BY Zenon, <1>1, <1>4, <2>1, ActivatingRecords
<1>5. CASE SetPreviousCommand \/ SetTargetCommand
  <2>1. pc \notin {"idle", "cleanup"}
    BY Zenon, <1>5 DEF SetPreviousCommand, SetTargetCommand
  <2> QED
    BY Zenon, <1>1, <1>5, <2>1, CommandRecords DEF Saved, NotSaved
<1>6. CASE Succeed
  BY Zenon, <1>1, <1>6 DEF Succeed
<1>7. CASE finishFailure
  <2>1. pc = "fail" /\ pc \notin {"idle", "cleanup"} /\ "failed" # "succeeded"
    BY <1>7 DEF finishFailure
  <2> QED
    BY Zenon, <1>1, <1>7, <2>1, OutcomeRecords DEF Saved, NotSaved
<1>8. CASE UNCHANGED <<op, disk>>
  BY Zenon, <1>1, <1>2, <1>8
<1> QED
  BY ZenonT(30), <1>3, <1>4, <1>5, <1>6, <1>7, <1>8 DEF Run, SwapFrame, PreparationFails, Prepared, BeginActivation, BarrierFails, StopApplication, WaitTakeover,
     restartHAApplication, Restarted, RemovePrevious, BackUpCurrent, InstallStaged,
     rollbackPreparedDeployment, restorePreviousDeployment, ClearMarker, RunActivation,
     ReconcileFailedLayout, ClearFailedMarker, RestartLayout, finishOperation

\* It records a success only of what is installed and runs.
LEMMA RunSuccesses ==
  ASSUME Types, Process, Identity, Deployments, Marker, Successes, Run
  PROVE  Successes'
<1>1. CASE Succeed
  <2>1. /\ pc = "succeed" /\ pc' = "cleanup" /\ UNCHANGED <<marker, current, app>>
    BY Zenon, <1>1 DEF Succeed, Goto
  <2>2. marker = NoMarker /\ current = op.target /\ app = op.target /\ op.target # None
    BY <2>1 DEF Marker, Deployments
  <2>3. PICK o \in Operations :
          /\ SameOperation(o, op) /\ o.pending = op.pending
          /\ \/ Saved(o) /\ op' = o
             \/ NotSaved(o) /\ op' = op
    BY Zenon, <1>1, OutcomeRecords
  <2>4. ~ op.pending /\ op.phase # "succeeded" /\ disk.phase # "succeeded"
    BY <2>1 DEF Successes, Success
  <2>5. /\ op' = op \/ (op'.target = op.target /\ ~ op'.pending)
        /\ disk' = disk \/ (disk'.target = op.target /\ ~ disk'.pending)
    BY Zenon, <2>3, <2>4 DEF SameOperation, Saved, NotSaved
  <2> QED
    BY Zenon, <2>1, <2>2, <2>4, <2>5 DEF Successes, Success
<1>2. CASE finishOperation
  BY Zenon, <1>2 DEF finishOperation, Goto, Successes, Success
<1>3. CASE finishFailure
  <2>1. pc = "fail" /\ pc' = "cleanup" /\ pc \notin {"cleanup", "succeed"}
    BY <1>3 DEF finishFailure, Goto
  <2> QED
    BY Zenon, <2>1, RunPhases DEF Successes, Success
<1>4. CASE ~ (Succeed \/ finishOperation \/ finishFailure)
  <2>1. pc \notin {"idle", "cleanup", "fail", "succeed"}
    BY Zenon, <1>4 DEF Run, NextPhase, PreparingPhases, SwapFrame, Prepare, PreparationFails, Prepared, BeginActivation, MarkActivating, SetPreviousCommand,
       BarrierFails, StopApplication, WaitTakeover, restartHAApplication, Restarted,
       RemovePrevious, BackUpCurrent, InstallStaged, rollbackPreparedDeployment,
       restorePreviousDeployment, SetTargetCommand, ClearMarker, RunActivation,
       ReconcileFailedLayout, ClearFailedMarker, RestartLayout
  <2>2. disk'.phase # "succeeded" /\ op'.phase # "succeeded" /\ ~ op'.pending
    BY Zenon, <2>1, RunPhases
  <2> QED
    BY ZenonT(30), <2>2 DEF Successes, Success
<1> QED
  BY Zenon, <1>1, <1>2, <1>3, <1>4

\* It removes its own marker, and no other.
LEMMA RunMarkers ==
  ASSUME Types, Process, Identity, Deployments, Marker, Successes, Markers, Run
  PROVE  Markers'
<1> USE DEF RunFrame, SwapFrame
<1>a. /\ proc = "serve" /\ proc' = "serve" /\ MarkerOf(op') = MarkerOf(op) /\ MarkerOf(disk') = MarkerOf(op)
      /\ op'.started = op.started /\ disk'.started = op.started /\ op.started \in Nat /\ faults \in Nat
  <2>1. op.started \in 0..MaxOps /\ faults \in 0..MaxFaults
    BY ZenonT(30) DEF Types, Records, Operations, Counts
  <2> QED
    BY <2>1, RunKeeps, BoundsAssumption DEF SameOperation, MarkerOf
<1>b. marker' \in {marker, NoMarker, MarkerOf(op)}
  BY Zenon DEF Run, Cleared, NotCleared, Prepare, PreparationFails, Prepared, BeginActivation, MarkActivating, SetPreviousCommand,
     BarrierFails, StopApplication, WaitTakeover, restartHAApplication, Restarted,
     RemovePrevious, BackUpCurrent, InstallStaged, rollbackPreparedDeployment,
     restorePreviousDeployment, SetTargetCommand, ClearMarker, RunActivation, Succeed,
     ReconcileFailedLayout, ClearFailedMarker, RestartLayout, finishFailure, finishOperation
<1>c. faults' >= faults
  <2>1. ASSUME Prepare \/ PreparationFails \/ Prepared \/ BeginActivation \/
            SetPreviousCommand \/ BarrierFails \/ StopApplication \/ WaitTakeover \/ restartHAApplication \/
            Restarted \/ RemovePrevious
    PROVE  UNCHANGED faults \/ Fault
    BY Zenon, <2>1 DEF Saved, NotSaved, Cleared, NotCleared, Prepare, PreparationFails, Prepared, BeginActivation, SetPreviousCommand,
       BarrierFails, StopApplication, WaitTakeover, restartHAApplication, Restarted,
       RemovePrevious
  <2>2. ASSUME BackUpCurrent \/ InstallStaged \/ rollbackPreparedDeployment \/ restorePreviousDeployment \/ SetTargetCommand \/
            ClearMarker \/ RunActivation \/ Succeed \/ ReconcileFailedLayout \/ ClearFailedMarker \/
            RestartLayout \/ finishFailure \/ finishOperation
    PROVE  UNCHANGED faults \/ Fault
    BY Zenon, <2>2 DEF Saved, NotSaved, Cleared, NotCleared, BackUpCurrent, InstallStaged, rollbackPreparedDeployment, restorePreviousDeployment,
       SetTargetCommand, ClearMarker, RunActivation, Succeed, ReconcileFailedLayout,
       ClearFailedMarker, RestartLayout, finishFailure, finishOperation
  <2>3. ASSUME MarkActivating
        PROVE  UNCHANGED faults \/ faults' = faults + 1 \/ faults' = faults + 2
    BY Zenon, <2>3 DEF MarkActivating, Saved
  <2>4. UNCHANGED faults \/ faults' = faults + 1 \/ faults' = faults + 2
    BY Zenon, <2>1, <2>2, <2>3 DEF Run, Fault
  <2> QED
    BY <1>a, <2>4
<1>d. faults' = 0 => faults = 0
  BY <1>a, <1>c
<1>e. First(op) /\ marker # NoMarker => marker = MarkerOf(op)
  BY Zenon, <1>a DEF Markers
<1>f. /\ First(disk)' /\ marker' # NoMarker => marker' = MarkerOf(disk')
      /\ First(op)' /\ marker' # NoMarker => marker' = MarkerOf(op')
  BY Zenon, <1>a, <1>b, <1>d, <1>e DEF First
<1>g. Uncleared /\ Marker /\ Deployments
  BY Zenon DEF Markers
<1>1. ASSUME Prepare PROVE Uncleared'
  BY ZenonT(30), <1>a, <1>d, <1>g, <1>1 DEF Prepare, Goto, Fail, NextPhase, Saved, NotSaved, Fault, Cleared, NotCleared,
     Uncleared, Holding, Marker, LayoutUsable, Deployments, NoCommand, Command
<1>2. ASSUME PreparationFails PROVE Uncleared'
  BY ZenonT(30), <1>a, <1>d, <1>g, <1>2 DEF PreparationFails, NextPhase, PreparingPhases, Goto, Fail, Saved, NotSaved, Fault, Cleared, NotCleared,
     Uncleared, Holding, Marker, LayoutUsable, Deployments, NoCommand, Command
<1>3. ASSUME Prepared PROVE Uncleared'
  BY ZenonT(30), <1>a, <1>d, <1>g, <1>3 DEF Prepared, Goto, Saved, NotSaved, Fault, Cleared, NotCleared,
     Uncleared, Holding, Marker, LayoutUsable, Deployments, NoCommand, Command
<1>4. ASSUME BeginActivation PROVE Uncleared'
  BY <1>a, <1>d, <1>g, <1>4 DEF BeginActivation, Goto, Fail, Saved, NotSaved, Fault, Cleared, NotCleared,
     Uncleared, Holding, Marker, LayoutUsable, Deployments, NoCommand, Command
<1>5. ASSUME MarkActivating PROVE Uncleared'
  BY SMTT(30), <1>a, <1>d, <1>g, <1>5 DEF MarkActivating, Goto, Fail, Saved, NotSaved, Fault, Cleared, NotCleared,
     Uncleared, Holding, Marker, LayoutUsable, Deployments, NoCommand, Command
<1>6. ASSUME SetPreviousCommand PROVE Uncleared'
  BY ZenonT(30), <1>a, <1>d, <1>g, <1>6 DEF SetPreviousCommand, Goto, FailActivation, Saved, NotSaved, Fault, Cleared, NotCleared,
     Uncleared, Holding, Marker, LayoutUsable, Deployments, NoCommand, Command
<1>7. ASSUME BarrierFails PROVE Uncleared'
  BY SMTT(30), <1>a, <1>d, <1>g, <1>7 DEF BarrierFails, Goto, Fail, Saved, NotSaved, Fault, Cleared, NotCleared,
     Uncleared, Holding, Marker, LayoutUsable, Deployments, NoCommand, Command
<1>8. ASSUME StopApplication PROVE Uncleared'
  BY ZenonT(30), <1>a, <1>d, <1>g, <1>8 DEF StopApplication, Goto, FailActivation, Saved, NotSaved, Fault, Cleared, NotCleared,
     Uncleared, Holding, Marker, LayoutUsable, Deployments, NoCommand, Command
<1>9. ASSUME WaitTakeover PROVE Uncleared'
  BY ZenonT(30), <1>a, <1>d, <1>g, <1>9 DEF WaitTakeover, Goto, Saved, NotSaved, Fault, Cleared, NotCleared,
     Uncleared, Holding, Marker, LayoutUsable, Deployments, NoCommand, Command
<1>10. ASSUME restartHAApplication PROVE Uncleared'
  BY SMTT(30), <1>a, <1>d, <1>g, <1>10 DEF restartHAApplication, Goto, Fail, StartSucceeds, StartFails, Saved, NotSaved, Fault, Cleared, NotCleared,
     Uncleared, Holding, Marker, LayoutUsable, Deployments, NoCommand, Command
<1>11. ASSUME Restarted PROVE Uncleared'
  BY SMTT(30), <1>a, <1>d, <1>g, <1>11 DEF Restarted, Goto, Fail, Saved, NotSaved, Fault, Cleared, NotCleared,
     Uncleared, Holding, Marker, LayoutUsable, Deployments, NoCommand, Command
<1>12. ASSUME RemovePrevious PROVE Uncleared'
  BY ZenonT(30), <1>a, <1>d, <1>g, <1>12 DEF RemovePrevious, Goto, FailActivation, Saved, NotSaved, Fault, Cleared, NotCleared,
     Uncleared, Holding, Marker, LayoutUsable, Deployments, NoCommand, Command
<1>13. ASSUME BackUpCurrent PROVE Uncleared'
  BY ZenonT(30), <1>a, <1>d, <1>g, <1>13 DEF BackUpCurrent, Goto, FailActivation, Saved, NotSaved, Fault, Cleared, NotCleared,
     Uncleared, Holding, Marker, LayoutUsable, Deployments, NoCommand, Command
<1>14. ASSUME InstallStaged PROVE Uncleared'
  BY ZenonT(30), <1>a, <1>d, <1>g, <1>14 DEF InstallStaged, Goto, Saved, NotSaved, Fault, Cleared, NotCleared,
     Uncleared, Holding, Marker, LayoutUsable, Deployments, NoCommand, Command
<1>15. ASSUME rollbackPreparedDeployment PROVE Uncleared'
  BY ZenonT(30), <1>a, <1>d, <1>g, <1>15 DEF rollbackPreparedDeployment, Goto, FailActivation, Saved, NotSaved, Fault, Cleared, NotCleared,
     Uncleared, Holding, Marker, LayoutUsable, Deployments, NoCommand, Command
<1>16. ASSUME restorePreviousDeployment PROVE Uncleared'
  BY ZenonT(30), <1>a, <1>d, <1>g, <1>16 DEF restorePreviousDeployment, Goto, FailActivation, Saved, NotSaved, Fault, Cleared, NotCleared,
     Uncleared, Holding, Marker, LayoutUsable, Deployments, NoCommand, Command
<1>17. ASSUME SetTargetCommand PROVE Uncleared'
  BY SMTT(30), <1>a, <1>d, <1>g, <1>17 DEF SetTargetCommand, Goto, Fail, FailActivation, Saved, NotSaved, Fault, Cleared, NotCleared,
     Uncleared, Holding, Marker, LayoutUsable, Deployments, NoCommand, Command
<1>18. ASSUME ClearMarker PROVE Uncleared'
  BY ZenonT(30), <1>a, <1>d, <1>g, <1>18 DEF ClearMarker, Goto, FailActivation, Saved, NotSaved, Fault, Cleared, NotCleared,
     Uncleared, Holding, Marker, LayoutUsable, Deployments, NoCommand, Command
<1>19. ASSUME RunActivation PROVE Uncleared'
  BY ZenonT(30), <1>a, <1>d, <1>g, <1>19 DEF RunActivation, Goto, Fail, StartSucceeds, StartFails, Saved, NotSaved, Fault, Cleared, NotCleared,
     Uncleared, Holding, Marker, LayoutUsable, Deployments, NoCommand, Command
<1>20. ASSUME Succeed PROVE Uncleared'
  BY ZenonT(30), <1>a, <1>d, <1>g, <1>20 DEF Succeed, Goto, Saved, NotSaved, Fault, Cleared, NotCleared,
     Uncleared, Holding, Marker, LayoutUsable, Deployments, NoCommand, Command
<1>21. ASSUME ReconcileFailedLayout PROVE Uncleared'
  BY SMTT(30), <1>a, <1>d, <1>g, <1>21 DEF ReconcileFailedLayout, Continue, Conclude, Saved, NotSaved, Fault, Cleared, NotCleared,
     Uncleared, Holding, Marker, LayoutUsable, Deployments, NoCommand, Command
<1>22. ASSUME ClearFailedMarker PROVE Uncleared'
  BY SMTT(30), <1>a, <1>d, <1>g, <1>22 DEF ClearFailedMarker, Goto, Conclude, Saved, NotSaved, Fault, Cleared, NotCleared,
     Uncleared, Holding, Marker, LayoutUsable, Deployments, NoCommand, Command
<1>23. ASSUME RestartLayout PROVE Uncleared'
  BY <1>a, <1>d, <1>g, <1>23 DEF RestartLayout, Conclude, StartSucceeds, StartFails, Saved, NotSaved, Fault, Cleared, NotCleared,
     Uncleared, Holding, Marker, LayoutUsable, Deployments, NoCommand, Command
<1>24. ASSUME finishFailure PROVE Uncleared'
  <2>1. pc = "fail" /\ pc' = "cleanup" /\ UNCHANGED marker
    BY <1>24 DEF finishFailure, Goto
  <2>2. op'.pending = verdict.pending \/ Fault
    <3>1. PICK o \in Operations :
            /\ finishFailure => o.pending = verdict.pending
            /\ \/ Saved(o) /\ op' = o
               \/ NotSaved(o) /\ op' = op
      BY Zenon, <1>24, OutcomeRecords
    <3> QED
      BY Zenon, <1>24, <3>1 DEF NotSaved
  <2>3. Fault => faults' # 0
    BY <1>a DEF Fault
  <2>4. pc \notin Holding \cup {"layout", "clear"} /\ pc \notin {"cleanup", "idle"}
    BY <2>1 DEF Holding
  <2>5. faults' = 0 => marker = NoMarker \/ verdict.pending
    BY Zenon, <1>a, <1>d, <1>g, <2>4 DEF Uncleared
  <2> QED
    BY Zenon, <2>1, <2>2, <2>3, <2>5 DEF Uncleared
<1>25. ASSUME finishOperation PROVE Uncleared'
  BY <1>a, <1>d, <1>g, <1>25 DEF finishOperation, Goto, Saved, NotSaved, Fault, Cleared, NotCleared,
     Uncleared, Holding, Marker, LayoutUsable, Deployments, NoCommand, Command
<1>x. Uncleared'
  BY ZenonT(30), <1>1, <1>2, <1>3, <1>4, <1>5, <1>6, <1>7, <1>8, <1>9, <1>10, <1>11, <1>12, <1>13, <1>14,
     <1>15, <1>16, <1>17, <1>18, <1>19, <1>20, <1>21, <1>22, <1>23, <1>24, <1>25 DEF Run
<1> QED
  BY Zenon, <1>f, <1>x DEF Markers

-----------------------------------------------------------------------------
(* The other steps keep it as well.                                        *)

Sound ==
  /\ Process /\ Identity /\ Deployments /\ NeverOlderThanSchema
  /\ Marker /\ Successes /\ Markers

\* The types of what the arithmetic is about.
LEMMA Numbers ==
  ASSUME Types
  PROVE  /\ op.started \in Nat /\ disk.started \in Nat /\ faults \in Nat
         /\ op.target \in Nat /\ disk.target \in Nat
         /\ current \in Nat /\ previous \in Nat /\ migrated \in Nat /\ app \in Nat
<1>1. /\ op.started \in 0..MaxOps /\ disk.started \in 0..MaxOps /\ faults \in 0..MaxFaults
      /\ op.target \in 0..MaxVersion /\ disk.target \in 0..MaxVersion
  BY Zenon DEF Types, Records, Operations, Counts
<1>2. {current, previous, migrated, app} \subseteq 0..MaxVersion
  BY Zenon DEF Types, Layouts, World
<1> QED
  BY <1>1, <1>2, BoundsAssumption

\* What is left to show of a step that ends the process.
LEMMA LostSound ==
  ASSUME Types, NEW p \in {"stopped", "down"}, Lost(p), LayoutUsable', NeverOlderThanSchema',
         (current = None /\ previous # None => previous >= migrated)',
         (disk # NoOp => disk.started >= 1)',
         Success(disk)',
         (First(disk) /\ marker # NoMarker => marker = MarkerOf(disk))'
  PROVE  Sound'
<1>1. /\ op' = NoOp /\ pc' = "idle" /\ proc' \in {"stopped", "down"}
      /\ \A c \in Callers : request'[c] = NoOp
  BY Zenon, LostTypes
<1>2. Process' /\ Identity'
  BY ZenonT(30), <1>1 DEF Process, Identity
<1>3. Deployments' /\ Marker'
  BY <1>1 DEF Deployments, Before, PreparingPhases, Marker, Holding
<1>4. Successes' /\ Markers'
  BY <1>1, OperationTypes DEF Successes, Success, Markers, Uncleared
<1> QED
  BY Zenon, <1>2, <1>3, <1>4 DEF Sound

\* The invariant speaks of these variables only.
LEMMA SameSound ==
  ASSUME Sound, UNCHANGED <<disk, marker, layout, world, proc, op, pc, verdict, request, faults>>
  PROVE  Sound'
<1>1. Process' /\ Identity'
  BY Zenon DEF Sound, Process, Identity, SameOperation
<1>2. NeverOlderThanSchema' /\ Successes'
  BY Zenon DEF Sound, NeverOlderThanSchema, Successes, Success
<1>3. Markers'
  BY Zenon DEF Sound, Markers, Uncleared, First
<1>4. Deployments' /\ Marker'
  BY Zenon DEF Sound, Deployments, Marker, LayoutUsable
<1> QED
  BY Zenon, <1>1, <1>2, <1>3, <1>4 DEF Sound

\* Steps that change nothing the invariant speaks of but the requests or the
\* place of an idle process.
LEMMA QuietSound ==
  ASSUME Types, Sound, Crash \/ Exit \/ Boot \/ Shutdown \/ Status
  PROVE  Sound'
<1>1. CASE Crash \/ Exit
  <2>1. PICK p \in {"stopped", "down"} : Lost(p)
    BY <1>1 DEF Crash, Exit
  <2>2. UNCHANGED <<disk, marker, layout, world, faults>>
    BY Zenon, <1>1 DEF Crash, Exit
  <2>3. pc' = "idle"
    BY Zenon, <2>1, LostTypes
  <2>4. LayoutUsable' /\ NeverOlderThanSchema' /\ (current = None /\ previous # None => previous >= migrated)'
    BY Zenon, <2>2 DEF Sound, Marker, Deployments, LayoutUsable, NeverOlderThanSchema
  <2>5. (disk # NoOp => disk.started >= 1)' /\ (First(disk) /\ marker # NoMarker => marker = MarkerOf(disk))'
    BY Zenon, <2>2 DEF Sound, Identity, Markers, First
  <2>6. Success(disk)'
    BY ZenonT(30), <2>2, <2>3 DEF Sound, Successes, Success
  <2> QED
    BY Zenon, <2>1, <2>4, <2>5, <2>6, LostSound
<1>2. CASE Boot
  BY <1>2 DEF Boot, Sound, Process, Identity, SameOperation, Deployments, NeverOlderThanSchema, Marker,
     LayoutUsable, Successes, Success, Markers, Uncleared, First
<1>3. CASE Shutdown \/ Status
  BY Zenon, <1>3, SameSound DEF Shutdown, Status
<1> QED
  BY Zenon, <1>1, <1>2, <1>3

\* The checks of a trigger leave a fresh request.
LEMMA CheckSound ==
  ASSUME Types, Sound, NEW c \in Callers, NEW id \in Ids, NEW v \in Versions, NEW complete \in BOOLEAN,
         TriggerCheck(c, id, v, complete)
  PROVE  Sound'
<1>1. UNCHANGED <<disk, marker, layout, world, proc, op, pc, verdict, faults>>
  BY Zenon DEF TriggerCheck
<1>2. \A d \in Callers : request'[d] = request[d] \/ request'[d] = Operation(id, v, complete, 0)
  BY DEF TriggerCheck, Types, Clients
<1>3. Identity'
  <2>1. \A d \in Callers : request'[d] # NoOp =>
          request'[d].id \in Ids /\ request'[d].phase = "queued" /\ ~ request'[d].pending
    <3>1. LET o == Operation(id, v, complete, 0) IN o.id \in Ids /\ o.phase = "queued" /\ ~ o.pending
      BY ZenonT(30), OperationTypes
    <3> QED
      BY Zenon, <1>2, <3>1 DEF Sound, Identity
  <2> QED
    BY Zenon, <1>1, <2>1 DEF Sound, Identity, SameOperation
<1>4. Process' /\ NeverOlderThanSchema' /\ Successes' /\ Markers'
  BY Zenon, <1>1 DEF Sound, Process, NeverOlderThanSchema, Successes, Success, Markers, Uncleared, First
<1>5. Deployments' /\ Marker'
  BY Zenon, <1>1 DEF Sound, Deployments, Marker, LayoutUsable
<1> QED
  BY Zenon, <1>3, <1>4, <1>5 DEF Sound

\* A trigger is admitted where nothing runs and, unless a write has failed,
\* nothing is left over.
LEMMA AdmitSound ==
  ASSUME Types, Sound, NEW c \in Callers, TriggerAdmit(c)
  PROVE  Sound'
<1>1. /\ proc = "serve" /\ UNCHANGED <<proc, marker, current, previous, world, verdict>>
  BY Zenon DEF TriggerAdmit
<1>2. \A d \in Callers : request'[d] = request[d] \/ request'[d] = NoOp
  BY DEF TriggerAdmit, Types, Clients
<1>3. \A d \in Callers : request'[d] # NoOp =>
        request'[d].id \in Ids /\ request'[d].phase = "queued" /\ ~ request'[d].pending
  BY Zenon, <1>2 DEF Sound, Identity
<1>4. CASE UNCHANGED <<disk, op, pc, staged, cancelled, faults>>
  <2>1. Process' /\ Identity' /\ NeverOlderThanSchema' /\ Successes' /\ Markers'
    BY ZenonT(30), <1>1, <1>3, <1>4 DEF Sound, Process, Identity, SameOperation, NeverOlderThanSchema,
       Successes, Success, Markers, Uncleared, First
  <2>2. Deployments' /\ Marker'
    BY Zenon, <1>1, <1>4 DEF Sound, Deployments, Marker, LayoutUsable
  <2> QED
    BY Zenon, <2>1, <2>2 DEF Sound
<1>5. ASSUME NEW new \in Operations,
             Admissible(request[c]), request[c] # NoOp, staged' = None,
             new.id = request[c].id, new.target = request[c].target,
             new.phase = request[c].phase, new.pending = request[c].pending,
             new.started = op.started + 1,
             \/ Saved(new) /\ op' = new /\ pc' = "queued" /\ cancelled' = FALSE
             \/ NotSaved(new) /\ UNCHANGED <<op, pc, cancelled>>
      PROVE  Sound'
  <2>1. /\ pc = "idle" /\ ~ op.pending /\ current # None /\ new.target > current
        /\ new.id \in Ids /\ new.phase = "queued" /\ ~ new.pending
    BY Zenon, <1>5 DEF Admissible, Sound, Identity
  <2>2. new.started >= 1 /\ new # NoOp /\ (new.started <= 1 => op = NoOp)
    BY <1>5, Numbers, OperationTypes DEF Sound, Identity
  <2>3. (faults = 0 \/ new.started <= 1) => marker = NoMarker
    <3>1. pc \notin Holding \cup {"layout", "clear"} /\ pc # "fail"
      BY <2>1 DEF Holding
    <3> QED
      BY Zenon, <1>1, <2>1, <2>2, <3>1 DEF Sound, Process, Markers, Uncleared
  <2>4. /\ NeverOlderThanSchema' /\ LayoutUsable'
        /\ (current = None /\ previous # None => previous >= migrated)'
    BY Zenon, <1>1 DEF Sound, NeverOlderThanSchema, Marker, LayoutUsable, Deployments
  <2>5. CASE Saved(new) /\ op' = new /\ pc' = "queued"
    <3>1. disk' = new /\ op' = new /\ pc' = "queued" /\ UNCHANGED faults /\ pc' # "idle"
      BY <2>5 DEF Saved
    <3>2. Process' /\ Identity'
      BY Zenon, <1>1, <1>3, <2>1, <2>2, <3>1 DEF Process, Identity, SameOperation
    <3>3. Deployments' /\ Marker'
      BY <1>1, <2>1, <2>4, <3>1 DEF Deployments, Marker, Before, PreparingPhases, Holding
    <3>4. "queued" # "succeeded"
      OBVIOUS
    <3>5. Successes' /\ Markers'
      BY Zenon, <1>1, <2>1, <2>3, <3>1, <3>4 DEF Successes, Success, Markers, Uncleared, First
    <3> QED
      BY Zenon, <2>4, <3>2, <3>3, <3>5 DEF Sound
  <2>6. CASE NotSaved(new) /\ UNCHANGED <<op, pc>>
    <3>1. disk' \in {disk, new} /\ UNCHANGED <<op, pc>> /\ faults' # 0
      BY <2>6, Numbers DEF NotSaved, Fault
    <3>2. Process' /\ Identity'
      BY Zenon, <1>1, <1>3, <2>1, <2>2, <3>1 DEF Sound, Process, Identity
    <3>3. Deployments' /\ Marker'
      BY <1>1, <2>1, <2>4, <3>1 DEF Deployments, Marker, Before, PreparingPhases, Holding
    <3>4. "queued" # "succeeded"
      OBVIOUS
    <3>5. Successes' /\ Markers'
      BY Zenon, <1>1, <2>1, <2>3, <3>1, <3>4 DEF Sound, Successes, Success, Markers, Uncleared, First
    <3> QED
      BY Zenon, <2>4, <3>2, <3>3, <3>5 DEF Sound
  <2> QED
    BY Zenon, <1>5, <2>5, <2>6
<1> QED
  BY Zenon, <1>4, <1>5, AdmitRecords

\* An acknowledgement changes nothing but itself.
LEMMA AcknowledgeSound ==
  ASSUME Types, Sound, Acknowledge
  PROVE  Sound'
<1>1. /\ proc = "serve" /\ op # NoOp
      /\ UNCHANGED <<proc, marker, layout, world, pc, verdict, request>>
  BY Zenon DEF Acknowledge
<1>2. PICK o \in Operations :
        /\ SameOperation(o, op) /\ o.phase = op.phase /\ o.pending = op.pending
        /\ \/ Saved(o) /\ op' = o
           \/ NotSaved(o) /\ op' = op
  BY Zenon, AcknowledgeRecords
<1>3. /\ op' \in {op, o} /\ disk' \in {disk, o} /\ (faults' = 0 => faults = 0)
  BY <1>2, Numbers DEF Saved, NotSaved, Fault
<1>4. o.started >= 1 /\ o # NoOp
  BY <1>1, <1>2, OperationTypes DEF Sound, Identity, SameOperation
<1>5. /\ op'.id = op.id /\ op'.target = op.target /\ op'.started = op.started
      /\ op'.phase = op.phase /\ op'.pending = op.pending /\ MarkerOf(op') = MarkerOf(op)
      /\ MarkerOf(o) = MarkerOf(op)
  BY Zenon, <1>2, <1>3 DEF SameOperation, MarkerOf
<1>6. Process' /\ Identity'
  BY Zenon, <1>1, <1>2, <1>3, <1>4, <1>5 DEF Sound, Process, Identity, SameOperation
<1>7. Deployments' /\ Marker' /\ NeverOlderThanSchema'
  BY Zenon, <1>1, <1>5 DEF Sound, Deployments, Marker, LayoutUsable, NeverOlderThanSchema
<1>8. Successes'
  BY Zenon, <1>1, <1>2, <1>3, <1>5 DEF Sound, Successes, Success, SameOperation
<1>9. Markers'
  BY Zenon, <1>1, <1>2, <1>3, <1>5 DEF Sound, Markers, Uncleared, First, SameOperation
<1> QED
  BY Zenon, <1>6, <1>7, <1>8, <1>9 DEF Sound

\* loadState puts a deployment back where there is none.
LEMMA LoadSound ==
  ASSUME Types, Sound, loadState
  PROVE  Sound'
<1>1. /\ proc = "down" /\ pc = "idle" /\ op = NoOp /\ Readable /\ LayoutUsable
      /\ UNCHANGED <<disk, marker, staged, world, pc, verdict, request, faults>>
  BY ZenonT(30) DEF loadState, Sound, Process
<1>2. CASE disk = NoOp /\ proc' = "recover" /\ UNCHANGED <<op, current, previous>>
  <2>1. marker = NoMarker /\ current # None
    BY Zenon, <1>1, <1>2 DEF Readable, LayoutUsable
  <2> QED
    BY <1>1, <1>2, <2>1 DEF Sound, Process, Identity, SameOperation, Deployments, NeverOlderThanSchema,
       Marker, LayoutUsable, Successes, Success, Markers, Uncleared, First
<1>3. ASSUME disk # NoOp, proc' = "save", Kept(op', disk), Terminal(op'),
             op'.phase = "succeeded" => disk.phase = "succeeded" /\ (op'.pending => disk.pending \/ Marked),
             \/ current # None /\ UNCHANGED <<current, previous>>
             \/ current = None /\ RestorePrevious /\ op'.phase # "succeeded"
      PROVE  Sound'
  <2>1. /\ op'.started >= 1 /\ SameOperation(op', disk) /\ op' # NoOp /\ MarkerOf(op') = MarkerOf(disk)
    BY <1>3, OperationTypes DEF Sound, Identity, Kept, SameOperation, MarkerOf
  <2>2. current' # None
    BY Zenon, <1>1, <1>3 DEF LayoutUsable, RestorePrevious
  <2>3. NeverOlderThanSchema'
    BY ZenonT(30), <1>1, <1>3 DEF Sound, NeverOlderThanSchema, Deployments, RestorePrevious
  <2>4. Process'
    BY ZenonT(30), <1>1, <1>3, <2>1, <2>2 DEF Process
  <2>5. Identity'
    BY <1>1, <1>3, <2>1 DEF Sound, Identity, SameOperation
  <2>6. Deployments' /\ Marker'
    BY <1>1, <2>2 DEF Deployments, Marker, LayoutUsable, Before, PreparingPhases, Holding
  <2>7. disk.phase = "succeeded" => current # None /\ ~ Marked
    BY Zenon DEF Sound, Successes, Success, Marked
  <2>8. Successes'
    BY Zenon, <1>1, <1>3, <2>1, <2>7 DEF Sound, Successes, Success, SameOperation
  <2>9. Markers'
    BY <1>1, <1>3, <2>1 DEF Sound, Markers, Uncleared, First, SameOperation
  <2> QED
    BY Zenon, <2>3, <2>4, <2>5, <2>6, <2>8, <2>9 DEF Sound
<1> QED
  BY Zenon, <1>2, <1>3, LoadRecords

\* A start that fails in the middle leaves a start that can be tried again.
LEMMA LoadFailsSound ==
  ASSUME Types, Sound, LoadFails
  PROVE  Sound'
<1>1. /\ proc = "down" /\ pc = "idle" /\ op = NoOp /\ Readable /\ LayoutUsable /\ marker # NoMarker
      /\ UNCHANGED <<marker, staged, world, pc, verdict, request, op, proc>> /\ Fault
  BY Zenon DEF LoadFails, Marked, Sound, Process
<1>2. /\ faults' # 0 /\ disk # NoOp /\ disk.phase # "succeeded"
  BY <1>1, Numbers DEF Fault, Readable
<1>3. /\ SameOperation(disk', disk) /\ MarkerOf(disk') = MarkerOf(disk) /\ disk'.phase # "succeeded"
  BY <1>2, LoadFailsRecords DEF Kept, SameOperation, MarkerOf
<1>4. \/ UNCHANGED <<current, previous>>
      \/ current = None /\ current' = previous /\ previous' = None
  BY Zenon, LoadFailsRecords DEF RestorePrevious
<1>5. LayoutUsable' /\ NeverOlderThanSchema'
  BY ZenonT(30), <1>1, <1>4 DEF Sound, LayoutUsable, NeverOlderThanSchema, Deployments
<1>6. Process' /\ Identity'
  BY ZenonT(30), <1>1, <1>2, <1>3 DEF Sound, Process, Identity, SameOperation
<1>7. Deployments' /\ Marker'
  BY <1>1, <1>4, <1>5 DEF Sound, Deployments, Marker, Before, PreparingPhases, Holding
<1>8. Successes'
  BY Zenon, <1>1, <1>3, OperationTypes DEF Sound, Successes, Success
<1>9. Markers'
  BY <1>1, <1>2, <1>3 DEF Sound, Markers, Uncleared, First, SameOperation
<1> QED
  BY Zenon, <1>5, <1>6, <1>7, <1>8, <1>9 DEF Sound

\* The outcome is saved before the marker is removed.
LEMMA SaveLoadedSound ==
  ASSUME Types, Sound, SaveLoaded
  PROVE  Sound'
<1>1. /\ proc = "save" /\ pc = "idle" /\ current # None /\ UNCHANGED <<marker, layout, world>>
  BY DEF SaveLoaded, Sound, Process
<1>2. CASE Saved(op) /\ proc' = (IF Marked THEN "unmark" ELSE "recover")
           /\ UNCHANGED <<client, ha, closing, cancelled, op, pc, verdict>>
  <2>1. /\ disk' = op /\ UNCHANGED <<faults, op, pc, request>> /\ proc' \in {"unmark", "recover"}
        /\ proc' = "recover" => marker = NoMarker
    BY ZenonT(30), <1>2 DEF Saved, Marked
  <2>2. Process' /\ Identity'
    BY <1>1, <2>1 DEF Sound, Process, Identity, SameOperation
  <2>3. Deployments' /\ Marker' /\ NeverOlderThanSchema'
    BY Zenon, <1>1, <2>1 DEF Sound, Deployments, Marker, LayoutUsable, NeverOlderThanSchema
  <2>4. Successes'
    BY Zenon, <1>1, <2>1 DEF Sound, Successes, Success
  <2>5. Markers'
    BY <1>1, <2>1 DEF Sound, Markers, Uncleared, First
  <2> QED
    BY Zenon, <2>2, <2>3, <2>4, <2>5 DEF Sound
<1>3. CASE NotSaved(op) /\ Lost("down")
  <2>1. disk' \in {disk, op} /\ faults' # 0 /\ pc' = "idle"
    BY <1>3, Numbers, LostTypes DEF NotSaved, Fault
  <2>2. LayoutUsable' /\ NeverOlderThanSchema' /\ (current = None /\ previous # None => previous >= migrated)'
    BY Zenon, <1>1 DEF Sound, Marker, Deployments, LayoutUsable, NeverOlderThanSchema
  <2>3. (disk # NoOp => disk.started >= 1)' /\ Success(disk)'
    BY Zenon, <1>1, <2>1 DEF Sound, Identity, Successes, Success
  <2>4. (First(disk) /\ marker # NoMarker => marker = MarkerOf(disk))'
    BY <1>1, <2>1 DEF Sound, Markers, First
  <2> QED
    BY Zenon, <1>3, <2>2, <2>3, <2>4, LostSound
<1> QED
  BY Zenon, <1>2, <1>3 DEF SaveLoaded

\* The marker is removed once there is a deployment.
LEMMA UnmarkLoadedSound ==
  ASSUME Types, Sound, UnmarkLoaded
  PROVE  Sound'
<1>1. /\ proc = "unmark" /\ pc = "idle" /\ current # None /\ disk = op /\ UNCHANGED <<disk, layout, world>>
  BY DEF UnmarkLoaded, Sound, Process
<1>2. CASE Cleared /\ proc' = "recover" /\ UNCHANGED <<client, ha, closing, cancelled, op, pc, verdict>>
  <2>1. marker' = NoMarker /\ UNCHANGED <<faults, op, pc, request>> /\ proc' = "recover"
    BY ZenonT(30), <1>2 DEF Cleared
  <2>2. Process' /\ Identity'
    BY ZenonT(30), <1>1, <2>1 DEF Sound, Process, Identity, SameOperation
  <2>3. Deployments' /\ Marker' /\ NeverOlderThanSchema'
    BY <1>1, <2>1 DEF Sound, Deployments, Marker, LayoutUsable, NeverOlderThanSchema, Before,
       PreparingPhases, Holding
  <2>4. Successes' /\ Markers'
    BY Zenon, <1>1, <2>1 DEF Sound, Successes, Success, Markers, Uncleared
  <2> QED
    BY Zenon, <2>2, <2>3, <2>4 DEF Sound
<1>3. CASE NotCleared /\ Lost("down")
  <2>1. marker' \in {marker, NoMarker} /\ faults' # 0 /\ pc' = "idle"
    BY <1>3, Numbers, LostTypes DEF NotCleared, Fault
  <2>2. LayoutUsable' /\ NeverOlderThanSchema' /\ (current = None /\ previous # None => previous >= migrated)'
    BY Zenon, <1>1 DEF Sound, Marker, Deployments, LayoutUsable, NeverOlderThanSchema
  <2>3. (disk # NoOp => disk.started >= 1)' /\ Success(disk)'
    BY Zenon, <1>1, <2>1 DEF Sound, Identity, Successes, Success
  <2>4. (First(disk) /\ marker # NoMarker => marker = MarkerOf(disk))'
    BY <1>1, <2>1 DEF Sound, Markers, First
  <2> QED
    BY Zenon, <1>3, <2>2, <2>3, <2>4, LostSound
<1> QED
  BY Zenon, <1>2, <1>3 DEF UnmarkLoaded

\* The application is started from the deployment there is.
LEMMA RecoverSound ==
  ASSUME Types, Sound, RecoverApplication
  PROVE  Sound'
<1>1. /\ proc = "recover" /\ pc = "idle" /\ current # None /\ disk = op /\ marker = NoMarker
      /\ UNCHANGED <<marker, current, previous>>
  BY ZenonT(30) DEF RecoverApplication, Sound, Process
<1>2. CASE /\ UNCHANGED <<disk, op, world, faults, client, ha, closing, cancelled, pc, verdict, crashes>>
           /\ proc' = "serve"
  <2>1. Process' /\ Identity'
    BY ZenonT(30), <1>1, <1>2 DEF Sound, Process, Identity, SameOperation
  <2>2. Deployments' /\ Marker' /\ NeverOlderThanSchema'
    BY <1>1, <1>2 DEF Sound, Deployments, Marker, LayoutUsable, NeverOlderThanSchema, Before,
       PreparingPhases, Holding
  <2>3. Successes' /\ Markers'
    BY Zenon, <1>1, <1>2 DEF Sound, Successes, Success, Markers, Uncleared
  <2> QED
    BY Zenon, <2>1, <2>2, <2>3 DEF Sound
<1>3. ASSUME op.pending, StartSucceeds(current) \/ StartFails(current),
             NEW o \in Operations,
             SameOperation(o, op), o.phase \in {op.phase, "failed"},
             \/ Saved(o) /\ op' = o /\ proc' = "serve"
                /\ UNCHANGED <<client, ha, closing, cancelled, pc, verdict>>
             \/ (Saved(o) \/ NotSaved(o)) /\ Lost("down")
      PROVE  Sound'
  <2>1. op.phase # "succeeded" /\ o.phase # "succeeded"
    <3>1. op.phase # "succeeded"
      BY Zenon, <1>3 DEF Sound, Successes, Success
    <3> QED
      BY <1>3, <3>1
  <2>2. current >= migrated /\ (app # None => app >= migrated)
    BY Zenon, <1>1 DEF Sound, NeverOlderThanSchema
  <2>3. /\ migrated' \in {migrated, current}
        /\ app' = None \/ app' = current \/ (app' = app /\ migrated' = migrated)
    <3>1. CASE StartSucceeds(current)
      BY <3>1 DEF StartSucceeds
    <3>2. CASE StartFails(current)
      BY <3>2 DEF StartFails
    <3> QED
      BY Zenon, <1>3, <3>1, <3>2
  <2>4. NeverOlderThanSchema'
    BY <1>1, <2>2, <2>3, Numbers DEF NeverOlderThanSchema
  <2>5. LayoutUsable' /\ (current = None /\ previous # None => previous >= migrated)'
    BY Zenon, <1>1 DEF LayoutUsable
  <2>6. o # NoOp => o.started >= 1
    BY Zenon, <1>3, OperationTypes DEF Sound, Identity, SameOperation
  <2>7. CASE Saved(o) /\ op' = o /\ proc' = "serve"
             /\ UNCHANGED <<client, ha, closing, cancelled, pc, verdict>>
    <3>1. disk' = o /\ op' = o /\ UNCHANGED <<pc, request>> /\ proc' = "serve"
      BY ZenonT(30), <2>7 DEF Saved
    <3>2. Process' /\ Identity'
      BY ZenonT(30), <1>1, <2>6, <3>1 DEF Sound, Process, Identity, SameOperation
    <3>3. Deployments' /\ Marker'
      BY <1>1, <2>5, <3>1 DEF Deployments, Marker, Before, PreparingPhases, Holding
    <3>4. Successes' /\ Markers'
      BY Zenon, <1>1, <2>1, <3>1 DEF Sound, Successes, Success, Markers, Uncleared
    <3> QED
      BY Zenon, <2>4, <3>2, <3>3, <3>4 DEF Sound
  <2>8. CASE (Saved(o) \/ NotSaved(o)) /\ Lost("down")
    <3>1. disk' \in {disk, o}
      BY Zenon, <2>8 DEF Saved, NotSaved
    <3>2. (disk # NoOp => disk.started >= 1)'
      BY <2>6, <3>1 DEF Sound, Identity
    <3>3. Success(disk)'
      BY Zenon, <1>1, <2>1, <3>1 DEF Success
    <3>4. (First(disk) /\ marker # NoMarker => marker = MarkerOf(disk))'
      BY Zenon, <1>1
    <3> QED
      BY Zenon, <2>4, <2>5, <2>8, <3>2, <3>3, <3>4, LostSound
  <2> QED
    BY Zenon, <1>3, <2>7, <2>8
<1> QED
  BY Zenon, <1>2, <1>3, RecoverRecords

-----------------------------------------------------------------------------
(* The theorems.                                                           *)

UInv == Types /\ Sound

\* Everything holds of a fresh installation.
LEMMA InitSound == ASSUME Init PROVE UInv
<1>1. NoOp \in Operations /\ NoOp.pending = FALSE /\ NoOp.phase = "queued"
  BY Zenon, OperationTypes
<1>2. NoVerdict \in Verdicts
  BY Zenon, NoCommandType DEF NoVerdict, Verdicts
<1>3. Types
  <2>1. Records /\ Clients /\ VerdictType
    BY <1>1, <1>2 DEF Init, Records, Clients, VerdictType
  <2>2. Flags /\ MarkerType /\ Places
    <3>1. 0 \in Ids \cup {0} /\ None \in 0..MaxVersion
      BY BoundsAssumption DEF None
    <3> QED
      BY Zenon, <3>1 DEF Init, Flags, MarkerType, NoMarker, Places, RunPoints
  <2>3. Layouts /\ World /\ Counts
    BY BoundsAssumption DEF Init, Layouts, World, Counts, None
  <2> QED
    BY Zenon, <2>1, <2>2, <2>3 DEF Types
<1>4. Process /\ Identity
  BY DEF Init, Process, Identity
<1>5. Deployments /\ NeverOlderThanSchema /\ Marker
  BY DEF Init, Deployments, NeverOlderThanSchema, Marker, LayoutUsable, Before, PreparingPhases, Holding, None
<1>6. Successes /\ Markers
  BY <1>1 DEF Init, Successes, Success, Markers, Uncleared
<1> QED
  BY Zenon, <1>3, <1>4, <1>5, <1>6 DEF UInv, Sound

\* Every step of the updater, and every loss of its process, keeps it.
LEMMA NextSound == ASSUME UInv, [Next]_vars PROVE UInv'
<1> USE DEF UInv
<1>1. CASE Run
  <2>1. Types'
    BY Zenon, <1>1, RunTypes
  <2>2. Process' /\ Identity' /\ Deployments' /\ NeverOlderThanSchema' /\ Marker'
    BY Zenon, <1>1, RunIdentity, RunDeployments, RunMarker DEF Sound
  <2>3. Successes' /\ Markers'
    BY Zenon, <1>1, RunSuccesses, RunMarkers DEF Sound
  <2> QED
    BY Zenon, <2>1, <2>2, <2>3 DEF Sound
<1>2. CASE ~ Run /\ Next
  <2>1. Types'
    BY Zenon, <1>2, OtherTypes
  <2>2. CASE Crash \/ Exit \/ Boot \/ Shutdown \/ Status
    BY Zenon, <2>1, <2>2, QuietSound
  <2>3. CASE Startup
    BY Zenon, <2>1, <2>3, LoadSound, LoadFailsSound, SaveLoadedSound, UnmarkLoadedSound, RecoverSound DEF Startup
  <2>4. CASE Acknowledge
    BY Zenon, <2>1, <2>4, AcknowledgeSound
  <2>5. ASSUME NEW c \in Callers, TriggerAdmit(c) PROVE UInv'
    BY Zenon, <2>1, <2>5, AdmitSound
  <2>6. ASSUME NEW c \in Callers, NEW id \in Ids, NEW v \in Versions, NEW complete \in BOOLEAN,
               TriggerCheck(c, id, v, complete)
        PROVE  UInv'
    BY Zenon, <2>1, <2>6, CheckSound
  <2> QED
    BY Zenon, <1>2, <2>2, <2>3, <2>4, <2>5, <2>6 DEF Next
<1>3. CASE UNCHANGED vars
  <2>1. Types'
    BY <1>3 DEF vars, Types, Flags, Records, Clients, MarkerType, Layouts, World, Places, VerdictType, Counts
  <2> QED
    BY Zenon, <1>3, <2>1, SameSound DEF vars
<1> QED
  BY Zenon, <1>1, <1>2, <1>3

\* The invariant of the updater, for any number of operations, callers, failing
\* writes and crashes.
THEOREM UpdaterInvariant == Spec => []UInv
<1>1. Init => UInv
  BY InitSound
<1>2. UInv /\ [Next]_vars => UInv'
  BY NextSound
<1> QED
  BY <1>1, <1>2, PTL DEF Spec

\* Every variable of the updater stays in its type.
THEOREM UpdaterTypes == Spec => []TypeOK
<1>1. UInv => TypeOK
  BY DEF UInv, Types, TypeOK, Flags, Records, Clients, MarkerType, Layouts, World, Places, VerdictType,
     Verdicts, Counts
<1> QED
  BY <1>1, UpdaterInvariant, PTL

\* Whatever fails and whenever the process is lost, no deployment is put back
\* and no application started that is older than a version whose migrations may
\* have run.
THEOREM SchemaIsNeverAhead == Spec => []NeverOlderThanSchema
<1>1. UInv => NeverOlderThanSchema
  BY Zenon DEF UInv, Sound
<1> QED
  BY <1>1, UpdaterInvariant, PTL

\* A success on disk is of the version that is installed and runs.
THEOREM RecordedSuccessIsReal == Spec => []SuccessIsReal
<1>1. UInv => SuccessIsReal
  BY Zenon DEF UInv, Sound, Successes, Success, SuccessIsReal
<1> QED
  BY <1>1, UpdaterInvariant, PTL

\* At every moment loadState would find a deployment and, as the first failing
\* write has not met a second operation, a marker it accepts.
THEOREM RestartIsPossible == Spec => []AlwaysStartable
<1>1. UInv => AlwaysStartable
  <2>1. UInv /\ marker # NoMarker /\ First(disk) => disk # NoOp /\ marker = MarkerOf(disk) /\ disk.phase # "succeeded"
    BY Zenon, OperationTypes DEF UInv, Sound, Markers, Successes, Success
  <2> QED
    BY Zenon, <2>1 DEF UInv, Sound, Marker, AlwaysStartable, Readable, First
<1> QED
  BY <1>1, UpdaterInvariant, PTL

=============================================================================
