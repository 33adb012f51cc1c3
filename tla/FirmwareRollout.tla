--------------------------- MODULE FirmwareRollout ---------------------------
(***************************************************************************)
(* The rows of one release channel and one (manufacturer, model) pair: the *)
(* assignment with its generation, the rollouts with their targets, the    *)
(* reservations of the offline budget and the provenance of what each      *)
(* miner runs; what operators do to them; and the miners with the firmware *)
(* commands queued for them.  RolloutEnforcement adds the loop that drives *)
(* the rollouts.  Every transaction here takes the row lock of the channel *)
(* or of the rollout (most take both), so it is one step, but for those    *)
(* that record provenance: they list the evidence and write it in two      *)
(* statements, between which the locks are held but commands complete.     *)
(***************************************************************************)
EXTENDS Naturals, Sequences, FiniteSets

CONSTANTS
  Devices,      \* the miners
  Artifacts,    \* the firmware files, by checksum
  Factory,      \* what a miner runs at first, unknown to the fleet
  Alike,        \* artifacts that report one version; the others report one each
  Method,       \* of the channel: "all_at_once", "batched" or "pilot_then_continue"
  Size,         \* BatchSize or PilotSize
  Review,       \* ReviewAfterEachBatch
  Auto,         \* AutoContinue
  Wait,         \* whether WaitBetweenBatchesSeconds > 0
  Limit,        \* MaxConcurrentOffline, 0 for no limit
  Limits,       \* what it may be changed to
  MaxAttempts,  \* MaxAttempts
  MaxRollouts,  \* bound: rollouts created
  MaxChanges,   \* bound: changes of the assignment
  MaxMoves,     \* bound: pauses, cancellations, skips and retries, commands failing, miners falling, leaving, joining or renamed, manual updates, edits of the channel
  Operations,   \* the operator's calls that happen
  Happens,      \* what happens to the miners besides: "fail", "offline", "sick", "leave", "join", "rename", "manual", "missing" (the artifact is not uploaded)
  None

ASSUME RolloutAssumption ==
  /\ Factory \notin Artifacts /\ None \notin Artifacts \cup {Factory} /\ Alike \subseteq Artifacts
  /\ Method \in {"all_at_once", "batched", "pilot_then_continue"} /\ Size \in Nat \ {0}
  /\ Review \in BOOLEAN /\ Auto \in BOOLEAN /\ Wait \in BOOLEAN /\ Limits \cup {Limit} \subseteq Nat
  /\ MaxAttempts \in Nat \ {0} /\ MaxRollouts \in Nat \ {0} /\ MaxChanges \in Nat /\ MaxMoves \in Nat

VARIABLES
  dev,       \* per miner: installed, reported, status, queue (of firmware commands: art, from, ran)
  scope,     \* members: of the channel; fit: reporting the pair's manufacturer and model; limit; moves so far
  dep,       \* device_firmware_deployment per miner: sum, last (the latest completed command: art, ok)
  assigned,  \* release_channel_firmware: gen, sum, prev
  rollouts,  \* firmware_rollout with firmware_rollout_device, in the order of their ids
  resv,      \* firmware_rollout_reservation per miner: live (its command is pending), seen (observed_offline)
  tick,      \* per enforcement loop, and for the operator's retry: where it is, the row and the evidence it listed
  history    \* no part of the program: risk (sent to, not yet back), stopped (halted, not retried)

rowVars == <<dep, assigned, rollouts, resv, history>>
vars == <<dev, scope, dep, assigned, rollouts, resv, tick, history>>

Version(a) == IF a \in Alike THEN "same" ELSE a
Away == {"offline"}
Online(d) == dev[d].status \notin Away

Idle ==
  [pc |-> "idle", rollout |-> 0, stage |-> "rest", batch |-> 0, moved |-> FALSE, resumed |-> FALSE, evidence |-> None]
Caller == "operator"

\* Row locks, held by a transaction between its listing and its write; RetryFailedDevices also locks the scopes,
\* as every operator's call and the admission of a direct firmware command do.
ChannelLocked == \E e \in DOMAIN tick : tick[e].evidence # None
RolloutLocked(r) == \E e \in DOMAIN tick : tick[e].evidence # None /\ tick[e].rollout = r
ScopesLocked == tick[Caller].evidence # None
----------------------------------------------------------------------------
(* Targets.                                                                *)

Target(b) ==
  [batch |-> b, attempts |-> 0, recent |-> FALSE, sent |-> "never", newer |-> FALSE,
   verified |-> FALSE, halt |-> None, excluded |-> FALSE]

settled(t) == t.verified \/ t.halt # None
Enrolled(row) == DOMAIN row.targets
IsActive(row) == row.status = "active"
ActiveIds == {r \in DOMAIN rollouts : IsActive(rollouts[r])}

\* Changing the targets in D, each by its own f[d].
WithTargets(row, f) == [row EXCEPT !.targets = [d \in DOMAIN @ |-> IF d \in DOMAIN f THEN f[d] ELSE @[d]]]
Halted(row, D, why) ==
  WithTargets(row, [d \in {x \in D : row.targets[x].halt = None} |-> [row.targets[d] EXCEPT !.halt = why]])

\* Faulty variant: targets without a batch belong to every batch.
reviewScopeWithJoiners(row, stage, batch) ==
  {d \in Enrolled(row) : ~row.targets[d].excluded /\ (stage = "rest" \/ row.targets[d].batch \in {0, batch})}
\* reviewScope: the current batch, or everything in the rest stage; never an excluded target.
reviewScope(row, stage, batch) ==
  {d \in Enrolled(row) : ~row.targets[d].excluded /\ (stage = "rest" \/ row.targets[d].batch = batch)}
allSettled(row, D) == \A d \in D : settled(row.targets[d])

reportsTarget(row, d) == dev[d].reported = Version(row.sum)
foreignCommand(row, d) == \E i \in DOMAIN dev[d].queue : dev[d].queue[i].art # row.sum
inScope(d) == d \in scope.members \cap scope.fit

\* meetsConvergence: online and hashing where the baseline asks for it is the status "healthy".
meetsConvergence(row, d, deployments) ==
  /\ reportsTarget(row, d) /\ deployments[d].sum = row.sum /\ ~foreignCommand(row, d)
  /\ dev[d].status = "healthy"

\* Faulty variant: only failures suppress a miner, not cancellations and skips.
SuppressedByFailure(g) ==
  {d \in Devices : \E r \in DOMAIN rollouts :
     /\ rollouts[r].gen = g /\ d \in Enrolled(rollouts[r]) /\ rollouts[r].targets[d].halt = "failed"
     /\ \A q \in DOMAIN rollouts : q > r /\ rollouts[q].gen = g => d \notin Enrolled(rollouts[q])}
\* firmware_rollout_suppressed_device: the most recent rollout of the generation that holds the miner halted it.
Suppressed(g) ==
  {d \in Devices : \E r \in DOMAIN rollouts :
     /\ rollouts[r].gen = g /\ d \in Enrolled(rollouts[r]) /\ rollouts[r].targets[d].halt # None
     /\ \A q \in DOMAIN rollouts : q > r /\ rollouts[q].gen = g => d \notin Enrolled(rollouts[q])}

\* ListReleaseChannelMismatchedMembers, without the rollout's own targets.
Mismatched(sum, g, own) ==
  {d \in (scope.members \cap scope.fit) \ (own \cup Suppressed(g)) :
     ~(/\ dev[d].reported = Version(sum) /\ dep[d].sum = sum
       /\ \A i \in DOMAIN dev[d].queue : dev[d].queue[i].art = sum)}
----------------------------------------------------------------------------
(* Provenance.                                                             *)

\* last_dispatch_succeeded: the target's last command and the miner's latest completed one, both for this artifact.
LastDispatchSucceeded(row, d) ==
  row.targets[d].sent = "ok" /\ dep[d].last = [art |-> row.sum, ok |-> TRUE]

\* recordDeploymentProvenance: the targets whose provenance it writes.
Deployed(row, terminal) ==
  {d \in Enrolled(row) :
     LET t == row.targets[d] IN
     /\ terminal \/ (~t.excluded /\ t.halt = None)
     /\ t.sent # "never" /\ reportsTarget(row, d) /\ ~foreignCommand(row, d)
     /\ \/ LastDispatchSucceeded(row, d)
        \/ ~terminal /\ inScope(d) /\ dep[d].sum # None /\ Version(dep[d].sum) # Version(row.sum)
     /\ dep[d].sum = None \/ ~t.newer
     /\ dep[d].sum # row.sum}

\* What a transaction listed: the members, the joiners it will append, whose provenance it will write, and whose
\* deployment row is still as listed (deployed_at and checksum, or its absence).
Listed(members, joiners, D) == [members |-> members, joiners |-> joiners, deployed |-> D, asListed |-> D]
\* A command of d completes: deployed_at moves, or the row appears, whoever has listed it.
Overtaken(d) ==
  [e \in DOMAIN tick |->
     IF tick[e].evidence = None THEN tick[e] ELSE [tick[e] EXCEPT !.evidence.asListed = @ \ {d}]]

\* Faulty variant: the write does not compare.
MatchingAll(seen) == seen.deployed
\* The rows that RecordFirmwareDeployment finds as they were listed; losing the race is a no-op.
Matching(seen) == seen.deployed \cap seen.asListed
\* RecordFirmwareDeployment; deployed_at of D moves past every dispatch so far.
Recorded(D, sum) == [d \in Devices |-> IF d \in D THEN [dep[d] EXCEPT !.sum = sum] ELSE dep[d]]
Stamped(rows, D) ==
  [r \in DOMAIN rows |->
     WithTargets(rows[r], [d \in {x \in D \cap Enrolled(rows[r]) : rows[r].targets[x].sent # "never"} |->
                             [rows[r].targets[d] EXCEPT !.newer = TRUE]])]
----------------------------------------------------------------------------
(* Stages and new rollouts.                                                *)

gatesAfterBatch(row) == row.method = "pilot_then_continue" \/ (row.method = "batched" /\ Review)

\* Every other loop that listed a rollout before now holds an old stage_changed_at.
StageMoved(t, e) == [o \in DOMAIN t |-> IF o # e /\ t[o].rollout # 0 THEN [t[o] EXCEPT !.moved = TRUE] ELSE t[o]]

advance(row) ==
  IF row.batch < row.count THEN [row EXCEPT !.stage = "batch", !.batch = @ + 1] ELSE [row EXCEPT !.stage = "rest"]

\* orderMembers: by efficiency or shuffled, so any order.
Orders(D) == {s \in [1..Cardinality(D) -> D] : \A i, j \in DOMAIN s : s[i] = s[j] => i = j}
BatchAt(method, i) ==
  CASE method = "batched" -> (i - 1) \div Size + 1
    [] method = "pilot_then_continue" -> IF i <= Size THEN 1 ELSE 0
    [] OTHER -> 0

\* startRollout: the rollout for the miners of the sequence.
RolloutFor(order, method, gen, sum, prev, by) ==
  LET batches == {BatchAt(method, i) : i \in DOMAIN order} \ {0} IN
  [gen |-> gen, sum |-> sum, prev |-> prev, method |-> method, by |-> by, status |-> "active",
   stage |-> IF batches = {} THEN "rest" ELSE "batch", batch |-> 1, count |-> Cardinality(batches),
   paused |-> FALSE, reviews |-> 0,
   targets |-> [d \in {order[i] : i \in DOMAIN order} |->
                  Target(BatchAt(method, CHOOSE i \in DOMAIN order : order[i] = d))]]
startRollout(rows, D, method, gen, sum, prev, by) ==
  IF D = {} THEN rollouts' = rows
  ELSE Len(rows) < MaxRollouts
       /\ \E order \in Orders(D) : rollouts' = Append(rows, RolloutFor(order, method, gen, sum, prev, by))
----------------------------------------------------------------------------
(* What operators do.                                                      *)

Init ==
  /\ dev = [d \in Devices |-> [installed |-> Factory, reported |-> Version(Factory), status |-> "healthy", queue |-> <<>>]]
  /\ scope = [members |-> Devices, fit |-> Devices, limit |-> Limit, moves |-> 0]
  /\ dep = [d \in Devices |-> [sum |-> None, last |-> None]]
  /\ assigned = [gen |-> 0, sum |-> None, prev |-> None]
  /\ rollouts = <<>>
  /\ resv = [d \in Devices |-> {}]
  /\ history = [risk |-> {}, stopped |-> {}]

\* applyResolved: a new generation, the active rollout canceled without halting its targets, and a rollout started.
applyResolved(sum, prev, method) ==
  /\ ~ChannelLocked /\ sum # assigned.sum /\ assigned.gen < MaxChanges
  /\ assigned' = [gen |-> assigned.gen + 1, sum |-> sum, prev |-> prev]
  /\ LET canceled == [r \in DOMAIN rollouts |->
                        IF IsActive(rollouts[r])
                        THEN [rollouts[r] EXCEPT !.status = "canceled", !.paused = FALSE] ELSE rollouts[r]]
         needed == IF sum = None THEN {} ELSE Mismatched(sum, assigned.gen + 1, {})
     IN startRollout(canceled, needed, method, assigned.gen + 1, sum, prev, "operator")
  /\ history' = [history EXCEPT !.stopped = {}]
  /\ UNCHANGED <<dev, scope, dep, resv, tick>>

ApplyFirmware(a) == "apply" \in Operations /\ applyResolved(a, assigned.sum, Method)
ClearFirmware == "clear" \in Operations /\ applyResolved(None, None, "all_at_once")
RollbackFirmware(r) ==
  /\ "rollback" \in Operations /\ rollouts[r].gen = assigned.gen
  /\ IF rollouts[r].prev = None THEN applyResolved(None, None, "all_at_once")
     ELSE applyResolved(rollouts[r].prev, assigned.sum, "all_at_once")

Counted == scope.moves < MaxMoves /\ scope' = [scope EXCEPT !.moves = @ + 1]

\* UpdateChannel, of what running rollouts read live: MaxConcurrentOffline.
UpdateChannel(limit) ==
  /\ ~ChannelLocked /\ limit # scope.limit /\ scope.moves < MaxMoves
  /\ scope' = [scope EXCEPT !.limit = limit, !.moves = @ + 1]
  /\ UNCHANGED <<dev, tick>> /\ UNCHANGED rowVars

\* mutateActive: one locked change of an active rollout.
mutateActive(r, op) ==
  /\ op \in Operations /\ ~RolloutLocked(r) /\ ~ScopesLocked /\ IsActive(rollouts[r])
  /\ UNCHANGED <<dev, dep, assigned, resv>>

ContinueRollout(r) ==
  /\ mutateActive(r, "continue") /\ UNCHANGED scope /\ rollouts[r].stage = "awaiting_review" /\ ~rollouts[r].paused
  /\ rollouts' = [rollouts EXCEPT ![r] = [advance(@) EXCEPT !.reviews = rollouts[r].reviews + 1]]
  /\ tick' = StageMoved(tick, None) /\ UNCHANGED history

PauseRollout(r) ==
  /\ mutateActive(r, "pause") /\ Counted /\ ~rollouts[r].paused
  /\ rollouts' = [rollouts EXCEPT ![r].paused = TRUE] /\ UNCHANGED <<tick, history>>

\* The time paused so far is added to stage_paused_microseconds.
ResumeRollout(r) ==
  /\ mutateActive(r, "pause") /\ UNCHANGED scope /\ rollouts[r].paused
  /\ rollouts' = [rollouts EXCEPT ![r].paused = FALSE]
  /\ tick' = [e \in DOMAIN tick |-> IF tick[e].rollout = r THEN [tick[e] EXCEPT !.resumed = TRUE] ELSE tick[e]]
  /\ UNCHANGED history

\* CancelRollout: targets outside the channel are halted too.
CancelRollout(r) ==
  /\ mutateActive(r, "cancel") /\ Counted
  /\ LET remaining == {d \in Enrolled(rollouts[r]) : ~settled(rollouts[r].targets[d])} IN
     /\ rollouts' = [rollouts EXCEPT ![r] = [Halted(@, remaining, "canceled") EXCEPT !.status = "canceled", !.paused = FALSE]]
     /\ history' = [history EXCEPT !.stopped = @ \cup remaining]
  /\ UNCHANGED tick

\* SkipRolloutDevices: a queued member, never sent to.
SkipRolloutDevices(r, d) ==
  /\ mutateActive(r, "skip") /\ Counted /\ d \in Enrolled(rollouts[r]) \cap scope.members
  /\ LET t == rollouts[r].targets[d] IN ~settled(t) /\ ~t.excluded /\ t.attempts = 0
  /\ rollouts' = [rollouts EXCEPT ![r] = Halted(@, {d}, "skipped")]
  /\ history' = [history EXCEPT !.stopped = @ \cup {d}]
  /\ UNCHANGED tick

\* RetryFailedDevices on the active rollout: its own halted targets are reset, the earlier rollouts' are added.
RetryActive(r) ==
  /\ mutateActive(r, "retry") /\ ~ChannelLocked /\ Counted
  /\ LET own == rollouts[r].targets
         D == Suppressed(rollouts[r].gen) \cap scope.members \cap scope.fit
         reset == {d \in D \cap DOMAIN own : own[d].halt # None /\ ~own[d].excluded}
         added == D \ DOMAIN own
     IN /\ reset \cup added # {}
        /\ rollouts' = [rollouts EXCEPT ![r].targets =
                          [d \in DOMAIN own \cup added |->
                             IF d \in reset THEN Target(own[d].batch) ELSE IF d \in added THEN Target(0) ELSE own[d]]]
        /\ history' = [history EXCEPT !.stopped = @ \ (reset \cup added)]
  /\ UNCHANGED tick

\* RetryFailedDevices on a finished rollout of the current assignment: the provenance of its completed commands,
\* where there is any to record, then one all-at-once rollout of all suppressed.
Retriable(row) == Suppressed(row.gen) \cap scope.members \cap scope.fit
retryRollout(rows, row) ==
  /\ startRollout(rows, Retriable(row), "all_at_once", row.gen, row.sum, row.prev, "operator")
  /\ history' = [history EXCEPT !.stopped = @ \ Retriable(row)]
RetryFinished(r) ==
  /\ "retry" \in Operations /\ ~ChannelLocked /\ ~IsActive(rollouts[r]) /\ ActiveIds = {}
  /\ rollouts[r].gen = assigned.gen /\ rollouts[r].sum = assigned.sum
  /\ LET deployed == Deployed(rollouts[r], TRUE) IN
     \/ /\ deployed = {} /\ Retriable(rollouts[r]) # {}
        /\ retryRollout(rollouts, rollouts[r]) /\ UNCHANGED tick
     \/ /\ deployed # {} /\ Len(rollouts) < MaxRollouts
        /\ tick' = [tick EXCEPT ![Caller].rollout = r, ![Caller].evidence = Listed({}, {}, deployed)]
        /\ UNCHANGED <<rollouts, history>>
  /\ Counted /\ UNCHANGED <<dev, dep, assigned, resv>>
RetryRecords ==
  /\ tick[Caller].evidence # None
  /\ LET row == rollouts[tick[Caller].rollout]
         matching == Matching(tick[Caller].evidence)
     IN dep' = Recorded(matching, row.sum) /\ retryRollout(Stamped(rollouts, matching), row)
  /\ tick' = [tick EXCEPT ![Caller] = Idle] /\ UNCHANGED <<dev, scope, assigned, resv>>
----------------------------------------------------------------------------
(* What happens to the miners and their commands.                          *)

worldOnly == UNCHANGED <<assigned, tick>>

\* The miner's plugin installs the firmware of the command it works on.
Install(d) ==
  /\ dev[d].queue # <<>> /\ ~Head(dev[d].queue).ran
  /\ dev' = [dev EXCEPT ![d].installed = Head(dev[d].queue).art, ![d].queue[1].ran = TRUE]
  /\ UNCHANGED <<scope, dep, rollouts, resv, history>> /\ worldOnly

\* The command's terminal result: it wipes the provenance of the miner, keeping which command it was.
Finish(d, ok) ==
  /\ dev[d].queue # <<>>
  /\ IF ok THEN Head(dev[d].queue).ran /\ UNCHANGED scope ELSE "fail" \in Happens /\ Counted
  /\ LET c == Head(dev[d].queue)
         answered == [r \in DOMAIN rollouts |->
           IF r = c.from /\ d \in Enrolled(rollouts[r]) /\ rollouts[r].targets[d].sent = "pending"
           THEN [rollouts[r] EXCEPT !.targets[d].sent = IF ok THEN "ok" ELSE "failed"] ELSE rollouts[r]]
     IN /\ rollouts' = Stamped(answered, {d})
        /\ dep' = [dep EXCEPT ![d] = [sum |-> None, last |-> [art |-> IF c.from = 0 THEN None ELSE c.art, ok |-> ok]]]
        /\ resv' = IF c.from = 0 THEN resv ELSE [resv EXCEPT ![d] = {[v EXCEPT !.live = FALSE] : v \in @}]
  /\ dev' = [dev EXCEPT ![d].queue = Tail(@)]
  /\ history' = [history EXCEPT !.risk = IF Online(d) THEN @ \ {d} ELSE @]
  /\ tick' = Overtaken(d) /\ UNCHANGED assigned

Report(d) ==
  /\ Online(d) /\ dev[d].reported # Version(dev[d].installed)
  /\ dev' = [dev EXCEPT ![d].reported = Version(dev[d].installed)]
  /\ UNCHANGED <<scope, dep, rollouts, resv, history>> /\ worldOnly

Falls(d, st) ==
  /\ st \in Happens /\ dev[d].status \notin {st, "offline"}
  /\ dev' = [dev EXCEPT ![d].status = st]
  /\ Counted
  /\ UNCHANGED <<dep, rollouts, resv, history>> /\ worldOnly
Recovers(d) ==
  /\ dev[d].status # "healthy"
  /\ dev' = [dev EXCEPT ![d].status = "healthy"]
  /\ history' = [history EXCEPT !.risk = IF Online(d) THEN @ ELSE @ \ {d}]
  /\ UNCHANGED <<scope, dep, rollouts, resv>> /\ worldOnly

\* resendInterval passes for the target.
ResendDue(r, d) ==
  /\ d \in Enrolled(rollouts[r]) /\ IsActive(rollouts[r]) /\ rollouts[r].targets[d].recent
  /\ rollouts' = [rollouts EXCEPT ![r].targets[d].recent = FALSE]
  /\ UNCHANGED <<dev, scope, dep, resv, history>> /\ worldOnly

Moves(change) ==
  /\ scope.moves < MaxMoves /\ scope' = [change EXCEPT !.moves = @ + 1]
  /\ UNCHANGED <<dev, dep, rollouts, resv, history>> /\ worldOnly
Leave(d) == "leave" \in Happens /\ d \in scope.members /\ Moves([scope EXCEPT !.members = @ \ {d}])
Join(d) == "join" \in Happens /\ d \notin scope.members /\ Moves([scope EXCEPT !.members = @ \cup {d}])
Rename(d) ==
  /\ "rename" \in Happens
  /\ Moves([scope EXCEPT !.fit = IF d \in @ THEN @ \ {d} ELSE @ \cup {d}])

\* ListManagedFirmwareUpdateDevices: whom a direct firmware command must leave to the channel.
Managed(d) ==
  /\ d \in scope.members /\ assigned.sum # None
  /\ \/ d \in scope.fit
     \/ \E r \in ActiveIds : /\ d \in Enrolled(rollouts[r]) /\ ~rollouts[r].targets[d].excluded
                             /\ rollouts[r].gen = assigned.gen /\ rollouts[r].sum = assigned.sum
FirmwareUpdate(d, a) ==
  /\ "manual" \in Happens /\ ~ScopesLocked /\ Counted /\ ~Managed(d)
  /\ dev' = [dev EXCEPT ![d].queue = Append(@, [art |-> a, from |-> 0, ran |-> FALSE])]
  /\ UNCHANGED <<dep, rollouts, resv, history>> /\ worldOnly

Operator ==
  \/ \E a \in Artifacts : ApplyFirmware(a)
  \/ ClearFirmware \/ RetryRecords
  \/ \E limit \in Limits : UpdateChannel(limit)
  \/ \E r \in DOMAIN rollouts :
       \/ RollbackFirmware(r) \/ ContinueRollout(r) \/ PauseRollout(r) \/ ResumeRollout(r) \/ CancelRollout(r)
       \/ RetryActive(r) \/ RetryFinished(r) \/ \E d \in Devices : SkipRolloutDevices(r, d)

World ==
  \E d \in Devices :
    \/ Install(d) \/ Report(d) \/ Recovers(d) \/ Leave(d) \/ Join(d) \/ Rename(d)
    \/ \E ok \in BOOLEAN : Finish(d, ok)
    \/ \E st \in {"offline", "sick"} : Falls(d, st)
    \/ \E a \in Artifacts : FirmwareUpdate(d, a)
    \/ \E r \in DOMAIN rollouts : ResendDue(r, d)
=============================================================================
