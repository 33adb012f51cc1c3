-------------------------- MODULE RolloutEnforcement --------------------------
(***************************************************************************)
(* EnforceTick: the loop that starts the rollouts the assignment needs and *)
(* drives the active one.  A tick is a sequence of transactions; between   *)
(* two of them operators, miners and the loops of other processes act, so  *)
(* what the tick listed may be out of date.  A transaction is one step, or *)
(* two where it records provenance: its evidence is out of date if a       *)
(* command completes before the write.                                     *)
(***************************************************************************)
EXTENDS FirmwareRollout

CONSTANT Enforcers  \* the processes that run the loop

ASSUME EnforcementAssumption == Caller \notin Enforcers

EnforcementInit == Init /\ tick = [e \in Enforcers \cup {Caller} |-> Idle]

At(e, pc) == tick[e].pc = pc
Listing(e) == tick[e].evidence = None
Goes(t, e, pc) == tick' = [t EXCEPT ![e].pc = pc]
Ends(t, e) == tick' = [t EXCEPT ![e] = Idle]
----------------------------------------------------------------------------
(* The offline budget.                                                     *)

\* ObserveFirmwareRolloutReservationsOffline.
Observed == [d \in Devices |-> IF Online(d) THEN resv[d] ELSE {[v EXCEPT !.seen = TRUE] : v \in resv[d]}]

Observe(e) ==
  /\ At(e, "idle") /\ resv' = Observed /\ Goes(tick, e, "release")
  /\ UNCHANGED <<dev, scope, dep, assigned, rollouts, history>>

\* DeleteReleasedFirmwareRolloutReservations.
DeleteReleased(e) ==
  /\ At(e, "release")
  /\ resv' = [d \in Devices |-> {v \in resv[d] : ~(Online(d) /\ (~v.live \/ v.seen))}]
  /\ Goes(tick, e, "reconcile") /\ UNCHANGED <<dev, scope, dep, assigned, rollouts, history>>

\* Faulty variant: a miner that left the channel holds no slot.
OfflineSlotsOfMembers(reservations) ==
  {d \in scope.members : ~Online(d) /\ \E r \in DOMAIN rollouts : d \in Enrolled(rollouts[r])}
  \cup {d \in scope.members : \E v \in reservations[d] : ~Online(d) \/ (~v.seen /\ v.live)}
\* ListFirmwareRolloutOfflineSlots.
OfflineSlots(reservations) ==
  {d \in scope.members : ~Online(d) /\ \E r \in DOMAIN rollouts : d \in Enrolled(rollouts[r])}
  \cup {d \in Devices : \E v \in reservations[d] : ~Online(d) \/ (~v.seen /\ v.live)}
room(reservations, wanted) ==
  IF scope.limit = 0 THEN wanted
  ELSE LET held == Cardinality(OfflineSlots(reservations)) IN
       IF held >= scope.limit THEN 0 ELSE IF wanted < scope.limit - held THEN wanted ELSE scope.limit - held
----------------------------------------------------------------------------
(* Up to the listing.                                                      *)

\* reconcileCompletedDispatches, for one finished rollout; a failure is logged and the next one taken.
ReconcileDispatches(e, r) ==
  /\ At(e, "reconcile") /\ ~ChannelLocked /\ ~IsActive(rollouts[r])
  /\ LET deployed == Deployed(rollouts[r], TRUE) IN
     /\ deployed # {}
     /\ tick' = [tick EXCEPT ![e].rollout = r, ![e].evidence = Listed({}, {}, deployed)]
  /\ UNCHANGED <<dev, scope>> /\ UNCHANGED rowVars
recordTerminalProvenance(e) ==
  /\ At(e, "reconcile") /\ ~Listing(e)
  /\ LET matching == Matching(tick[e].evidence) IN
     /\ dep' = Recorded(matching, rollouts[tick[e].rollout].sum)
     /\ rollouts' = Stamped(rollouts, matching)
  /\ tick' = [tick EXCEPT ![e] = [Idle EXCEPT !.pc = "reconcile"]]
  /\ UNCHANGED <<dev, scope, assigned, resv, history>>
Reconciled(e) ==
  At(e, "reconcile") /\ Listing(e) /\ Goes(tick, e, "start") /\ UNCHANGED <<dev, scope>> /\ UNCHANGED rowVars

\* startNeededRollouts: the transaction repeats the checks of the scan.
StartNeeded(e) ==
  /\ At(e, "start") /\ ~ChannelLocked
  /\ LET needed == IF assigned.sum = None \/ ActiveIds # {} THEN {} ELSE Mismatched(assigned.sum, assigned.gen, {}) IN
     startRollout(rollouts, needed, Method, assigned.gen, assigned.sum, assigned.prev, "system")
  /\ Goes(tick, e, "list") /\ UNCHANGED <<dev, scope, dep, assigned, resv, history>>

\* ListActiveFirmwareRollouts: the row as it is now.
ListActive(e) ==
  /\ At(e, "list")
  /\ \/ ActiveIds = {} /\ Ends(tick, e)
     \/ \E r \in ActiveIds :
          tick' = [tick EXCEPT ![e] = [Idle EXCEPT !.pc = IF rollouts[r].paused THEN "prepare_only" ELSE "prepare",
                                         !.rollout = r, !.stage = rollouts[r].stage, !.batch = rollouts[r].batch]]
  /\ UNCHANGED <<dev, scope>> /\ UNCHANGED rowVars
----------------------------------------------------------------------------
(* prepareRollout.                                                         *)

excludeDepartedTargets(row) ==
  WithTargets(row, [d \in Enrolled(row) \ scope.members |-> [row.targets[d] EXCEPT !.excluded = TRUE]])

\* syncMembership, with the members and mismatched joiners it listed: leavers are excluded, returners must verify
\* again, joiners are appended unbatched.
syncMembership(row, members, joiners) ==
  LET synced(d) ==
        LET t == row.targets[d] IN
        IF d \notin members THEN [t EXCEPT !.excluded = TRUE]
        ELSE IF t.excluded THEN [t EXCEPT !.excluded = FALSE, !.verified = FALSE] ELSE t
  IN [row EXCEPT !.targets = [d \in Enrolled(row) \cup joiners |-> IF d \in joiners THEN Target(0) ELSE synced(d)]]

\* recordConvergence: latches what converged, reopens what drifted.
recordConvergence(row, deployments) ==
  WithTargets(row,
    [d \in {x \in Enrolled(row) : ~row.targets[x].excluded /\ row.targets[x].halt = None} |->
       [row.targets[d] EXCEPT !.verified =
          IF @ THEN reportsTarget(row, d) /\ deployments[d].sum = row.sum /\ ~foreignCommand(row, d)
          ELSE meetsConvergence(row, d, deployments)]])

\* Faulty variant: what was listed as active is taken to be active.
StillActiveUnchecked(row) == TRUE
\* The status, read again under the row lock.
StillActive(row) == IsActive(row)

\* The end of prepareRollout: convergence on the refreshed targets; a paused rollout is not enforced.
Prepared(e, rows, deployments) ==
  LET r == tick[e].rollout
      row == recordConvergence(rows[r], deployments)
      due == /\ tick[e].stage \in {"batch", "rest"}
             /\ ~allSettled(row, reviewScope(row, tick[e].stage, tick[e].batch))
  IN /\ dep' = deployments /\ rollouts' = [rows EXCEPT ![r] = row]
     /\ IF At(e, "prepare_only") THEN Ends(tick, e)
        ELSE Goes([tick EXCEPT ![e].evidence = None], e, IF due THEN "dispatch" ELSE "advance")

prepareRollout(e) ==
  /\ tick[e].pc \in {"prepare", "prepare_only"} /\ ~ChannelLocked
  /\ LET r == tick[e].rollout
         joiners == Mismatched(rollouts[r].sum, rollouts[r].gen, Enrolled(rollouts[r]))
         synced == syncMembership(rollouts[r], scope.members, joiners)
         deployed == Deployed(synced, FALSE)
     IN \/ ~StillActive(rollouts[r]) /\ Ends(tick, e) /\ UNCHANGED <<dep, rollouts>>
        \/ StillActive(rollouts[r]) /\ deployed = {} /\ Prepared(e, [rollouts EXCEPT ![r] = synced], dep)
        \/ /\ StillActive(rollouts[r]) /\ deployed # {}
           /\ tick' = [tick EXCEPT ![e].evidence = Listed(scope.members, joiners, deployed)]
           /\ UNCHANGED <<dep, rollouts>>
  /\ UNCHANGED <<dev, scope, assigned, resv, history>>

\* The rest of the transaction: its writes, the synchronized targets among them, are seen when it commits.
recordProvenance(e) ==
  /\ tick[e].pc \in {"prepare", "prepare_only"} /\ ~Listing(e)
  /\ LET r == tick[e].rollout
         seen == tick[e].evidence
         synced == [rollouts EXCEPT ![r] = syncMembership(@, seen.members, seen.joiners)]
     IN Prepared(e, Stamped(synced, Matching(seen)), Recorded(Matching(seen), rollouts[r].sum))
  /\ UNCHANGED <<dev, scope, assigned, resv, history>>
----------------------------------------------------------------------------
(* dispatchUpdates.                                                        *)

\* The command service queues the update for the targets of the batch that pass its filters.
Sent(row, attempted, dispatched) ==
  WithTargets(row, [d \in attempted |->
    LET t == [row.targets[d] EXCEPT !.attempts = @ + 1, !.recent = TRUE] IN
    IF d \in dispatched THEN [t EXCEPT !.sent = "pending", !.newer = FALSE] ELSE t])

dispatchUpdates(e) ==
  /\ At(e, "dispatch") /\ ~ChannelLocked
  /\ LET r == tick[e].rollout
         row == excludeDepartedTargets(rollouts[r])
         open == {d \in reviewScope(row, row.stage, row.batch) :
                    ~settled(row.targets[d]) /\ dev[d].queue = <<>> /\ ~row.targets[d].recent}
         failing == {d \in open : ~inScope(d) \/ row.targets[d].attempts >= MaxAttempts}
         due == IF row.gen = assigned.gen /\ row.sum = assigned.sum THEN open \ failing ELSE {}
     IN \/ /\ ~IsActive(row) \/ row.paused \/ tick[e].moved \/ row.stage \notin {"batch", "rest"}
           /\ Ends(tick, e) /\ resv' = Observed /\ UNCHANGED <<dev, rollouts, history>>
        \/ /\ IsActive(row) /\ ~row.paused /\ ~tick[e].moved /\ row.stage \in {"batch", "rest"}
           /\ \E attempted \in SUBSET due : \E dispatched \in SUBSET attempted :
                /\ \/ Cardinality(attempted) = room(Observed, Cardinality(due))
                   \/ "missing" \in Happens /\ attempted = {}
                /\ rollouts' = [rollouts EXCEPT ![r] = Sent(Halted(row, failing, "failed"), attempted, dispatched)]
                /\ dev' = [d \in Devices |-> IF d \in dispatched
                             THEN [dev[d] EXCEPT !.queue = Append(@, [art |-> row.sum, from |-> r, ran |-> FALSE])] ELSE dev[d]]
                /\ resv' = [d \in Devices |-> Observed[d] \cup IF d \in dispatched THEN {[live |-> TRUE, seen |-> FALSE]} ELSE {}]
                /\ history' = [risk |-> history.risk \cup dispatched, stopped |-> history.stopped \cup failing]
           /\ IF failing = {} THEN Ends(tick, e) ELSE Goes(tick, e, "advance")
  /\ UNCHANGED <<scope, dep, assigned>>
----------------------------------------------------------------------------
(* advanceRolloutProgress.                                                 *)

\* evaluate: what releases an automatic gate; thresholds and stabilization only delay it.
ReadyToAdvance(row, D) ==
  /\ Auto
  /\ \A d \in D : \/ row.targets[d].halt = "skipped"
                  \/ row.targets[d].verified /\ row.targets[d].halt # "failed" /\ dev[d].status = "healthy"

Finished(row, D) ==
  [row EXCEPT !.status = IF \E d \in D : row.targets[d].halt = "failed" THEN "completed_with_failures" ELSE "completed"]

\* What a settled scope leads to; the review gate may also stay closed, the wait go on.
Progress(row, D) ==
  CASE row.stage = "batch" -> {IF gatesAfterBatch(row) THEN [row EXCEPT !.stage = "awaiting_review"]
                               ELSE IF Wait THEN [row EXCEPT !.stage = "waiting"] ELSE advance(row)}
    [] row.stage = "awaiting_review" -> {row} \cup IF ReadyToAdvance(row, D) THEN {advance(row)} ELSE {}
    [] row.stage = "waiting" -> {row, advance(row)}
    [] OTHER -> {Finished(row, D)}

Gone(e) ==
  LET row == rollouts[tick[e].rollout] IN ~IsActive(row) \/ row.paused \/ tick[e].moved \/ tick[e].resumed

advanceRolloutProgress(e) ==
  /\ At(e, "advance") /\ ~RolloutLocked(tick[e].rollout) /\ ~ScopesLocked
  /\ LET r == tick[e].rollout
         row == rollouts[r]
         D == reviewScope(row, row.stage, row.batch)
     IN \/ Gone(e) /\ Ends(tick, e) /\ UNCHANGED rollouts
        \/ /\ ~Gone(e) /\ allSettled(row, D)
           /\ \E next \in Progress(row, D) :
                /\ rollouts' = [rollouts EXCEPT ![r] = next]
                /\ Ends(IF next.stage # row.stage \/ next.batch # row.batch THEN StageMoved(tick, e) ELSE tick, e)
        \/ /\ ~Gone(e) /\ ~allSettled(row, D) /\ row.stage \in {"batch", "rest"}
           /\ Ends(tick, e) /\ UNCHANGED rollouts
        \/ /\ ~Gone(e) /\ ~allSettled(row, D) /\ row.stage \in {"awaiting_review", "waiting"}
           /\ rollouts' = [rollouts EXCEPT ![r].stage = "batch"]
           /\ tick' = [StageMoved(tick, e) EXCEPT ![e].pc = "dispatch", ![e].stage = "batch"]
  /\ UNCHANGED <<dev, scope, dep, assigned, resv, history>>

\* An error ends the tick, or the process dies: the transaction it was in is rolled back.
Abort(e) == "abort" \in Happens /\ ~At(e, "idle") /\ Ends(tick, e) /\ UNCHANGED <<dev, scope>> /\ UNCHANGED rowVars
----------------------------------------------------------------------------
Enforce(e) ==
  \/ Observe(e) \/ DeleteReleased(e) \/ Reconciled(e) \/ StartNeeded(e) \/ ListActive(e)
  \/ prepareRollout(e) \/ recordProvenance(e) \/ dispatchUpdates(e) \/ advanceRolloutProgress(e)
  \/ recordTerminalProvenance(e) \/ \E r \in DOMAIN rollouts : ReconcileDispatches(e, r)

Next == Operator \/ World \/ \E e \in Enforcers : Enforce(e) \/ Abort(e)
Spec == EnforcementInit /\ [][Next]_vars

----------------------------------------------------------------------------
TypeOK ==
  /\ \A d \in Devices :
       /\ dev[d].installed \in Artifacts \cup {Factory} /\ dev[d].status \in {"healthy", "sick", "offline"}
       /\ dep[d].sum \in Artifacts \cup {None} /\ resv[d] \subseteq [live : BOOLEAN, seen : BOOLEAN]
  /\ \A r \in DOMAIN rollouts :
       LET row == rollouts[r] IN
       /\ row.status \in {"active", "completed", "completed_with_failures", "canceled"}
       /\ row.stage \in {"batch", "awaiting_review", "waiting", "rest"} /\ (row.batch = 1 \/ row.batch <= row.count)
       /\ \A d \in Enrolled(row) : row.targets[d].attempts <= MaxAttempts
  /\ \A e \in Enforcers : tick[e].rollout \in 0..Len(rollouts)

\* The loop queues a firmware command for d in this step, in this rollout.
Sends(d) == Len(dev'[d].queue) > Len(dev[d].queue) /\ dev'[d].queue[Len(dev'[d].queue)].from # 0
SendingRollout(d) == rollouts[dev'[d].queue[Len(dev'[d].queue)].from]

\* Whatever happened since the tick listed the rollout, a command is only queued in a rollout that is active, not
\* paused and of the current assignment, for a miner of the channel and of the pair that has no firmware command
\* outstanding and that no failure, cancellation or skip has stopped since the last retry: the checks that
\* dispatchUpdates repeats under its locks, and the suppression that survives rollouts, cover every path.
SendsAreAuthorized ==
  [][\A d \in Devices : Sends(d) =>
       LET row == SendingRollout(d) IN
       /\ IsActive(row) /\ ~row.paused /\ row.gen = assigned.gen /\ row.sum = assigned.sum
       /\ inScope(d) /\ dev[d].queue = <<>> /\ d \notin history.stopped]_vars

\* Without automatic continuation a miner of batch n is only sent to after n - 1 reviews by an operator, a miner
\* outside the batches only after all of them: reopened batches, late joiners, retries and stale ticks included.
ReviewGateHolds ==
  [][\A d \in Devices : Sends(d) =>
       LET row == SendingRollout(d) IN
       gatesAfterBatch(row) =>
         row.reviews + 1 >= IF row.targets[d].batch = 0 THEN row.count + 1 ELSE row.targets[d].batch]_vars

\* What device_firmware_deployment says a miner runs is what it runs, unless a command is at work on it: neither a
\* failed command, nor a report older than the command, nor another artifact of the same version, nor a manual
\* update passes as a deployment.
ProvenanceIsTrue ==
  \A d \in Devices :
    dep[d].sum # None /\ (\A i \in DOMAIN dev[d].queue : ~dev[d].queue[i].ran) => dev[d].installed = dep[d].sum

\* MaxConcurrentOffline: a miner is only sent an update while, with it, no more miners than the channel's current
\* limit have been sent one and have neither answered nor come back from being offline, whatever rollouts, channel
\* memberships and limits came and went.
RiskWithinLimit ==
  [][\A d \in Devices : Sends(d) /\ scope.limit > 0 => Cardinality(history'.risk) <= scope.limit]_vars

\* A finished rollout keeps the phases of its targets: a tick that listed it as active must not rewrite it.
HistoryStands ==
  [][\A r \in DOMAIN rollouts : ~IsActive(rollouts[r]) =>
       /\ rollouts'[r].status = rollouts[r].status /\ Enrolled(rollouts'[r]) = Enrolled(rollouts[r])
       /\ \A d \in Enrolled(rollouts[r]) :
            LET t == rollouts[r].targets[d]
                u == rollouts'[r].targets[d]
            IN u.verified = t.verified /\ u.halt = t.halt /\ u.excluded = t.excluded /\ u.attempts = t.attempts]_vars

=============================================================================
