----------------------------- MODULE FleetLease -----------------------------
(***************************************************************************)
(* Active/passive ownership of the Fleet runtime (server/internal/ha).     *)
(*                                                                         *)
(* Every fleetd process runs a Coordinator.  It observes the Patroni       *)
(* leader in the DCS, takes or renews the single 'fleet-active' row of the *)
(* database, and stays active until a local deadline that it derives from  *)
(* the database's answer and from the remaining life of the leader's DCS   *)
(* lease.  Nothing is atomic here but one SQL statement and one DCS read:  *)
(* time passes, leaders change and statements are lost or delayed between  *)
(* any two steps of a coordinator.                                         *)
(*                                                                         *)
(* External, modelled from how the code uses them: the DCS (etcd and       *)
(* Patroni) and PostgreSQL's failover.  A new leader key appears only      *)
(* after the DCS lease of the previous one has run out, and a demoted      *)
(* server executes no statement; both are what DCSProofDeadline and the    *)
(* writer identity in the SQL rely on.                                     *)
(***************************************************************************)
EXTENDS Integers, FiniteSets

CONSTANTS
  Procs,          \* fleetd processes (one per host)
  Servers,        \* PostgreSQL servers
  Skew,           \* [Servers -> Int]: clock_timestamp() minus real time
  Clusters,       \* DCS cluster identities
  LeaseDuration,  \* CoordinatorConfig.LeaseDuration
  RetryInterval,  \* CoordinatorConfig.RetryInterval
  LeaderTTL,      \* Patroni's ttl: life of a DCS leader lease
  MaxTime, MaxGen, MaxHolder, MaxVersion, MaxOrphans   \* bounds

ASSUME ConstantsAssumption ==
  /\ Skew \in [Servers -> Int]
  /\ LeaseDuration \in Nat \ {0}
  /\ RetryInterval \in Nat \ {0}
  /\ LeaderTTL \in Nat \ {0}
  /\ MaxTime \in Nat /\ MaxGen \in Nat \ {0} /\ MaxHolder \in Nat
  /\ MaxVersion \in Nat /\ MaxOrphans \in Nat

VARIABLES
  now,            \* real time
  cluster,        \* identity of the DCS cluster that answers
  gens,           \* [Clusters -> Nat]: create_revision of the last leader key
  leaderExp,      \* when the leader's DCS lease runs out
  writer,         \* the writable PostgreSQL server and its timeline
  lease,          \* the 'fleet-active' row on the writer
  replica,        \* the row as the standby has it
  orphans,        \* statements whose client gave up on them
  nextHolder,     \* source of fresh holder IDs (uuid.New)
  lastTerm,       \* history: [Clusters -> token of the last activated term]
  lastHolder,     \* history: holder ID of the last activated term
  pc,             \* where the goroutine of Coordinator.Run is
  holder,         \* c.holderID
  acquireAfter,   \* c.acquireAfter
  snap,           \* first DCS snapshot of the observation in progress
  call,           \* the SQL statement in flight
  got,            \* the Ownership the last statement returned
  started,        \* requestStarted of the last renewal
  proof,          \* DCSProofDeadline; ttlRequestStarted while in LeaseTTL
  candidate,      \* candidateExpiresAt
  active,         \* c.activeCtx # nil
  own,            \* c.ownership
  deadline,       \* deadline of the lease timer
  leaseVersion,   \* c.leaseVersion
  armed,          \* the lease timer is running
  fired           \* versions of timer callbacks that wait for c.mu

env == <<cluster, gens, leaderExp, writer>>
db == <<lease, replica>>
term == <<active, own, deadline, leaseVersion, armed, fired>>
obs == <<snap, call, got, started, proof, candidate>>
ident == <<holder, acquireAfter, nextHolder>>
history == <<lastTerm, lastHolder>>
vars == <<now, env, db, orphans, history, pc, ident, obs, term>>

Passive == {"idle", "identify", "acquire", "confirm", "ttl", "proved",
            "activate", "renewed", "stopped"}
Renewing == {"rIdentify", "renew", "rConfirm", "rTTL", "rProved"}

Term == [gen : Nat, epoch : Nat]
Row == [cluster : Clusters, gen : Nat, epoch : Nat, holder : Nat, exp : Int]
NoLease == [epoch |-> 0]
Ownership == [cluster : Clusters, gen : Nat, epoch : Nat, holder : Nat,
              exp : Int, dbTime : Int]
NoOwnership == [epoch |-> 0]
Snapshot == [cluster : Clusters, gen : Nat, server : Servers]
NoSnapshot == [gen |-> 0]
Statement == [kind : {"acquire", "renew"}, cluster : Clusters, gen : Nat,
              epoch : Nat, holder : Nat, server : Servers, timeline : Nat]
NoStatement == [kind |-> "none"]

EnvironmentOK ==
  /\ now \in Nat /\ cluster \in Clusters /\ gens \in [Clusters -> Nat]
  /\ leaderExp \in Nat /\ writer \in [server : Servers, timeline : Nat]
RowOK ==
  /\ lease \in Row \cup {NoLease} /\ replica \in Row \cup {NoLease}
  /\ orphans \subseteq Statement
ControlOK ==
  /\ pc \in [Procs -> Passive \cup Renewing \cup {"held"}]
  /\ holder \in [Procs -> Nat] /\ acquireAfter \in [Procs -> Int]
  /\ nextHolder \in Nat
  /\ lastTerm \in [Clusters -> Term] /\ lastHolder \in Nat
ObservationOK ==
  /\ snap \in [Procs -> Snapshot \cup {NoSnapshot}]
  /\ call \in [Procs -> Statement \cup {NoStatement}]
  /\ got \in [Procs -> Ownership \cup {NoOwnership}]
  /\ started \in [Procs -> Nat] /\ proof \in [Procs -> Int]
  /\ candidate \in [Procs -> Int]
TermOK ==
  /\ active \in [Procs -> BOOLEAN]
  /\ own \in [Procs -> Ownership \cup {NoOwnership}]
  /\ deadline \in [Procs -> Int] /\ leaseVersion \in [Procs -> Nat]
  /\ armed \in [Procs -> BOOLEAN] /\ fired \in [Procs -> SUBSET Nat]

TypeOK == EnvironmentOK /\ RowOK /\ ControlOK /\ ObservationOK /\ TermOK
-----------------------------------------------------------------------------
Init ==
  /\ now = 0
  /\ cluster \in Clusters
  /\ gens = [c \in Clusters |-> IF c = cluster THEN 1 ELSE 0]
  /\ leaderExp = LeaderTTL
  /\ writer \in [server : Servers, timeline : {1}]
  /\ lease = NoLease /\ replica = NoLease
  /\ orphans = {}
  /\ lastTerm = [c \in Clusters |-> [gen |-> 0, epoch |-> 0]]
  /\ lastHolder = 0
  /\ pc = [p \in Procs |-> "stopped"]
  /\ holder = [p \in Procs |-> 0]
  /\ acquireAfter = [p \in Procs |-> 0]
  /\ nextHolder = 1
  /\ snap = [p \in Procs |-> NoSnapshot]
  /\ call = [p \in Procs |-> NoStatement]
  /\ got = [p \in Procs |-> NoOwnership]
  /\ started = [p \in Procs |-> 0]
  /\ proof = [p \in Procs |-> 0]
  /\ candidate = [p \in Procs |-> 0]
  /\ active = [p \in Procs |-> FALSE]
  /\ own = [p \in Procs |-> NoOwnership]
  /\ deadline = [p \in Procs |-> 0]
  /\ leaseVersion = [p \in Procs |-> 0]
  /\ armed = [p \in Procs |-> FALSE]
  /\ fired = [p \in Procs |-> {}]
-----------------------------------------------------------------------------
(***************************************************************************)
(* Time, the DCS and PostgreSQL's failover (external).                     *)
(***************************************************************************)
Tick ==
  /\ now < MaxTime
  /\ now' = now + 1
  /\ UNCHANGED <<env, db, orphans>>

\* Patroni's primary refreshes the lease of its leader key.
LeaderKeepAlive ==
  /\ now < leaderExp
  /\ leaderExp' = now + LeaderTTL
  /\ UNCHANGED <<now, cluster, gens, writer, db, orphans>>

\* The leader key has expired and server s creates it anew, with a larger
\* create_revision.  The same server may regain it without a promotion (same
\* timeline); another server is promoted with the row it has replicated.
Elect(s) ==
  /\ now >= leaderExp
  /\ gens[cluster] < MaxGen
  /\ gens' = [gens EXCEPT ![cluster] = @ + 1]
  /\ leaderExp' = now + LeaderTTL
  /\ \/ s = writer.server /\ UNCHANGED <<writer, lease>>
     \/ s = writer.server /\ UNCHANGED lease
        /\ writer' = [writer EXCEPT !.timeline = @ + 1]
     \/ s # writer.server /\ lease' = replica
        /\ writer' = [server |-> s, timeline |-> writer.timeline + 1]
  /\ UNCHANGED <<now, cluster, replica, orphans>>

\* The DCS is rebuilt: a new cluster identity whose revisions start afresh.
RebuildDCS(c, g) ==
  /\ gens[c] = 0
  /\ cluster' = c
  /\ gens' = [gens EXCEPT ![c] = g]
  /\ leaderExp' = now + LeaderTTL
  /\ UNCHANGED <<now, writer, db, orphans>>

\* Asynchronous replication of the row to the standby.
Replicate ==
  /\ replica # lease
  /\ replica' = lease
  /\ UNCHANGED <<now, env, lease, orphans>>
-----------------------------------------------------------------------------
(***************************************************************************)
(* The lease row (sqlc/queries/ha.sql).                                    *)
(***************************************************************************)
DatabaseTime == now + Skew[writer.server]

\* lease_context: the statement runs on the server and timeline it names.
OnWriter(c) == c.server = writer.server /\ c.timeline = writer.timeline

\* Faulty variants: takeover without waiting for expiry; no cluster check.
CanAcquireUnexpired(c) ==
  /\ OnWriter(c)
  /\ lease # NoLease => lease.cluster = c.cluster /\ c.gen >= lease.gen

CanAcquire(c) ==
  /\ OnWriter(c)
  /\ lease # NoLease =>
       /\ lease.cluster = c.cluster
       /\ c.gen >= lease.gen
       /\ \/ c.gen > lease.gen
          \/ lease.holder = c.holder
          \/ lease.exp <= DatabaseTime

\* An unexpired retry by the same holder and writer keeps epoch and expiry.
RetriesLiveTerm(c) ==
  /\ lease.holder = c.holder
  /\ lease.gen = c.gen
  /\ lease.exp > DatabaseTime

\* Faulty variant: a takeover in the same writer generation keeps the epoch.
AcquiredRowSameEpoch(c) ==
  IF lease # NoLease /\ RetriesLiveTerm(c) THEN lease
  ELSE [cluster |-> c.cluster, gen |-> c.gen,
        epoch |-> IF lease = NoLease THEN 1 ELSE lease.epoch,
        holder |-> c.holder, exp |-> DatabaseTime + LeaseDuration]

AcquiredRow(c) ==
  IF lease # NoLease /\ RetriesLiveTerm(c) THEN lease
  ELSE [cluster |-> c.cluster, gen |-> c.gen, epoch |-> lease.epoch + 1,
        holder |-> c.holder, exp |-> DatabaseTime + LeaseDuration]

CanRenew(c) ==
  /\ OnWriter(c)
  /\ lease # NoLease
  /\ lease.cluster = c.cluster /\ lease.gen = c.gen
  /\ lease.epoch = c.epoch /\ lease.holder = c.holder
  /\ lease.exp > DatabaseTime

RenewedRow == [lease EXCEPT !.exp = DatabaseTime + LeaseDuration]

Returned(row) ==
  [cluster |-> row.cluster, gen |-> row.gen, epoch |-> row.epoch,
   holder |-> row.holder, exp |-> row.exp, dbTime |-> DatabaseTime]

\* Effect on the row of a statement nobody waits for.
Effect(c) ==
  CASE c.kind = "acquire" /\ CanAcquire(c) -> AcquiredRow(c)
    [] c.kind = "renew" /\ CanRenew(c) -> RenewedRow
    [] OTHER -> lease
-----------------------------------------------------------------------------
(***************************************************************************)
(* The coordinator.  ClearObs forgets the locals of tryAcquire and of      *)
(* renewActive when they return.                                           *)
(***************************************************************************)
ClearObs(p) ==
  /\ snap' = [snap EXCEPT ![p] = NoSnapshot]
  /\ call' = [call EXCEPT ![p] = NoStatement]
  /\ got' = [got EXCEPT ![p] = NoOwnership]
  /\ started' = [started EXCEPT ![p] = 0]
  /\ proof' = [proof EXCEPT ![p] = 0]
  /\ candidate' = [candidate EXCEPT ![p] = 0]

\* deactivateLocked: ends the term, and the timer's version moves on.
Deactivate(p) ==
  /\ active' = [active EXCEPT ![p] = FALSE]
  /\ own' = [own EXCEPT ![p] = NoOwnership]
  /\ deadline' = [deadline EXCEPT ![p] = 0]
  /\ leaseVersion' = [leaseVersion EXCEPT ![p] = @ + 1]
  /\ armed' = [armed EXCEPT ![p] = FALSE]

\* resetLeaseTimerLocked(d).
ResetLeaseTimer(p, d) ==
  /\ leaseVersion' = [leaseVersion EXCEPT ![p] = @ + 1]
  /\ deadline' = [deadline EXCEPT ![p] = d]
  /\ armed' = [armed EXCEPT ![p] = TRUE]

\* Faulty variants of the local deadline: without the DCS proof, and counted
\* from the answer instead of from the request.
NewDeadlineWithoutProof(p) == started[p] + (got[p].exp - got[p].dbTime)

\* localOwnershipDeadline, with the time left read off the database's clock.
NewDeadline(p) ==
  LET d == started[p] + (got[p].exp - got[p].dbTime)
  IN  IF proof[p] < d THEN proof[p] ELSE d

\* A statement leaves the client; it executes in a later step, or never.
Send(p, kind, o) ==
  call' = [call EXCEPT ![p] =
    [kind |-> kind, cluster |-> o.cluster, gen |-> o.gen, epoch |-> o.epoch,
     holder |-> o.holder, server |-> writer.server, timeline |-> writer.timeline]]

\* An abandoned statement may still reach the server.
MayOrphan(p) ==
  \/ UNCHANGED orphans
  \/ /\ call[p] # NoStatement
     /\ Cardinality(orphans) < MaxOrphans
     /\ orphans' = orphans \cup {call[p]}

\* Run has returned or the process has died: nothing of the coordinator is left.
Exit(p) ==
  /\ pc' = [pc EXCEPT ![p] = "stopped"]
  /\ holder' = [holder EXCEPT ![p] = 0]
  /\ acquireAfter' = [acquireAfter EXCEPT ![p] = 0]
  /\ active' = [active EXCEPT ![p] = FALSE]
  /\ own' = [own EXCEPT ![p] = NoOwnership]
  /\ deadline' = [deadline EXCEPT ![p] = 0]
  /\ leaseVersion' = [leaseVersion EXCEPT ![p] = 0]
  /\ armed' = [armed EXCEPT ![p] = FALSE]
  /\ fired' = [fired EXCEPT ![p] = {}]
  /\ ClearObs(p)
  /\ UNCHANGED <<lease, history, nextHolder>>

\* NewCoordinator and the start of Run in a fresh process.
Start(p) ==
  /\ pc[p] = "stopped"
  /\ nextHolder <= MaxHolder
  /\ pc' = [pc EXCEPT ![p] = "idle"]
  /\ holder' = [holder EXCEPT ![p] = nextHolder]
  /\ nextHolder' = nextHolder + 1
  /\ UNCHANGED <<lease, orphans, history, acquireAfter, obs, term>>

\* The process dies, or Run's context ends and Run deactivates and returns.
Stop(p) ==
  /\ pc[p] # "stopped"
  /\ Exit(p)
  /\ MayOrphan(p)

\* dcs.Snapshot at the start of observeAndRun, from tryAcquire or renewActive
\* (which has read c.ownership as the value to renew).
ObserveLeader(p) ==
  /\ now < leaderExp
  /\ \/ /\ pc[p] = "idle" /\ now >= acquireAfter[p]
        /\ pc' = [pc EXCEPT ![p] = "identify"]
        /\ UNCHANGED got
     \/ /\ pc[p] = "held" /\ active[p] /\ leaseVersion[p] < MaxVersion
        /\ pc' = [pc EXCEPT ![p] = "rIdentify"]
        /\ got' = [got EXCEPT ![p] = own[p]]
  /\ snap' = [snap EXCEPT ![p] = [cluster |-> cluster, gen |-> gens[cluster],
                                  server |-> writer.server]]
  /\ UNCHANGED <<lease, orphans, history, ident, call, started, proof, candidate, term>>

\* PostgreSQL and Patroni agree on the leader's server and timeline, and the
\* action of the observation sends its statement.
SendAcquire(p) ==
  /\ pc[p] = "identify"
  /\ writer.server = snap[p].server
  /\ pc' = [pc EXCEPT ![p] = "acquire"]
  /\ Send(p, "acquire", [cluster |-> snap[p].cluster, gen |-> snap[p].gen,
                         epoch |-> 0, holder |-> holder[p]])
  /\ UNCHANGED <<lease, orphans, history, ident, snap, got, started, proof, candidate, term>>

\* validateObservedWriter: the leader is the one the term was won under.
SameWriter(p) == snap[p].cluster = got[p].cluster /\ snap[p].gen = got[p].gen

SendRenew(p) ==
  /\ pc[p] = "rIdentify"
  /\ writer.server = snap[p].server
  /\ SameWriter(p)
  /\ pc' = [pc EXCEPT ![p] = "renew"]
  /\ started' = [started EXCEPT ![p] = now]
  /\ Send(p, "renew", got[p])
  /\ UNCHANGED <<lease, orphans, history, ident, snap, got, proof, candidate, term>>

\* AcquireFleetRuntimeLease executes and its answer arrives.  Contention and a
\* changed writer both end the attempt without a candidate.
ExecAcquire(p) ==
  /\ pc[p] = "acquire"
  /\ \/ /\ CanAcquire(call[p])
        /\ lease' = AcquiredRow(call[p])
        /\ got' = [got EXCEPT ![p] = Returned(AcquiredRow(call[p]))]
        /\ candidate' = [candidate EXCEPT ![p] =
                           now + (AcquiredRow(call[p]).exp - DatabaseTime)]
        /\ call' = [call EXCEPT ![p] = NoStatement]
        /\ pc' = [pc EXCEPT ![p] = "confirm"]
        /\ UNCHANGED <<snap, started, proof>>
     \/ /\ ~CanAcquire(call[p])
        /\ pc' = [pc EXCEPT ![p] = "idle"]
        /\ ClearObs(p)
        /\ UNCHANGED lease
  /\ UNCHANGED <<orphans, history, ident, term>>

\* RenewFleetRuntimeLease executes and its answer arrives: the activation
\* renewal of tryAcquire, or the periodic one of renewActive.  A row that no
\* longer is this exact unexpired term answers ErrOwnershipLost:
\* FailCandidate, FailRenewal.
ExecRenew(p) ==
  /\ pc[p] \in {"activate", "renew"}
  /\ CanRenew(call[p])
  /\ lease' = RenewedRow
  /\ got' = [got EXCEPT ![p] = Returned(RenewedRow)]
  /\ candidate' = [candidate EXCEPT ![p] =
                     IF pc[p] = "activate" THEN now + LeaseDuration ELSE 0]
  /\ call' = [call EXCEPT ![p] = NoStatement]
  /\ pc' = [pc EXCEPT ![p] = IF pc[p] = "activate" THEN "renewed" ELSE "rConfirm"]
  /\ UNCHANGED <<orphans, history, ident, snap, started, proof, term>>

ExecOrphan(c) ==
  /\ orphans' = orphans \ {c}
  /\ lease' = Effect(c)
  /\ UNCHANGED <<now, env, replica>>

\* confirmDCSUnchanged; then LeaseTTL is asked, at ttlRequestStarted.
ConfirmLeader(p) ==
  /\ pc[p] \in {"confirm", "rConfirm"}
  /\ now < leaderExp
  /\ snap[p].cluster = cluster /\ snap[p].gen = gens[cluster]
  /\ pc' = [pc EXCEPT ![p] = IF pc[p] = "confirm" THEN "ttl" ELSE "rTTL"]
  /\ proof' = [proof EXCEPT ![p] = now]
  /\ UNCHANGED <<lease, orphans, history, ident, snap, call, got, started, candidate, term>>

\* The DCS answers with what is left of the confirmed leader's lease.
ReadLeaseTTL(p) ==
  /\ pc[p] \in {"ttl", "rTTL"}
  /\ snap[p].cluster = cluster /\ snap[p].gen = gens[cluster]
  /\ now < leaderExp
  /\ proof[p] + (leaderExp - now) > now
  /\ proof' = [proof EXCEPT ![p] = @ + (leaderExp - now)]
  /\ pc' = [pc EXCEPT ![p] = IF pc[p] = "ttl" THEN "proved" ELSE "rProved"]
  /\ UNCHANGED <<lease, orphans, history, ident, snap, call, got, started, candidate, term>>

\* tryAcquire: the candidate renews once more before it activates.
SendActivation(p) ==
  /\ pc[p] = "proved"
  /\ pc' = [pc EXCEPT ![p] = "activate"]
  /\ started' = [started EXCEPT ![p] = now]
  /\ Send(p, "renew", got[p])
  /\ UNCHANGED <<lease, orphans, history, ident, snap, got, proof, candidate, term>>

Activate(p) ==
  /\ pc[p] = "renewed"
  /\ NewDeadline(p) > now
  /\ ResetLeaseTimer(p, NewDeadline(p))
  /\ active' = [active EXCEPT ![p] = TRUE]
  /\ own' = [own EXCEPT ![p] = got[p]]
  /\ lastTerm' = [lastTerm EXCEPT ![got[p].cluster] =
                    [gen |-> got[p].gen, epoch |-> got[p].epoch]]
  /\ lastHolder' = got[p].holder
  /\ pc' = [pc EXCEPT ![p] = "held"]
  /\ ClearObs(p)
  /\ UNCHANGED <<lease, orphans, ident, fired>>

\* updateActive: the term this renewal was for must still be the active one.
UpdateActive(p) ==
  /\ pc[p] = "rProved"
  /\ active[p]
  /\ own[p].cluster = got[p].cluster /\ own[p].gen = got[p].gen
  /\ own[p].epoch = got[p].epoch /\ own[p].holder = got[p].holder
  /\ NewDeadline(p) > now
  /\ ResetLeaseTimer(p, NewDeadline(p))
  /\ own' = [own EXCEPT ![p] = got[p]]
  /\ pc' = [pc EXCEPT ![p] = "held"]
  /\ ClearObs(p)
  /\ UNCHANGED <<lease, orphans, history, ident, active, fired>>

\* ErrTimelineMismatch while renewing: Patroni lags behind PostgreSQL, the
\* leader is confirmed and unchanged, so the term only misses one renewal.
TimelineMismatch(p) ==
  /\ pc[p] = "rIdentify"
  /\ writer.server = snap[p].server
  /\ now < leaderExp
  /\ snap[p].cluster = cluster /\ snap[p].gen = gens[cluster]
  /\ SameWriter(p)
  /\ active[p]
  /\ pc' = [pc EXCEPT ![p] = "held"]
  /\ ClearObs(p)
  /\ UNCHANGED <<lease, orphans, history, ident, term>>

\* A step of tryAcquire before the row is won returns an error: deactivate.
FailObservation(p) ==
  /\ pc[p] \in {"identify", "acquire"}
  /\ pc' = [pc EXCEPT ![p] = "idle"]
  /\ ClearObs(p)
  /\ MayOrphan(p)
  /\ UNCHANGED <<lease, history, ident, term>>

\* A step of tryAcquire after it returns an error: abandonCandidate, which
\* takes a new holder ID and sits out the rest of the lease.
FailCandidate(p) ==
  /\ pc[p] \in {"confirm", "ttl", "activate", "renewed"}
  /\ pc[p] = "renewed" => NewDeadline(p) <= now
  /\ nextHolder <= MaxHolder
  /\ pc' = [pc EXCEPT ![p] = "idle"]
  /\ holder' = [holder EXCEPT ![p] = nextHolder]
  /\ nextHolder' = nextHolder + 1
  /\ acquireAfter' = [acquireAfter EXCEPT ![p] = candidate[p] + RetryInterval]
  /\ ClearObs(p)
  /\ MayOrphan(p)
  /\ UNCHANGED <<lease, history, term>>

\* A step of renewActive returns an error: deactivate, and Run returns.
FailRenewal(p) ==
  /\ pc[p] \in Renewing
  /\ pc[p] = "rProved" => ~active[p] \/ NewDeadline(p) <= now
  /\ Exit(p)
  /\ MayOrphan(p)

\* renewUntilStopped sees the term's context done, and Run returns.
OwnershipEnded(p) ==
  /\ pc[p] = "held" /\ ~active[p]
  /\ Exit(p)
  /\ UNCHANGED orphans

\* The lease timer goes off; its callback still has to take c.mu.
TimerFires(p) ==
  /\ armed[p] /\ now >= deadline[p]
  /\ armed' = [armed EXCEPT ![p] = FALSE]
  /\ fired' = [fired EXCEPT ![p] = @ \cup {leaseVersion[p]}]
  /\ UNCHANGED <<lease, orphans, history, pc, ident, obs, active, own, deadline, leaseVersion>>

\* The callback has the lock.  A callback of an older version does nothing.
TimerCallback(p, v) ==
  /\ v \in fired[p]
  /\ fired' = [fired EXCEPT ![p] = @ \ {v}]
  /\ IF active[p] /\ leaseVersion[p] = v
     THEN Deactivate(p)
     ELSE UNCHANGED <<active, own, deadline, leaseVersion, armed>>
  /\ UNCHANGED <<lease, orphans, history, pc, ident, obs>>
-----------------------------------------------------------------------------
Environment ==
  /\ UNCHANGED <<history, pc, ident, obs, term>>
  /\ \/ Tick
     \/ LeaderKeepAlive
     \/ \E s \in Servers : Elect(s)
     \/ \E c \in Clusters, g \in 1..MaxGen : RebuildDCS(c, g)
     \/ Replicate
     \/ \E c \in orphans : ExecOrphan(c)

Coordinator(p) ==
  /\ UNCHANGED <<now, env, replica>>
  /\ \/ Start(p) \/ Stop(p)
     \/ ObserveLeader(p)
     \/ SendAcquire(p) \/ ExecAcquire(p)
     \/ ConfirmLeader(p) \/ ReadLeaseTTL(p)
     \/ SendActivation(p) \/ Activate(p)
     \/ SendRenew(p) \/ ExecRenew(p) \/ UpdateActive(p) \/ TimelineMismatch(p)
     \/ FailObservation(p) \/ FailCandidate(p) \/ FailRenewal(p)
     \/ OwnershipEnded(p)
     \/ TimerFires(p) \/ (\E v \in fired[p] : TimerCallback(p, v))

Next == Environment \/ \E p \in Procs : Coordinator(p)

Spec == Init /\ [][Next]_vars
-----------------------------------------------------------------------------
\* The process is active and its local deadline has not passed: its timer has
\* yet to go off.  (What remains is the delay of a due timer callback.)
Live(p) == active[p] /\ now < deadline[p]

\* At any time at most one process dispatches: no failover, takeover, restart,
\* delayed statement or rebuilt DCS lets the terms of two coordinators overlap.
AtMostOneLive == \A p, q \in Procs : Live(p) /\ Live(q) => p = q

\* While a process is live the database row is its term, and the row does not
\* expire before the process stops believing in it (localOwnershipDeadline
\* counts from before the request, AcquireFleetRuntimeLease waits for expiry).
LiveOwnsRow ==
  \A p \in Procs : Live(p) =>
    /\ lease # NoLease
    /\ lease.cluster = own[p].cluster /\ lease.gen = own[p].gen
    /\ lease.epoch = own[p].epoch /\ lease.holder = own[p].holder
    /\ deadline[p] + Skew[writer.server] <= lease.exp

Newer(t, u) == t.gen > u.gen \/ (t.gen = u.gen /\ t.epoch > u.epoch)

\* Every activation carries a fencing token newer than that of every earlier
\* activation of its DCS cluster (AcquireFleetRuntimeLease raises the epoch, a
\* failover that lost writes to the row raises the writer generation).
TermsIncrease ==
  [][\A p \in Procs : ~active[p] /\ active'[p] =>
       Newer(own'[p], lastTerm[own'[p].cluster])]_vars

\* The timer callback never ends a term that a renewal has extended meanwhile:
\* a term is cut short by the timer only once its current deadline has passed.
TimerEndsOnlyDueTerms ==
  [][\A p \in Procs : active[p] /\ ~active'[p] /\ pc'[p] = pc[p] =>
       now >= deadline[p]]_vars

\* The promise of the whole component, as RuntimeOwnership states it.
Promise == INSTANCE RuntimeOwnership WITH
  Holders <- Nat,
  owner <- lastHolder,
  live <- {own[p].holder : p \in {q \in Procs : Live(q)}},
  term <- lastTerm

\* The coordinators implement single, fenced, non-interleaving ownership.
ImplementsOwnership == Promise!Spec
=============================================================================
