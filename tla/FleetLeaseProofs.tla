-------------------------- MODULE FleetLeaseProofs --------------------------
(***************************************************************************)
(* Proofs about FleetLease: an inductive invariant, and what follows from  *)
(* it, type correctness, ownership of the row and mutual exclusion.  Then  *)
(* fencing tokens: they grow from term to term, the timer ends only terms  *)
(* that are due, and the coordinators implement RuntimeOwnership.          *)
(***************************************************************************)
EXTENDS FleetLease, TLAPS

Observing == {"identify", "acquire", "confirm", "ttl", "proved", "activate",
              "renewed"} \cup Renewing
Won == {"confirm", "ttl", "proved", "activate", "renewed"} \cup Renewing
Answered == {"rConfirm", "rTTL"}
Ready == {"renewed", "rProved"}
Calling == {"acquire", "activate", "renew"}

\* x and y carry the same fencing token and holder.
SameTerm(x, y) ==
  /\ x.cluster = y.cluster /\ x.gen = y.gen
  /\ x.epoch = y.epoch /\ x.holder = y.holder

(***************************************************************************)
(* What the locals of a coordinator hold, by the place it has reached.     *)
(***************************************************************************)
Locals(p) ==
  /\ pc[p] \in Observing => snap[p] \in Snapshot
  /\ pc[p] \in Won => got[p] \in Ownership /\ got[p].holder = holder[p]
  /\ pc[p] \in Won \ {"rIdentify"} => SameWriter(p)
  /\ pc[p] \in Calling => call[p] \in Statement /\ call[p].holder = holder[p]
  /\ pc[p] \notin Calling => call[p] = NoStatement
  /\ pc[p] = "acquire" => /\ call[p].kind = "acquire"
                          /\ call[p].cluster = snap[p].cluster
                          /\ call[p].gen = snap[p].gen
  /\ pc[p] \in {"activate", "renew"} =>
       call[p].kind = "renew" /\ SameTerm(call[p], got[p])
  /\ pc[p] \in Ready \cup Answered => got[p].exp - got[p].dbTime = LeaseDuration
  /\ pc[p] \in {"ttl", "rTTL"} => proof[p] <= now
  /\ started[p] <= now
  /\ active[p] => /\ pc[p] \in Renewing \cup {"held"}
                  /\ own[p] \in Ownership /\ own[p].holder = holder[p]

\* Holder IDs are never shared.
Holders ==
  /\ \A p \in Procs : pc[p] # "stopped" => holder[p] < nextHolder
  /\ \A p, q \in Procs :
       pc[p] # "stopped" /\ pc[q] # "stopped" /\ holder[p] = holder[q] => p = q

\* Nothing was observed under, or names, a generation that is yet to come.
Known(o) == o.gen <= gens[o.cluster]
Generations ==
  /\ gens[cluster] > 0
  /\ leaderExp <= now + LeaderTTL
  /\ \A p \in Procs : pc[p] \in Observing => snap[p].gen > 0 /\ Known(snap[p])
  /\ \A p \in Procs : pc[p] \in Calling => Known(call[p])
  /\ \A c \in orphans : Known(c)

\* The row is term o and outlives d on the writer's clock.
RowHolds(o, d) ==
  /\ lease # NoLease /\ SameTerm(lease, o)
  /\ d + Skew[writer.server] <= lease.exp
  /\ d <= now + LeaseDuration

\* The leader under which o was won keeps its DCS lease until d.
Elected(o, d) == d <= leaderExp /\ o.gen > 0 /\ o.gen = gens[o.cluster]

\* Until d nothing can take term o away: no election, no takeover.
Claim(o, d) == now < d => RowHolds(o, d) /\ Elected(o, d)

\* No election since o's leader was observed.
Current(o) == o.cluster = cluster /\ o.gen = gens[cluster]

(***************************************************************************)
(* The heart of the argument.  An active term, and one that is about to be *)
(* activated or extended, is claimed until its deadline; a proof read from *)
(* the DCS lasts as long as it says; and a renewal that was answered holds *)
(* the row from its request on unless a leader was elected since, which    *)
(* the closing DCS read of the observation finds out.                      *)
(***************************************************************************)
Claims(p) ==
  /\ active[p] => Claim(own[p], deadline[p])
  /\ pc[p] \in Ready => Claim(got[p], NewDeadline(p))
  /\ pc[p] \in {"proved", "activate"} /\ now < proof[p] => Elected(snap[p], proof[p])
  /\ pc[p] \in Answered /\ Current(snap[p]) /\ now < started[p] + LeaseDuration =>
       RowHolds(got[p], started[p] + LeaseDuration)

IInv ==
  /\ TypeOK
  /\ Holders
  /\ Generations
  /\ \A p \in Procs : Locals(p)
  /\ \A p \in Procs : Claims(p)
-----------------------------------------------------------------------------
(* Facts about numbers, for the steps that compare times and tokens.       *)

\* Times and tokens are ordered.
LEMMA Order ==
  \A x, y, z \in Int : /\ x < y /\ y <= z => x < z
                       /\ x <= y /\ y < z => x < z
                       /\ x <= y /\ y <= z => x <= z
                       /\ y >= x /\ y < z => x < z
                       /\ y >= x /\ z <= x => z <= y
                       /\ x < y /\ y <= z => ~(x >= z)
                       /\ y >= x /\ x >= z => y >= z
                       /\ y >= x /\ x >= z /\ y = z => x = z /\ y = x
OBVIOUS

\* What is not newer than a token is not newer than its successors.
LEMMA TokenOrder ==
  ASSUME NEW t, t.gen \in Nat, t.epoch \in Nat, NEW u, u.gen \in Nat, u.epoch \in Nat,
         NEW v, v.gen \in Nat, v.epoch \in Nat, ~Newer(t, u), Newer(v, u)
  PROVE  ~Newer(t, v)
BY DEF Newer

\* A natural number is an integer.
LEMMA NatIsInt == \A n \in Nat : n \in Int
OBVIOUS

\* NewDeadline takes the lesser of two times.
LEMMA LesserTime ==
  \A a, x, e, t \in Int :
    LET d == x + e - t
        m == IF a < d THEN a ELSE d
    IN  m \in Int /\ m <= a /\ m <= x + (e - t)
OBVIOUS

\* A sum of integers is an integer.
LEMMA SumIsInt == \A m, n \in Int : m + n \in Int /\ m - n \in Int /\ (m + n) - m = n
OBVIOUS
-----------------------------------------------------------------------------
USE DEF env, db, term, obs, ident, history

\* The initial state is well typed.
LEMMA TypeInit == Init => TypeOK
BY ConstantsAssumption DEF Init, TypeOK, EnvironmentOK, RowOK, ControlOK,
   ObservationOK, TermOK, Passive, Term

\* Time and the DCS stay in their types.
LEMMA EnvironmentStep == TypeOK /\ [Next]_vars => EnvironmentOK'
<1> SUFFICES ASSUME EnvironmentOK, [Next]_vars PROVE EnvironmentOK'
  BY Zenon DEF TypeOK
<1> USE ConstantsAssumption
<1>1. CASE Tick \/ LeaderKeepAlive
  BY <1>1 DEF Tick, LeaderKeepAlive, EnvironmentOK
<1>2. ASSUME NEW s \in Servers, Elect(s) PROVE EnvironmentOK'
  BY <1>2 DEF Elect, EnvironmentOK
<1>3. ASSUME NEW c \in Clusters, NEW g \in 1..MaxGen, RebuildDCS(c, g)
      PROVE  EnvironmentOK'
  BY <1>3 DEF RebuildDCS, EnvironmentOK
<1>4. CASE UNCHANGED <<now, env>>
  BY Zenon, <1>4 DEF EnvironmentOK
<1> QED
  BY Zenon, <1>1, <1>2, <1>3, <1>4
  DEF Next, Environment, Coordinator, Replicate, ExecOrphan, vars

\* Time never runs backwards.
LEMMA TimeStep == TypeOK /\ [Next]_vars => now' >= now
<1> SUFFICES ASSUME TypeOK, [Next]_vars PROVE now' >= now
  OBVIOUS
<1>1. now \in Nat
  BY Zenon DEF TypeOK, EnvironmentOK
<1>2. UNCHANGED now \/ now' = now + 1
  BY Zenon DEF Next, Environment, Coordinator, Tick, LeaderKeepAlive, Elect, RebuildDCS,
     Replicate, ExecOrphan, vars
<1> QED
  BY <1>1, <1>2

\* A statement returns the expiry of the row and the time it ran at.
LEMMA ReturnedTimes ==
  \A row : Returned(row).exp = row.exp /\ Returned(row).dbTime = DatabaseTime
BY Zenon DEF Returned

\* A row is there, and what a statement returns of it is its term.
LEMMA ReturnedTerm ==
  ASSUME NEW row \in Row
  PROVE  /\ row # NoLease /\ row.epoch \in Nat
         /\ SameTerm(row, Returned(row)) /\ Returned(row).epoch = row.epoch
         /\ Returned(row).cluster = row.cluster /\ Returned(row).gen = row.gen
<1>1. row # NoLease
  BY DEF Row, NoLease
<1>2. row.epoch \in Nat
  BY Zenon DEF Row
<1>3. /\ Returned(row).epoch = row.epoch /\ Returned(row).holder = row.holder
      /\ Returned(row).cluster = row.cluster /\ Returned(row).gen = row.gen
  BY DEF Returned
<1> QED
  BY Zenon, <1>1, <1>2, <1>3 DEF SameTerm

\* What a statement makes of the row, and what it returns.
LEMMA RowTypes ==
  ASSUME TypeOK
  PROVE  /\ DatabaseTime \in Int
         /\ \A c \in Statement : AcquiredRow(c) \in Row
         /\ lease # NoLease =>
              /\ RenewedRow \in Row
              /\ RenewedRow = [cluster |-> lease.cluster, gen |-> lease.gen,
                               epoch |-> lease.epoch, holder |-> lease.holder,
                               exp |-> DatabaseTime + LeaseDuration]
         /\ \A r \in Row : Returned(r) \in Ownership
         /\ \A c \in Statement : Effect(c) \in Row \cup {NoLease}
<1>1. DatabaseTime \in Int /\ LeaseDuration \in Int
  BY ConstantsAssumption DEF TypeOK, EnvironmentOK, DatabaseTime
<1>2. lease \in Row \cup {NoLease}
  BY Zenon DEF TypeOK, RowOK
<1>3. lease.epoch \in Nat
  BY <1>2 DEF Row, NoLease
<1>4. \A c \in Statement : AcquiredRow(c) \in Row
  BY <1>1, <1>2, <1>3 DEF AcquiredRow, Statement, Row
<1>5. ASSUME lease \in Row
      PROVE  /\ RenewedRow \in Row
             /\ RenewedRow = [cluster |-> lease.cluster, gen |-> lease.gen,
                              epoch |-> lease.epoch, holder |-> lease.holder,
                              exp |-> DatabaseTime + LeaseDuration]
  <2>1. RenewedRow = [cluster |-> lease.cluster, gen |-> lease.gen,
                      epoch |-> lease.epoch, holder |-> lease.holder,
                      exp |-> DatabaseTime + LeaseDuration]
    BY <1>5 DEF RenewedRow, Row
  <2> QED
    BY <1>1, <1>5, <2>1 DEF Row
<1>6. \A r \in Row : Returned(r) \in Ownership
  BY Zenon, <1>1 DEF Returned, Row, Ownership
<1>7. \A c \in Statement : Effect(c) \in Row \cup {NoLease}
  BY Zenon, <1>2, <1>4, <1>5 DEF Effect, CanRenew
<1> QED
  BY Zenon, <1>1, <1>2, <1>4, <1>5, <1>6, <1>7

\* The row, its replica and abandoned statements stay in their types.
LEMMA RowStep == IInv /\ [Next]_vars => RowOK'
<1> SUFFICES ASSUME IInv, [Next]_vars PROVE RowOK'
  OBVIOUS
<1>0. TypeOK /\ RowOK
  BY Zenon DEF IInv, TypeOK
<1>1. ASSUME NEW c \in Statement, lease' = Effect(c), UNCHANGED replica,
             orphans' \subseteq orphans
      PROVE  RowOK'
  BY Zenon, <1>0, <1>1, RowTypes DEF RowOK
<1>2. ASSUME UNCHANGED <<lease, replica>>, orphans' \subseteq Statement PROVE RowOK'
  BY Zenon, <1>0, <1>2 DEF RowOK
<1>3. ASSUME NEW p \in Procs, MayOrphan(p) PROVE orphans' \subseteq Statement
  BY Zenon, <1>0, <1>3 DEF MayOrphan, RowOK, TypeOK, ObservationOK
<1>4. CASE Environment
  <2>1. ASSUME NEW c \in orphans, ExecOrphan(c) PROVE RowOK'
    BY Zenon, <1>0, <1>1, <2>1 DEF ExecOrphan, RowOK
  <2>2. CASE Tick \/ LeaderKeepAlive \/ \E c \in Clusters, g \in 1..MaxGen : RebuildDCS(c, g)
    BY Zenon, <1>0, <1>2, <2>2 DEF Tick, LeaderKeepAlive, RebuildDCS, RowOK
  <2>3. CASE Replicate \/ \E s \in Servers : Elect(s)
    BY Zenon, <1>0, <2>3 DEF Replicate, Elect, RowOK
  <2> QED
    BY Zenon, <1>4, <2>1, <2>2, <2>3 DEF Environment
<1>5. ASSUME NEW p \in Procs, Coordinator(p) PROVE RowOK'
  <2>0. UNCHANGED replica /\ Locals(p)
    BY Zenon, <1>5 DEF Coordinator, IInv
  <2>1. CASE ExecAcquire(p)
    <3>1. call[p] \in Statement /\ call[p].kind = "acquire"
      BY Zenon, <2>0, <2>1 DEF ExecAcquire, Locals, Calling
    <3>2. lease' = Effect(call[p]) /\ UNCHANGED orphans
      BY Zenon, <2>1, <3>1 DEF ExecAcquire, Effect
    <3> QED
      BY Zenon, <1>1, <2>0, <3>1, <3>2
  <2>2. CASE ExecRenew(p)
    <3>1. call[p] \in Statement /\ call[p].kind = "renew"
      BY Zenon, <2>0, <2>2 DEF ExecRenew, Locals, Calling
    <3>2. lease' = Effect(call[p]) /\ UNCHANGED orphans
      BY Zenon, <2>2, <3>1 DEF ExecRenew, Effect
    <3> QED
      BY Zenon, <1>1, <2>0, <3>1, <3>2
  <2>3. CASE UNCHANGED lease /\ MayOrphan(p)
    BY Zenon, <1>2, <1>3, <2>0, <2>3
  <2> QED
    BY <1>5, <2>1, <2>2, <2>3, Zenon DEF Coordinator, Start, Stop, Exit, ObserveLeader,
       SendAcquire, SendActivation, SendRenew, ConfirmLeader, ReadLeaseTTL, Activate,
       UpdateActive, TimelineMismatch, FailObservation, FailCandidate,
       FailRenewal, OwnershipEnded, TimerFires, TimerCallback, MayOrphan
<1>6. CASE UNCHANGED vars
  BY Zenon, <1>0, <1>2, <1>6 DEF vars, RowOK
<1> QED
  BY Zenon, <1>4, <1>5, <1>6 DEF Next

\* Control state, holder IDs and history stay in their types, and no two
\* running processes ever share a holder ID.
LEMMA ControlStep == IInv /\ [Next]_vars => ControlOK' /\ Holders'
<1> SUFFICES ASSUME ControlOK, Holders, IInv, [Next]_vars
             PROVE  ControlOK' /\ Holders'
  BY Zenon DEF IInv, TypeOK
<1> USE DEF ControlOK, Holders, Passive, Renewing
<1>1. CASE UNCHANGED <<history, pc, ident>>
  BY Zenon, <1>1
<1>2. ASSUME NEW p \in Procs, pc[p] # "stopped", UNCHANGED <<history, ident>>,
             NEW t \in Passive \cup Renewing \cup {"held"}, t # "stopped",
             pc' = [pc EXCEPT ![p] = t]
      PROVE  ControlOK' /\ Holders'
  BY Zenon, <1>2
<1>3. ASSUME NEW p \in Procs, Exit(p) PROVE ControlOK' /\ Holders'
  BY <1>3 DEF Exit
<1>4. ASSUME NEW p \in Procs, Start(p) PROVE ControlOK' /\ Holders'
  BY <1>4 DEF Start
<1>5. ASSUME NEW p \in Procs, FailCandidate(p) PROVE ControlOK' /\ Holders'
  <2>1. candidate[p] + RetryInterval \in Int
    BY ConstantsAssumption DEF IInv, TypeOK, ObservationOK
  <2> QED
    BY <1>5, <2>1 DEF FailCandidate
<1>6. ASSUME NEW p \in Procs, Activate(p) PROVE ControlOK' /\ Holders'
  <2>1. got[p] \in Ownership
    BY Zenon, <1>6 DEF Activate, IInv, Locals, Won
  <2>2. [gen |-> got[p].gen, epoch |-> got[p].epoch] \in Term /\ got[p].holder \in Nat
    BY Zenon, <2>1 DEF Ownership, Term
  <2>3. /\ lastTerm' \in [Clusters -> Term] /\ lastHolder' \in Nat
        /\ UNCHANGED ident /\ pc' = [pc EXCEPT ![p] = "held"] /\ pc[p] = "renewed"
    BY Zenon, <1>6, <2>2 DEF Activate
  <2> QED
    BY Zenon, <2>3
<1> HIDE DEF ControlOK, Holders
<1>7. ASSUME NEW p \in Procs, Coordinator(p) PROVE ControlOK' /\ Holders'
  <2>1. CASE Stop(p) \/ FailRenewal(p) \/ OwnershipEnded(p)
    BY Zenon, <1>3, <2>1 DEF Stop, FailRenewal, OwnershipEnded
  <2>2. CASE TimerFires(p) \/ \E v \in fired[p] : TimerCallback(p, v)
    BY Zenon, <1>1, <2>2 DEF TimerFires, TimerCallback
  <2>3. CASE ObserveLeader(p)
    BY Zenon, <1>2, <2>3 DEF ObserveLeader
  <2>4. CASE SendAcquire(p) \/ SendActivation(p) \/ SendRenew(p)
    BY Zenon, <1>2, <2>4 DEF SendAcquire, SendActivation, SendRenew
  <2>5. CASE ExecAcquire(p) \/ ExecRenew(p)
    BY Zenon, <1>2, <2>5 DEF ExecAcquire, ExecRenew
  <2>6. CASE ConfirmLeader(p) \/ ReadLeaseTTL(p)
    BY Zenon, <1>2, <2>6 DEF ConfirmLeader, ReadLeaseTTL
  <2>7. CASE UpdateActive(p) \/ TimelineMismatch(p) \/ FailObservation(p)
    BY Zenon, <1>2, <2>7 DEF UpdateActive, TimelineMismatch, FailObservation
  <2> QED
    BY Zenon, <1>4, <1>5, <1>6, <1>7, <2>1, <2>2, <2>3, <2>4, <2>5, <2>6, <2>7
    DEF Coordinator
<1> QED
  BY Zenon, <1>1, <1>7 DEF Next, Environment, vars

\* The locals of tryAcquire and renewActive stay in their types.
LEMMA ObservationStep == IInv /\ [Next]_vars => ObservationOK'
<1> SUFFICES ASSUME IInv, TypeOK, ObservationOK, [Next]_vars
             PROVE  ObservationOK'
  BY Zenon DEF IInv, TypeOK
<1>0. now \in Nat /\ leaderExp \in Nat /\ LeaseDuration \in Int /\ DatabaseTime \in Int
  BY ConstantsAssumption, RowTypes DEF TypeOK, EnvironmentOK
<1>1. CASE UNCHANGED obs
  BY Zenon, <1>1 DEF ObservationOK
<1>2. ASSUME NEW p \in Procs, ClearObs(p) PROVE ObservationOK'
  BY <1>2 DEF ClearObs, ObservationOK
<1>3. ASSUME NEW p \in Procs, Coordinator(p) PROVE ObservationOK'
  <2>0. Locals(p)
    BY Zenon DEF IInv
  <2>1. CASE ObserveLeader(p)
    <3>1. [cluster |-> cluster, gen |-> gens[cluster], server |-> writer.server]
            \in Snapshot
      BY Zenon DEF TypeOK, EnvironmentOK, Snapshot
    <3>2. own[p] \in Ownership \cup {NoOwnership}
      BY Zenon DEF TypeOK, TermOK
    <3> QED
      BY Zenon, <2>1, <3>1, <3>2 DEF ObserveLeader, ObservationOK
  <2>2. ASSUME NEW k \in {"acquire", "renew"}, NEW o, o.cluster \in Clusters,
               o.gen \in Nat, o.epoch \in Nat, o.holder \in Nat, Send(p, k, o)
        PROVE  call' \in [Procs -> Statement \cup {NoStatement}]
    <3>1. [kind |-> k, cluster |-> o.cluster, gen |-> o.gen, epoch |-> o.epoch,
           holder |-> o.holder, server |-> writer.server,
           timeline |-> writer.timeline] \in Statement
      BY Zenon, <2>2 DEF TypeOK, EnvironmentOK, Statement
    <3> QED
      BY Zenon, <2>2, <3>1 DEF Send, ObservationOK
  <2>3. CASE SendAcquire(p)
    <3>1. snap[p] \in Snapshot /\ holder[p] \in Nat
      BY Zenon, <2>0, <2>3 DEF SendAcquire, Locals, Observing, TypeOK, ControlOK
    <3> QED
      BY Zenon, <2>2, <2>3, <3>1 DEF SendAcquire, ObservationOK, Snapshot
  <2>4. CASE SendActivation(p) \/ SendRenew(p)
    <3>1. got[p] \in Ownership
      BY Zenon, <2>0, <2>4 DEF SendActivation, SendRenew, Locals, Won, Renewing
    <3>2. call' \in [Procs -> Statement \cup {NoStatement}]
      BY Zenon, <2>2, <2>4, <3>1 DEF SendActivation, SendRenew, Ownership
    <3> QED
      BY Zenon, <1>0, <2>4, <3>2 DEF SendActivation, SendRenew, ObservationOK
  <2>5. CASE ExecAcquire(p)
    <3>1. call[p] \in Statement
      BY Zenon, <2>0, <2>5 DEF ExecAcquire, Locals, Calling
    <3>2. AcquiredRow(call[p]) \in Row /\ Returned(AcquiredRow(call[p])) \in Ownership
      BY Zenon, <3>1, RowTypes
    <3>3. now + (AcquiredRow(call[p]).exp - DatabaseTime) \in Int
      BY <1>0, <3>2 DEF Row
    <3> QED
      BY <1>2, <2>5, <3>2, <3>3 DEF ExecAcquire, ObservationOK
  <2>6. CASE ExecRenew(p)
    <3>1. Returned(RenewedRow) \in Ownership
      BY Zenon, <2>6, RowTypes DEF ExecRenew, CanRenew
    <3> QED
      BY <1>0, <2>6, <3>1 DEF ExecRenew, ObservationOK
  <2>7. CASE ConfirmLeader(p) \/ ReadLeaseTTL(p)
    BY <1>0, <2>7 DEF ConfirmLeader, ReadLeaseTTL, ObservationOK
  <2>8. CASE UNCHANGED obs \/ ClearObs(p)
    BY Zenon, <1>1, <1>2, <2>8
  <2> QED
    BY <1>3, <2>1, <2>3, <2>4, <2>5, <2>6, <2>7, <2>8, Zenon DEF Coordinator, Start,
       Stop, Exit, Activate, UpdateActive, TimelineMismatch, FailObservation,
       FailCandidate, FailRenewal, OwnershipEnded, TimerFires, TimerCallback
<1> QED
  BY Zenon, <1>1, <1>3 DEF Next, Environment, vars

\* The term and its timer stay in their types.
LEMMA TermStep == IInv /\ [Next]_vars => TermOK'
<1> SUFFICES ASSUME IInv, TermOK, [Next]_vars PROVE TermOK'
  BY Zenon DEF IInv, TypeOK
<1>1. CASE UNCHANGED term
  BY Zenon, <1>1 DEF TermOK
<1>2. ASSUME NEW p \in Procs, Coordinator(p) PROVE TermOK'
  <2>1. ASSUME Exit(p) PROVE TermOK'
    BY <2>1 DEF Exit, TermOK
  <2>2. CASE Activate(p) \/ UpdateActive(p)
    <3>1. got[p] \in Ownership /\ proof[p] \in Int /\ started[p] \in Nat
      BY Zenon, <2>2 DEF Activate, UpdateActive, IInv, Locals, Won, Renewing, TypeOK, ObservationOK
    <3>2. NewDeadline(p) \in Int
      BY <3>1 DEF NewDeadline, Ownership
    <3>3. /\ active' \in [Procs -> BOOLEAN]
          /\ own' \in [Procs -> Ownership \cup {NoOwnership}]
          /\ UNCHANGED fired /\ ResetLeaseTimer(p, NewDeadline(p))
      BY Zenon, <2>2, <3>1 DEF Activate, UpdateActive, TermOK
    <3> QED
      BY <3>2, <3>3 DEF ResetLeaseTimer, TermOK
  <2>3. CASE TimerFires(p)
    BY ZenonT(30), <2>3 DEF TimerFires, TermOK
  <2>4. ASSUME NEW v \in fired[p], TimerCallback(p, v) PROVE TermOK'
    <3>1. fired' \in [Procs -> SUBSET Nat]
      BY Zenon, <2>4 DEF TimerCallback, TermOK
    <3>2. Deactivate(p) \/ UNCHANGED <<active, own, deadline, leaseVersion, armed>>
      BY Zenon, <2>4 DEF TimerCallback
    <3>3. CASE Deactivate(p)
      BY <3>1, <3>3 DEF Deactivate, TermOK
    <3> QED
      BY Zenon, <3>1, <3>2, <3>3 DEF TermOK
  <2> QED
    BY <1>1, <1>2, <2>1, <2>2, <2>3, <2>4, Zenon DEF Coordinator, Start, Stop,
       ObserveLeader, SendAcquire, SendActivation, SendRenew, ExecAcquire, ExecRenew,
       ConfirmLeader, ReadLeaseTTL, TimelineMismatch, FailObservation,
       FailCandidate, FailRenewal, OwnershipEnded
<1> QED
  BY Zenon, <1>1, <1>2 DEF Next, Environment, vars

\* No step leaves the types.
LEMMA TypeStep == IInv /\ [Next]_vars => TypeOK'
BY Zenon, EnvironmentStep, RowStep, ControlStep, ObservationStep, TermStep DEF TypeOK, IInv
-----------------------------------------------------------------------------
(* What a coordinator's locals say about its control state, and about the   *)
(* generations of the DCS, is kept by every step of FleetLease.            *)

\* The state of one coordinator.
Mine(q) == <<pc[q], holder[q], snap[q], call[q], got[q], started[q], proof[q],
             active[q], own[q], deadline[q]>>

\* A step of one coordinator leaves the others alone.
LEMMA Others ==
  ASSUME TypeOK, NEW p \in Procs, Coordinator(p), NEW q \in Procs, q # p
  PROVE  UNCHANGED Mine(q)
<1> DEFINE Control == <<pc[q], holder[q]>>
           Locs == <<snap[q], call[q], got[q], started[q], proof[q]>>
           Trm == <<active[q], own[q], deadline[q]>>
<1> SUFFICES UNCHANGED Control /\ UNCHANGED Locs /\ UNCHANGED Trm
  BY Zenon DEF Mine
<1>1. ClearObs(p) => UNCHANGED Locs
  BY Zenon DEF ClearObs, TypeOK, ObservationOK
<1>2. UNCHANGED Control
  <2> USE DEF TypeOK, ControlOK
  <2>1. CASE UNCHANGED <<pc, holder>> \/ \E t : pc' = [pc EXCEPT ![p] = t] /\ UNCHANGED holder
    BY Zenon, <2>1
  <2>2. CASE Exit(p) \/ Start(p) \/ FailCandidate(p)
    BY Zenon, <2>2 DEF Exit, Start, FailCandidate
  <2> HIDE DEF TypeOK, ControlOK
  <2> QED
    BY <2>1, <2>2, Zenon DEF Coordinator, Stop, ObserveLeader, SendAcquire, ExecAcquire,
       ConfirmLeader, ReadLeaseTTL, SendActivation, Activate, SendRenew, ExecRenew,
       UpdateActive, TimelineMismatch, FailObservation, FailRenewal,
       OwnershipEnded, TimerFires, TimerCallback
<1>3. UNCHANGED Locs
  <2> USE DEF TypeOK, ObservationOK
  <2>1. CASE ObserveLeader(p) \/ ExecRenew(p)
    BY Zenon, <2>1 DEF ObserveLeader, ExecRenew
  <2>2. CASE SendAcquire(p) \/ SendActivation(p) \/ SendRenew(p)
    BY Zenon, <2>2 DEF SendAcquire, SendActivation, SendRenew, Send
  <2>3. CASE ExecAcquire(p)
    BY Zenon, <1>1, <2>3 DEF ExecAcquire
  <2>4. CASE ConfirmLeader(p) \/ ReadLeaseTTL(p)
    BY Zenon, <2>4 DEF ConfirmLeader, ReadLeaseTTL
  <2>5. CASE UNCHANGED obs
    BY Zenon, <2>5
  <2> HIDE DEF TypeOK, ObservationOK, Locs
  <2> QED
    BY <1>1, <2>1, <2>2, <2>3, <2>4, <2>5, Zenon DEF Coordinator, Start, Stop, Exit,
       Activate, UpdateActive, TimelineMismatch, FailObservation, FailCandidate,
       FailRenewal, OwnershipEnded, TimerFires, TimerCallback
<1>4. UNCHANGED Trm
  <2> USE DEF TypeOK, TermOK
  <2>1. CASE Exit(p)
    BY Zenon, <2>1 DEF Exit
  <2>2. CASE Activate(p) \/ UpdateActive(p)
    BY Zenon, <2>2 DEF Activate, UpdateActive, ResetLeaseTimer
  <2>3. CASE UNCHANGED <<active, own, deadline>> \/ Deactivate(p)
    BY Zenon, <2>3 DEF Deactivate
  <2> HIDE DEF TypeOK, TermOK, Trm
  <2> QED
    BY <2>1, <2>2, <2>3, Zenon DEF Coordinator, Start, Stop, ObserveLeader, SendAcquire,
       SendActivation, SendRenew, ExecAcquire, ExecRenew, ConfirmLeader,
       ReadLeaseTTL, TimelineMismatch, FailObservation, FailCandidate,
       FailRenewal, OwnershipEnded, TimerFires, TimerCallback
<1> QED
  BY Zenon, <1>2, <1>3, <1>4

\* What a coordinator knows stays true while others act and time passes.
LEMMA LocalsFrame ==
  ASSUME TypeOK, NEW q \in Procs, Locals(q), UNCHANGED Mine(q),
         now' \in Nat, now' >= now
  PROVE  Locals(q)'
<1>1. started[q] \in Nat /\ proof[q] \in Int /\ now \in Nat
  BY Zenon DEF TypeOK, EnvironmentOK, ObservationOK
<1> QED
  BY <1>1 DEF Locals, Mine, SameWriter, SameTerm, Observing, Won, Answered, Ready,
     Calling, Renewing

\* Every step of a coordinator keeps its locals as its control state says.
LEMMA LocalsStep == IInv /\ [Next]_vars => \A q \in Procs : Locals(q)'
<1> SUFFICES ASSUME IInv, [Next]_vars
             PROVE  \A q \in Procs : Locals(q)'
  OBVIOUS
<1>0. TypeOK /\ \A q \in Procs : Locals(q)
  BY Zenon DEF IInv
<1>1. CASE UNCHANGED <<history, pc, ident, obs, term>>
  <2>1. now' \in Nat /\ now' >= now
    BY Zenon, <1>0, EnvironmentStep, TimeStep DEF EnvironmentOK
  <2>2. \A q \in Procs : UNCHANGED Mine(q)
    BY Zenon, <1>1 DEF Mine
  <2> QED
    BY Zenon, <1>0, <2>1, <2>2, LocalsFrame
<1>2. ASSUME NEW p \in Procs, Coordinator(p) PROVE \A q \in Procs : Locals(q)'
  <2>0. /\ UNCHANGED now /\ now \in Nat /\ Locals(p)
        /\ proof[p] \in Int /\ started[p] \in Nat /\ holder[p] \in Nat
    BY Zenon, <1>0, <1>2 DEF Coordinator, TypeOK, EnvironmentOK, ObservationOK, ControlOK
  <2>D. /\ DOMAIN pc = Procs /\ DOMAIN snap = Procs /\ DOMAIN call = Procs
        /\ DOMAIN got = Procs /\ DOMAIN started = Procs /\ DOMAIN proof = Procs
        /\ DOMAIN active = Procs /\ DOMAIN own = Procs
    BY Zenon, <1>0 DEF TypeOK, ControlOK, ObservationOK, TermOK
  <2>1. ASSUME NEW q \in Procs, q # p PROVE Locals(q)'
    BY <1>0, <1>2, <2>0, <2>1, Others, LocalsFrame
  <2>2. Locals(p)'
    <3> USE DEF Renewing, Observing, Won, Answered, Ready, Calling
    <3>1. ASSUME ClearObs(p), pc'[p] \in {"idle", "stopped", "held"},
                 active'[p] => pc'[p] = "held" /\ own'[p] \in Ownership
                               /\ own'[p].holder = holder'[p]
          PROVE  Locals(p)'
      <4>1. call'[p] = NoStatement /\ started'[p] = 0
        BY Zenon, <2>D, <3>1 DEF ClearObs
      <4> QED
        BY <2>0, <3>1, <4>1 DEF Locals
    <3>2. CASE Start(p)
      <4>1. /\ pc[p] = "stopped" /\ pc'[p] = "idle"
            /\ UNCHANGED <<call, started, active>>
        BY Zenon, <2>D, <3>2 DEF Start
      <4> QED
        BY Zenon, <2>0, <4>1 DEF Locals
    <3>3. CASE Stop(p) \/ FailRenewal(p) \/ OwnershipEnded(p)
      <4>1. ClearObs(p) /\ pc'[p] = "stopped" /\ ~active'[p]
        BY Zenon, <2>D, <3>3 DEF Stop, FailRenewal, OwnershipEnded, Exit
      <4> QED
        BY Zenon, <3>1, <4>1
    <3>4. CASE ObserveLeader(p)
      <4>1. snap'[p] \in Snapshot
        BY Zenon, <1>0, <3>4 DEF ObserveLeader, TypeOK, EnvironmentOK, ObservationOK, Snapshot
      <4>2. /\ \/ pc[p] = "idle" /\ pc'[p] = "identify" /\ UNCHANGED got
               \/ pc[p] = "held" /\ active[p] /\ pc'[p] = "rIdentify" /\ got'[p] = own[p]
            /\ UNCHANGED <<holder, call, started, active, own>>
        BY Zenon, <2>D, <3>4 DEF ObserveLeader
      <4> QED
        BY Zenon, <2>0, <4>1, <4>2 DEF Locals
    <3>5. CASE SendAcquire(p)
      <4>1. /\ pc[p] = "identify" /\ pc'[p] = "acquire"
            /\ call'[p].kind = "acquire" /\ call'[p].cluster = snap[p].cluster
            /\ call'[p].gen = snap[p].gen /\ call'[p].holder = holder[p]
            /\ UNCHANGED <<snap, holder, started, active, own>>
        BY Zenon, <2>D, <3>5 DEF SendAcquire, Send
      <4>2. call'[p] \in Statement \cup {NoStatement}
        BY Zenon, ObservationStep DEF ObservationOK
      <4>3. call'[p] # NoStatement
        BY <4>1 DEF NoStatement
      <4> QED
        BY Zenon, <2>0, <4>1, <4>2, <4>3 DEF Locals
    <3>6. CASE ExecAcquire(p)
      <4>1. /\ call[p] \in Statement /\ pc[p] = "acquire" /\ ~active[p]
            /\ call[p].holder = holder[p] /\ snap[p] \in Snapshot
            /\ call[p].cluster = snap[p].cluster /\ call[p].gen = snap[p].gen
        BY Zenon, <2>0, <3>6 DEF ExecAcquire, Locals
      <4>2. CASE CanAcquire(call[p])
        <5>1. /\ AcquiredRow(call[p]) \in Row
              /\ AcquiredRow(call[p]).holder = call[p].holder
              /\ AcquiredRow(call[p]).cluster = call[p].cluster
              /\ AcquiredRow(call[p]).gen = call[p].gen
          BY Zenon, <1>0, <4>1, <4>2, RowTypes DEF CanAcquire, AcquiredRow, RetriesLiveTerm
        <5>2. /\ got'[p] = Returned(AcquiredRow(call[p])) /\ pc'[p] = "confirm"
              /\ call'[p] = NoStatement /\ UNCHANGED <<snap, holder, started, active>>
          BY Zenon, <2>D, <3>6, <4>2 DEF ExecAcquire
        <5>3. /\ got'[p] \in Ownership /\ got'[p].holder = holder[p]
              /\ got'[p].cluster = snap[p].cluster /\ got'[p].gen = snap[p].gen
          BY <1>0, <4>1, <5>1, <5>2, RowTypes DEF Returned
        <5> QED
          BY Zenon, <2>0, <4>1, <5>2, <5>3 DEF Locals, SameWriter
      <4>3. CASE ~CanAcquire(call[p])
        BY Zenon, <2>D, <3>1, <3>6, <4>1, <4>3 DEF ExecAcquire
      <4> QED
        BY Zenon, <4>2, <4>3
    <3>7. CASE ConfirmLeader(p) \/ ReadLeaseTTL(p)
      <4>1. /\ \/ pc[p] = "confirm" /\ pc'[p] = "ttl" /\ proof'[p] = now
               \/ pc[p] = "rConfirm" /\ pc'[p] = "rTTL" /\ proof'[p] = now
               \/ pc[p] = "ttl" /\ pc'[p] = "proved"
               \/ pc[p] = "rTTL" /\ pc'[p] = "rProved"
            /\ UNCHANGED <<snap, got, holder, call, started, active, own>>
        BY Zenon, <2>D, <3>7 DEF ConfirmLeader, ReadLeaseTTL
      <4> QED
        BY <2>0, <4>1 DEF Locals, SameWriter
    <3>8. ASSUME Send(p, "renew", got[p]), SameWriter(p), started'[p] = now,
                 \/ pc[p] = "proved" /\ pc'[p] = "activate"
                 \/ pc[p] = "rIdentify" /\ pc'[p] = "renew",
                 UNCHANGED <<snap, got, holder, active, own>>
          PROVE  Locals(p)'
      <4>1. call'[p].kind = "renew" /\ SameTerm(call'[p], got[p])
        BY Zenon, <2>D, <3>8 DEF Send, SameTerm
      <4>2. call'[p] \in Statement \cup {NoStatement}
        BY Zenon, ObservationStep DEF ObservationOK
      <4>3. call'[p] # NoStatement
        BY <4>1 DEF NoStatement
      <4>4. call'[p].holder = holder[p]
        BY Zenon, <2>0, <3>8, <4>1 DEF Locals, SameTerm
      <4> QED
        BY <2>0, <3>8, <4>1, <4>2, <4>3, <4>4 DEF Locals, SameWriter, SameTerm
    <3>81. CASE SendActivation(p)
      <4>1. SameWriter(p)
        BY Zenon, <2>0, <3>81 DEF SendActivation, Locals
      <4> QED
        BY Zenon, <2>D, <3>8, <3>81, <4>1 DEF SendActivation
    <3>82. CASE SendRenew(p)
      BY Zenon, <2>D, <3>8, <3>82 DEF SendRenew
    <3>9. CASE ExecRenew(p)
      <4>1. /\ got'[p] = Returned(RenewedRow) /\ call'[p] = NoStatement
            /\ \/ pc[p] = "activate" /\ pc'[p] = "renewed"
               \/ pc[p] = "renew" /\ pc'[p] = "rConfirm"
            /\ CanRenew(call[p])
            /\ UNCHANGED <<snap, holder, started, active, own>>
        BY Zenon, <2>D, <3>9 DEF ExecRenew
      <4>2. lease \in Row /\ DatabaseTime \in Int /\ LeaseDuration \in Int
        BY <1>0, <4>1, RowTypes, ConstantsAssumption DEF CanRenew, TypeOK, RowOK
      <4>3. /\ got'[p].holder = lease.holder /\ got'[p].cluster = lease.cluster
            /\ got'[p].gen = lease.gen /\ got'[p].exp - got'[p].dbTime = LeaseDuration
        BY <1>0, <4>1, <4>2, RowTypes DEF Returned, CanRenew
      <4>4. got'[p] \in Ownership
        BY Zenon, <1>0, <4>1, RowTypes DEF CanRenew
      <4>5. /\ lease.holder = holder[p]
            /\ lease.cluster = snap[p].cluster /\ lease.gen = snap[p].gen
        BY Zenon, <2>0, <4>1 DEF Locals, CanRenew, SameTerm, SameWriter
      <4> QED
        BY Zenon, <2>0, <4>1, <4>3, <4>4, <4>5 DEF Locals, SameWriter
    <3>10. CASE Activate(p) \/ UpdateActive(p)
      <4>1. /\ pc[p] \in Ready /\ ClearObs(p) /\ pc'[p] = "held"
            /\ own'[p] = got[p] /\ UNCHANGED holder
        BY Zenon, <2>D, <3>10 DEF Activate, UpdateActive
      <4> QED
        BY Zenon, <2>0, <3>1, <4>1 DEF Locals
    <3>11. CASE TimelineMismatch(p)
      BY Zenon, <2>D, <2>0, <3>1, <3>11 DEF TimelineMismatch, Locals
    <3>12. CASE FailObservation(p) \/ FailCandidate(p)
      <4>1. ClearObs(p) /\ pc'[p] = "idle" /\ UNCHANGED active /\ ~active[p]
        BY Zenon, <2>D, <2>0, <3>12 DEF FailObservation, FailCandidate, Locals
      <4> QED
        BY Zenon, <3>1, <4>1
    <3>13. CASE TimerFires(p) \/ \E v \in fired[p] : TimerCallback(p, v)
      <4>1. /\ ~active'[p] \/ UNCHANGED <<active, own>>
            /\ UNCHANGED <<pc, ident, obs>>
        BY Zenon, <2>D, <3>13 DEF TimerFires, TimerCallback, Deactivate
      <4> QED
        BY Zenon, <2>0, <4>1 DEF Locals, SameWriter, SameTerm
    <3> QED
      BY ZenonT(30), <1>2, <3>2, <3>3, <3>4, <3>5, <3>6, <3>7, <3>81, <3>82, <3>9,
         <3>10, <3>11, <3>12, <3>13, Zenon
      DEF Coordinator
  <2> QED
    BY Zenon, <2>1, <2>2
<1> QED
  BY <1>1, <1>2, Zenon DEF Next, Environment, vars
-----------------------------------------------------------------------------
(* Ownership of the row and mutual exclusion.                              *)

\* The numbers of a coordinator, and what NewDeadline is bounded by.
LEMMA Numbers ==
  ASSUME TypeOK, NEW p \in Procs
  PROVE  /\ now \in Int /\ leaderExp \in Int /\ Skew[writer.server] \in Int
         /\ started[p] \in Int /\ proof[p] \in Int /\ deadline[p] \in Int
         /\ LeaseDuration \in Int
         /\ lease # NoLease => lease \in Row /\ lease.exp \in Int
         /\ got[p] \in Ownership =>
              /\ NewDeadline(p) \in Int /\ NewDeadline(p) <= proof[p]
              /\ NewDeadline(p) <= started[p] + (got[p].exp - got[p].dbTime)
<1>1. /\ now \in Nat /\ leaderExp \in Nat /\ writer.server \in Servers
      /\ started[p] \in Nat /\ proof[p] \in Int /\ deadline[p] \in Int
  BY Zenon DEF TypeOK, EnvironmentOK, ObservationOK, TermOK
<1>2. lease # NoLease => lease \in Row /\ lease.exp \in Int
  BY Zenon DEF TypeOK, RowOK, Row
<1>3. got[p] \in Ownership => got[p].exp \in Int /\ got[p].dbTime \in Int
  BY Zenon DEF Ownership
<1> QED
  BY <1>1, <1>2, <1>3, ConstantsAssumption DEF NewDeadline

\* Generations only grow, and a DCS cluster that comes up is a fresh one.
LEMMA GensStep ==
  ASSUME TypeOK, Generations, [Next]_vars
  PROVE  /\ \A c \in Clusters : gens'[c] \in Nat /\ gens'[c] >= gens[c]
         /\ gens'[cluster'] > 0
         /\ leaderExp' <= now' + LeaderTTL
         /\ now' \in Nat /\ now' >= now
         /\ cluster' # cluster => gens[cluster'] = 0
<1> DEFINE Later == /\ \A c \in Clusters : gens'[c] \in Nat /\ gens'[c] >= gens[c]
                    /\ gens'[cluster'] > 0
                    /\ leaderExp' <= now' + LeaderTTL
                    /\ now' \in Nat /\ now' >= now
                    /\ cluster' # cluster => gens[cluster'] = 0
<1> SUFFICES Later
  BY Zenon
<1>0. /\ now \in Nat /\ cluster \in Clusters /\ gens \in [Clusters -> Nat]
      /\ leaderExp \in Nat /\ gens[cluster] > 0 /\ leaderExp <= now + LeaderTTL
      /\ LeaderTTL \in Nat
  BY Zenon, ConstantsAssumption DEF TypeOK, EnvironmentOK, Generations
<1> USE <1>0
<1>1. CASE Tick \/ LeaderKeepAlive
  BY <1>1 DEF Tick, LeaderKeepAlive
<1>2. ASSUME NEW s \in Servers, Elect(s) PROVE Later
  <2>1. /\ UNCHANGED <<cluster, now>> /\ gens' = [gens EXCEPT ![cluster] = @ + 1]
        /\ leaderExp' = now + LeaderTTL
    BY Zenon, <1>2 DEF Elect
  <2> QED
    BY <2>1
<1>3. ASSUME NEW c \in Clusters, NEW g \in 1..MaxGen, RebuildDCS(c, g) PROVE Later
  <2>1. /\ gens[c] = 0 /\ cluster' = c /\ gens' = [gens EXCEPT ![c] = g]
        /\ UNCHANGED now /\ leaderExp' = now + LeaderTTL
    BY Zenon, <1>3 DEF RebuildDCS
  <2> QED
    BY <2>1
<1>4. CASE UNCHANGED <<now, cluster, gens, leaderExp>>
  BY <1>4
<1> HIDE DEF Later
<1>5. CASE Replicate \/ (\E c \in orphans : ExecOrphan(c)) \/ UNCHANGED vars
  BY Zenon, <1>4, <1>5 DEF Replicate, ExecOrphan, vars
<1>6. ASSUME NEW p \in Procs, Coordinator(p) PROVE Later
  BY Zenon, <1>4, <1>6 DEF Coordinator
<1>7. Later
  BY Zenon, <1>1, <1>2, <1>3, <1>5, <1>6 DEF Next, Environment
<1> QED
  BY Zenon, <1>7 DEF Later

\* An observation and a statement name a cluster and a generation.
LEMMA ObservedFields ==
  ASSUME NEW o \in Snapshot \cup Statement
  PROVE  o.gen \in Nat /\ o.cluster \in Clusters
<1>1. CASE o \in Snapshot
  BY Zenon, <1>1 DEF Snapshot
<1>2. CASE o \in Statement
  BY Zenon, <1>2 DEF Statement
<1> QED
  BY Zenon, <1>1, <1>2

\* A statement goes out under the token it was made for.
LEMMA SentFields ==
  ASSUME TypeOK, NEW p \in Procs, NEW kind, NEW o, Send(p, kind, o)
  PROVE  call'[p].gen = o.gen /\ call'[p].cluster = o.cluster
<1> DEFINE c == [kind |-> kind, cluster |-> o.cluster, gen |-> o.gen, epoch |-> o.epoch,
                 holder |-> o.holder, server |-> writer.server, timeline |-> writer.timeline]
<1>1. c.gen = o.gen /\ c.cluster = o.cluster
  BY Zenon
<1> HIDE DEF c
<1>2. call' = [call EXCEPT ![p] = c] /\ p \in DOMAIN call
  BY Zenon DEF Send, c, TypeOK, ObservationOK
<1> QED
  BY Zenon, <1>1, <1>2

\* Observations, statements and orphans never name a future generation.
LEMMA GenerationsStep == IInv /\ [Next]_vars => Generations'
<1> SUFFICES ASSUME TypeOK, Generations, \A q \in Procs : Locals(q), [Next]_vars
             PROVE  Generations'
  BY Zenon DEF IInv
<1>0. /\ \A c \in Clusters : gens'[c] \in Nat /\ gens[c] \in Nat /\ gens'[c] >= gens[c]
      /\ gens'[cluster'] > 0
      /\ leaderExp' <= now' + LeaderTTL
  BY ZenonT(30), GensStep DEF TypeOK, EnvironmentOK
<1>0a. \A o \in Snapshot \cup Statement : Known(o) => Known(o)'
  <2> SUFFICES ASSUME NEW o \in Snapshot \cup Statement, Known(o)
               PROVE  o.gen <= gens'[o.cluster]
    BY Zenon DEF Known
  <2>1. o.gen \in Nat /\ o.cluster \in Clusters
    BY ObservedFields
  <2>2. /\ gens'[o.cluster] \in Nat /\ gens[o.cluster] \in Nat
        /\ gens'[o.cluster] >= gens[o.cluster] /\ o.gen <= gens[o.cluster]
    BY Zenon, <1>0, <2>1 DEF Known
  <2> QED
    BY <2>1, <2>2
<1> DEFINE OK(q) == /\ pc[q] \in Observing => snap[q].gen > 0 /\ Known(snap[q])
                    /\ pc[q] \in Calling => Known(call[q])
<1>1. ASSUME NEW q \in Procs, UNCHANGED Mine(q) PROVE OK(q)'
  <2>1. pc[q] \in Observing => snap[q] \in Snapshot
    BY Zenon DEF Locals
  <2>2. pc[q] \in Calling => call[q] \in Statement
    BY Zenon DEF Locals
  <2>3. UNCHANGED <<pc[q], snap[q], call[q]>>
    BY Zenon, <1>1 DEF Mine
  <2>4. OK(q)
    BY Zenon DEF Generations
  <2>5. \A o \in Snapshot \cup Statement : Known(o) => Known(o)'
    BY Zenon, <1>0a
  <2> QED
    BY Zenon, <2>1, <2>2, <2>3, <2>4, <2>5 DEF Known
<1>2. ASSUME NEW p \in Procs, MayOrphan(p) PROVE \A c \in orphans' : Known(c)'
  <2>1. \A c \in orphans \cup {call[p]} : c # NoStatement => c \in Statement /\ Known(c)
    BY Zenon DEF TypeOK, RowOK, Generations, Locals
  <2>2. \A c \in orphans' : c \in Statement /\ Known(c)
    BY Zenon, <1>2, <2>1 DEF MayOrphan, TypeOK, RowOK, Generations
  <2> QED
    BY Zenon, <1>0a, <2>2
<1>3. UNCHANGED orphans \/ orphans' \subseteq orphans => \A c \in orphans' : Known(c)'
  BY Zenon, <1>0a DEF TypeOK, RowOK, Generations
<1>4. CASE Environment \/ UNCHANGED vars
  <2>1. \A q \in Procs : UNCHANGED Mine(q)
    BY Zenon, <1>4 DEF Environment, Tick, LeaderKeepAlive, Elect, RebuildDCS,
       Replicate, ExecOrphan, vars, Mine
  <2>2. orphans' \subseteq orphans
    BY Zenon, <1>4 DEF Environment, Tick, LeaderKeepAlive, Elect, RebuildDCS,
       Replicate, ExecOrphan, vars
  <2> QED
    BY Zenon, <1>0, <1>1, <1>3, <2>1, <2>2 DEF Generations
<1>5. ASSUME NEW p \in Procs, Coordinator(p) PROVE Generations'
  <2>0. UNCHANGED gens
    BY Zenon, <1>5 DEF Coordinator
  <2>1. \A q \in Procs : q # p => OK(q)'
    BY Zenon, <1>1, <1>5, Others
  <2>2. OK(p)' /\ \A c \in orphans' : Known(c)'
    <3> USE DEF Renewing, Observing, Calling
    <3>0. Locals(p) /\ OK(p) /\ gens[cluster] > 0
      BY Zenon DEF Generations
    <3>1. ASSUME pc'[p] \in {"idle", "stopped", "held"} PROVE OK(p)'
      BY Zenon, <3>1
    <3>2. CASE Start(p) \/ Activate(p) \/ UpdateActive(p) \/ TimelineMismatch(p)
      BY Zenon, <1>3, <3>1, <3>2 DEF Start, Activate, UpdateActive,
         TimelineMismatch, TypeOK, ControlOK
    <3>3. CASE Stop(p) \/ FailRenewal(p) \/ FailObservation(p) \/ FailCandidate(p)
      BY Zenon, <1>2, <3>1, <3>3
      DEF Stop, FailRenewal, Exit, FailObservation, FailCandidate, TypeOK, ControlOK
    <3>4. CASE OwnershipEnded(p)
      BY Zenon, <1>3, <3>1, <3>4 DEF OwnershipEnded, Exit, TypeOK, ControlOK
    <3>5. CASE ObserveLeader(p)
      <4>1. /\ snap'[p].gen = gens[cluster] /\ snap'[p].cluster = cluster
            /\ pc'[p] \notin Calling /\ UNCHANGED <<gens, orphans>>
        BY Zenon, <2>0, <3>5 DEF ObserveLeader, TypeOK, ControlOK, ObservationOK
      <4> QED
        BY <1>3, <3>0, <4>1 DEF Known, TypeOK, EnvironmentOK
    <3>6. CASE SendAcquire(p) \/ SendActivation(p) \/ SendRenew(p)
      <4>1. /\ call'[p].gen = snap[p].gen /\ call'[p].cluster = snap[p].cluster
            /\ UNCHANGED <<gens, orphans, snap>> /\ pc[p] \in Observing
        <5>1. SendActivation(p) \/ SendRenew(p) => SameWriter(p)
          BY Zenon, <3>0 DEF SendActivation, SendRenew, Locals, Won
        <5>2. UNCHANGED <<gens, orphans, snap>> /\ pc[p] \in Observing
          BY Zenon, <2>0, <3>6 DEF SendAcquire, SendActivation, SendRenew
        <5>3. ASSUME SendAcquire(p)
              PROVE  call'[p].gen = snap[p].gen /\ call'[p].cluster = snap[p].cluster
          <6> DEFINE o == [cluster |-> snap[p].cluster, gen |-> snap[p].gen,
                           epoch |-> 0, holder |-> holder[p]]
          <6>1. Send(p, "acquire", o)
            BY Zenon, <5>3 DEF SendAcquire
          <6>2. call'[p].gen = o.gen /\ call'[p].cluster = o.cluster
            <7> HIDE DEF o
            <7> QED
              BY Zenon, <6>1, SentFields
          <6> QED
            BY Zenon, <6>2
        <5>4. ASSUME SendActivation(p) \/ SendRenew(p)
              PROVE  call'[p].gen = got[p].gen /\ call'[p].cluster = got[p].cluster
          <6>1. Send(p, "renew", got[p])
            BY Zenon, <5>4 DEF SendActivation, SendRenew
          <6> QED
            BY Zenon, <6>1, SentFields
        <5> QED
          BY Zenon, <3>6, <5>1, <5>2, <5>3, <5>4 DEF SameWriter
      <4> QED
        BY ZenonT(30), <1>3, <3>0, <4>1 DEF Known
    <3>7. CASE ExecAcquire(p)
      <4>1. CASE pc'[p] = "idle"
        BY Zenon, <1>3, <3>1, <3>7, <4>1 DEF ExecAcquire
      <4>2. CASE pc'[p] # "idle"
        <5>1. pc[p] = "acquire" /\ pc'[p] = "confirm" /\ UNCHANGED <<orphans, snap>>
          BY Zenon, <3>7, <4>2 DEF ExecAcquire, TypeOK, ControlOK
        <5> QED
          BY Zenon, <1>3, <2>0, <3>0, <5>1 DEF Known
      <4> QED
        BY Zenon, <4>1, <4>2
    <3>8. CASE ExecRenew(p) \/ ConfirmLeader(p) \/ ReadLeaseTTL(p)
      <4>1. /\ pc[p] \in Observing /\ pc'[p] \in Observing \ Calling
            /\ UNCHANGED <<orphans, snap>>
        BY Zenon, <3>8 DEF ExecRenew, ConfirmLeader, ReadLeaseTTL, TypeOK, ControlOK
      <4> QED
        BY Zenon, <1>3, <2>0, <3>0, <4>1 DEF Known
    <3>9. CASE TimerFires(p) \/ \E v \in fired[p] : TimerCallback(p, v)
      <4>1. UNCHANGED <<orphans, pc, snap, call>>
        BY Zenon, <3>9 DEF TimerFires, TimerCallback
      <4> QED
        BY Zenon, <1>3, <2>0, <3>0, <4>1 DEF Known
    <3> QED
      BY Zenon, <1>5, <3>2, <3>3, <3>4, <3>5, <3>6, <3>7, <3>8, <3>9
      DEF Coordinator
  <2> QED
    BY Zenon, <1>0, <2>1, <2>2 DEF Generations
<1> QED
  BY Zenon, <1>4, <1>5 DEF Next

\* A statement of no later generation leaves a term that has time left alone:
\* it is refused, it is the holder's own retry, or it extends the term.
LEMMA StatementKeepsRow ==
  ASSUME TypeOK, NEW c \in Statement, Known(c), NEW o \in Ownership, NEW d \in Int,
         now < d, RowHolds(o, d), o.gen = gens[o.cluster],
         lease' = Effect(c), UNCHANGED <<now, writer>>
  PROVE  RowHolds(o, d)'
<1>0. /\ lease \in Row /\ lease # NoLease /\ SameTerm(lease, o)
      /\ now \in Int /\ DatabaseTime \in Int /\ Skew[writer.server] \in Int
      /\ d + Skew[writer.server] <= lease.exp /\ d <= now + LeaseDuration
      /\ LeaseDuration \in Int
  <2>1. writer.server \in Servers /\ now \in Int
    BY Zenon, NatIsInt DEF TypeOK, EnvironmentOK
  <2>2. Skew[writer.server] \in Int /\ LeaseDuration \in Int
    BY Zenon, <2>1, ConstantsAssumption, NatIsInt
  <2> QED
    BY Zenon, <2>1, <2>2, RowTypes DEF RowHolds, TypeOK, RowOK
<1>1. lease.exp > DatabaseTime
  BY <1>0 DEF DatabaseTime, Row
<1>2. CASE c.kind = "acquire" /\ CanAcquire(c)
  <2>1. c.gen <= lease.gen /\ c.gen \in Nat /\ lease.gen \in Nat
    BY Zenon, <1>0, <1>2 DEF Known, CanAcquire, SameTerm, Statement, Row
  <2>2. RetriesLiveTerm(c)
    BY <1>0, <1>1, <1>2, <2>1 DEF CanAcquire, RetriesLiveTerm, Row
  <2>3. lease' = lease
    BY Zenon, <1>0, <1>2, <2>2 DEF Effect, AcquiredRow
  <2> QED
    BY Zenon, <2>3 DEF RowHolds, SameTerm
<1>3. CASE c.kind = "renew" /\ CanRenew(c)
  <2>1. lease' = RenewedRow
    BY Zenon, <1>3 DEF Effect
  <2>2. /\ lease' \in Row /\ SameTerm(lease', o)
        /\ lease'.exp = DatabaseTime + LeaseDuration
    BY Zenon, <1>0, <2>1, RowTypes DEF RenewedRow, SameTerm, Row
  <2>3. lease' # NoLease
    BY <2>2 DEF Row, NoLease
  <2> QED
    BY <1>0, <2>2, <2>3 DEF RowHolds, SameTerm, DatabaseTime
<1>4. CASE ~(c.kind = "acquire" /\ CanAcquire(c)) /\ ~(c.kind = "renew" /\ CanRenew(c))
  <2>1. lease' = lease
    BY Zenon, <1>4 DEF Effect
  <2> QED
    BY Zenon, <2>1 DEF RowHolds, SameTerm
<1> QED
  BY Zenon, <1>2, <1>3, <1>4

\* Between elections no step takes a term that has time left.
LEMMA RowKept ==
  ASSUME IInv, [Next]_vars, NEW o \in Ownership, NEW d \in Int,
         now < d, RowHolds(o, d), o.gen = gens[o.cluster],
         gens'[cluster] = gens[cluster]
  PROVE  RowHolds(o, d)'
<1> USE DEF IInv
<1>1. CASE UNCHANGED <<now, writer, lease>>
  BY Zenon, <1>1 DEF RowHolds, SameTerm
<1>2. ASSUME NEW c \in Statement, Known(c), lease' = Effect(c), UNCHANGED <<now, writer>>
      PROVE  RowHolds(o, d)'
  BY Zenon, <1>2, StatementKeepsRow
<1>3. CASE Tick
  BY <1>3, ConstantsAssumption DEF Tick, RowHolds, SameTerm, TypeOK,
     EnvironmentOK
<1>4. CASE LeaderKeepAlive \/ Replicate \/ UNCHANGED vars
  BY Zenon, <1>1, <1>4 DEF LeaderKeepAlive, Replicate, vars
<1>5. ASSUME NEW s \in Servers, Elect(s) PROVE FALSE
  BY <1>5 DEF Elect, TypeOK, EnvironmentOK
<1>6. ASSUME NEW c \in Clusters, NEW g \in 1..MaxGen, RebuildDCS(c, g)
      PROVE  RowHolds(o, d)'
  BY Zenon, <1>1, <1>6 DEF RebuildDCS
<1>7. ASSUME NEW c \in orphans, ExecOrphan(c) PROVE RowHolds(o, d)'
  BY Zenon, <1>2, <1>7 DEF ExecOrphan, TypeOK, RowOK, Generations
<1>8. ASSUME NEW p \in Procs, Coordinator(p) PROVE RowHolds(o, d)'
  <2>u. UNCHANGED <<now, writer>>
    BY Zenon, <1>8 DEF Coordinator
  <2>0. Locals(p) /\ (pc[p] \in Calling => Known(call[p]))
    BY Zenon DEF Generations
  <2>1. CASE ExecAcquire(p)
    <3>1. call[p] \in Statement /\ Known(call[p]) /\ call[p].kind = "acquire"
      BY Zenon, <2>0, <2>1 DEF ExecAcquire, Locals, Calling
    <3>2. lease' = Effect(call[p]) /\ UNCHANGED <<now, writer>>
      BY Zenon, <2>u, <2>1, <3>1 DEF ExecAcquire, Effect
    <3> QED
      BY Zenon, <1>2, <3>1, <3>2
  <2>2. CASE ExecRenew(p)
    <3>1. call[p] \in Statement /\ Known(call[p]) /\ call[p].kind = "renew"
      BY Zenon, <2>0, <2>2 DEF ExecRenew, Locals, Calling
    <3>2. lease' = Effect(call[p]) /\ UNCHANGED <<now, writer>>
      BY Zenon, <2>u, <2>2, <3>1 DEF ExecRenew, Effect
    <3> QED
      BY Zenon, <1>2, <3>1, <3>2
  <2>3. CASE ~ExecAcquire(p) /\ ~ExecRenew(p)
    BY Zenon, <1>1, <1>8, <2>3 DEF Coordinator, Start, Stop, Exit,
       ObserveLeader, SendAcquire,
       SendActivation, SendRenew, ConfirmLeader, ReadLeaseTTL, Activate,
       UpdateActive, TimelineMismatch, FailObservation, FailCandidate,
       FailRenewal, OwnershipEnded, TimerFires, TimerCallback
  <2> QED
    BY Zenon, <2>1, <2>2, <2>3
<1> QED
  BY Zenon, <1>3, <1>4, <1>5, <1>6, <1>7, <1>8 DEF Next, Environment

\* A leader's proof lasts: the next election waits for it.
LEMMA ElectedKept ==
  ASSUME IInv, [Next]_vars, NEW o, o.cluster \in Clusters, NEW d \in Int,
         now < d, Elected(o, d)
  PROVE  Elected(o, d)' /\ gens'[cluster] = gens[cluster]
<1> USE ConstantsAssumption DEF IInv, Elected, TypeOK, EnvironmentOK, RowOK, ControlOK, ObservationOK, TermOK, Generations
<1>1. CASE Tick \/ Replicate \/ UNCHANGED vars \/ \E c \in orphans : ExecOrphan(c)
  BY Zenon, <1>1 DEF Tick, Replicate, vars, ExecOrphan
<1>2. CASE LeaderKeepAlive
  BY <1>2 DEF LeaderKeepAlive
<1>3. ASSUME NEW s \in Servers, Elect(s) PROVE FALSE
  <2>1. now >= leaderExp /\ d <= leaderExp /\ now \in Int /\ leaderExp \in Int
    BY Zenon, <1>3, NatIsInt DEF Elect
  <2> QED
    BY Zenon, <2>1, Order
<1>4. ASSUME NEW c \in Clusters, NEW g \in 1..MaxGen, RebuildDCS(c, g)
      PROVE  Elected(o, d)' /\ gens'[cluster] = gens[cluster]
  BY <1>4 DEF RebuildDCS
<1>5. ASSUME NEW p \in Procs, Coordinator(p) PROVE UNCHANGED env
  BY Zenon, <1>5 DEF Coordinator
<1> QED
  BY Zenon, <1>1, <1>2, <1>3, <1>4, <1>5 DEF Next, Environment

\* Claims survive every step, whoever takes it.
LEMMA ClaimKept ==
  ASSUME IInv, [Next]_vars, NEW o \in Ownership, NEW d \in Int, Claim(o, d)
  PROVE  Claim(o, d)'
<1>0. now \in Nat /\ now' \in Nat /\ now' >= now
  BY Zenon, GensStep DEF IInv, TypeOK, EnvironmentOK
<1> SUFFICES ASSUME now < d PROVE Claim(o, d)'
  BY <1>0 DEF Claim
<1>1. RowHolds(o, d) /\ Elected(o, d)
  BY Zenon DEF Claim
<1>2. Elected(o, d)' /\ gens'[cluster] = gens[cluster]
  BY Zenon, <1>1, ElectedKept DEF Ownership
<1>3. RowHolds(o, d)'
  BY Zenon, <1>1, <1>2, RowKept DEF Elected
<1> QED
  BY Zenon, <1>2, <1>3 DEF Claim

\* A snapshot that is current after a step was so before, and no leader was
\* elected in between.
LEMMA CurrentBefore ==
  ASSUME IInv, [Next]_vars, NEW q \in Procs, pc[q] \in Observing,
         UNCHANGED snap[q], Current(snap[q])'
  PROVE  Current(snap[q]) /\ gens'[cluster] = gens[cluster]
<1>1. /\ cluster \in Clusters
      /\ \A c \in Clusters : gens'[c] \in Nat /\ gens[c] \in Nat /\ gens'[c] >= gens[c]
      /\ cluster' # cluster => gens[cluster'] = 0
  BY Zenon, GensStep DEF IInv, TypeOK, EnvironmentOK
<1>2. snap[q] \in Snapshot /\ snap[q].gen > 0 /\ Known(snap[q])
  BY Zenon DEF IInv, Locals, Generations
<1>3. snap[q].gen \in Nat /\ snap[q].cluster \in Clusters
  BY Zenon, <1>2 DEF Snapshot
<1>4. /\ snap[q].cluster = cluster' /\ snap[q].gen = gens'[cluster']
      /\ snap[q].gen > 0 /\ snap[q].gen <= gens[cluster']
      /\ gens[cluster'] \in Nat /\ gens'[cluster'] \in Nat /\ gens'[cluster'] >= gens[cluster']
  BY Zenon, <1>1, <1>2, <1>3 DEF Current, Known
<1>5. \A g, m \in Nat : /\ g > 0 /\ g <= m => m # 0
                        /\ g <= m /\ g >= m => m = g
  OBVIOUS
<1>6. cluster' = cluster
  BY Zenon, <1>1, <1>3, <1>4, <1>5
<1>7. gens[cluster'] = snap[q].gen
  BY Zenon, <1>3, <1>4, <1>5
<1> QED
  BY Zenon, <1>4, <1>6, <1>7 DEF Current

\* An answered renewal keeps the row unless a leader was elected since.
LEMMA AnsweredKept ==
  ASSUME IInv, [Next]_vars, NEW q \in Procs, pc[q] \in Answered,
         UNCHANGED <<snap[q], got[q], started[q]>>,
         Current(snap[q])', now' < started[q] + LeaseDuration
  PROVE  RowHolds(got[q], started[q] + LeaseDuration)'
<1>0. now \in Nat /\ now' \in Nat /\ now' >= now
  BY Zenon, GensStep DEF IInv, TypeOK, EnvironmentOK
<1>1. /\ got[q] \in Ownership /\ SameWriter(q) /\ started[q] + LeaseDuration \in Int
  <2>1. started[q] \in Int /\ LeaseDuration \in Int
    BY Zenon, Numbers DEF IInv
  <2>2. started[q] + LeaseDuration \in Int
    BY Zenon, <2>1, SumIsInt
  <2> QED
    BY Zenon, <2>2 DEF IInv, Locals, Generations, Answered, Observing, Won, Renewing
<1>2. Current(snap[q]) /\ gens'[cluster] = gens[cluster]
  BY Zenon, CurrentBefore DEF Answered, Observing, Renewing
<1>3. now < started[q] + LeaseDuration
  BY Zenon, <1>0, <1>1, Order, NatIsInt
<1>4. RowHolds(got[q], started[q] + LeaseDuration)
  BY Zenon, <1>2, <1>3 DEF IInv, Claims
<1>5. got[q].gen = gens[got[q].cluster]
  BY Zenon, <1>1, <1>2 DEF Current, SameWriter
<1>6. \A o \in Ownership, d \in Int :
        now < d /\ RowHolds(o, d) /\ o.gen = gens[o.cluster] => RowHolds(o, d)'
  BY Zenon, <1>2, RowKept
<1> QED
  BY Zenon, <1>1, <1>3, <1>4, <1>5, <1>6 DEF RowHolds, SameTerm

\* The claim of the active term is kept while the term is left alone.
LEMMA ActiveKept ==
  ASSUME IInv, [Next]_vars, NEW q \in Procs,
         active'[q] => active[q] /\ UNCHANGED <<own[q], deadline[q]>>
  PROVE  active'[q] => Claim(own[q], deadline[q])'
<1>1. \A o \in Ownership, d \in Int : Claim(o, d) => Claim(o, d)'
  BY Zenon, ClaimKept
<1>2. active[q] => /\ own[q] \in Ownership /\ deadline[q] \in Int
                   /\ Claim(own[q], deadline[q])
  BY Zenon, Numbers DEF IInv, Locals, Claims
<1> QED
  BY Zenon, <1>1, <1>2 DEF Claim, RowHolds, Elected, SameTerm

\* What process p has claimed survives the steps of the others.
LEMMA ClaimsFrame ==
  ASSUME IInv, [Next]_vars, NEW q \in Procs,
         UNCHANGED <<pc[q], snap[q], got[q], started[q], proof[q]>>,
         active'[q] => active[q] /\ UNCHANGED <<own[q], deadline[q]>>
  PROVE  Claims(q)'
<1>0. Locals(q) /\ Claims(q) /\ now \in Nat /\ now' \in Nat /\ now' >= now
  BY Zenon, GensStep DEF IInv, TypeOK, EnvironmentOK
<1>1. \A o \in Ownership, d \in Int : Claim(o, d) => Claim(o, d)'
  BY Zenon, ClaimKept
<1>2. active'[q] => Claim(own[q], deadline[q])'
  BY Zenon, ActiveKept
<1>3. pc[q] \in Ready => Claim(got[q], NewDeadline(q))'
  <2>1. ASSUME pc[q] \in Ready PROVE got[q] \in Ownership /\ NewDeadline(q) \in Int
    BY Zenon, <1>0, <2>1, Numbers DEF Locals, Ready, Won, Renewing, IInv
  <2>2. UNCHANGED <<got[q], NewDeadline(q)>>
    BY Zenon DEF NewDeadline
  <2>3. pc[q] \in Ready => Claim(got[q], NewDeadline(q))
    BY Zenon, <1>0 DEF Claims
  <2> QED
    BY ZenonT(30), <1>1, <2>1, <2>2, <2>3 DEF Claim, RowHolds, Elected, SameTerm
<1>4. pc[q] \in {"proved", "activate"} /\ now' < proof[q] => Elected(snap[q], proof[q])'
  <2> SUFFICES ASSUME pc[q] \in {"proved", "activate"}, now' < proof[q]
               PROVE  Elected(snap[q], proof[q])'
    OBVIOUS
  <2>1. snap[q].cluster \in Clusters /\ proof[q] \in Int
    BY ZenonT(30), <1>0 DEF Locals, Observing, Snapshot, IInv, TypeOK, ObservationOK
  <2>2. now < proof[q] /\ Elected(snap[q], proof[q])
    <3>1. now < proof[q]
      BY Zenon, <1>0, <2>1, Order, NatIsInt
    <3> QED
      BY Zenon, <1>0, <3>1 DEF Claims
  <2>3. \A o \in Snapshot, d \in Int : now < d /\ Elected(o, d) => Elected(o, d)'
    BY Zenon, ElectedKept DEF Snapshot
  <2>4. snap[q] \in Snapshot
    BY Zenon, <1>0 DEF Locals, Observing
  <2> QED
    BY Zenon, <2>1, <2>2, <2>3, <2>4 DEF Elected
<1>5. pc[q] \in Answered /\ Current(snap[q])' /\ now' < started[q] + LeaseDuration =>
        RowHolds(got[q], started[q] + LeaseDuration)'
  BY Zenon, AnsweredKept
<1> QED
  BY Zenon, <1>2, <1>3, <1>4, <1>5 DEF Claims

\* Every step of a coordinator keeps the claims it has, and makes sound ones.
LEMMA ClaimsStep == IInv /\ [Next]_vars => \A q \in Procs : Claims(q)'
<1> SUFFICES ASSUME IInv, [Next]_vars
             PROVE  \A q \in Procs : Claims(q)'
  OBVIOUS
<1>1. CASE Environment \/ UNCHANGED vars
  <2>1. \A q \in Procs : UNCHANGED Mine(q)
    BY Zenon, <1>1 DEF Environment, Tick, LeaderKeepAlive, Elect, RebuildDCS,
       Replicate, ExecOrphan, vars, Mine
  <2> QED
    BY Zenon, <2>1, ClaimsFrame DEF Mine
<1>2. ASSUME NEW p \in Procs, Coordinator(p) PROVE \A q \in Procs : Claims(q)'
  <2>0. UNCHANGED <<now, env>>
    BY Zenon, <1>2 DEF Coordinator
  <2>1. ASSUME NEW q \in Procs, q # p PROVE Claims(q)'
    BY Zenon, <1>2, <2>1, Others, ClaimsFrame DEF IInv, Mine
  <2>2. Claims(p)'
    <3> USE DEF Ready, Answered, Calling
    <3>0. TypeOK /\ Locals(p) /\ Claims(p)
      BY Zenon DEF IInv
    <3>1. \A o \in Ownership, d \in Int : Claim(o, d) => Claim(o, d)'
      BY Zenon, ClaimKept
    <3>2. ASSUME active'[p] => active[p] /\ UNCHANGED <<own[p], deadline[p]>>
          PROVE  active'[p] => Claim(own[p], deadline[p])'
      BY Zenon, <3>2, ActiveKept
    <3>3. ASSUME active'[p] => active[p] /\ UNCHANGED <<own[p], deadline[p]>>,
                 pc'[p] \notin Ready \cup Answered \cup {"proved", "activate"}
          PROVE  Claims(p)'
      BY Zenon, <3>2, <3>3 DEF Claims
    <3>4. CASE Start(p) \/ ObserveLeader(p) \/ SendAcquire(p) \/ SendRenew(p)
      BY Zenon, <3>0, <3>3, <3>4 DEF Start, ObserveLeader, SendAcquire,
         SendRenew, TypeOK, ControlOK
    <3>5. CASE Stop(p) \/ FailRenewal(p) \/ OwnershipEnded(p)
      BY Zenon, <3>0, <3>3, <3>5 DEF Stop, FailRenewal, OwnershipEnded, Exit,
         TypeOK, ControlOK, TermOK
    <3>6. CASE ExecAcquire(p)
      BY Zenon, <3>0, <3>3, <3>6 DEF ExecAcquire, TypeOK, ControlOK
    <3>7. CASE TimelineMismatch(p) \/ FailObservation(p) \/ FailCandidate(p)
      BY Zenon, <3>0, <3>3, <3>7 DEF TimelineMismatch, FailObservation,
         FailCandidate, TypeOK, ControlOK
    <3>8. CASE ConfirmLeader(p)
      <4>1. /\ pc[p] = "confirm" => pc'[p] = "ttl"
            /\ pc[p] = "rConfirm" => pc'[p] = "rTTL"
            /\ pc[p] \in {"confirm", "rConfirm"}
            /\ UNCHANGED <<snap[p], got[p], started[p], active[p], own[p], deadline[p]>>
        BY Zenon, <3>0, <3>8 DEF ConfirmLeader, TypeOK, ControlOK
      <4>2. CASE pc[p] = "confirm"
        BY Zenon, <3>3, <4>1, <4>2
      <4>3. CASE pc[p] = "rConfirm"
        BY Zenon, <3>2, <4>1, <4>3, AnsweredKept DEF Claims
      <4> QED
        BY Zenon, <4>1, <4>2, <4>3
    <3>9. CASE ReadLeaseTTL(p)
      <4>1. /\ pc[p] \in {"ttl", "rTTL"} /\ Current(snap[p])
            /\ pc'[p] = IF pc[p] = "ttl" THEN "proved" ELSE "rProved"
            /\ proof'[p] = proof[p] + (leaderExp - now)
            /\ UNCHANGED <<now, env, lease, snap[p], got[p], started[p], active[p],
                           own[p], deadline[p]>>
        BY Zenon, <2>0, <3>0, <3>9 DEF ReadLeaseTTL, TypeOK, ControlOK,
           ObservationOK, Current
      <4>2. /\ proof[p] <= now /\ snap[p].gen > 0 /\ proof[p] \in Int /\ now \in Int
            /\ leaderExp \in Int
        BY Zenon, <3>0, <4>1, Numbers DEF Locals, IInv, Generations, Observing,
           Renewing
      <4>3. Elected(snap[p], proof[p])'
        <5>1. proof[p] + (leaderExp - now) <= leaderExp
          BY <4>2
        <5> QED
          BY Zenon, <4>1, <4>2, <5>1 DEF Elected, Current
      <4>4. CASE pc[p] = "ttl"
        BY Zenon, <3>2, <4>1, <4>3, <4>4 DEF Claims
      <4>5. CASE pc[p] = "rTTL"
        <5>1. /\ got[p].exp - got[p].dbTime = LeaseDuration
              /\ started[p] \in Int /\ LeaseDuration \in Int /\ SameWriter(p)
          BY ZenonT(30), <3>0, <4>5, Numbers DEF Locals, Won, Renewing
        <5>2. PICK d \in Int : /\ d = NewDeadline(p)'
                              /\ d <= proof'[p] /\ d <= started[p] + LeaseDuration
          <6> DEFINE m == IF proof'[p] < started[p] + LeaseDuration THEN proof'[p]
                          ELSE started[p] + LeaseDuration
          <6>1. proof'[p] = proof[p] + (leaderExp - now) /\ started'[p] = started[p] /\ got'[p] = got[p]
            BY Zenon, <4>1
          <6>2. proof'[p] \in Int
            BY <4>2, <6>1
          <6>3. m \in Int /\ m <= proof'[p] /\ m <= started[p] + LeaseDuration
            BY <5>1, <6>2
          <6>4. NewDeadline(p)' = m
            BY Zenon, <5>1, <6>1 DEF NewDeadline
          <6> QED
            BY Zenon, <6>3, <6>4
        <5>3. now < d => now < started[p] + LeaseDuration
          BY <4>2, <5>1, <5>2
        <5>4. now < d => RowHolds(got[p], d)'
          <6>1. now < d => RowHolds(got[p], started[p] + LeaseDuration)
            BY Zenon, <3>0, <4>1, <4>5, <5>3 DEF Claims
          <6>2. /\ now \in Int /\ Skew[writer.server] \in Int
                /\ lease # NoLease => lease.exp \in Int
            BY Zenon, <3>0, Numbers
          <6>3. now < d => RowHolds(got[p], d)
            <7>1. \A e, k \in Int : started[p] + LeaseDuration + k <= e => d + k <= e
              BY <5>1, <5>2
            <7>2. \A n \in Int : started[p] + LeaseDuration <= n + LeaseDuration
                                  => d <= n + LeaseDuration
              BY <5>1, <5>2
            <7> QED
              BY Zenon, <6>1, <6>2, <7>1, <7>2 DEF RowHolds
          <6> QED
            BY Zenon, <4>1, <6>3 DEF RowHolds, SameTerm
        <5>5. Elected(got[p], d)'
          <6>1. proof'[p] \in Int /\ proof'[p] <= leaderExp'
            <7>1. proof'[p] = proof[p] + (leaderExp - now)
              BY Zenon, <4>1
            <7>2. proof'[p] \in Int
              BY <4>2, <7>1
            <7> QED
              BY Zenon, <4>3, <7>2 DEF Elected
          <6>2. leaderExp' \in Int
            BY Zenon, <4>1, <4>2
          <6>3. d <= leaderExp'
            BY <5>2, <6>1, <6>2
          <6> QED
            BY Zenon, <4>1, <4>3, <5>1, <6>3 DEF Elected, SameWriter
        <5>6. Claim(got[p], NewDeadline(p))'
          BY Zenon, <4>1, <5>2, <5>4, <5>5 DEF Claim, RowHolds, Elected,
             SameTerm
        <5> QED
          BY Zenon, <3>2, <4>1, <4>5, <5>6 DEF Claims
      <4> QED
        BY Zenon, <4>1, <4>4, <4>5
    <3>10. CASE SendActivation(p)
      <4>1. /\ pc[p] = "proved" /\ pc'[p] = "activate"
            /\ UNCHANGED <<now, env, snap[p], proof[p], active[p], own[p], deadline[p]>>
        BY Zenon, <2>0, <3>0, <3>10 DEF SendActivation, TypeOK, ControlOK
      <4> QED
        BY Zenon, <3>0, <3>2, <4>1 DEF Claims, Elected
    <3>11. CASE ExecRenew(p)
      <4>1. /\ pc[p] \in {"activate", "renew"} /\ CanRenew(call[p])
            /\ pc'[p] = IF pc[p] = "activate" THEN "renewed" ELSE "rConfirm"
            /\ lease' = RenewedRow /\ got'[p] = Returned(RenewedRow)
            /\ UNCHANGED <<now, env, snap[p], started[p], proof[p], active[p],
                           own[p], deadline[p]>>
        BY Zenon, <2>0, <3>0, <3>11 DEF ExecRenew, TypeOK, ControlOK,
           ObservationOK
      <4>2. /\ RenewedRow \in Row /\ RenewedRow # NoLease
            /\ RenewedRow.exp = DatabaseTime + LeaseDuration
            /\ RenewedRow.cluster = snap[p].cluster /\ RenewedRow.gen = snap[p].gen
        <5>1. RenewedRow \in Row /\ RenewedRow # NoLease
          BY Zenon, <3>0, <4>1, RowTypes, ReturnedTerm DEF CanRenew
        <5>2. lease.cluster = snap[p].cluster /\ lease.gen = snap[p].gen
          BY Zenon, <3>0, <4>1 DEF Locals, CanRenew, SameTerm, SameWriter,
             Won, Renewing
        <5>3. lease \in Row
          BY Zenon, <3>0, <4>1 DEF TypeOK, RowOK, CanRenew
        <5> QED
          BY ZenonT(30), <5>1, <5>2, <5>3 DEF RenewedRow, Row
      <4>3. /\ started[p] \in Nat /\ now \in Nat /\ started[p] <= now
            /\ LeaseDuration \in Int /\ Skew[writer.server] \in Int /\ proof[p] \in Int
        BY Zenon, <3>0, Numbers DEF Locals, TypeOK, EnvironmentOK, ObservationOK
      <4>4. RowHolds(got[p], started[p] + LeaseDuration)'
        <5>1. SameTerm(RenewedRow, Returned(RenewedRow))
          BY Zenon, <4>2, ReturnedTerm
        <5>2. /\ started[p] + LeaseDuration + Skew[writer.server] <= RenewedRow.exp
              /\ started[p] + LeaseDuration <= now + LeaseDuration
          BY <4>2, <4>3 DEF DatabaseTime
        <5> QED
          BY Zenon, <4>1, <4>2, <5>1, <5>2 DEF RowHolds, SameTerm
      <4>5. CASE pc[p] = "renew"
        BY Zenon, <3>2, <4>1, <4>4, <4>5 DEF Claims
      <4>6. CASE pc[p] = "activate"
        <5>1. got'[p].exp - got'[p].dbTime = LeaseDuration
          <6>1. /\ got'[p].exp = DatabaseTime + LeaseDuration
                /\ got'[p].dbTime = DatabaseTime
            BY Zenon, <4>1, <4>2, ReturnedTimes
          <6>2. DatabaseTime \in Int
            BY Zenon, <3>0, RowTypes
          <6>3. (DatabaseTime + LeaseDuration) - DatabaseTime = LeaseDuration
            BY Zenon, <4>3, <6>2, SumIsInt
          <6> QED
            BY Zenon, <6>1, <6>3
        <5>2. PICK d \in Int : /\ d = NewDeadline(p)'
                              /\ d <= proof[p] /\ d <= started[p] + LeaseDuration
          BY <4>1, <4>3, <5>1 DEF NewDeadline
        <5>3. RowHolds(got[p], d)'
          <6>1. /\ d + Skew[writer.server] <= RenewedRow.exp
                /\ d <= now + LeaseDuration
            BY <4>2, <4>3, <5>2 DEF DatabaseTime
          <6> QED
            BY Zenon, <4>1, <4>4, <6>1 DEF RowHolds
        <5>4. now < d => Elected(snap[p], proof[p])
          <6>1. now < d => now < proof[p]
            BY <4>3, <5>2
          <6> QED
            BY Zenon, <3>0, <4>6, <6>1 DEF Claims
        <5>5. now < d => Elected(got[p], d)'
          <6>1. got'[p].cluster = snap[p].cluster /\ got'[p].gen = snap[p].gen
            BY <4>1, <4>2 DEF Returned
          <6>2. leaderExp \in Int /\ proof[p] <= leaderExp => d <= leaderExp
            BY <4>3, <5>2
          <6>3. leaderExp \in Int
            BY Zenon, <3>0, Numbers
          <6> QED
            BY Zenon, <4>1, <5>4, <6>1, <6>2, <6>3 DEF Elected
        <5>6. Claim(got[p], NewDeadline(p))'
          BY Zenon, <4>1, <5>2, <5>3, <5>5 DEF Claim, RowHolds, Elected,
             SameTerm
        <5> QED
          BY Zenon, <3>2, <4>1, <4>6, <5>6 DEF Claims
      <4> QED
        BY Zenon, <4>1, <4>5, <4>6
    <3>12. CASE Activate(p) \/ UpdateActive(p)
      <4>1. /\ pc[p] \in Ready /\ pc'[p] = "held"
            /\ own'[p] = got[p] /\ deadline'[p] = NewDeadline(p)
        BY ZenonT(30), <3>0, <3>12 DEF Activate, UpdateActive, ResetLeaseTimer,
           TypeOK, ControlOK, TermOK
      <4>2. got[p] \in Ownership /\ NewDeadline(p) \in Int
        BY <3>0, <4>1 DEF Locals, Won, Renewing, NewDeadline, Ownership,
           TypeOK, ObservationOK
      <4>3. Claim(own[p], deadline[p])'
        BY ZenonT(30), <3>0, <3>1, <4>1, <4>2 DEF Claims, Claim, RowHolds, Elected,
           SameTerm
      <4> QED
        BY Zenon, <4>1, <4>3 DEF Claims
    <3>13. CASE TimerFires(p)
      BY Zenon, <3>13, ClaimsFrame DEF TimerFires
    <3>14. ASSUME NEW v \in fired[p], TimerCallback(p, v) PROVE Claims(p)'
      BY Zenon, <3>0, <3>14, ClaimsFrame DEF TimerCallback, Deactivate, TypeOK, TermOK
    <3> QED
      BY Zenon, <1>2, <3>4, <3>5, <3>6, <3>7, <3>8, <3>9, <3>10, <3>11, <3>12,
         <3>13, <3>14
      DEF Coordinator
  <2> QED
    BY Zenon, <2>1, <2>2
<1> QED
  BY Zenon, <1>1, <1>2 DEF Next

\* The invariant is inductive.
THEOREM InvariantHolds == Spec => []IInv
<1>1. Init => IInv
  <2> SUFFICES ASSUME Init PROVE IInv
    OBVIOUS
  <2> USE ConstantsAssumption
  <2>1. TypeOK
    BY Zenon, TypeInit
  <2>2. \A p \in Procs : pc[p] = "stopped" /\ pc[p] \notin Observing \cup Calling
    BY Zenon DEF Init, Observing, Calling, Renewing
  <2>3. Holders
    BY Zenon, <2>2 DEF Holders
  <2>4. gens[cluster] > 0 /\ leaderExp <= now + LeaderTTL
    BY DEF Init
  <2>5. Generations
    BY ZenonT(30), <2>2, <2>4 DEF Init, Generations
  <2>6. ASSUME NEW p \in Procs PROVE Locals(p) /\ Claims(p)
    <3>1. pc[p] = "stopped" /\ call[p] = NoStatement /\ ~active[p] /\ started[p] = 0 /\ now = 0
      BY Zenon DEF Init
    <3>0. 0 <= 0
      OBVIOUS
    <3>2. /\ "stopped" \notin Observing \cup Won \cup Calling \cup Answered \cup Ready \cup Renewing
          /\ "stopped" \notin {"acquire", "activate", "renew", "proved", "rTTL", "ttl", "held"}
      BY DEF Observing, Won, Answered, Ready, Calling, Renewing
    <3> QED
      BY Zenon, <3>0, <3>1, <3>2 DEF Locals, Claims
  <2> QED
    BY Zenon, <2>1, <2>3, <2>5, <2>6 DEF IInv
<1>2. IInv /\ [Next]_vars => IInv'
  BY Zenon, TypeStep, ControlStep, GenerationsStep, LocalsStep, ClaimsStep
  DEF IInv
<1> QED
  BY <1>1, <1>2, PTL DEF Spec

\* Type correctness of the coordinator model, for every configuration.
THEOREM TypeCorrect == Spec => []TypeOK
<1>1. IInv => TypeOK
  BY Zenon DEF IInv
<1> QED
  BY <1>1, InvariantHolds, PTL

\* While a process is live, the row in the database is its term and outlives
\* its deadline on the writer's own clock, however far that clock is off.
THEOREM LiveProcessOwnsRow == Spec => []LiveOwnsRow
<1>1. IInv => LiveOwnsRow
  BY Zenon DEF IInv, Claims, Claim, RowHolds, SameTerm, LiveOwnsRow, Live
<1> QED
  BY <1>1, InvariantHolds, PTL

\* Mutual exclusion: two coordinators never dispatch at the same time.
THEOREM MutualExclusion == Spec => []AtMostOneLive
<1>1. IInv => AtMostOneLive
  <2> SUFFICES ASSUME IInv, NEW p \in Procs, NEW q \in Procs, Live(p), Live(q)
               PROVE  p = q
    BY Zenon DEF AtMostOneLive
  <2>1. own[p].holder = lease.holder /\ own[q].holder = lease.holder
    BY Zenon DEF IInv, Claims, Claim, RowHolds, SameTerm, Live
  <2>2. holder[p] = holder[q] /\ pc[p] # "stopped" /\ pc[q] # "stopped"
    BY Zenon, <2>1 DEF IInv, Locals, Live, Renewing
  <2> QED
    BY Zenon, <2>2 DEF IInv, Holders
<1> QED
  BY <1>1, InvariantHolds, PTL
-----------------------------------------------------------------------------
(***************************************************************************)
(* Fencing tokens.  The row can go back, when a standby that lacks the     *)
(* last writes is elected; then the writer generation has grown.  Between  *)
(* elections the row's epoch only grows.  So a candidate's term is newer   *)
(* than all activated ones from the moment its statement was answered      *)
(* until a leader is elected, and the proof of the DCS says none was when  *)
(* the term is activated.                                                  *)
(***************************************************************************)
\* Term o is newer than every term its DCS cluster has seen activated.
Unseen(o) == Newer(o, lastTerm[o.cluster])

\* The row is o, which was never activated, or has moved on from it.
Ahead(o) ==
  /\ lease # NoLease /\ lease.epoch >= o.epoch
  /\ lease.epoch = o.epoch => SameTerm(lease, o) /\ Unseen(o)

\* A candidate has an identity and a term that were never activated, unless a
\* leader was elected since, and then it will not be activated any more.
Candidate(p) ==
  /\ pc[p] \in Passive \ {"stopped"} => holder[p] # lastHolder
  /\ pc[p] \in {"confirm", "ttl"} /\ Current(snap[p]) => Ahead(got[p])
  /\ pc[p] \in {"proved", "activate"} /\ now < proof[p] => Ahead(got[p])
  /\ pc[p] = "renewed" /\ now < NewDeadline(p) => Unseen(got[p])

\* A term that is renewed was activated; while it is live no other was since.
Incumbent(p) ==
  /\ pc[p] \in Renewing => ~Unseen(got[p])
  /\ active[p] => ~Unseen(own[p])
  /\ active[p] /\ now < deadline[p] => holder[p] = lastHolder
  /\ pc[p] = "rProved" /\ now < NewDeadline(p) => holder[p] = lastHolder

\* Without an election since the last term, the row has not gone back behind it.
LastTerm ==
  /\ lastHolder < nextHolder
  /\ \A c \in Clusters : lastTerm[c].gen <= gens[c]
  /\ lastTerm[cluster].gen = gens[cluster] =>
       /\ lease # NoLease /\ lease.cluster = cluster
       /\ lease.epoch >= lastTerm[cluster].epoch
       /\ lease.epoch = lastTerm[cluster].epoch => lease.holder = lastHolder

TInv ==
  /\ IInv
  /\ LastTerm
  /\ \A p \in Procs : Candidate(p) /\ Incumbent(p)
-----------------------------------------------------------------------------
\* The row stays the same term, or gets a later epoch.
RowGrows ==
  /\ lease' # NoLease /\ lease'.cluster = lease.cluster
  /\ lease'.epoch >= lease.epoch
  /\ lease'.epoch = lease.epoch => SameTerm(lease', lease)

\* A statement keeps the term, or begins one with a later epoch.
LEMMA StatementGrowsRow ==
  ASSUME TypeOK, NEW c \in Statement, lease # NoLease, lease' = Effect(c)
  PROVE  RowGrows
<1>0. lease \in Row /\ lease.epoch \in Nat
  BY Zenon DEF TypeOK, RowOK, Row
<1>n. NoLease \notin Row
  BY DEF Row, NoLease
<1>1. CASE lease' = lease
  BY <1>0, <1>1 DEF RowGrows, SameTerm
<1>2. CASE c.kind = "acquire" /\ CanAcquire(c)
  <2>1. CASE RetriesLiveTerm(c)
    BY Zenon, <1>1, <1>2, <2>1 DEF Effect, AcquiredRow
  <2>2. CASE ~RetriesLiveTerm(c)
    <3>1. lease' = [cluster |-> c.cluster, gen |-> c.gen, epoch |-> lease.epoch + 1,
                    holder |-> c.holder, exp |-> DatabaseTime + LeaseDuration]
      BY Zenon, <1>2, <2>2 DEF Effect, AcquiredRow
    <3>2. lease.cluster = c.cluster
      BY Zenon, <1>2 DEF CanAcquire
    <3>3. lease' \in Row
      BY Zenon, <1>2, RowTypes DEF Effect
    <3>4. lease' # NoLease
      BY Zenon, <1>n, <3>3
    <3> QED
      BY <1>0, <3>1, <3>2, <3>4 DEF RowGrows
  <2> QED
    BY Zenon, <2>1, <2>2
<1>3. CASE c.kind = "renew" /\ CanRenew(c)
  <2>1. lease' = RenewedRow
    BY Zenon, <1>3 DEF Effect
  <2>2. /\ lease' \in Row
        /\ lease' = [cluster |-> lease.cluster, gen |-> lease.gen, epoch |-> lease.epoch,
                     holder |-> lease.holder, exp |-> DatabaseTime + LeaseDuration]
    BY Zenon, <2>1, RowTypes
  <2>3. lease' # NoLease
    BY Zenon, <1>n, <2>2
  <2> QED
    BY <1>0, <2>2, <2>3 DEF RowGrows, SameTerm
<1>4. CASE ~(c.kind = "acquire" /\ CanAcquire(c)) /\ ~(c.kind = "renew" /\ CanRenew(c))
  BY Zenon, <1>1, <1>4 DEF Effect
<1> QED
  BY Zenon, <1>2, <1>3, <1>4

\* Between elections the row never goes back.
LEMMA RowGrowth ==
  ASSUME IInv, [Next]_vars, lease # NoLease, gens'[cluster] = gens[cluster]
  PROVE  RowGrows
<1>0. TypeOK /\ Generations /\ lease \in Row /\ lease.epoch \in Nat
  BY Zenon DEF IInv, TypeOK, RowOK, Row
<1>1. CASE UNCHANGED lease
  BY <1>0, <1>1 DEF RowGrows, SameTerm
<1>2. ASSUME NEW c \in Statement, lease' = Effect(c) PROVE RowGrows
  BY Zenon, <1>0, <1>2, StatementGrowsRow
<1>3. ASSUME NEW s \in Servers, Elect(s) PROVE FALSE
  BY <1>0, <1>3 DEF Elect, TypeOK, EnvironmentOK
<1>4. CASE Environment
  BY Zenon, <1>0, <1>1, <1>2, <1>3, <1>4 DEF Environment, Tick, LeaderKeepAlive,
     RebuildDCS, Replicate, ExecOrphan, TypeOK, RowOK
<1>5. ASSUME NEW p \in Procs, Coordinator(p) PROVE RowGrows
  <2>0. Locals(p)
    BY Zenon DEF IInv
  <2>1. CASE ExecAcquire(p)
    <3>1. call[p] \in Statement /\ call[p].kind = "acquire"
      BY Zenon, <2>0, <2>1 DEF ExecAcquire, Locals, Calling
    <3> QED
      BY Zenon, <1>2, <2>1, <3>1 DEF ExecAcquire, Effect
  <2>2. CASE ExecRenew(p)
    <3>1. call[p] \in Statement /\ call[p].kind = "renew"
      BY Zenon, <2>0, <2>2 DEF ExecRenew, Locals, Calling
    <3> QED
      BY Zenon, <1>2, <2>2, <3>1 DEF ExecRenew, Effect
  <2>3. CASE ~ExecAcquire(p) /\ ~ExecRenew(p)
    BY Zenon, <1>1, <1>5, <2>3 DEF Coordinator, Start, Stop, Exit,
       ObserveLeader, SendAcquire, SendActivation, SendRenew, ConfirmLeader,
       ReadLeaseTTL, Activate, UpdateActive, TimelineMismatch, FailObservation,
       FailCandidate, FailRenewal, OwnershipEnded, TimerFires, TimerCallback
  <2> QED
    BY Zenon, <2>1, <2>2, <2>3
<1> QED
  BY Zenon, <1>1, <1>4, <1>5 DEF Next, vars

\* What is ahead of the row's history stays so between elections.
LEMMA AheadKept ==
  ASSUME IInv, [Next]_vars, NEW o \in Ownership, Ahead(o),
         gens'[cluster] = gens[cluster], UNCHANGED lastTerm
  PROVE  Ahead(o)'
<1>1. RowGrows
  BY Zenon, RowGrowth DEF Ahead
<1>2. lease # NoLease /\ lease' # NoLease
  BY Zenon, <1>1 DEF RowGrows, Ahead
<1>3. lease.epoch \in Nat /\ lease'.epoch \in Nat /\ o.epoch \in Nat
  BY Zenon, <1>2, TypeStep DEF IInv, TypeOK, RowOK, Row, Ownership
<1>a. lease'.epoch >= lease.epoch /\ lease.epoch >= o.epoch
  BY Zenon, <1>1 DEF RowGrows, Ahead
<1>4. lease'.epoch >= o.epoch
  BY Zenon, <1>a, <1>3, Order, NatIsInt
<1>5. ASSUME lease'.epoch = o.epoch PROVE lease.epoch = o.epoch /\ lease'.epoch = lease.epoch
  BY Zenon, <1>a, <1>3, <1>5, Order, NatIsInt
<1>6. ASSUME lease'.epoch = o.epoch PROVE SameTerm(lease', o) /\ Unseen(o)'
  BY Zenon, <1>1, <1>5, <1>6 DEF RowGrows, Ahead, SameTerm, Unseen
<1> QED
  BY Zenon, <1>2, <1>4, <1>6 DEF Ahead

\* While the last term stays the last, the row keeps its word about it.
LEMMA LastTermKept ==
  ASSUME TInv, [Next]_vars, UNCHANGED history
  PROVE  LastTerm'
<1>0. /\ TypeOK /\ cluster \in Clusters /\ cluster' \in Clusters
      /\ \A c \in Clusters : gens'[c] \in Nat /\ gens[c] \in Nat /\ gens'[c] >= gens[c]
      /\ gens'[cluster'] > 0
      /\ cluster' # cluster => gens[cluster'] = 0
      /\ \A c \in Clusters : lastTerm[c].gen \in Nat /\ lastTerm[c].epoch \in Nat
      /\ lastHolder \in Nat /\ nextHolder \in Nat /\ nextHolder' \in Nat
  BY Zenon, GensStep, TypeStep DEF TInv, IInv, TypeOK, EnvironmentOK, ControlOK, Term
<1>1. lastHolder < nextHolder'
  <2>1. UNCHANGED nextHolder \/ nextHolder' = nextHolder + 1
    <3>1. CASE Environment \/ UNCHANGED vars
      BY Zenon, <3>1 DEF Environment, vars
    <3>2. ASSUME NEW p \in Procs, Coordinator(p)
          PROVE  UNCHANGED nextHolder \/ nextHolder' = nextHolder + 1
      BY Zenon, <3>2 DEF Coordinator, Start, Stop, Exit, ObserveLeader, SendAcquire,
         SendActivation, SendRenew, ConfirmLeader, ReadLeaseTTL, Activate, UpdateActive,
         TimelineMismatch, FailObservation, FailCandidate, FailRenewal, OwnershipEnded,
         TimerFires, TimerCallback, ExecAcquire, ExecRenew
    <3> QED
      BY Zenon, <3>1, <3>2 DEF Next
  <2> QED
    BY <1>0, <2>1 DEF TInv, LastTerm
<1>2. \A c \in Clusters : lastTerm[c].gen <= gens'[c]
  BY <1>0 DEF TInv, LastTerm
<1>3. ASSUME lastTerm[cluster'].gen = gens'[cluster']
      PROVE  /\ lease' # NoLease /\ lease'.cluster = cluster'
             /\ lease'.epoch >= lastTerm[cluster'].epoch
             /\ lease'.epoch = lastTerm[cluster'].epoch => lease'.holder = lastHolder
  <2>1. /\ cluster' = cluster /\ gens'[cluster] = gens[cluster]
        /\ lastTerm[cluster].gen = gens[cluster]
    BY <1>0, <1>3 DEF TInv, LastTerm
  <2>2. /\ lease # NoLease /\ lease.cluster = cluster
        /\ lease.epoch >= lastTerm[cluster].epoch
        /\ lease.epoch = lastTerm[cluster].epoch => lease.holder = lastHolder
    BY Zenon, <2>1 DEF TInv, LastTerm
  <2>3. RowGrows
    BY Zenon, <2>1, <2>2, RowGrowth DEF TInv
  <2>4. lease.epoch \in Nat /\ lease'.epoch \in Nat
    BY Zenon, <2>2, <2>3, TypeStep DEF RowGrows, TInv, IInv, TypeOK, RowOK, Row
  <2>5. lease'.epoch >= lastTerm[cluster].epoch
    BY SMTT(30), <1>0, <2>2, <2>3, <2>4 DEF RowGrows
  <2>6. lease'.epoch = lastTerm[cluster].epoch => lease'.epoch = lease.epoch
    BY <1>0, <2>2, <2>3, <2>4 DEF RowGrows
  <2> QED
    BY Zenon, <2>1, <2>2, <2>3, <2>5, <2>6 DEF RowGrows, SameTerm
<1> QED
  BY Zenon, <1>1, <1>2, <1>3 DEF LastTerm

\* A candidate that is left alone stays what it is.
LEMMA CandidateFrame ==
  ASSUME TInv, [Next]_vars, UNCHANGED history, NEW q \in Procs,
         UNCHANGED <<pc[q], holder[q], snap[q], got[q], started[q], proof[q]>>
  PROVE  Candidate(q)'
<1>0. /\ IInv /\ Candidate(q) /\ Locals(q) /\ Claims(q)
      /\ now \in Nat /\ now' \in Nat /\ now' >= now /\ proof[q] \in Int
  BY Zenon, GensStep DEF TInv, IInv, TypeOK, EnvironmentOK, ObservationOK
<1>1. gens'[cluster] = gens[cluster] => \A o \in Ownership : Ahead(o) => Ahead(o)'
  BY Zenon, <1>0, AheadKept
<1>2. pc[q] \in Passive \ {"stopped"} => holder[q] # lastHolder
  BY Zenon, <1>0 DEF Candidate
<1>3. ASSUME pc[q] \in {"confirm", "ttl"}, Current(snap[q])' PROVE Ahead(got[q])'
  <2>1. Current(snap[q]) /\ gens'[cluster] = gens[cluster]
    BY Zenon, <1>0, <1>3, CurrentBefore DEF Observing
  <2>2. got[q] \in Ownership /\ Ahead(got[q])
    BY Zenon, <1>0, <1>3, <2>1 DEF Candidate, Locals, Won
  <2> QED
    BY Zenon, <1>1, <2>1, <2>2 DEF Ahead, SameTerm, Unseen
<1>4. ASSUME pc[q] \in {"proved", "activate"}, now' < proof[q] PROVE Ahead(got[q])'
  <2>1. now < proof[q]
    BY <1>0, <1>4
  <2>2. got[q] \in Ownership /\ Ahead(got[q]) /\ snap[q] \in Snapshot
    BY Zenon, <1>0, <1>4, <2>1 DEF Candidate, Locals, Won, Observing
  <2>3. Elected(snap[q], proof[q])
    BY Zenon, <1>0, <1>4, <2>1 DEF Claims
  <2>4. gens'[cluster] = gens[cluster]
    <3>1. \A o \in Snapshot, d \in Int :
            now < d /\ Elected(o, d) => gens'[cluster] = gens[cluster]
      BY Zenon, <1>0, ElectedKept DEF Snapshot
    <3> QED
      BY Zenon, <1>0, <2>1, <2>2, <2>3, <3>1
  <2> QED
    BY Zenon, <1>1, <2>2, <2>4 DEF Ahead, SameTerm, Unseen
<1>5. ASSUME pc[q] = "renewed", now' < NewDeadline(q) PROVE Unseen(got[q])
  <2>1. NewDeadline(q) \in Int
    BY Zenon, <1>0, <1>5, Numbers DEF Locals, Won, IInv
  <2>2. now < NewDeadline(q)
    BY <1>0, <1>5, <2>1
  <2> QED
    BY Zenon, <1>0, <1>5, <2>2 DEF Candidate
<1>6. UNCHANGED NewDeadline(q) /\ (Unseen(got[q]) => Unseen(got[q])')
  BY Zenon DEF NewDeadline, Unseen
<1> QED
  BY Zenon, <1>2, <1>3, <1>4, <1>5, <1>6 DEF Candidate

\* An incumbent that is left alone, or deactivated, stays what it is.
LEMMA IncumbentFrame ==
  ASSUME TInv, [Next]_vars, UNCHANGED history, NEW q \in Procs,
         UNCHANGED <<pc[q], holder[q], got[q], started[q], proof[q]>>,
         active'[q] => active[q] /\ UNCHANGED <<own[q], deadline[q]>>
  PROVE  Incumbent(q)'
<1>0. /\ IInv /\ Incumbent(q) /\ Locals(q)
      /\ now \in Nat /\ now' \in Nat /\ now' >= now /\ deadline[q] \in Int
  BY Zenon, GensStep DEF TInv, IInv, TypeOK, EnvironmentOK, TermOK
<1>1. pc[q] \in Renewing => ~Unseen(got[q])'
  BY Zenon, <1>0 DEF Incumbent, Unseen
<1>2. active'[q] => ~Unseen(own[q])'
  BY Zenon, <1>0 DEF Incumbent, Unseen
<1>3. active'[q] /\ now' < deadline'[q] => holder[q] = lastHolder
  <2>1. active'[q] /\ now' < deadline'[q] => active[q] /\ now < deadline[q]
    BY <1>0
  <2> QED
    BY Zenon, <1>0, <2>1 DEF Incumbent
<1>4. ASSUME pc[q] = "rProved", now' < NewDeadline(q) PROVE holder[q] = lastHolder
  <2>1. NewDeadline(q) \in Int
    BY ZenonT(30), <1>0, <1>4, Numbers DEF Locals, Won, Renewing, IInv
  <2>2. now < NewDeadline(q)
    BY <1>0, <1>4, <2>1
  <2> QED
    BY Zenon, <1>0, <1>4, <2>2 DEF Incumbent
<1>5. UNCHANGED NewDeadline(q)
  BY Zenon DEF NewDeadline
<1> QED
  BY Zenon, <1>1, <1>2, <1>3, <1>4, <1>5 DEF Incumbent

\* The row has one holder: two coordinators never both hold it.
LEMMA OneHolder ==
  ASSUME Holders, NEW p \in Procs, NEW q \in Procs, pc[p] # "stopped", pc[q] # "stopped",
         lease.holder = holder[p], lease.holder = holder[q]
  PROVE  p = q
BY Zenon DEF Holders

\* What Activate finds: the row is the candidate's term, and newer than any.
LEMMA Activating ==
  ASSUME TInv, NEW p \in Procs, Activate(p)
  PROVE  /\ pc[p] = "renewed" /\ got[p] \in Ownership /\ got[p].holder = holder[p]
         /\ lease # NoLease /\ SameTerm(lease, got[p])
         /\ got[p].gen = gens[got[p].cluster]
         /\ now < NewDeadline(p) /\ Unseen(got[p]) /\ holder[p] # lastHolder
<1>1. /\ IInv /\ TypeOK /\ Locals(p) /\ Claims(p) /\ Candidate(p)
      /\ pc[p] = "renewed" /\ NewDeadline(p) > now
  BY Zenon DEF TInv, IInv, Activate
<1>2. got[p] \in Ownership /\ got[p].holder = holder[p]
  BY Zenon, <1>1 DEF Locals, Won
<1>3. now < NewDeadline(p)
  <2>1. NewDeadline(p) \in Int /\ now \in Int
    BY Zenon, <1>1, <1>2, Numbers
  <2> QED
    BY <1>1, <2>1
<1>4. RowHolds(got[p], NewDeadline(p)) /\ Elected(got[p], NewDeadline(p))
  BY Zenon, <1>1, <1>3 DEF Claims, Claim, Ready
<1>5. Unseen(got[p]) /\ holder[p] # lastHolder
  BY Zenon, <1>1, <1>3 DEF Candidate, Passive
<1> QED
  BY Zenon, <1>1, <1>2, <1>3, <1>4, <1>5 DEF RowHolds, Elected

\* A coordinator whose term, or whose next term, has time left holds the row.
LEMMA Holding ==
  ASSUME IInv, NEW q \in Procs,
         \/ active[q] /\ now < deadline[q]
         \/ pc[q] \in Ready /\ now < NewDeadline(q)
  PROVE  lease.holder = holder[q] /\ pc[q] # "stopped"
<1>1. Locals(q) /\ Claims(q)
  BY Zenon DEF IInv
<1>2. CASE active[q] /\ now < deadline[q]
  BY Zenon, <1>1, <1>2 DEF Locals, Claims, Claim, RowHolds, SameTerm, Renewing
<1>3. CASE pc[q] \in Ready /\ now < NewDeadline(q)
  BY Zenon, <1>1, <1>3 DEF Locals, Claims, Claim, RowHolds, SameTerm, Renewing, Ready, Won
<1> QED
  BY Zenon, <1>2, <1>3

\* An activation makes its term the last one, and takes nothing from the others.
LEMMA ActivateStep ==
  ASSUME TInv, NEW p \in Procs, Coordinator(p), Activate(p)
  PROVE  LastTerm' /\ \A q \in Procs : Candidate(q)' /\ Incumbent(q)'
<1> DEFINE g == got[p]
           k == got[p].cluster
<1>1. /\ pc[p] = "renewed" /\ g \in Ownership /\ g.holder = holder[p]
      /\ lease # NoLease /\ SameTerm(lease, g) /\ g.gen = gens[k]
      /\ now < NewDeadline(p) /\ Unseen(g) /\ holder[p] # lastHolder
  BY Zenon, Activating
<1>2. /\ IInv /\ TypeOK /\ LastTerm /\ Holders /\ lastTerm \in [Clusters -> Term]
      /\ k \in Clusters /\ cluster \in Clusters
  BY Zenon, <1>1 DEF TInv, IInv, TypeOK, ControlOK, EnvironmentOK, Ownership
<1>3. /\ UNCHANGED <<now, env, replica, lease, holder, nextHolder>>
      /\ lastTerm' = [lastTerm EXCEPT ![k] = [gen |-> g.gen, epoch |-> g.epoch]]
      /\ lastHolder' = holder[p]
  BY Zenon, <1>1 DEF Activate, Coordinator
<1>4. /\ lastTerm'[k] = [gen |-> g.gen, epoch |-> g.epoch]
      /\ \A c \in Clusters \ {k} : lastTerm'[c] = lastTerm[c]
  BY Zenon, <1>2, <1>3
<1>5. LastTerm'
  <2>1. lastHolder' < nextHolder'
    BY Zenon, <1>1, <1>2, <1>3 DEF Holders
  <2>2. ASSUME NEW c \in Clusters PROVE lastTerm'[c].gen <= gens'[c]
    <3>1. CASE c = k
      <4>1. gens[k] \in Nat
        BY Zenon, <1>2 DEF TypeOK, EnvironmentOK
      <4> QED
        BY <1>1, <1>3, <1>4, <3>1, <4>1
    <3>2. CASE c # k
      BY ZenonT(30), <1>2, <1>3, <1>4, <3>2 DEF LastTerm
    <3> QED
      BY ZenonT(30), <3>1, <3>2
  <2>3. ASSUME lastTerm'[cluster].gen = gens[cluster]
        PROVE  /\ lease.cluster = cluster
               /\ lease.epoch >= lastTerm'[cluster].epoch
               /\ lease.holder = holder[p]
    <3>1. cluster = k
      BY ZenonT(30), <1>1, <1>2, <1>4, <2>3 DEF LastTerm, SameTerm
    <3>2. lease.epoch \in Nat /\ lease.epoch = lastTerm'[cluster].epoch
      <4>1. lease.epoch = g.epoch /\ g.epoch \in Nat
        <5>1. g \in Ownership /\ lease.epoch = g.epoch
          BY Zenon, <1>1 DEF SameTerm
        <5> HIDE DEF g
        <5> QED
          BY <5>1 DEF Ownership
      <4>2. lastTerm'[cluster].epoch = g.epoch
        <5>1. lastTerm'[cluster] = [gen |-> g.gen, epoch |-> g.epoch]
          BY Zenon, <1>4, <3>1
        <5> HIDE DEF g
        <5> QED
          BY <5>1
      <4> QED
        BY Zenon, <4>1, <4>2
    <3> QED
      BY <1>1, <3>1, <3>2 DEF SameTerm
  <2> QED
    BY Zenon, <1>1, <1>3, <2>1, <2>2, <2>3 DEF LastTerm
<1>6. \A o \in Ownership : ~Unseen(o) => ~Unseen(o)'
  <2> SUFFICES ASSUME NEW o \in Ownership, ~Unseen(o) PROVE ~Unseen(o)'
    OBVIOUS
  <2>1. CASE o.cluster # k
    BY Zenon, <1>4, <2>1 DEF Unseen, Newer, Ownership
  <2>2. CASE o.cluster = k
    <3>1. /\ o.gen \in Nat /\ o.epoch \in Nat /\ g.gen \in Nat /\ g.epoch \in Nat
          /\ lastTerm[k].gen \in Nat /\ lastTerm[k].epoch \in Nat
      BY Zenon, <1>1, <1>2 DEF Ownership, Term
    <3>2. ~Newer(o, lastTerm[k]) /\ Newer(g, lastTerm[k])
      BY Zenon, <1>1, <2>2 DEF Unseen
    <3>3. ~Newer(o, lastTerm'[k])
      <4>1. lastTerm'[k].gen = g.gen /\ lastTerm'[k].epoch = g.epoch
        <5>1. lastTerm'[k] = [gen |-> g.gen, epoch |-> g.epoch]
          BY Zenon, <1>4
        <5> HIDE DEF g, k
        <5> QED
          BY <5>1
      <4>2. ~Newer(o, g)
        BY Zenon, <3>1, <3>2, TokenOrder
      <4> QED
        BY Zenon, <4>1, <4>2 DEF Newer
    <3> QED
      BY Zenon, <2>2, <3>3 DEF Unseen
  <2> QED
    BY Zenon, <2>1, <2>2
<1>7. ~Newer(g, lastTerm'[k])
  <2>1. g.gen \in Nat /\ g.epoch \in Nat
    BY Zenon, <1>1 DEF Ownership
  <2> QED
    BY <1>4, <2>1 DEF Newer
<1>8. Candidate(p)' /\ Incumbent(p)'
  <2>1. pc'[p] = "held" /\ own'[p] = g
    BY Zenon, <1>2 DEF Activate, TypeOK, ControlOK, TermOK
  <2>2. Candidate(p)'
    BY Zenon, <2>1 DEF Candidate, Passive
  <2>3. ~Unseen(own[p])'
    BY Zenon, <1>7, <2>1 DEF Unseen
  <2> QED
    BY Zenon, <1>3, <2>1, <2>2, <2>3 DEF Incumbent, Renewing
<1>9. ASSUME NEW q \in Procs, q # p PROVE Candidate(q)' /\ Incumbent(q)'
  <2>0. /\ UNCHANGED Mine(q) /\ Locals(q) /\ Candidate(q) /\ Incumbent(q)
    BY Zenon, <1>2, <1>9, Others DEF TInv, IInv
  <2>1. UNCHANGED <<pc[q], holder[q], snap[q], got[q], started[q], proof[q],
                    active[q], own[q], deadline[q], NewDeadline(q)>>
    BY Zenon, <2>0 DEF Mine, NewDeadline
  <2>2. ASSUME pc[q] # "stopped" PROVE lease.holder # holder[q] /\ holder[q] # holder[p]
    BY Zenon, <1>1, <1>2, <1>9, <2>2 DEF Holders, SameTerm
  <2>3. /\ ~(active[q] /\ now < deadline[q])
        /\ ~(pc[q] \in Ready /\ now < NewDeadline(q))
    BY Zenon, <1>2, <2>2, Holding
  <2>4. ASSUME pc[q] \in Won, Ahead(got[q]) PROVE Ahead(got[q])'
    <3>1. got[q].holder = holder[q] /\ pc[q] # "stopped"
      BY Zenon, <2>0, <2>4 DEF Locals, Won, Renewing
    <3>2. lease.epoch # got[q].epoch
      BY Zenon, <2>2, <2>4, <3>1 DEF Ahead, SameTerm
    <3> QED
      BY Zenon, <1>3, <2>1, <2>4, <3>2 DEF Ahead
  <2>5. Candidate(q)'
    <3>1. pc[q] \in Passive \ {"stopped"} => holder[q] # holder[p]
      BY Zenon, <2>2
    <3>2. pc[q] \in {"confirm", "ttl"} /\ Current(snap[q])' => Ahead(got[q])'
      BY Zenon, <1>3, <2>0, <2>1, <2>4 DEF Candidate, Current, Won
    <3>3. pc[q] \in {"proved", "activate"} /\ now < proof[q] => Ahead(got[q])'
      BY Zenon, <2>0, <2>4 DEF Candidate, Won
    <3> QED
      BY Zenon, <1>3, <2>1, <2>3, <3>1, <3>2, <3>3 DEF Candidate, Ready
  <2>6. pc[q] \in Renewing => ~Unseen(got[q])'
    <3>1. pc[q] \in Renewing => got[q] \in Ownership /\ ~Unseen(got[q])
      BY Zenon, <2>0 DEF Locals, Won, Incumbent
    <3> QED
      BY Zenon, <1>6, <2>1, <3>1 DEF Unseen
  <2>7. active[q] => ~Unseen(own[q])'
    <3>1. active[q] => own[q] \in Ownership /\ ~Unseen(own[q])
      BY Zenon, <2>0 DEF Locals, Incumbent
    <3> QED
      BY Zenon, <1>6, <2>1, <3>1 DEF Unseen
  <2>8. Incumbent(q)'
    BY Zenon, <1>3, <2>1, <2>3, <2>6, <2>7 DEF Incumbent, Ready
  <2> QED
    BY Zenon, <2>5, <2>8
<1> QED
  BY Zenon, <1>5, <1>8, <1>9

\* A coordinator's own steps, but for the activation.
LEMMA TokensOwnStep ==
  ASSUME TInv, NEW p \in Procs, Coordinator(p), ~Activate(p)
  PROVE  UNCHANGED history /\ Candidate(p)' /\ Incumbent(p)'
<1>0. /\ [Next]_vars /\ IInv /\ TypeOK /\ LastTerm /\ Locals(p) /\ Claims(p)
      /\ Candidate(p) /\ Incumbent(p)
      /\ UNCHANGED <<now, env>> /\ cluster \in Clusters
  BY Zenon DEF TInv, IInv, TypeOK, EnvironmentOK, Next, Coordinator
<1>1. UNCHANGED history
  BY Zenon DEF Coordinator, Start, Stop, Exit, ObserveLeader, SendAcquire,
     SendActivation, SendRenew, ConfirmLeader, ReadLeaseTTL, UpdateActive,
     TimelineMismatch, FailObservation, FailCandidate, FailRenewal, OwnershipEnded,
     TimerFires, TimerCallback, ExecAcquire, ExecRenew
<1>2. \* what is left of the two when nothing is pending
      ASSUME pc'[p] \notin Won,
             pc'[p] \in Passive \ {"stopped"} => holder'[p] # lastHolder,
             active'[p] => active[p] /\ UNCHANGED <<own[p], deadline[p], holder[p]>>
      PROVE  Candidate(p)' /\ Incumbent(p)'
  BY Zenon, <1>0, <1>1, <1>2 DEF Candidate, Incumbent, Won, Renewing, Unseen
<1>w. /\ {"idle", "identify", "acquire", "held", "stopped"} \cap Won = {}
      /\ {"idle", "identify", "acquire"} \subseteq Passive \ {"stopped"}
      /\ {"held", "stopped"} \cap (Passive \ {"stopped"}) = {}
  BY DEF Won, Renewing, Passive
<1>3. ASSUME UNCHANGED <<holder[p], active[p], own[p], deadline[p]>>,
             pc'[p] \in Renewing \ {"rProved"}, ~Unseen(got[p])'
      PROVE  Candidate(p)' /\ Incumbent(p)'
  BY Zenon, <1>0, <1>1, <1>3 DEF Candidate, Incumbent, Renewing, Passive, Unseen
<1>4. CASE Start(p)
  <2>1. pc[p] = "stopped" /\ pc'[p] = "idle" /\ holder'[p] = nextHolder /\ UNCHANGED active
    BY Zenon, <1>0, <1>4 DEF Start, TypeOK, ControlOK
  <2>2. ~active[p]
    BY ZenonT(30), <1>0, <2>1 DEF Locals, Renewing
  <2>3. nextHolder # lastHolder
    BY <1>0 DEF LastTerm, TypeOK, ControlOK
  <2> QED
    BY Zenon, <1>1, <1>2, <1>w, <2>1, <2>2, <2>3
<1>5. CASE Stop(p) \/ FailRenewal(p) \/ OwnershipEnded(p)
  <2>1. pc'[p] = "stopped" /\ ~active'[p]
    BY Zenon, <1>0, <1>5 DEF Stop, FailRenewal, OwnershipEnded, Exit, TypeOK, ControlOK,
       TermOK
  <2> QED
    BY Zenon, <1>1, <1>2, <1>w, <2>1
<1>6. CASE SendAcquire(p) \/ FailObservation(p) \/ TimelineMismatch(p)
  <2>1. /\ \/ pc[p] \in {"identify", "acquire"} /\ pc'[p] \in {"acquire", "idle"}
           \/ pc'[p] = "held"
        /\ UNCHANGED <<holder[p], active[p], own[p], deadline[p]>>
    BY Zenon, <1>0, <1>6 DEF SendAcquire, FailObservation, TimelineMismatch, TypeOK,
       ControlOK
  <2> QED
    BY Zenon, <1>0, <1>1, <1>2, <1>w, <2>1 DEF Candidate
<1>7. CASE FailCandidate(p)
  <2>1. /\ pc[p] \in {"confirm", "ttl", "activate", "renewed"} /\ pc'[p] = "idle"
        /\ holder'[p] = nextHolder /\ UNCHANGED active
    BY Zenon, <1>0, <1>7 DEF FailCandidate, TypeOK, ControlOK
  <2>2. ~active[p]
    BY Zenon, <1>0, <2>1 DEF Locals, Renewing
  <2>3. nextHolder # lastHolder
    BY <1>0 DEF LastTerm, TypeOK, ControlOK
  <2> QED
    BY Zenon, <1>1, <1>2, <1>w, <2>1, <2>2, <2>3
<1>8. CASE TimerFires(p) \/ \E v \in fired[p] : TimerCallback(p, v)
  <2>1. /\ UNCHANGED <<pc[p], holder[p], snap[p], got[p], started[p], proof[p]>>
        /\ active'[p] => active[p] /\ UNCHANGED <<own[p], deadline[p]>>
    BY Zenon, <1>0, <1>8 DEF TimerFires, TimerCallback, Deactivate, TypeOK, TermOK
  <2> QED
    BY Zenon, <1>0, <1>1, <2>1, CandidateFrame, IncumbentFrame
<1>9. CASE ObserveLeader(p)
  <2>1. /\ \/ pc[p] = "idle" /\ pc'[p] = "identify"
           \/ /\ pc[p] = "held" /\ active[p] /\ pc'[p] = "rIdentify"
              /\ got'[p] = own[p]
        /\ UNCHANGED <<holder[p], active[p], own[p], deadline[p]>>
    BY Zenon, <1>0, <1>9 DEF ObserveLeader, TypeOK, ControlOK, ObservationOK
  <2>2. CASE pc[p] = "idle" /\ pc'[p] = "identify"
    BY Zenon, <1>0, <1>1, <1>2, <1>w, <2>1, <2>2 DEF Candidate
  <2>3. CASE pc[p] = "held" /\ active[p] /\ pc'[p] = "rIdentify" /\ got'[p] = own[p]
    BY Zenon, <1>0, <1>1, <1>3, <2>1, <2>3 DEF Renewing, Incumbent, Unseen
  <2> QED
    BY Zenon, <2>1, <2>2, <2>3
<1>10. CASE SendRenew(p)
  <2>1. /\ pc[p] = "rIdentify" /\ pc'[p] = "renew"
        /\ UNCHANGED <<got[p], holder[p], active[p], own[p], deadline[p]>>
    BY Zenon, <1>0, <1>10 DEF SendRenew, TypeOK, ControlOK
  <2> QED
    BY Zenon, <1>0, <1>1, <1>3, <2>1 DEF Renewing, Incumbent, Unseen
<1>11. CASE SendActivation(p)
  <2>1. /\ pc[p] = "proved" /\ pc'[p] = "activate"
        /\ UNCHANGED <<now, lease, got[p], proof[p], holder[p], active[p], own[p], deadline[p]>>
    BY Zenon, <1>0, <1>11 DEF SendActivation, TypeOK, ControlOK
  <2> QED
    BY Zenon, <1>0, <1>1, <2>1 DEF Candidate, Incumbent, Passive, Renewing, Ahead, SameTerm,
       Unseen
<1>12. CASE ExecAcquire(p)
  <2>1. CASE ~CanAcquire(call[p])
    <3>1. /\ pc[p] = "acquire" /\ pc'[p] = "idle"
          /\ UNCHANGED <<holder[p], active[p], own[p], deadline[p]>>
      BY Zenon, <1>0, <1>12, <2>1 DEF ExecAcquire, TypeOK, ControlOK
    <3> QED
      BY Zenon, <1>0, <1>1, <1>2, <1>w, <3>1 DEF Candidate
  <2>2. CASE CanAcquire(call[p])
    <3>1. /\ pc[p] = "acquire" /\ pc'[p] = "confirm"
          /\ lease' = AcquiredRow(call[p]) /\ got'[p] = Returned(AcquiredRow(call[p]))
          /\ UNCHANGED <<snap[p], holder[p], active[p], own[p], deadline[p]>>
      BY Zenon, <1>0, <1>12, <2>2 DEF ExecAcquire, TypeOK, ControlOK, ObservationOK
    <3>2. /\ call[p] \in Statement /\ call[p].holder = holder[p]
          /\ call[p].cluster = snap[p].cluster /\ call[p].gen = snap[p].gen
          /\ AcquiredRow(call[p]) \in Row /\ snap[p] \in Snapshot
      BY Zenon, <1>0, <3>1, RowTypes DEF Locals, Calling, Observing
    <3>3. /\ lease' # NoLease /\ SameTerm(lease', got'[p]) /\ lease'.epoch \in Nat
          /\ got'[p].epoch = lease'.epoch
          /\ got'[p].cluster = lease'.cluster /\ got'[p].gen = lease'.gen
      BY Zenon, <3>1, <3>2, ReturnedTerm
    <3>4. ~active[p] /\ holder[p] # lastHolder
      BY Zenon, <1>0, <3>1 DEF Locals, Renewing, Candidate, Passive
    <3>5. ASSUME Current(snap[p]) PROVE Unseen(got[p])'
      <4> DEFINE t == lastTerm[cluster]
      <4>1. /\ t.gen \in Nat /\ t.epoch \in Nat /\ gens[cluster] \in Nat
            /\ t.gen <= gens[cluster]
        BY Zenon, <1>0 DEF LastTerm, TypeOK, ControlOK, EnvironmentOK, Term
      <4>2. /\ t.gen = gens[cluster] =>
                 /\ lease # NoLease /\ lease.epoch \in Nat /\ lease.epoch >= t.epoch
                 /\ lease.epoch = t.epoch => lease.holder = lastHolder
        BY Zenon, <1>0 DEF LastTerm, TypeOK, RowOK, Row
      <4>3. call[p].gen = gens[cluster] /\ call[p].cluster = cluster
        BY Zenon, <3>2, <3>5 DEF Current
      <4>4. CASE lease # NoLease /\ RetriesLiveTerm(call[p])
        <5>1. lease' = lease /\ lease.holder = holder[p] /\ lease.gen = gens[cluster]
              /\ lease.cluster = cluster
          BY Zenon, <2>2, <3>1, <3>2, <4>3, <4>4 DEF AcquiredRow, RetriesLiveTerm, CanAcquire
        <5>2. t.gen = gens[cluster] => lease.epoch # t.epoch
          BY ZenonT(30), <3>4, <4>2, <5>1
        <5>3. Newer(got'[p], t)
          BY <3>3, <4>1, <4>2, <5>1, <5>2 DEF Newer
        <5> QED
          BY Zenon, <1>1, <3>3, <5>1, <5>3 DEF Unseen
      <4>5. CASE ~(lease # NoLease /\ RetriesLiveTerm(call[p]))
        <5>1. lease' = [cluster |-> cluster, gen |-> gens[cluster], epoch |-> lease.epoch + 1,
                        holder |-> call[p].holder, exp |-> DatabaseTime + LeaseDuration]
          BY ZenonT(30), <3>1, <4>3, <4>5 DEF AcquiredRow
        <5>2. Newer(got'[p], t)
          <6>1. got'[p].gen = gens[cluster] /\ got'[p].epoch = lease.epoch + 1 /\ lease'.epoch = lease.epoch + 1
            BY Zenon, <3>3, <5>1
          <6> QED
            BY <3>3, <4>1, <4>2, <6>1 DEF Newer
        <5>3. got'[p].cluster = cluster
          BY <3>3, <5>1
        <5> QED
          BY Zenon, <1>1, <5>2, <5>3 DEF Unseen
      <4> QED
        BY Zenon, <4>4, <4>5
    <3>6. Current(snap[p])' => Ahead(got[p])'
      <4>1. Current(snap[p])' => Current(snap[p])
        BY Zenon, <1>0, <3>1 DEF Current
      <4>2. lease'.epoch >= got'[p].epoch
        BY <3>3
      <4> QED
        BY Zenon, <3>3, <3>5, <4>1, <4>2 DEF Ahead
    <3> QED
      BY Zenon, <1>1, <3>1, <3>4, <3>6 DEF Candidate, Incumbent, Renewing
  <2> QED
    BY Zenon, <2>1, <2>2
<1>13. CASE ConfirmLeader(p)
  <2>1. /\ \/ pc[p] = "confirm" /\ pc'[p] = "ttl"
           \/ pc[p] = "rConfirm" /\ pc'[p] = "rTTL"
        /\ UNCHANGED <<lease, snap[p], got[p], holder[p], active[p], own[p], deadline[p]>>
    BY Zenon, <1>0, <1>13 DEF ConfirmLeader, TypeOK, ControlOK
  <2>2. CASE pc[p] = "confirm" /\ pc'[p] = "ttl"
    BY Zenon, <1>0, <1>1, <2>1, <2>2 DEF Candidate, Incumbent, Renewing, Passive, Ahead, Current,
       SameTerm, Unseen
  <2>3. CASE pc[p] = "rConfirm" /\ pc'[p] = "rTTL"
    BY Zenon, <1>0, <1>1, <1>3, <2>1, <2>3 DEF Renewing, Incumbent, Unseen
  <2> QED
    BY Zenon, <2>1, <2>2, <2>3
<1>14. CASE ReadLeaseTTL(p)
  <2>1. /\ \/ pc[p] = "ttl" /\ pc'[p] = "proved"
           \/ pc[p] = "rTTL" /\ pc'[p] = "rProved"
        /\ Current(snap[p])
        /\ UNCHANGED <<lease, snap[p], got[p], started[p], holder[p], active[p], own[p], deadline[p]>>
    BY Zenon, <1>0, <1>14 DEF ReadLeaseTTL, TypeOK, ControlOK, Current
  <2>2. CASE pc[p] = "ttl" /\ pc'[p] = "proved"
    BY Zenon, <1>0, <1>1, <2>1, <2>2 DEF Candidate, Incumbent, Renewing, Passive, Ahead, SameTerm,
       Unseen
  <2>3. CASE pc[p] = "rTTL" /\ pc'[p] = "rProved"
    <3>1. /\ got[p] \in Ownership /\ got[p].holder = holder[p] /\ SameWriter(p)
          /\ got[p].exp - got[p].dbTime = LeaseDuration /\ ~Unseen(got[p])
      BY Zenon, <1>0, <2>3 DEF Locals, Won, Renewing, Answered, Incumbent
    <3>2. now < NewDeadline(p)' => now < started[p] + LeaseDuration
      <4>1. /\ now \in Int /\ started[p] \in Int /\ LeaseDuration \in Int
            /\ NewDeadline(p)' \in Int /\ NewDeadline(p)' <= started[p] + LeaseDuration
        <5>1. TypeOK'
          BY Zenon, <1>0, TypeStep
        <5>2. proof'[p] \in Int
          BY Zenon, <5>1 DEF TypeOK, ObservationOK
        <5>3. now \in Int /\ started[p] \in Int /\ LeaseDuration \in Int
          BY Zenon, <1>0, Numbers
        <5> QED
          BY <2>1, <3>1, <5>2, <5>3 DEF NewDeadline
      <4> QED
        BY Zenon, <4>1, Order, SumIsInt
    <3>3. ASSUME now < started[p] + LeaseDuration PROVE holder[p] = lastHolder
      <4> DEFINE t == lastTerm[cluster]
      <4>1. /\ t.gen \in Nat /\ t.epoch \in Nat /\ gens[cluster] \in Nat
            /\ t.gen <= gens[cluster]
        BY Zenon, <1>0 DEF LastTerm, TypeOK, ControlOK, EnvironmentOK, Term
      <4>2. lease # NoLease /\ SameTerm(lease, got[p])
        BY Zenon, <1>0, <2>1, <2>3, <3>3 DEF Claims, RowHolds, Answered
      <4>3. /\ got[p].gen = gens[cluster] /\ got[p].cluster = cluster
            /\ got[p].epoch \in Nat /\ ~Newer(got[p], t)
        BY Zenon, <2>1, <3>1 DEF Current, SameWriter, Unseen, Ownership
      <4>4. t.gen = gens[cluster] /\ got[p].epoch <= t.epoch
        BY <4>1, <4>3 DEF Newer
      <4>5. /\ lease.epoch >= t.epoch
            /\ lease.epoch = t.epoch => lease.holder = lastHolder
        BY Zenon, <1>0, <4>4 DEF LastTerm
      <4>6. lease.epoch = got[p].epoch /\ lease.holder = holder[p]
        BY Zenon, <3>1, <4>2 DEF SameTerm
      <4>7. lease.epoch = t.epoch
        BY <4>1, <4>3, <4>4, <4>5, <4>6
      <4> QED
        BY Zenon, <4>5, <4>6, <4>7
    <3> QED
      BY Zenon, <1>0, <1>1, <2>1, <2>3, <3>1, <3>2, <3>3 DEF Candidate, Incumbent, Renewing, Passive,
         Unseen
  <2> QED
    BY Zenon, <2>1, <2>2, <2>3
<1>15. CASE ExecRenew(p)
  <2>1. /\ CanRenew(call[p]) /\ got'[p] = Returned(RenewedRow)
        /\ \/ pc[p] = "activate" /\ pc'[p] = "renewed"
           \/ pc[p] = "renew" /\ pc'[p] = "rConfirm"
        /\ UNCHANGED <<started[p], proof[p], holder[p], active[p], own[p], deadline[p]>>
    BY Zenon, <1>0, <1>15 DEF ExecRenew, TypeOK, ControlOK, ObservationOK
  <2>2. SameTerm(call[p], got[p]) /\ SameTerm(lease, got[p]) /\ got[p] \in Ownership
    BY ZenonT(30), <1>0, <2>1 DEF Locals, Won, Renewing, CanRenew, SameTerm
  <2>3. SameTerm(got'[p], got[p])
    BY <1>0, <2>1, <2>2, RowTypes DEF CanRenew, Returned, SameTerm
  <2>4. Unseen(got[p])' <=> Unseen(got[p])
    BY Zenon, <1>1, <2>3 DEF Unseen, SameTerm, Newer
  <2>5. CASE pc[p] = "renew" /\ pc'[p] = "rConfirm"
    <3>1. pc'[p] \in Renewing \ {"rProved"} /\ pc[p] \in Renewing
      BY <2>5 DEF Renewing
    <3>2. ~Unseen(got[p])'
      BY Zenon, <1>0, <2>4, <3>1 DEF Incumbent
    <3> QED
      BY Zenon, <1>1, <1>3, <2>1, <3>1, <3>2
  <2>6. CASE pc[p] = "activate" /\ pc'[p] = "renewed"
    <3>1. now < NewDeadline(p)' => now < proof[p]
      <4>1. NewDeadline(p)' \in Int /\ NewDeadline(p)' <= proof[p] /\ proof[p] \in Int /\ now \in Int
        <5>1. TypeOK'
          BY Zenon, <1>0, TypeStep
        <5>2. proof[p] \in Int /\ started[p] \in Int /\ now \in Int
          BY Zenon, <1>0, Numbers
        <5>3. got'[p] \in Ownership
          BY Zenon, <1>0, <2>1, RowTypes DEF CanRenew
        <5>4. got'[p].exp \in Int /\ got'[p].dbTime \in Int
          BY Zenon, <5>3 DEF Ownership
        <5> QED
          BY Zenon, <2>1, <5>2, <5>4, LesserTime DEF NewDeadline
      <4> QED
        BY Zenon, <4>1, Order, SumIsInt
    <3>2. now < proof[p] => Unseen(got[p])
      BY Zenon, <1>0, <2>2, <2>6 DEF Candidate, Ahead, SameTerm
    <3>3. ~active[p] /\ holder[p] # lastHolder
      BY Zenon, <1>0, <2>6 DEF Locals, Renewing, Candidate, Passive
    <3> QED
      BY Zenon, <1>0, <1>1, <2>1, <2>4, <2>6, <3>1, <3>2, <3>3 DEF Candidate, Incumbent, Renewing
  <2> QED
    BY Zenon, <2>1, <2>5, <2>6
<1>16. CASE UpdateActive(p)
  <2>1. /\ pc[p] = "rProved" /\ pc'[p] = "held" /\ own'[p] = got[p]
        /\ deadline'[p] = NewDeadline(p) /\ UNCHANGED holder[p]
    BY Zenon, <1>0, <1>16 DEF UpdateActive, ResetLeaseTimer, TypeOK, ControlOK, TermOK
  <2> QED
    BY Zenon, <1>0, <1>1, <2>1 DEF Candidate, Incumbent, Renewing, Passive, Unseen
<1> QED
  BY Zenon, <1>1, <1>4, <1>5, <1>6, <1>7, <1>8, <1>9, <1>10, <1>11, <1>12, <1>13, <1>14,
     <1>15, <1>16 DEF Coordinator

\* The environment leaves coordinators and history alone.
LEMMA EnvironmentFrame ==
  ASSUME Environment \/ UNCHANGED vars
  PROVE  UNCHANGED history /\ \A q \in Procs : UNCHANGED Mine(q)
BY Zenon DEF Environment, vars, Mine

\* Every step keeps the history of tokens in order.
LEMMA TokensStep == TInv /\ [Next]_vars => TInv'
<1> SUFFICES ASSUME TInv, [Next]_vars PROVE TInv'
  OBVIOUS
<1>0. IInv /\ TypeOK /\ IInv'
  BY Zenon, TypeStep, ControlStep, GenerationsStep, LocalsStep, ClaimsStep DEF TInv, IInv
<1>1. ASSUME UNCHANGED history, NEW q \in Procs, UNCHANGED Mine(q)
      PROVE  Candidate(q)' /\ Incumbent(q)'
  BY Zenon, <1>1, CandidateFrame, IncumbentFrame DEF Mine
<1>2. CASE Environment \/ UNCHANGED vars
  BY Zenon, <1>0, <1>1, <1>2, EnvironmentFrame, LastTermKept DEF TInv
<1>3. ASSUME NEW p \in Procs, Coordinator(p) PROVE TInv'
  <2>1. CASE Activate(p)
    BY Zenon, <1>0, <1>3, <2>1, ActivateStep DEF TInv
  <2>2. CASE ~Activate(p)
    <3>1. UNCHANGED history /\ Candidate(p)' /\ Incumbent(p)'
      BY Zenon, <1>3, <2>2, TokensOwnStep
    <3>2. ASSUME NEW q \in Procs, q # p PROVE Candidate(q)' /\ Incumbent(q)'
      BY Zenon, <1>0, <1>1, <1>3, <3>1, <3>2, Others
    <3> QED
      BY Zenon, <1>0, <3>1, <3>2, LastTermKept DEF TInv
  <2> QED
    BY Zenon, <2>1, <2>2
<1> QED
  BY Zenon, <1>2, <1>3 DEF Next

\* The history of tokens is in order throughout.
THEOREM TokensHold == Spec => []TInv
<1>1. Init /\ IInv => TInv
  <2> SUFFICES ASSUME Init, IInv PROVE TInv
    OBVIOUS
  <2>1. /\ lastHolder = 0 /\ nextHolder = 1 /\ cluster \in Clusters
        /\ \A c \in Clusters : lastTerm[c].gen = 0 /\ gens[c] \in {0, 1}
        /\ gens[cluster] = 1
    <3>1. /\ lastHolder = 0 /\ nextHolder = 1 /\ cluster \in Clusters
          /\ gens = [c \in Clusters |-> IF c = cluster THEN 1 ELSE 0]
          /\ lastTerm = [c \in Clusters |-> [gen |-> 0, epoch |-> 0]]
      BY Zenon DEF Init
    <3> QED
      BY Zenon, <3>1
  <2>2. LastTerm
    <3>1. 0 < 1 /\ 0 <= 0 /\ 0 <= 1 /\ 0 # 1
      OBVIOUS
    <3>2. \A c \in Clusters : lastTerm[c].gen <= gens[c]
      BY Zenon, <2>1, <3>1
    <3> QED
      BY Zenon, <2>1, <3>1, <3>2 DEF LastTerm
  <2>3. \A p \in Procs : pc[p] = "stopped" /\ ~active[p]
    BY Zenon DEF Init
  <2> QED
    BY Zenon, <2>2, <2>3 DEF TInv, Candidate, Incumbent, Renewing
<1>2. TInv /\ [Next]_vars => TInv'
  BY Zenon, TokensStep
<1> QED
  BY <1>1, <1>2, InvariantHolds, PTL DEF Spec

\* Only Activate makes a coordinator active.
LEMMA OnlyActivateActivates ==
  ASSUME TypeOK, [Next]_vars, NEW p \in Procs, ~active[p], active'[p]
  PROVE  Activate(p) /\ own'[p] = got[p]
<1>1. CASE Environment \/ UNCHANGED vars
  BY Zenon, <1>1, EnvironmentFrame DEF Mine
<1>2. ASSUME NEW q \in Procs, Coordinator(q) PROVE Activate(p)
  <2>1. q = p
    BY Zenon, <1>2, Others DEF Mine
  <2>2. CASE Exit(p) \/ UNCHANGED active \/ Deactivate(p)
    BY Zenon, <2>2 DEF Exit, Deactivate, TypeOK, TermOK
  <2> QED
    BY Zenon, <1>2, <2>1, <2>2 DEF Coordinator, Start, Stop, ObserveLeader, SendAcquire,
       SendActivation, SendRenew, ConfirmLeader, ReadLeaseTTL, UpdateActive,
       TimelineMismatch, FailObservation, FailCandidate, FailRenewal, OwnershipEnded,
       TimerFires, TimerCallback, ExecAcquire, ExecRenew
<1>3. Activate(p)
  BY Zenon, <1>1, <1>2 DEF Next
<1>4. own'[p] = got[p]
  BY Zenon, <1>3 DEF Activate, TypeOK, TermOK
<1> QED
  BY Zenon, <1>3, <1>4

\* Every activation carries a token newer than all earlier ones of its DCS
\* cluster: elections that lose the row's last writes, rebuilt clusters,
\* retries under one identity and late statements never bring a token back.
THEOREM FencingTokensIncrease == Spec => TermsIncrease
<1>1. TInv /\ [Next]_vars =>
        [\A p \in Procs : ~active[p] /\ active'[p] =>
           Newer(own'[p], lastTerm[own'[p].cluster])]_vars
  <2> SUFFICES ASSUME TInv, [Next]_vars, NEW p \in Procs, ~active[p], active'[p]
               PROVE  Newer(own'[p], lastTerm[own'[p].cluster])
    BY Zenon
  <2>1. Activate(p) /\ own'[p] = got[p]
    BY Zenon, OnlyActivateActivates DEF TInv, IInv
  <2>2. Unseen(got[p])
    BY Zenon, <2>1, Activating
  <2> QED
    BY Zenon, <2>1, <2>2 DEF Unseen
<1> QED
  BY <1>1, TokensHold, PTL DEF Spec, TermsIncrease
-----------------------------------------------------------------------------
\* A callback that waits for the lock is of this version or an older one, and
\* one of this version is due.
Timers(p) ==
  /\ \A v \in fired[p] : v <= leaseVersion[p]
  /\ active[p] /\ leaseVersion[p] \in fired[p] => now >= deadline[p]

\* Every reset and every end of a term leaves the callbacks under way behind.
LEMMA TimersStep ==
  ASSUME TypeOK, \A p \in Procs : Timers(p), [Next]_vars, NEW q \in Procs
  PROVE  Timers(q)'
<1>0. /\ now \in Nat /\ now' >= now /\ deadline[q] \in Int /\ leaseVersion[q] \in Nat
      /\ fired[q] \subseteq Nat /\ Timers(q)
  BY Zenon, TimeStep DEF TypeOK, EnvironmentOK, TermOK
<1>1. now' \in Nat
  BY ZenonT(30), EnvironmentStep DEF EnvironmentOK
<1>2. CASE UNCHANGED <<active[q], deadline[q], leaseVersion[q], fired[q]>>
  BY <1>0, <1>1, <1>2 DEF Timers
<1>3. CASE Environment \/ UNCHANGED vars
  BY Zenon, <1>2, <1>3 DEF Environment, vars
<1>4. ASSUME NEW p \in Procs, Coordinator(p), p # q PROVE Timers(q)'
  <2>1. \/ UNCHANGED term
        \/ Exit(p) \/ Activate(p) \/ UpdateActive(p) \/ TimerFires(p)
        \/ \E v \in fired[p] : TimerCallback(p, v)
    BY Zenon, <1>4 DEF Coordinator, Start, Stop, ObserveLeader, SendAcquire, SendActivation,
       SendRenew, ConfirmLeader, ReadLeaseTTL, TimelineMismatch, FailObservation,
       FailCandidate, FailRenewal, OwnershipEnded, ExecAcquire, ExecRenew
  <2>2. UNCHANGED <<active[q], deadline[q], leaseVersion[q], fired[q]>>
    BY ZenonT(30), <1>4, <2>1 DEF Exit, Activate, UpdateActive, TimerFires, TimerCallback,
       Deactivate, ResetLeaseTimer, TypeOK, TermOK
  <2> QED
    BY Zenon, <1>2, <2>2
<1>5. ASSUME Coordinator(q) PROVE Timers(q)'
  <2>1. CASE UNCHANGED term
    BY Zenon, <1>2, <2>1
  <2>2. CASE Exit(q)
    <3>1. ~active'[q] /\ fired'[q] = {}
      BY Zenon, <2>2 DEF Exit, TypeOK, TermOK
    <3> QED
      BY Zenon, <3>1 DEF Timers
  <2>3. CASE Activate(q) \/ UpdateActive(q)
    <3>1. leaseVersion'[q] = leaseVersion[q] + 1 /\ UNCHANGED fired
      BY Zenon, <2>3 DEF Activate, UpdateActive, ResetLeaseTimer, TypeOK, TermOK
    <3> QED
      BY <1>0, <3>1 DEF Timers
  <2>4. CASE TimerFires(q)
    <3>1. /\ now >= deadline[q] /\ fired'[q] = fired[q] \cup {leaseVersion[q]}
          /\ UNCHANGED <<now, active, deadline, leaseVersion>>
      BY Zenon, <1>5, <2>4 DEF TimerFires, Coordinator, TypeOK, TermOK
    <3> QED
      BY <1>0, <3>1 DEF Timers
  <2>5. ASSUME NEW v \in fired[q], TimerCallback(q, v) PROVE Timers(q)'
    <3>1. CASE active[q] /\ leaseVersion[q] = v
      <4>1. /\ ~active'[q] /\ leaseVersion'[q] = leaseVersion[q] + 1
            /\ fired'[q] \subseteq fired[q]
        BY Zenon, <2>5, <3>1 DEF TimerCallback, Deactivate, TypeOK, TermOK
      <4> QED
        BY <1>0, <4>1 DEF Timers
    <3>2. CASE ~(active[q] /\ leaseVersion[q] = v)
      <4>1. /\ fired'[q] \subseteq fired[q]
            /\ UNCHANGED <<now, active, deadline, leaseVersion>>
        BY Zenon, <1>5, <2>5, <3>2 DEF TimerCallback, Coordinator, TypeOK, TermOK
      <4> QED
        BY Zenon, <1>0, <4>1 DEF Timers
    <3> QED
      BY Zenon, <3>1, <3>2
  <2> QED
    BY Zenon, <1>5, <2>1, <2>2, <2>3, <2>4, <2>5 DEF Coordinator, Start, Stop, ObserveLeader,
       SendAcquire, SendActivation, SendRenew, ConfirmLeader, ReadLeaseTTL,
       TimelineMismatch, FailObservation, FailCandidate, FailRenewal, OwnershipEnded,
       ExecAcquire, ExecRenew
<1> QED
  BY Zenon, <1>3, <1>4, <1>5 DEF Next

\* The timer's callback ends a term only when the term is due, although it may
\* have waited for the lock while a renewal extended the term.
THEOREM TimerEndsDueTerms == Spec => TimerEndsOnlyDueTerms
<1>1. Init => \A p \in Procs : Timers(p)
  BY Zenon DEF Init, Timers
<1>2. TypeOK /\ (\A p \in Procs : Timers(p)) /\ [Next]_vars => (\A p \in Procs : Timers(p))'
  BY Zenon, TimersStep
<1>3. TypeOK /\ (\A p \in Procs : Timers(p)) /\ [Next]_vars =>
        [\A p \in Procs : active[p] /\ ~active'[p] /\ pc'[p] = pc[p] =>
           now >= deadline[p]]_vars
  <2> SUFFICES ASSUME TypeOK, \A p \in Procs : Timers(p), [Next]_vars, NEW p \in Procs,
                      active[p], ~active'[p], pc'[p] = pc[p]
               PROVE  now >= deadline[p]
    BY Zenon
  <2>1. ~(Environment \/ UNCHANGED vars)
    BY Zenon, EnvironmentFrame DEF Mine
  <2>2. PICK q \in Procs : Coordinator(q)
    BY Zenon, <2>1 DEF Next
  <2>3. q = p
    BY Zenon, <2>2, Others DEF Mine
  <2>4. ~Exit(p) \/ pc[p] = "stopped"
    BY Zenon DEF Exit, TypeOK, ControlOK
  <2>5. ~(Stop(p) \/ FailRenewal(p) \/ OwnershipEnded(p))
    BY Zenon, <2>4 DEF Stop, FailRenewal, OwnershipEnded, Renewing
  <2>6. PICK v \in fired[p] : TimerCallback(p, v)
    BY Zenon, <2>2, <2>3, <2>5 DEF Coordinator, Start, ObserveLeader, SendAcquire,
       SendActivation, SendRenew, ConfirmLeader, ReadLeaseTTL, Activate, UpdateActive,
       TimelineMismatch, FailObservation, FailCandidate, TimerFires, ExecAcquire, ExecRenew,
       TypeOK, TermOK
  <2>7. leaseVersion[p] \in fired[p]
    BY Zenon, <2>6 DEF TimerCallback
  <2> QED
    BY Zenon, <2>7 DEF Timers
<1> QED
  BY <1>1, <1>2, <1>3, TypeCorrect, PTL DEF Spec, TimerEndsOnlyDueTerms
-----------------------------------------------------------------------------
\* Who dispatches, if anybody does, is the holder of the last term.
LEMMA LiveIsLast ==
  TInv => \/ {own[p].holder : p \in {q \in Procs : Live(q)}} = {}
          \/ {own[p].holder : p \in {q \in Procs : Live(q)}} = {lastHolder}
<1> SUFFICES ASSUME TInv
             PROVE  \/ {own[p].holder : p \in {q \in Procs : Live(q)}} = {}
                    \/ {own[p].holder : p \in {q \in Procs : Live(q)}} = {lastHolder}
  BY Zenon
<1>1. ASSUME NEW p \in Procs, Live(p) PROVE own[p].holder = lastHolder
  <2>1. Locals(p) /\ Incumbent(p)
    BY Zenon DEF TInv, IInv
  <2> QED
    BY Zenon, <1>1, <2>1 DEF Locals, Incumbent, Live
<1> QED
  BY Zenon, <1>1

\* The coordinators implement RuntimeOwnership: terms begin one at a time, by
\* a holder that never held one and with a newer token, and nobody dispatches
\* but the holder of the last term.
THEOREM CoordinatorsImplementOwnership == Spec => ImplementsOwnership
<1> DEFINE L == {own[p].holder : p \in {q \in Procs : Live(q)}}
<1>1. Init => Promise!Init
  <2> SUFFICES ASSUME Init PROVE Promise!Init
    OBVIOUS
  <2>1. L = {}
    BY Zenon DEF Init, Live
  <2> QED
    BY Zenon, <2>1 DEF Init, Promise!Init
<1>a. TInv => (L = {} \/ L = {lastHolder})
  BY Zenon, LiveIsLast
<1>b. (TInv => (L = {} \/ L = {lastHolder}))'
  BY <1>a, PTL
<1>2. TInv /\ TInv' /\ [Next]_vars => [Promise!Next]_(Promise!vars)
  <2> SUFFICES ASSUME TInv, TInv', [Next]_vars PROVE [Promise!Next]_(Promise!vars)
    OBVIOUS
  <2>1. (L = {} \/ L = {lastHolder}) /\ (L' = {} \/ L' = {lastHolder'})
    BY Zenon, <1>a, <1>b
  <2>2. CASE UNCHANGED history
    <3>1. UNCHANGED <<lastHolder, lastTerm>>
      BY Zenon, <2>2
    <3> HIDE DEF L
    <3>2. \/ UNCHANGED <<lastHolder, L, lastTerm>>
          \/ L = {lastHolder} /\ L' = {} /\ UNCHANGED <<lastHolder, lastTerm>>
          \/ L = {} /\ L' = {lastHolder} /\ UNCHANGED <<lastHolder, lastTerm>>
      BY Zenon, <2>1, <3>1
    <3> QED
      BY Zenon, <3>2 DEF L, Promise!Next, Promise!Lapse, Promise!Resume, Promise!vars
  <2>3. ASSUME NEW p \in Procs, Coordinator(p), Activate(p) PROVE Promise!Next
    <3>1. /\ got[p] \in Ownership /\ got[p].holder = holder[p] /\ pc[p] = "renewed"
          /\ SameTerm(lease, got[p]) /\ now < NewDeadline(p)
          /\ Unseen(got[p]) /\ holder[p] # lastHolder
      BY Zenon, <2>3, Activating
    <3>2. /\ lastHolder' = holder[p] /\ UNCHANGED now
          /\ lastTerm' = [lastTerm EXCEPT ![got[p].cluster] =
                            [gen |-> got[p].gen, epoch |-> got[p].epoch]]
          /\ active'[p] /\ own'[p] = got[p] /\ deadline'[p] = NewDeadline(p)
      BY Zenon, <2>3, <3>1 DEF Activate, ResetLeaseTimer, Coordinator, TInv, IInv, TypeOK, TermOK
    <3>3. L = {}
      <4>1. ASSUME NEW q \in Procs, Live(q) PROVE FALSE
        <5>1. lease.holder = holder[q] /\ pc[q] # "stopped" /\ active[q]
          BY Zenon, <4>1, Holding DEF Live, TInv
        <5>2. q = p
          BY Zenon, <3>1, <5>1, OneHolder DEF TInv, IInv, SameTerm
        <5> QED
          BY Zenon, <3>1, <5>1, <5>2 DEF TInv, IInv, Locals, Renewing
      <4> QED
        BY Zenon, <4>1
    <3>4. L' = {lastHolder'}
      <4>1. Live(p)'
        BY Zenon, <3>1, <3>2 DEF Live
      <4>2. L' # {}
        BY Zenon, <4>1
      <4> QED
        BY Zenon, <2>1, <4>2
    <3>5. got[p].cluster \in Clusters /\ lastHolder' \in Nat
      BY Zenon, <3>1 DEF Ownership, TInv, IInv, TypeOK, ControlOK
    <3>6. /\ lastTerm' = [lastTerm EXCEPT ![got[p].cluster] = lastTerm'[got[p].cluster]]
          /\ lastTerm'[got[p].cluster] = [gen |-> got[p].gen, epoch |-> got[p].epoch]
      BY Zenon, <3>2, <3>5 DEF TInv, IInv, TypeOK, ControlOK
    <3>7. Promise!Newer(lastTerm'[got[p].cluster], lastTerm[got[p].cluster])
      <4>1. Newer(got[p], lastTerm[got[p].cluster])
        BY Zenon, <3>1 DEF Unseen
      <4>2. /\ lastTerm'[got[p].cluster].gen = got[p].gen
            /\ lastTerm'[got[p].cluster].epoch = got[p].epoch
        BY <3>6
      <4> QED
        BY Zenon, <4>1, <4>2 DEF Newer, Promise!Newer
    <3>8. Promise!Begin(got[p].cluster)
      BY Zenon, <3>1, <3>2, <3>3, <3>4, <3>5, <3>6, <3>7 DEF Promise!Begin
    <3> QED
      BY Zenon, <3>5, <3>8 DEF Promise!Next, Promise!Begin
  <2>4. ASSUME NEW p \in Procs, Coordinator(p), ~Activate(p) PROVE UNCHANGED history
    BY Zenon, <2>4, TokensOwnStep
  <2>5. CASE Environment \/ UNCHANGED vars
    BY Zenon, <2>2, <2>5, EnvironmentFrame
  <2> QED
    BY Zenon, <2>2, <2>3, <2>4, <2>5 DEF Next
<1> QED
  BY <1>1, <1>2, TokensHold, PTL DEF Spec, ImplementsOwnership, Promise!Spec
=============================================================================
