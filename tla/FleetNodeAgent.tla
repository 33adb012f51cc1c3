--------------------------- MODULE FleetNodeAgent ---------------------------
(***************************************************************************)
(* The fleet node's run command at the other end of the control stream:    *)
(* one control session at a time, command workers that outlive it, the     *)
(* exclusive slot and the pool, discovery and pairing, the upload of their *)
(* results in reports, which are requests of their own, and the gateway    *)
(* handlers that admit, store and publish a report.                        *)
(***************************************************************************)
EXTENDS ControlRegistry

CONSTANTS
  Deferrable,       \* the calls, not reporting, that are deferrable reads
  Devices,          \* targets of a pair command, and what a scan may find
  PoolSize,         \* commandPoolSize
  DeferrableSize,   \* deferrableReadCommandPoolSize
  MaxStoreFailures  \* bound: results that fail to be stored

ASSUME AgentAssumption ==
  /\ None \notin Calls /\ Deferrable \subseteq Calls \ Reporting
  /\ PoolSize \in Nat \ {0} /\ DeferrableSize \in Nat \ {0} /\ MaxStoreFailures \in Nat
  /\ {"ok", "partial", "busy", "failed"} \subseteq Codes

VARIABLES
  Pairing,   \* the reporting calls that pair; the others discover
  session,   \* the stream of the agent's control session, or None
  agent,     \* per call: its worker's pc, the results to report, truncated, rejected, and the ack to send
  up,        \* per stream: acks on their way
  pairMu,    \* the call that holds pairMu, or None
  pairing,   \* pair commands of which a device worker may still be running
  report,    \* per call: its report request: pc, device
  targets,   \* per call: PairMeta.Targets
  stored,    \* per call: results stored by the gateway
  failures

agentVars == <<Pairing, session, agent, up, pairMu, pairing, report, targets, stored, failures>>
vars == <<registry, agentVars>>

AgentStates ==
  [pc : {"none", "start", "work", "report", "wait", "ack", "over"}, todo : SUBSET Devices,
   truncated : BOOLEAN, rejected : BOOLEAN, code : Codes \cup {"none"}]
ReportStates ==
  [pc : {"none", "admit", "persist", "publish", "reinstate", "accepted", "rejected", "error"},
   device : Devices \cup {None}]

\* The types, and: pairMu is held for the command whose workers are running.
TypeOK ==
  /\ RegistryTypeOK
  /\ Pairing \subseteq Reporting /\ session \in Streams \cup {None}
  /\ agent \in [Calls -> AgentStates]
  /\ up \in [Streams -> SUBSET (Calls \X Codes)]
  /\ pairMu \in Pairing \cup {None} /\ pairing \subseteq Pairing /\ \A c \in pairing : pairMu = c
  /\ report \in [Calls -> ReportStates]
  /\ targets \in [Calls -> SUBSET Devices] /\ stored \in [Calls -> SUBSET Devices]
  /\ failures \in 0..MaxStoreFailures

Init ==
  /\ RegistryInit /\ Pairing \in SUBSET Reporting
  /\ session = None /\ pairMu = None /\ pairing = {} /\ failures = 0
  /\ agent = [c \in Calls |-> [pc |-> "none", todo |-> {}, truncated |-> FALSE,
                               rejected |-> FALSE, code |-> "none"]]
  /\ up = [s \in Streams |-> {}]
  /\ report = [c \in Calls |-> [pc |-> "none", device |-> None]]
  /\ targets = [c \in Calls |-> IF c \in Pairing THEN Devices ELSE {}]
  /\ stored = [c \in Calls |-> {}]

Set(c, pc) == agent' = [agent EXCEPT ![c].pc = pc]
Ack(c, code) == agent' = [agent EXCEPT ![c].pc = "ack", ![c].code = code]
-----------------------------------------------------------------------------
(* The control session and the admission of commands.                      *)

\* runControlLoop opens the next session when the last one is over.
Connect(s) ==
  /\ session = None /\ session' = s /\ Hello(s)
  /\ UNCHANGED <<Pairing, agent, up, pairMu, pairing, report, targets, stored, failures>>

\* The session ends: its context is cancelled and its sender closed.
SessionEnds ==
  /\ session # None /\ session' = None
  /\ UNCHANGED <<registry, Pairing, agent, up, pairMu, pairing, report, targets, stored, failures>>

Busy == {c \in Calls : agent[c].pc \in {"start", "work", "report", "wait", "ack"}}

\* tryAcquireControlCommandSlot.
SlotFree(c) ==
  LET held(S) == Cardinality(Busy \cap S) IN
  IF c \in Reporting THEN held(Reporting) = 0
  ELSE /\ c \in Deferrable => held(Deferrable) < DeferrableSize
       /\ held(Calls \ Reporting) < PoolSize

\* The command reaches the session it was sent on, or is lost with it; without
\* a free slot the receive loop answers BUSY itself.
Deliver(s, c) ==
  /\ SendDown(s, c)
  /\ \/ session = s /\ SlotFree(c) /\ Set(c, "start") /\ UNCHANGED up
     \/ /\ session = s /\ ~ SlotFree(c)
        /\ agent' = [agent EXCEPT ![c].pc = "over"]
        /\ up' = [up EXCEPT ![s] = @ \cup {<<c, "busy">>}]
     \/ session # s /\ UNCHANGED <<Pairing, agent, up>>
  /\ UNCHANGED <<Pairing, session, pairMu, pairing, report, targets, stored, failures>>

\* The worker sends its ack and gives its slot back; the sender of a session
\* that is over sends nothing.
sendAck(c) ==
  LET s == call[c].on IN
  /\ agent[c].pc = "ack" /\ Set(c, "over")
  /\ up' = IF session = s THEN [up EXCEPT ![s] = @ \cup {<<c, agent[c].code>>}] ELSE up
  /\ UNCHANGED <<registry, Pairing, session, pairMu, pairing, report, targets, stored, failures>>

\* The gateway reads an ack off the stream.
PublishAck(s, c, code) ==
  /\ <<c, code>> \in up[s] /\ up' = [up EXCEPT ![s] = @ \ {<<c, code>>}]
  /\ stream[s] = "open"
  /\ deliverAck(s, c, code) \/ (c \notin inflight /\ UNCHANGED registry)
  /\ UNCHANGED <<Pairing, session, agent, pairMu, pairing, report, targets, stored, failures>>
-----------------------------------------------------------------------------
(* Workers.                                                                *)

\* A command on one miner ends with some ack.
handleMinerCommand(c) ==
  /\ agent[c].pc = "start" /\ c \notin Reporting
  /\ \E code \in {"ok", "failed"} : Ack(c, code)
  /\ UNCHANGED <<registry, Pairing, session, up, pairMu, pairing, report, targets, stored, failures>>

\* discoverForCommand finds some devices; a scan that was cut short is partial.
handleDiscover(c) ==
  /\ agent[c].pc = "start" /\ c \in Reporting \ Pairing
  /\ \E found \in SUBSET Devices, truncated \in BOOLEAN :
       agent' = [agent EXCEPT ![c].pc = "report", ![c].todo = found, ![c].truncated = truncated]
  /\ UNCHANGED <<registry, Pairing, session, up, pairMu, pairing, report, targets, stored, failures>>

\* handlePairCommand refuses what it cannot read or has no plugin for, answers
\* BUSY, or takes pairMu and starts the workers.
handlePairCommand(c) ==
  /\ agent[c].pc = "start" /\ c \in Pairing
  /\ \/ Ack(c, "failed") /\ UNCHANGED <<pairMu, pairing>>
     \/ pairMu # None /\ Ack(c, "busy") /\ UNCHANGED <<pairMu, pairing>>
     \/ pairMu = None /\ Set(c, "work") /\ pairMu' = c /\ pairing' = pairing \cup {c}
  /\ UNCHANGED <<registry, Pairing, session, up, report, targets, stored, failures>>

\* fanOutPairs returns: every target has its result, or the supervisor's budget
\* or the context ran out and workers may be running still.
fanOutPairs(c) ==
  /\ agent[c].pc = "work"
  /\ \E done \in SUBSET Devices, truncated \in BOOLEAN, running \in BOOLEAN :
       /\ ~ truncated => done = Devices /\ ~ running
       /\ agent' = [agent EXCEPT ![c].pc = "report", ![c].todo = done, ![c].truncated = truncated]
       /\ pairing' = IF running THEN pairing ELSE pairing \ {c}
  /\ UNCHANGED <<registry, Pairing, session, up, pairMu, report, targets, stored, failures>>

\* The last abandoned worker of a pair command exits.
WorkersExit(c) ==
  /\ c \in pairing /\ agent[c].pc \notin {"start", "work"} /\ pairing' = pairing \ {c}
  /\ UNCHANGED <<registry, Pairing, session, agent, up, pairMu, report, targets, stored, failures>>

\* workersDone: the goroutine that waits for the workers gives the lock back.
UnlockPair(c) ==
  /\ pairMu = c /\ c \notin pairing /\ pairMu' = None
  /\ UNCHANGED <<registry, Pairing, session, agent, up, pairing, report, targets, stored, failures>>

\* streamReports and streamPairResults: one result is uploaded at a time.
SendReport(c) ==
  /\ agent[c].pc = "report" /\ \E d \in agent[c].todo :
       report' = [report EXCEPT ![c] = [pc |-> "admit", device |-> d]]
  /\ Set(c, "wait")
  /\ UNCHANGED <<registry, Pairing, session, up, pairMu, pairing, targets, stored, failures>>

\* The response is there.
ReportDone(c) ==
  /\ agent[c].pc = "wait"
  /\ \/ report[c].pc \in {"accepted", "rejected"}
        /\ agent' = [agent EXCEPT ![c].pc = "report", ![c].todo = @ \ {report[c].device},
                                  ![c].rejected = @ \/ (c \in Pairing /\ report[c].pc = "rejected")]
     \/ report[c].pc = "error" /\ Ack(c, "failed")
  /\ UNCHANGED <<registry, Pairing, session, up, pairMu, pairing, report, targets, stored, failures>>

\* The request runs out of time or is cancelled; the gateway may go on with it.
ReportFails(c) ==
  /\ agent[c].pc = "wait" /\ Ack(c, "failed")
  /\ UNCHANGED <<registry, Pairing, session, up, pairMu, pairing, report, targets, stored, failures>>

\* Faulty variant: results that were not stored do not count.
ReportedIgnoringRejects(c) ==
  /\ agent[c].pc = "report" /\ agent[c].todo = {}
  /\ \/ Ack(c, "partial")
     \/ ~ agent[c].truncated /\ Ack(c, "ok")
  /\ UNCHANGED <<registry, Pairing, session, up, pairMu, pairing, report, targets, stored, failures>>

\* All results are uploaded: PARTIAL when the batch was cut short, the gateway did
\* not store a result or the deadline has passed since; a scan may have failed.
Reported(c) ==
  /\ agent[c].pc = "report" /\ agent[c].todo = {}
  /\ \/ Ack(c, "partial")
     \/ ~ agent[c].truncated /\ ~ agent[c].rejected /\ Ack(c, "ok")
     \/ c \notin Pairing /\ Ack(c, "failed")
  /\ UNCHANGED <<registry, Pairing, session, up, pairMu, pairing, report, targets, stored, failures>>

Worker(c) ==
  \/ handleMinerCommand(c) \/ handleDiscover(c) \/ handlePairCommand(c) \/ fanOutPairs(c)
  \/ SendReport(c) \/ ReportDone(c) \/ ReportFails(c) \/ Reported(c) \/ sendAck(c)
-----------------------------------------------------------------------------
(* ReportDiscoveredDevices and ReportPairedDevices.                        *)

ReportAt(c, from, to) == report[c].pc = from /\ report' = [report EXCEPT ![c].pc = to]

\* AdmitReport, AdmitAndScopePairResults: the command is in flight; the target
\* is consumed.
Admit(c) ==
  /\ IF c \in inflight THEN ReportAt(c, "admit", "persist") ELSE ReportAt(c, "admit", "error")
  /\ targets' = IF c \in inflight THEN [targets EXCEPT ![c] = @ \ {report[c].device}] ELSE targets
  /\ UNCHANGED <<registry, Pairing, session, agent, up, pairMu, pairing, stored, failures>>

Stores(c) ==
  /\ ReportAt(c, "persist", "publish")
  /\ stored' = [stored EXCEPT ![c] = @ \cup {report[c].device}] /\ UNCHANGED failures

StoreFails(c, to) ==
  /\ failures < MaxStoreFailures /\ failures' = failures + 1
  /\ ReportAt(c, "persist", to) /\ UNCHANGED stored

\* One result that fails to be stored does not fail the report.
PersistFleetNodePairResult(c) == c \in Pairing /\ (Stores(c) \/ StoreFails(c, "reinstate"))

\* A device out of the command's scope, as all are once it is torn down, or owned
\* by another node is dropped, which is no error.
UpsertDiscoveredDevices(c) ==
  /\ c \notin Pairing
  /\ \/ Stores(c) \/ StoreFails(c, "error")
     \/ ReportAt(c, "persist", "rejected") /\ UNCHANGED <<stored, failures>>

Persist(c) ==
  /\ PersistFleetNodePairResult(c) \/ UpsertDiscoveredDevices(c)
  /\ UNCHANGED <<registry, Pairing, session, agent, up, pairMu, pairing, targets>>

\* Faulty variant: the target stays consumed.
ReinstatedNothing(c) ==
  /\ ReportAt(c, "reinstate", "rejected")
  /\ UNCHANGED <<registry, Pairing, session, agent, up, pairMu, pairing, targets, stored, failures>>

\* ReinstatePairTargets.
Reinstate(c) ==
  /\ ReportAt(c, "reinstate", "rejected")
  /\ targets' = IF c \in inflight THEN [targets EXCEPT ![c] = @ \cup {report[c].device}] ELSE targets
  /\ UNCHANGED <<registry, Pairing, session, agent, up, pairMu, pairing, stored, failures>>

\* PublishBatch, PublishPairResults.
Publish(c) ==
  /\ ReportAt(c, "publish", "accepted") /\ deliverEvent(c)
  /\ UNCHANGED <<Pairing, session, agent, up, pairMu, pairing, targets, stored, failures>>
-----------------------------------------------------------------------------
Server ==
  \/ \E s \in Streams : registerLocked(s) \/ HelloFails(s) \/ Unregister(s)
  \/ Disconnect
  \/ \E c \in Calls : Caller(c)

Next ==
  \/ \E s \in Streams : Connect(s) \/ \E c \in Calls : Deliver(s, c) \/ \E code \in Codes : PublishAck(s, c, code)
  \/ SessionEnds
  \/ Server /\ UNCHANGED agentVars
  \/ \E c \in Calls : \/ Worker(c) \/ WorkersExit(c) \/ UnlockPair(c)
                      \/ Admit(c) \/ Persist(c) \/ Reinstate(c) \/ Publish(c)

Spec == Init /\ [][Next]_vars
-----------------------------------------------------------------------------
(* Properties.                                                             *)

\* "a second command must not race them": device workers of two pair commands
\* are never running at the same time.
OnePairAtATime == Cardinality(pairing) <= 1

\* A pair call that returns OK has a result of every target in the database,
\* although each result was sent once, in a request that may fail on its own.
PairedIsStored == \A c \in Pairing : call[c].result = "ok" => stored[c] = Devices

\* While a pair command is in flight, a target that is no longer open was stored,
\* or is being stored: a store that fails does not use it up.
NoTargetStranded ==
  \A c \in Pairing \cap inflight :
    Devices \ targets[c] \subseteq
      stored[c] \cup (IF report[c].pc \in {"persist", "reinstate"} THEN {report[c].device} ELSE {})

\* The registry sees of the node only what ControlRegistry allows it.
ImplementsRegistry == RegistrySpec
=============================================================================
