---------------------------- MODULE CommandProofs ----------------------------
(***************************************************************************)
(* The life of a command, for any batches, devices, targets, processes,    *)
(* limits and number of faults, and for any number of processes that are   *)
(* alive at a time (MaxLive).                                              *)
(*                                                                         *)
(* The argument: the rows of a batch exist exactly when its enqueue has    *)
(* committed (RowsExist), and the batch lock ties that to what the caller  *)
(* does (Requests) and to the closing of the batch (Closing).  A worker's  *)
(* message is PROCESSING or was reaped (Working), so a claim, which takes  *)
(* PENDING rows, never meets a message that has a worker.  The timestamps  *)
(* order enqueues that do not overlap (Ages); a row that was selected has  *)
(* all older rows of its device behind it for good, because decided rows   *)
(* stay decided (Ordering).  While one process is alive at a time, the     *)
(* retry_count that a worker carries is the row's (Fresh), so that what it *)
(* logs is what the row becomes (Agrees), which the ledger and the         *)
(* activity rest on.  The processor selects no more rows than it reserved  *)
(* slots for, and a row that it claims had no worker (Slots).              *)
(***************************************************************************)
EXTENDS CommandDispatch, FiniteSetTheorems, TLAPS

Statuses == {"none"} \cup Open \cup Terminal
AllDecided(b) == \A m \in Rows(b) : message[m] \in Terminal

Typed ==
  /\ message \in [Messages -> Statuses] /\ retries \in [Messages -> Nat]
  /\ devlog \in [Messages -> {"none"} \cup Terminal]
  /\ batch \in [Batches -> {"none", "PENDING", "PROCESSING", "FINISHED"}]
  /\ client \in [Batches -> {"new", "saved", "enqueueing", "reconciling",
                             "ok", "error", "unknown", "dead"}]
  /\ enqueue \in [Batches -> {"none", "begun", "locked", "committed"}]
  /\ routine \in [Batches -> {"off", "tick", "check", "call", "mark", "end"}]
  /\ created \in [Batches -> Nat] /\ clock \in Nat
  /\ seen \in [Batches -> SUBSET Batches]
  /\ workers \in [Runs -> SUBSET (Messages \X Nat)]
  /\ picked \in [Runs -> SUBSET (Messages \X Nat)]
  /\ marked \subseteq Batches /\ finished \subseteq Batches

RowsExist == \A m \in Messages : message[m] # "none" <=> enqueue[m[1]] = "committed"

RequestOK(b) ==
  /\ client[b] \in {"new", "saved", "error"} => enqueue[b] = "none"
  /\ client[b] # "new" => batch[b] # "none"
  /\ client[b] = "enqueueing" => enqueue[b] \in {"begun", "locked"}
  /\ client[b] = "ok" => enqueue[b] = "committed"
  /\ enqueue[b] = "begun" => client[b] = "enqueueing"
  /\ enqueue[b] = "locked" => batch[b] = "PENDING"
  /\ routine[b] # "off" => client[b] = "ok"

Requests == \A b \in Batches : RequestOK(b)

ClosingOK(b) ==
  /\ batch[b] = "FINISHED" => AllDecided(b) \/ (enqueue[b] = "none" /\ client[b] = "error")
  /\ routine[b] \in {"call", "mark"} \/ b \in finished => AllDecided(b)
  /\ batch[b] = "PROCESSING" => b \in marked \/ routine[b] = "end"
  /\ b \in finished => batch[b] = "FINISHED"

Closing == \A b \in Batches : ClosingOK(b)

Working ==
  /\ \A r \in Runs : \A w \in workers[r] :
       message[w[1]] \in {"PROCESSING"} \cup Terminal /\ w[2] <= retries[w[1]]
  /\ \A r \in Runs : \A p \in picked[r] :
       /\ message[p[1]] # "none" /\ p[2] <= retries[p[1]]
       /\ \A q \in picked[r] : p[1] = q[1] => p = q
  /\ OneWorker

Logged ==
  \A m \in Messages : /\ devlog[m] # "none" => message[m] \in Terminal
                      /\ message[m] = "none" => retries[m] = 0

Ages ==
  /\ \A b \in Batches : /\ enqueue[b] = "committed" => created[b] < clock
                        /\ enqueue[b] # "none" => created[b] <= clock
  /\ \A b \in Batches : \A c \in seen[b] : enqueue[c] = "committed" /\ created[c] < created[b]

Ordering ==
  /\ DeviceOrder
  /\ \A r \in Runs : \A p \in picked[r] : \A n \in Messages :
       n[2] = p[1][2] /\ n[1] \in seen[p[1][1]] => message[n] \in Terminal

CInv ==
  Typed /\ RowsExist /\ Requests /\ Closing /\ Working /\ Logged /\ Ages /\ Ordering
-----------------------------------------------------------------------------
(* How the tables may change while no request moves.                       *)

MessagesMove ==
  \A m \in Messages : /\ message'[m] = "none" <=> message[m] = "none"
                      /\ message[m] \in Terminal => message'[m] = message[m]

BatchesMove ==
  \A b \in Batches : batch'[b] = batch[b] \/ (batch'[b] = "FINISHED" /\ AllDecided(b))

\* A command that some worker has had.
Begun(m) == message[m] \in {"PROCESSING"} \cup Terminal \/ retries[m] > 0

BegunMove ==
  /\ \A m \in Messages :
       Begun(m)' => Begun(m) \/ \E r \in Runs : \E p \in picked[r] : p[1] = m
  /\ \A r \in Runs : picked'[r] \subseteq picked[r]
WorkersMove ==
  /\ \A r \in Runs : workers'[r] \subseteq workers[r]
  /\ \A r \in Runs : \A w \in workers'[r] : message'[w[1]] \in {"PROCESSING"} \cup Terminal
  /\ \A m \in Messages : retries[m] <= retries'[m]
-----------------------------------------------------------------------------
\* Every message is a row of its batch, and every batch has a row.
LEMMA MessageFacts ==
  /\ \A m \in Messages : m[1] \in Batches /\ m \in Rows(m[1])
  /\ \A b \in Batches : \E m \in Messages : m \in Rows(b)
  /\ \A b : \A m \in Rows(b) : m \in Messages /\ m[1] = b
<1>1. \A m \in Messages : m[1] \in Batches /\ m \in Rows(m[1])
  BY Zenon DEF Messages, Rows
<1>2. \A b : \A m \in Rows(b) : m \in Messages /\ m[1] = b
  BY Zenon DEF Rows
<1>3. ASSUME NEW b \in Batches PROVE \E m \in Messages : m \in Rows(b)
  <2>1. Targets[b] \subseteq Devices /\ Targets[b] # {}
    BY Zenon, QueueAssumption
  <2>2. PICK d \in Devices : d \in Targets[b]
    BY Zenon, <2>1
  <2>3. <<b, d>> \in Messages
    BY Zenon, <2>2 DEF Messages
  <2> QED BY <2>3 DEF Rows
<1> QED BY <1>1, <1>2, <1>3

\* A step that moves no request keeps what is known about requests, if decided
\* messages stay decided and only decided batches are finished.
LEMMA DispatchKeeps ==
  ASSUME CInv, Typed', MessagesMove, BatchesMove, UNCHANGED dispatch
  PROVE  RowsExist' /\ Requests' /\ Closing' /\ Ages'
<1> USE DEF dispatch, request, follow
<1>1. RowsExist'
  BY Zenon DEF CInv, RowsExist, MessagesMove
<1>2. Ages'
  BY Zenon DEF CInv, Ages
<1>3. ASSUME NEW b \in Batches, AllDecided(b) PROVE AllDecided(b)'
  BY <1>3, MessageFacts, Zenon DEF AllDecided, MessagesMove
<1>4. ASSUME NEW b \in Batches, enqueue[b] = "locked" PROVE ~ AllDecided(b)
  <2>1. PICK m \in Messages : m \in Rows(b)
    BY Zenon, MessageFacts
  <2>2. message[m] = "none"
    BY Zenon, <1>4, <2>1, MessageFacts DEF CInv, RowsExist
  <2> QED BY <2>1, <2>2 DEF AllDecided, Terminal
<1>5. Requests'
  BY <1>4, Zenon DEF CInv, Requests, RequestOK, BatchesMove
<1>6. Closing'
  BY Zenon, <1>3 DEF CInv, Closing, ClosingOK, BatchesMove
<1> QED BY <1>1, <1>2, <1>5, <1>6

\* The device order survives a step that begins only messages already picked.
LEMMA OrderingKeeps ==
  ASSUME CInv, Typed', MessagesMove, BegunMove, UNCHANGED seen
  PROVE  Ordering'
<1>1. ASSUME NEW m \in Messages, NEW n \in Messages,
             m[2] = n[2], n[1] \in seen[m[1]], Begun(m)'
      PROVE  message[n] \in Terminal
  <2>1. CASE Begun(m)
    BY Zenon, <1>1, <2>1 DEF CInv, Ordering, DeviceOrder, Begun
  <2>2. ASSUME NEW r \in Runs, NEW p \in picked[r], p[1] = m
        PROVE  message[n] \in Terminal
    BY Zenon, <1>1, <2>2 DEF CInv, Ordering
  <2> QED BY <1>1, <2>1, <2>2 DEF BegunMove
<1>2. DeviceOrder'
  BY Zenon, <1>1 DEF DeviceOrder, Begun, MessagesMove
<1>3. ASSUME NEW r \in Runs, NEW p \in picked'[r], NEW n \in Messages,
             n[2] = p[1][2], n[1] \in seen[p[1][1]]
      PROVE  message'[n] \in Terminal
  BY Zenon, <1>3 DEF BegunMove, CInv, Ordering, MessagesMove
<1> QED BY <1>2, <1>3 DEF Ordering

\* Workers that only leave, with their messages claimed or decided, stay sound.
LEMMA WorkingKeeps ==
  ASSUME CInv, Typed', MessagesMove, WorkersMove, \A r \in Runs : picked'[r] \subseteq picked[r]
  PROVE  Working'
<1>1. ASSUME NEW r \in Runs, NEW w \in workers'[r]
      PROVE  w[2] <= retries'[w[1]]
  <2>1. w \in workers[r] /\ w[1] \in Messages /\ w[2] \in Nat
    BY <1>1 DEF WorkersMove, CInv, Typed
  <2>2. w[2] <= retries[w[1]] /\ retries[w[1]] <= retries'[w[1]]
    BY Zenon, <2>1 DEF WorkersMove, CInv, Working
  <2>3. retries[w[1]] \in Nat /\ retries'[w[1]] \in Nat
    BY <2>1 DEF CInv, Typed
  <2> QED BY <2>1, <2>2, <2>3
<1>2. ASSUME NEW r \in Runs, NEW p \in picked'[r]
      PROVE  /\ message'[p[1]] # "none" /\ p[2] <= retries'[p[1]]
             /\ \A q \in picked'[r] : p[1] = q[1] => p = q
  <2>1. p \in picked[r] /\ p[1] \in Messages /\ p[2] \in Nat
    BY <1>2 DEF CInv, Typed
  <2>2. p[2] <= retries[p[1]] /\ retries[p[1]] <= retries'[p[1]]
    BY Zenon, <2>1 DEF WorkersMove, CInv, Working
  <2>3. retries[p[1]] \in Nat /\ retries'[p[1]] \in Nat
    BY <2>1 DEF CInv, Typed
  <2>4. p[2] <= retries'[p[1]]
    BY <2>1, <2>2, <2>3
  <2>5. message'[p[1]] # "none"
    BY Zenon, <2>1 DEF CInv, Working, MessagesMove
  <2> QED BY <2>1, <2>4, <2>5 DEF CInv, Working
<1>3. OneWorker'
  BY ZenonT(30) DEF CInv, Working, OneWorker, WorkersMove
<1> QED BY <1>1, <1>2, <1>3 DEF Working, WorkersMove

\* The three lemmas above together, for steps of the execution service.
LEMMA CalmKeeps ==
  ASSUME CInv, Typed', Logged', MessagesMove, BatchesMove, BegunMove, WorkersMove,
         UNCHANGED dispatch
  PROVE  CInv'
<1>1. RowsExist' /\ Requests' /\ Closing' /\ Ages'
  BY Zenon, DispatchKeeps
<1>2. Ordering'
  BY Zenon, OrderingKeeps DEF dispatch, request
<1>3. Working'
  BY Zenon, WorkingKeeps DEF BegunMove
<1> QED BY <1>1, <1>2, <1>3 DEF CInv
-----------------------------------------------------------------------------
(* The transactions of the execution service.                              *)

\* Nothing changes in the tables.
LEMMA TablesUnchanged ==
  ASSUME CInv, UNCHANGED tables, UNCHANGED dispatch,
         \A r \in Runs : workers'[r] \subseteq workers[r] /\ picked'[r] \subseteq picked[r],
         workers' \in [Runs -> SUBSET (Messages \X Nat)],
         picked' \in [Runs -> SUBSET (Messages \X Nat)]
  PROVE  CInv'
<1> USE DEF tables
<1>1. Typed'
  BY Zenon DEF CInv, Typed, dispatch, request, follow
<1>2. Logged' /\ MessagesMove /\ BatchesMove
  BY Zenon DEF CInv, Logged, MessagesMove, BatchesMove
<1>3. BegunMove
  BY Zenon DEF BegunMove, Begun
<1>4. WorkersMove
  <2>1. \A m \in Messages : retries[m] \in Nat /\ retries[m] <= retries'[m]
    BY DEF CInv, Typed
  <2>2. \A r \in Runs : \A w \in workers'[r] : message'[w[1]] \in {"PROCESSING"} \cup Terminal
    BY Zenon DEF CInv, Working
  <2> QED BY <2>1, <2>2 DEF WorkersMove
<1> QED BY <1>1, <1>2, <1>3, <1>4, CalmKeeps

\* Reaping (reapMessages) decides PROCESSING rows only.
LEMMA ReapKeeps ==
  ASSUME CInv, NEW S, S \subseteq Processing, ReapMessages(S), UNCHANGED dispatch,
         UNCHANGED <<workers, picked>>
  PROVE  CInv'
<1> USE DEF ReapMessages, Processing, Terminal, Open, Statuses
<1>1. Typed'
  BY Zenon DEF CInv, Typed, dispatch, request, follow
<1>2. Logged' /\ MessagesMove /\ BatchesMove
  BY Zenon DEF CInv, Typed, Logged, MessagesMove, BatchesMove
<1>3. BegunMove
  BY Zenon DEF BegunMove, Begun
<1>4. WorkersMove
  <2>1. \A m \in Messages : retries[m] \in Nat /\ retries[m] <= retries'[m]
    BY DEF CInv, Typed
  <2>2. \A r \in Runs : \A w \in workers'[r] : message'[w[1]] \in {"PROCESSING"} \cup Terminal
    BY DEF CInv, Typed, Working
  <2> QED BY <2>1, <2>2 DEF WorkersMove
<1> QED BY <1>1, <1>2, <1>3, <1>4, CalmKeeps

\* finishTerminalCommandBatches closes only batches that are decided.
LEMMA FinishKeeps ==
  ASSUME CInv, FinishTerminalCommandBatches, UNCHANGED dispatch, UNCHANGED <<workers, picked>>
  PROVE  CInv'
<1> USE DEF FinishTerminalCommandBatches
<1>1. Typed'
  BY Zenon DEF CInv, Typed, dispatch, request, follow
<1>2. BatchesMove
  BY Zenon DEF BatchesMove, IsBatchFinished, AllDecided
<1>3. Logged' /\ MessagesMove
  BY Zenon DEF CInv, Logged, MessagesMove
<1>4. BegunMove
  BY Zenon DEF BegunMove, Begun
<1>5. WorkersMove
  <2>1. \A m \in Messages : retries[m] \in Nat /\ retries[m] <= retries'[m]
    BY DEF CInv, Typed
  <2>2. \A r \in Runs : \A w \in workers'[r] : message'[w[1]] \in {"PROCESSING"} \cup Terminal
    BY Zenon DEF CInv, Working
  <2> QED BY <2>1, <2>2 DEF WorkersMove
<1> QED BY <1>1, <1>2, <1>3, <1>4, <1>5, CalmKeeps

\* A worker's verdict (markQueueMessageStatus) decides or requeues its message.
LEMMA RecordKeeps ==
  ASSUME CInv, NEW r \in Runs, NEW w \in workers[r], NEW result \in Results,
         RecordResult(w[1], result, w[2]), UNCHANGED dispatch, UNCHANGED picked,
         workers' = [workers EXCEPT ![r] = @ \ {w}]
  PROVE  CInv'
<1>1. /\ w[1] \in Messages /\ w[2] \in Nat /\ w[2] <= retries[w[1]] /\ retries[w[1]] \in Nat
      /\ workers' \in [Runs -> SUBSET (Messages \X Nat)]
      /\ \A q \in Runs : workers'[q] \subseteq workers[q]
  BY SMTT(30) DEF CInv, Typed, Working
<1>2. CASE message[w[1]] # "PROCESSING"
  <2>1. UNCHANGED tables
    BY Zenon, <1>2 DEF RecordResult, tables
  <2> QED BY <1>1, <2>1, TablesUnchanged DEF CInv, Typed
<1>3. CASE message[w[1]] = "PROCESSING"
  <2> DEFINE s == StatusAfter(w[1], result)
  <2>1. s \in Terminal \cup {"PENDING"} /\ (IsTerminal(result, w[2]) => s \in Terminal)
    BY <1>1, QueueAssumption DEF StatusAfter, IsTerminal, Results, Terminal
  <2> HIDE DEF s
  <2>2. /\ message' = [message EXCEPT ![w[1]] = s] /\ UNCHANGED batch
        /\ retries' = IF result = "transient" THEN [retries EXCEPT ![w[1]] = @ + 1] ELSE retries
        /\ devlog' = IF IsTerminal(result, w[2])
                     THEN [devlog EXCEPT ![w[1]] = IF result = "ok" THEN "SUCCESS" ELSE "FAILED"]
                     ELSE devlog
    BY Zenon, <1>3 DEF RecordResult, s
  <2>3. \A m \in Messages : /\ retries[m] \in Nat /\ retries'[m] \in Nat
                            /\ retries[m] <= retries'[m]
                            /\ m # w[1] => retries'[m] = retries[m]
    BY SMTT(30), <1>1, <2>2 DEF CInv, Typed
  <2>4. Typed'
    <3>1. message' \in [Messages -> Statuses]
      BY Zenon, <2>1, <2>2 DEF CInv, Typed, Statuses, Open
    <3>2. retries' \in [Messages -> Nat]
      BY <1>1, <2>2 DEF CInv, Typed
    <3>3. devlog' \in [Messages -> {"none"} \cup Terminal]
      BY Zenon, <2>2 DEF CInv, Typed, Terminal
    <3> QED BY <1>1, <2>2, <3>1, <3>2, <3>3 DEF CInv, Typed, dispatch, request, follow
  <2>5. MessagesMove /\ BatchesMove
    BY Zenon, <1>1, <1>3, <2>1, <2>2 DEF CInv, Typed, MessagesMove, BatchesMove, Terminal
  <2>6. BegunMove
    BY Zenon, <1>1, <1>3, <2>2, <2>3 DEF CInv, Typed, BegunMove, Begun
  <2>7. Logged'
    <3>1. ASSUME NEW m \in Messages, devlog'[m] # "none" PROVE message'[m] \in Terminal
      BY Zenon, <1>1, <1>3, <2>1, <2>2, <3>1 DEF CInv, Typed, Logged, Terminal
    <3>2. ASSUME NEW m \in Messages, message'[m] = "none" PROVE retries'[m] = 0
      BY ZenonT(30), <1>1, <1>3, <2>1, <2>2, <2>3, <3>2 DEF CInv, Typed, Logged, Terminal
    <3> QED BY <3>1, <3>2 DEF Logged
  <2>8. ASSUME NEW q \in Runs, NEW v \in workers'[q]
        PROVE  message'[v[1]] \in {"PROCESSING"} \cup Terminal
    <3>1. v \in workers[q] /\ v[1] \in Messages
      BY ZenonT(30), <1>1, <2>8 DEF CInv, Typed
    <3>2. v[1] # w[1]
      BY SMTT(30), <2>8, <3>1 DEF CInv, Typed, Working, OneWorker
    <3> QED BY ZenonT(30), <2>2, <3>1, <3>2 DEF CInv, Typed, Working
  <2> QED BY ZenonT(30), <1>1, <2>3, <2>4, <2>5, <2>6, <2>7, <2>8, CalmKeeps DEF WorkersMove
<1> QED BY <1>2, <1>3

\* ClaimMessageForProcessing takes PENDING rows that were picked, and no others.
LEMMA ClaimEffect ==
  ASSUME CInv, NEW r \in Runs, ClaimMessages(Picked(r))
  PROVE  /\ message' \in [Messages -> Statuses] /\ MessagesMove /\ BatchesMove
         /\ UNCHANGED <<retries, batch, devlog>>
         /\ \A m \in Messages : Begun(m)' => Begun(m) \/ \E p \in picked[r] : p[1] = m
         /\ \A m \in Messages : message'[m] # message[m] =>
              message[m] = "PENDING" /\ message'[m] = "PROCESSING"
<1> USE DEF ClaimMessages, Claimed, Picked
<1>1. message' \in [Messages -> Statuses] /\ UNCHANGED <<retries, batch, devlog>>
  BY Zenon DEF CInv, Typed, Statuses, Open
<1>2. MessagesMove /\ BatchesMove
  BY Zenon DEF CInv, Typed, MessagesMove, BatchesMove, Terminal
<1>3. \A m \in Messages : Begun(m)' => Begun(m) \/ \E p \in picked[r] : p[1] = m
  BY Zenon DEF Begun
<1>4. \A m \in Messages : message'[m] # message[m] =>
        message[m] = "PENDING" /\ message'[m] = "PROCESSING"
  OBVIOUS
<1> QED BY <1>1, <1>2, <1>3, <1>4

\* A claim leaves the device log of undecided messages empty.
LEMMA ClaimLogged ==
  ASSUME CInv, NEW r \in Runs, ClaimMessages(Picked(r))
  PROVE  Logged'
<1>1. ASSUME NEW m \in Messages, devlog'[m] # "none" PROVE message'[m] \in Terminal
  BY Zenon, <1>1, ClaimEffect DEF CInv, Logged, MessagesMove
<1>2. ASSUME NEW m \in Messages, message'[m] = "none" PROVE retries'[m] = 0
  BY ZenonT(30), <1>2, ClaimEffect DEF CInv, Logged, MessagesMove
<1> QED BY <1>1, <1>2 DEF Logged

\* Rows are claimed but the processor never hears of it.
LEMMA LostClaimKeeps ==
  ASSUME CInv, NEW r \in Runs, ClaimMessages(Picked(r)), UNCHANGED dispatch, UNCHANGED workers,
         picked' = [picked EXCEPT ![r] = {}]
  PROVE  CInv'
<1>1. /\ picked' \in [Runs -> SUBSET (Messages \X Nat)]
      /\ \A q \in Runs : picked'[q] \subseteq picked[q]
  BY Zenon DEF CInv, Typed
<1>2. Typed'
  BY <1>1, ClaimEffect DEF CInv, Typed, dispatch, request, follow
<1>3. BegunMove
  BY Zenon, <1>1, ClaimEffect DEF BegunMove
<1>4. WorkersMove
  <2>1. \A m \in Messages : retries[m] \in Nat /\ retries[m] <= retries'[m]
    BY SMTT(30), ClaimEffect DEF CInv, Typed
  <2>2. ASSUME NEW q \in Runs, NEW w \in workers'[q]
        PROVE  message'[w[1]] \in {"PROCESSING"} \cup Terminal
    BY <2>2, ClaimEffect DEF CInv, Typed, Working
  <2> QED BY ZenonT(30), <2>1, <2>2 DEF WorkersMove
<1> QED BY ZenonT(30), <1>2, <1>3, <1>4, ClaimEffect, ClaimLogged, CalmKeeps

\* The claiming half of Dequeue: a claimed message had no worker.
LEMMA DequeueClaimKeeps ==
  ASSUME CInv, NEW r \in Runs, DequeueClaim(r), UNCHANGED dispatch
  PROVE  CInv'
<1>1. /\ ClaimMessages(Picked(r)) /\ workers' = [workers EXCEPT ![r] = @ \cup Won(r)]
      /\ picked' = [picked EXCEPT ![r] = {}]
  BY Zenon DEF DequeueClaim, Release
<1>2. /\ Won(r) \subseteq picked[r]
      /\ \A p \in Won(r) : message[p[1]] = "PENDING" /\ message'[p[1]] = "PROCESSING"
  BY <1>1 DEF Won, Claimed, Picked, ClaimMessages, CInv, Typed
<1>3. /\ picked' \in [Runs -> SUBSET (Messages \X Nat)]
      /\ \A q \in Runs : picked'[q] \subseteq picked[q]
      /\ workers' \in [Runs -> SUBSET (Messages \X Nat)]
      /\ \A q \in Runs : \A w \in workers'[q] : w \in workers[q] \/ (q = r /\ w \in Won(r))
  BY Zenon, <1>1, <1>2 DEF CInv, Typed
<1>4. Typed'
  BY <1>1, <1>3, ClaimEffect DEF CInv, Typed, dispatch, request, follow
<1>5. RowsExist' /\ Requests' /\ Closing' /\ Ages'
  BY Zenon, <1>1, <1>4, ClaimEffect, DispatchKeeps
<1>6. BegunMove
  BY Zenon, <1>1, <1>3, ClaimEffect DEF BegunMove
<1>7. Ordering'
  BY Zenon, <1>1, <1>4, <1>6, ClaimEffect, OrderingKeeps DEF dispatch, request
<1>8. Working'
  <2>1. ASSUME NEW q \in Runs, NEW w \in workers'[q]
        PROVE  message'[w[1]] \in {"PROCESSING"} \cup Terminal /\ w[2] <= retries'[w[1]]
    <3>1. CASE w \in workers[q]
      BY <1>1, <3>1, ClaimEffect DEF CInv, Typed, Working
    <3>2. CASE q = r /\ w \in Won(r)
      BY Zenon, <1>1, <1>2, <3>2, ClaimEffect DEF CInv, Working
    <3> QED BY ZenonT(30), <1>3, <2>1, <3>1, <3>2
  <2>2. ASSUME NEW q \in Runs, NEW p \in picked'[q]
        PROVE  /\ message'[p[1]] # "none" /\ p[2] <= retries'[p[1]]
               /\ \A k \in picked'[q] : p[1] = k[1] => p = k
    <3>1. p \in picked[q] /\ p[1] \in Messages
      BY <1>3, <2>2 DEF CInv, Typed
    <3> QED BY ZenonT(30), <1>1, <1>3, <3>1, ClaimEffect DEF CInv, Working, MessagesMove
  <2>3. ASSUME NEW q1 \in Runs, NEW q2 \in Runs, NEW v \in workers'[q1], NEW w \in workers'[q2],
               v[1] = w[1]
        PROVE  q1 = q2 /\ v = w
    <3>1. CASE v \in workers[q1] /\ w \in workers[q2]
      BY Zenon, <2>3, <3>1 DEF CInv, Working, OneWorker
    <3>2. CASE q1 = r /\ v \in Won(r) /\ q2 = r /\ w \in Won(r)
      BY Zenon, <1>2, <2>3, <3>2 DEF CInv, Working
    <3>3. \A q \in Runs : \A u \in workers[q] : message[u[1]] # "PENDING"
      BY Zenon DEF CInv, Working, Terminal
    <3> QED BY ZenonT(30), <1>2, <1>3, <2>3, <3>1, <3>2, <3>3
  <2> QED BY ZenonT(30), <2>1, <2>2, <2>3 DEF Working, OneWorker
<1> QED BY ZenonT(30), <1>1, <1>4, <1>5, <1>7, <1>8, ClaimLogged DEF CInv

\* The selecting half of Dequeue: a picked row has all older rows behind it.
LEMMA DequeueSelectKeeps ==
  ASSUME CInv, NEW r \in Runs, DequeueSelect(r), UNCHANGED dispatch
  PROVE  CInv'
<1>1. UNCHANGED tables /\ UNCHANGED workers
  BY Zenon DEF DequeueSelect
<1>2. PICK S \in MessagesToProcess(Limit(r)) :
        IF S = {} THEN Release(r, reserved[r], Idle(r))
        ELSE picked' = [picked EXCEPT ![r] = {<<m, retries[m]>> : m \in S}]
  BY Zenon DEF DequeueSelect
<1>3. S \subseteq Ready
  BY Zenon, <1>2 DEF MessagesToProcess
<1>4. CASE S = {}
  <2>1. picked' = [picked EXCEPT ![r] = {}]
    BY Zenon, <1>2, <1>4 DEF Release
  <2> QED BY <1>1, <2>1, TablesUnchanged DEF CInv, Typed
<1>5. CASE S # {}
  <2>1. picked' = [picked EXCEPT ![r] = {<<m, retries[m]>> : m \in S}]
    BY Zenon, <1>2, <1>5
  <2>2. ASSUME NEW q \in Runs, NEW p \in picked'[q]
        PROVE  p \in picked[q] \/ (q = r /\ \E m \in Ready : p = <<m, retries[m]>>)
    BY ZenonT(30), <1>3, <2>1, <2>2 DEF CInv, Typed
  <2>3. \A m \in Ready : m \in Messages /\ retries[m] \in Nat /\ message[m] = "PENDING"
    BY Zenon DEF Ready, CInv, Typed
  <2>4. picked' \in [Runs -> SUBSET (Messages \X Nat)]
    BY <1>3, <2>1, <2>3 DEF CInv, Typed
  <2>5. Typed'
    BY Zenon, <1>1, <2>4 DEF CInv, Typed, tables, dispatch, request, follow
  <2>6. RowsExist' /\ Requests' /\ Closing' /\ Ages' /\ Logged'
    <3>1. MessagesMove /\ BatchesMove /\ Logged'
      BY Zenon, <1>1 DEF tables, MessagesMove, BatchesMove, CInv, Logged
    <3> QED BY <2>5, <3>1, DispatchKeeps
  <2>7. Working'
    <3>1. ASSUME NEW q \in Runs, NEW p \in picked'[q]
          PROVE  /\ message[p[1]] # "none" /\ p[2] <= retries[p[1]]
                 /\ \A k \in picked'[q] : p[1] = k[1] => p = k
      <4>1. CASE q = r
        BY <1>3, <2>1, <2>3, <3>1, <4>1 DEF CInv, Typed
      <4>2. CASE q # r
        BY ZenonT(30), <2>1, <3>1, <4>2 DEF CInv, Typed, Working
      <4> QED BY ZenonT(30), <4>1, <4>2
    <3> QED BY SMTT(30), <1>1, <3>1 DEF CInv, Working, OneWorker, tables
  <2>8. Ordering'
    <3>1. DeviceOrder'
      BY Zenon, <1>1 DEF CInv, Ordering, DeviceOrder, tables, dispatch, request
    <3>2. ASSUME NEW m \in Ready, NEW n \in Messages, n[2] = m[2], n[1] \in seen[m[1]]
          PROVE  message[n] \in Terminal
      <4>1. ~ Blocks(n, m)
        BY Zenon, <3>2 DEF Ready
      <4>2. created[n[1]] < created[m[1]] /\ enqueue[n[1]] = "committed"
        BY Zenon, <2>3, <3>2, MessageFacts DEF CInv, Ages
      <4>3. message[n] # "none" /\ message[n] \in Statuses
        BY Zenon, <4>2 DEF CInv, RowsExist, Typed
      <4> QED BY <3>2, <4>1, <4>2, <4>3 DEF Blocks, Statuses
    <3>3. ASSUME NEW q \in Runs, NEW p \in picked'[q], NEW n \in Messages,
                 n[2] = p[1][2], n[1] \in seen[p[1][1]]
          PROVE  message[n] \in Terminal
      <4>1. CASE p \in picked[q]
        BY Zenon, <3>3, <4>1 DEF CInv, Ordering
      <4>2. ASSUME NEW m \in Ready, p = <<m, retries[m]>> PROVE message[n] \in Terminal
        BY Zenon, <3>2, <3>3, <4>2
      <4> QED BY <2>2, <3>3, <4>1, <4>2
    <3> QED BY <1>1, <3>1, <3>3 DEF Ordering, tables, dispatch, request
  <2> QED BY <2>5, <2>6, <2>7, <2>8 DEF CInv
<1> QED BY <1>4, <1>5

\* Every step of startQueueProcessorThread.
LEMMA ProcessorKeeps ==
  ASSUME CInv, NEW r \in Runs, Processor(r), UNCHANGED dispatch
  PROVE  CInv'
<1>1. ASSUME UNCHANGED tables, UNCHANGED workers,
             picked' = picked \/ picked' = [picked EXCEPT ![r] = {}]
      PROVE  CInv'
  BY Zenon, <1>1, TablesUnchanged DEF CInv, Typed
<1>2. CASE ReserveWorkerSlots(r) \/ ProcessorExit(r)
  BY Zenon, <1>1, <1>2 DEF ReserveWorkerSlots, ProcessorExit, Release
<1>3. CASE DequeueSelect(r)
  BY Zenon, <1>3, DequeueSelectKeeps
<1>4. CASE DequeueClaim(r)
  BY Zenon, <1>4, DequeueClaimKeeps
<1>5. CASE DequeueGiveUp(r) \/ DequeueRetry(r)
  <2>1. /\ DequeueOutcome(r) /\ UNCHANGED workers
        /\ picked' = [picked EXCEPT ![r] = {}]
    BY Zenon, <1>5 DEF DequeueGiveUp, DequeueRetry, Release
  <2>2. CASE UNCHANGED tables
    BY <1>1, <2>1, <2>2, Zenon
  <2>3. CASE ClaimMessages(Picked(r))
    BY <2>1, <2>3, LostClaimKeeps, Zenon
  <2> QED BY <2>1, <2>2, <2>3, Zenon DEF DequeueOutcome
<1> QED BY <1>2, <1>3, <1>4, <1>5 DEF Processor

\* Every step of the execution service.
LEMMA ExecutionKeeps ==
  ASSUME CInv, ExecutionStep, UNCHANGED dispatch
  PROVE  CInv'
<1>1. ASSUME UNCHANGED tables, UNCHANGED <<workers, picked>> PROVE CInv'
  BY Zenon, <1>1, TablesUnchanged DEF CInv, Typed
<1>2. PICK r \in Runs : \/ Start(r) \/ RestartReap(r) \/ RestartFinish(r) \/ BeginStop(r)
                        \/ Processor(r) \/ Workers(r) \/ Reaper(r)
  BY Zenon DEF ExecutionStep
<1>3. CASE Start(r) \/ BeginStop(r)
  BY Zenon, <1>1, <1>3 DEF Start, BeginStop, threads
<1>4. CASE RestartReap(r)
  BY Zenon, <1>4, ReapKeeps DEF RestartReap, threads
<1>5. CASE RestartFinish(r)
  BY Zenon, <1>5, FinishKeeps DEF RestartFinish
<1>6. CASE Processor(r)
  BY Zenon, <1>6, ProcessorKeeps
<1>7. CASE Workers(r)
  <2>1. ASSUME NEW w \in Known, NEW result \in Results, WorkerProcessCommand(r, w, result)
        PROVE  CInv'
    BY Zenon, <2>1, RecordKeeps DEF WorkerProcessCommand, WorkerEnds
  <2>2. ASSUME NEW w \in Known, WorkerFails(r, w) PROVE CInv'
    BY Zenon, <2>2, TablesUnchanged DEF WorkerFails, WorkerEnds, CInv, Typed
  <2> QED BY <1>7, <2>1, <2>2 DEF Workers
<1>8. CASE Reaper(r)
  <2>1. ASSUME NEW S \in SUBSET Messages, ReapStuck(r, S) PROVE CInv'
    BY Zenon, <2>1, ReapKeeps DEF ReapStuck
  <2>2. CASE FinishStuck(r)
    BY Zenon, <2>2, FinishKeeps DEF FinishStuck
  <2>3. CASE ReaperExit(r)
    BY Zenon, <1>1, <2>3 DEF ReaperExit
  <2> QED BY <1>8, <2>1, <2>2, <2>3 DEF Reaper
<1> QED BY ZenonT(30), <1>2, <1>3, <1>4, <1>5, <1>6, <1>7, <1>8
-----------------------------------------------------------------------------
(* The status routine and its process: rows and workers stay as they are.  *)

\* What the routine, or a caller that enqueues nothing, may change.
LEMMA RequestKeeps ==
  ASSUME CInv, UNCHANGED <<message, retries, devlog, created, clock, seen>>,
         batch' \in [Batches -> {"none", "PENDING", "PROCESSING", "FINISHED"}],
         client' \in [Batches -> {"new", "saved", "enqueueing", "reconciling",
                                  "ok", "error", "unknown", "dead"}],
         enqueue' \in [Batches -> {"none", "begun", "locked", "committed"}],
         routine' \in [Batches -> {"off", "tick", "check", "call", "mark", "end"}],
         workers' \in [Runs -> SUBSET (Messages \X Nat)],
         picked' \in [Runs -> SUBSET (Messages \X Nat)],
         \A r \in Runs : workers'[r] \subseteq workers[r] /\ picked'[r] \subseteq picked[r],
         marked' \subseteq Batches, finished' \subseteq Batches,
         \A b \in Batches : /\ enqueue'[b] = "committed" <=> enqueue[b] = "committed"
                            /\ enqueue'[b] # "none" => enqueue[b] # "none",
         Requests', Closing'
  PROVE  CInv'
<1>1. Typed'
  BY Zenon DEF CInv, Typed
<1>2. RowsExist'
  BY MessageFacts DEF CInv, RowsExist
<1>3. Ages'
  BY Zenon DEF CInv, Ages, Typed
<1>4. Working'
  <2>1. MessagesMove
    BY Zenon DEF MessagesMove
  <2>2. \A m \in Messages : retries[m] \in Nat /\ retries[m] <= retries'[m]
    BY DEF CInv, Typed
  <2>3. \A r \in Runs : \A w \in workers'[r] : message'[w[1]] \in {"PROCESSING"} \cup Terminal
    BY Zenon DEF CInv, Working
  <2> QED BY <1>1, <2>1, <2>2, <2>3, WorkingKeeps DEF WorkersMove
<1>5. Logged'
  BY Zenon DEF CInv, Logged
<1>6. Ordering'
  BY Zenon DEF CInv, Ordering, DeviceOrder
<1> QED BY SMTT(30), <1>1, <1>2, <1>3, <1>4, <1>5, <1>6 DEF CInv

\* Every step of a status routine (initializeStatusUpdateRoutine).
LEMMA RoutineKeeps ==
  ASSUME CInv, NEW b \in Batches, Routine(b)
  PROVE  CInv'
<1>1. /\ UNCHANGED <<message, retries, devlog, created, clock, seen, client, enqueue>>
      /\ UNCHANGED <<workers, picked>> /\ finished \subseteq finished'
      /\ \A c \in Batches : c # b => routine'[c] = routine[c]
      /\ routine' \in [Batches -> {"off", "tick", "check", "call", "mark", "end"}]
      /\ routine[b] # "off"
  <2>1. /\ UNCHANGED <<message, retries, devlog, created, clock, seen, client, enqueue>>
        /\ UNCHANGED <<workers, picked>> /\ finished \subseteq finished'
    BY Zenon DEF Routine, MarkProcessing, MarkProcessingFails, SkipProcessing, CheckFinished,
       CheckFinishedFails, Complete, CompleteFails, SkipComplete, MarkFinished,
       MarkFinishedFails, SkipMark, tables, execution, threads, request,
       MarkCommandBatchProcessing, MarkCommandBatchFinished
  <2>2. \E from \in {"tick", "check", "call", "mark"}, to \in {"tick", "check", "call", "mark", "end"} :
          RoutineAt(b, from, to)
    BY Zenon DEF Routine, MarkProcessing, MarkProcessingFails, SkipProcessing, CheckFinished,
       CheckFinishedFails, Complete, CompleteFails, SkipComplete, MarkFinished,
       MarkFinishedFails, SkipMark, AfterMark
  <2>3. /\ routine[b] # "off"
        /\ \E to \in {"tick", "check", "call", "mark", "end"} : routine' = [routine EXCEPT ![b] = to]
    BY <2>2, Zenon DEF RoutineAt
  <2> QED BY <2>1, <2>3 DEF CInv, Typed
<1>2. enqueue[b] = "committed" /\ batch[b] # "none"
  BY Zenon, <1>1 DEF CInv, Requests, RequestOK
<1> DEFINE Moved ==
      /\ batch' \in [Batches -> {"none", "PENDING", "PROCESSING", "FINISHED"}]
      /\ \A c \in Batches : c # b => batch'[c] = batch[c]
      /\ marked' \subseteq Batches /\ marked \subseteq marked'
      /\ finished' \subseteq finished \cup {b}
      /\ batch'[b] # "none" /\ (batch'[b] = "FINISHED" => AllDecided(b))
      /\ routine'[b] \in {"call", "mark"} \/ b \in finished' => AllDecided(b)
      /\ batch'[b] = "PROCESSING" => b \in marked' \/ routine'[b] = "end"
      /\ b \in finished' => batch'[b] = "FINISHED"
<1>3. /\ batch[b] = "FINISHED" => AllDecided(b)
      /\ routine[b] \in {"call", "mark"} \/ b \in finished => AllDecided(b)
      /\ batch[b] = "PROCESSING" => b \in marked \/ routine[b] = "end"
      /\ b \in finished => batch[b] = "FINISHED"
      /\ batch[b] # "none"
  BY Zenon, <1>2 DEF CInv, Closing, ClosingOK
<1>4. Moved
  <2> USE DEF CInv, Typed, RoutineAt, tables
  <2>1. CASE MarkProcessing(b)
    BY Zenon, <1>3, <2>1 DEF MarkProcessing, MarkCommandBatchProcessing
  <2>2. CASE MarkProcessingFails(b)
    BY ZenonT(30), <1>3, <2>2 DEF MarkProcessingFails, MarkCommandBatchProcessing
  <2>3. CASE SkipProcessing(b)
    BY Zenon, <1>3, <2>3 DEF SkipProcessing
  <2>4. CASE CheckFinished(b)
    BY Zenon, <1>3, <2>4 DEF CheckFinished, IsBatchFinished, AllDecided
  <2>5. CASE CheckFinishedFails(b)
    BY Zenon, <1>3, <2>5 DEF CheckFinishedFails
  <2>6. CASE Complete(b)
    BY Zenon, <1>3, <2>6 DEF Complete
  <2>7. CASE CompleteFails(b)
    BY Zenon, <1>3, <2>7 DEF CompleteFails
  <2>8. CASE SkipComplete(b)
    BY Zenon, <1>3, <2>8 DEF SkipComplete
  <2>9. CASE MarkFinished(b)
    BY Zenon, <1>3, <2>9 DEF MarkFinished, AfterMark, MarkCommandBatchFinished, Open
  <2>10. CASE MarkFinishedFails(b)
    BY Zenon, <1>3, <2>10 DEF MarkFinishedFails, MarkCommandBatchFinished, Open
  <2>11. CASE SkipMark(b)
    BY Zenon, <1>3, <2>11 DEF SkipMark, AfterMark
  <2> HIDE DEF Moved, CInv
  <2> QED BY <2>1, <2>2, <2>3, <2>4, <2>5, <2>6, <2>7, <2>8, <2>9, <2>10, <2>11, Zenon DEF Routine
<1>5. \A c \in Batches : AllDecided(c) => AllDecided(c)'
  BY Zenon, <1>1 DEF AllDecided
<1>6. Requests'
  <2>1. batch'[b] # "none" /\ client[b] = "ok" /\ \A c \in Batches : c # b => batch'[c] = batch[c]
    BY <1>1, <1>4, Zenon DEF CInv, Requests, RequestOK
  <2> HIDE DEF Moved
  <2>2. ASSUME NEW c \in Batches, c # b PROVE RequestOK(c)'
    BY ZenonT(30), <1>1, <2>1, <2>2 DEF CInv, Requests, RequestOK
  <2>3. RequestOK(b)'
    BY ZenonT(30), <1>1, <1>2, <2>1 DEF RequestOK
  <2> QED BY <2>2, <2>3, Zenon DEF Requests
<1>7. Closing'
  <2>1. ASSUME NEW c \in Batches, c # b
        PROVE  /\ batch'[c] = batch[c] /\ routine'[c] = routine[c] /\ client'[c] = client[c]
               /\ enqueue'[c] = enqueue[c] /\ (c \in finished' <=> c \in finished)
               /\ (c \in marked => c \in marked')
    BY Zenon, <1>1, <1>4, <2>1
  <2> HIDE DEF Moved
  <2>2. ASSUME NEW c \in Batches, c # b PROVE ClosingOK(c)'
    BY <1>5, <2>1, <2>2, Zenon DEF CInv, Closing, ClosingOK
  <2>3. ClosingOK(b)'
    BY <1>4, <1>5, Zenon DEF Moved, ClosingOK
  <2> QED BY <2>2, <2>3, Zenon DEF Closing
<1>8. marked' \subseteq Batches /\ finished' \subseteq Batches
  BY Zenon, <1>4 DEF CInv, Typed
<1>9. batch' \in [Batches -> {"none", "PENDING", "PROCESSING", "FINISHED"}]
  BY Zenon, <1>4
<1> HIDE DEF Moved
<1>10. \A c \in Batches : /\ enqueue'[c] = "committed" <=> enqueue[c] = "committed"
                          /\ enqueue'[c] # "none" => enqueue[c] # "none"
  BY <1>1, Zenon
<1>11. /\ client' \in [Batches -> {"new", "saved", "enqueueing", "reconciling",
                                   "ok", "error", "unknown", "dead"}]
       /\ enqueue' \in [Batches -> {"none", "begun", "locked", "committed"}]
       /\ workers' \in [Runs -> SUBSET (Messages \X Nat)]
       /\ picked' \in [Runs -> SUBSET (Messages \X Nat)]
       /\ \A r \in Runs : workers'[r] \subseteq workers[r] /\ picked'[r] \subseteq picked[r]
  BY ZenonT(30), <1>1 DEF CInv, Typed
<1> QED BY <1>1, <1>6, <1>7, <1>8, <1>9, <1>10, <1>11, RequestKeeps, Zenon

\* A process dies: its workers, picked rows, requests and routines are gone.
LEMMA CrashKeeps ==
  ASSUME CInv, NEW r \in Runs, Crash(r)
  PROVE  CInv'
<1>1. /\ UNCHANGED <<message, retries, devlog, batch, created, clock, seen, marked, finished>>
      /\ workers' = [workers EXCEPT ![r] = {}] /\ picked' = [picked EXCEPT ![r] = {}]
  BY Zenon DEF Crash, Die, tables
<1>2. /\ workers' \in [Runs -> SUBSET (Messages \X Nat)]
      /\ picked' \in [Runs -> SUBSET (Messages \X Nat)]
      /\ \A q \in Runs : workers'[q] \subseteq workers[q] /\ picked'[q] \subseteq picked[q]
  BY Zenon, <1>1 DEF CInv, Typed
<1>3. /\ client' \in [Batches -> {"new", "saved", "enqueueing", "reconciling",
                                  "ok", "error", "unknown", "dead"}]
      /\ enqueue' \in [Batches -> {"none", "begun", "locked", "committed"}]
      /\ routine' \in [Batches -> {"off", "tick", "check", "call", "mark", "end"}]
  BY ZenonT(30) DEF Crash, CInv, Typed
<1>4. ASSUME NEW b \in Batches
      PROVE  /\ client'[b] = client[b]
                \/ (client[b] \in {"saved", "enqueueing", "reconciling"} /\ client'[b] = "dead")
             /\ enqueue'[b] = enqueue[b] \/ (enqueue[b] = "begun" /\ enqueue'[b] = "none")
             /\ client'[b] = client[b] \/ enqueue'[b] # "begun"
             /\ enqueue'[b] = enqueue[b] \/ client'[b] = "dead"
             /\ routine'[b] = routine[b] \/ (routine[b] # "off" /\ routine'[b] = "end")
  <2>1. RequestOK(b)
    BY ZenonT(30) DEF CInv, Requests
  <2>2. /\ client'[b] = IF b \in Mine(r) /\ client[b] \in {"saved", "enqueueing", "reconciling"}
                        THEN "dead" ELSE client[b]
        /\ enqueue'[b] = IF b \in Mine(r) /\ enqueue[b] = "begun" THEN "none" ELSE enqueue[b]
        /\ routine'[b] = IF b \in Mine(r) /\ routine[b] # "off" THEN "end" ELSE routine[b]
    BY Zenon DEF Crash
  <2> QED BY <2>1, <2>2 DEF RequestOK
<1>5. Requests'
  <2>1. ASSUME NEW b \in Batches PROVE RequestOK(b)'
    <3>1. RequestOK(b)
      BY Zenon DEF CInv, Requests
    <3> QED BY Zenon, <1>1, <1>4, <3>1 DEF RequestOK
  <2> QED BY ZenonT(30), <2>1 DEF Requests
<1>6. Closing'
  <2>1. ASSUME NEW b \in Batches PROVE ClosingOK(b)'
    <3>1. ClosingOK(b) /\ (AllDecided(b) => AllDecided(b)')
      BY ZenonT(30), <1>1 DEF CInv, Closing, AllDecided
    <3>2. client[b] = "error" => client'[b] = "error" /\ enqueue'[b] = enqueue[b]
      BY <1>4
    <3>3. routine'[b] = routine[b] \/ routine'[b] = "end"
      BY <1>4, Zenon
    <3> QED BY <1>1, <3>1, <3>2, <3>3, Zenon DEF ClosingOK
  <2> QED BY <2>1, Zenon DEF Closing
<1>7. \A b \in Batches : /\ enqueue'[b] = "committed" <=> enqueue[b] = "committed"
                         /\ enqueue'[b] # "none" => enqueue[b] # "none"
  BY Zenon, <1>4
<1> QED BY ZenonT(30), <1>1, <1>2, <1>3, <1>5, <1>6, <1>7, RequestKeeps DEF CInv, Typed

\* What a caller changes: only its own batch.
OwnBatch(b) ==
  /\ UNCHANGED <<message, retries, devlog, created, clock, seen, marked, finished>>
  /\ UNCHANGED <<workers, picked>>
  /\ batch' \in [Batches -> {"none", "PENDING", "PROCESSING", "FINISHED"}]
  /\ client' \in [Batches -> {"new", "saved", "enqueueing", "reconciling",
                              "ok", "error", "unknown", "dead"}]
  /\ enqueue' \in [Batches -> {"none", "begun", "locked", "committed"}]
  /\ routine' \in [Batches -> {"off", "tick", "check", "call", "mark", "end"}]
  /\ \A c \in Batches : c # b =>
       /\ batch'[c] = batch[c] /\ client'[c] = client[c]
       /\ enqueue'[c] = enqueue[c] /\ routine'[c] = routine[c]

CallerMoves(b) ==
  \/ /\ client[b] = "new" /\ client'[b] \in {"saved", "error"}
     /\ batch'[b] = "PENDING" /\ enqueue'[b] = enqueue[b] /\ routine'[b] = routine[b]
  \/ /\ client[b] \in {"saved", "reconciling"} /\ client'[b] \in {"reconciling", "unknown"}
     /\ enqueue'[b] = enqueue[b] /\ batch'[b] = batch[b] /\ routine'[b] = routine[b]
  \/ /\ client[b] = "enqueueing" /\ enqueue[b] = "begun" /\ batch[b] = "PENDING"
     /\ enqueue'[b] = "locked" /\ client'[b] = client[b] /\ batch'[b] = batch[b]
     /\ routine'[b] = routine[b]
  \/ /\ client[b] = "enqueueing" /\ client'[b] = "reconciling" /\ batch'[b] = batch[b]
     /\ enqueue'[b] = (IF enqueue[b] = "begun" THEN "none" ELSE enqueue[b])
     /\ routine'[b] = routine[b]
  \/ /\ client[b] = "reconciling" /\ client'[b] = "ok" /\ enqueue[b] = "committed"
     /\ enqueue'[b] = enqueue[b] /\ batch'[b] = batch[b] /\ routine'[b] = "tick"
  \/ /\ client[b] = "reconciling" /\ client'[b] = "error" /\ enqueue[b] = "none"
     /\ enqueue'[b] = enqueue[b] /\ routine'[b] = routine[b]
     /\ batch'[b] = (IF batch[b] = "PENDING" THEN "FINISHED" ELSE batch[b])
  \/ /\ enqueue[b] = "locked" /\ client[b] # "enqueueing" /\ enqueue'[b] = "none"
     /\ client'[b] = client[b] /\ batch'[b] = batch[b] /\ routine'[b] = routine[b]

\* A batch with all its rows has been enqueued.
LEMMA EnqueuedFact ==
  ASSUME CInv, NEW b \in Batches
  PROVE  Enqueued(b) <=> enqueue[b] = "committed"
<1>1. PICK m \in Messages : m \in Rows(b)
  BY MessageFacts
<1> QED BY ZenonT(30), <1>1, MessageFacts DEF Enqueued, CInv, RowsExist

\* What a step of the caller outside the enqueue transaction may change.
LEMMA CallerEffect ==
  ASSUME CInv, NEW b \in Batches, Caller(b) \/ RollBackEnqueue(b), ~ BeginEnqueue(b)
  PROVE  OwnBatch(b) /\ CallerMoves(b)
<1> USE DEF CInv, Typed, ClientAt, tables, execution, threads, follow, OwnBatch, CallerMoves
<1>1. ASSUME NEW r \in Runs, SaveBatch(b, r) PROVE OwnBatch(b) /\ CallerMoves(b)
  <2>1. OwnBatch(b)
    BY ZenonT(30), <1>1 DEF SaveBatch, CreateCommandBatchLog
  <2> QED BY <1>1, <2>1 DEF SaveBatch, CreateCommandBatchLog
<1>2. ASSUME NEW r \in Runs, SaveBatchUnanswered(b, r) PROVE OwnBatch(b) /\ CallerMoves(b)
  <2>1. OwnBatch(b)
    BY Zenon, <1>2 DEF SaveBatchUnanswered, CreateCommandBatchLog
  <2> QED BY <1>2, <2>1 DEF SaveBatchUnanswered, CreateCommandBatchLog
<1>3. CASE RefuseEnqueue(b)
  BY Zenon, <1>3 DEF RefuseEnqueue
<1>4. CASE ReconcileFails(b)
  BY Zenon, <1>4 DEF ReconcileFails
<1>5. CASE LockAndInsert(b)
  BY Zenon, <1>5 DEF LockAndInsert
<1>6. CASE LoseEnqueue(b)
  BY ZenonT(30), <1>6 DEF LoseEnqueue
<1>7. CASE RollBackEnqueue(b)
  <2>1. OwnBatch(b)
    BY SMTT(30), <1>7 DEF RollBackEnqueue
  <2>2. /\ enqueue[b] = "locked" /\ client[b] # "enqueueing" /\ enqueue'[b] = "none"
        /\ client'[b] = client[b] /\ batch'[b] = batch[b] /\ routine'[b] = routine[b]
    BY Zenon, <1>7 DEF RollBackEnqueue
  <2> HIDE DEF OwnBatch
  <2> QED BY Zenon, <2>1, <2>2
<1>8. CASE Reconcile(b)
  <2>1. client[b] = "reconciling" /\ enqueue[b] # "locked" /\ enqueue[b] # "begun"
    BY Zenon, <1>8 DEF Reconcile, Requests, RequestOK
  <2>2. Enqueued(b) <=> enqueue[b] = "committed"
    BY ZenonT(30), EnqueuedFact
  <2>3. CASE Enqueued(b)
    BY ZenonT(30), <1>8, <2>1, <2>2, <2>3 DEF Reconcile, StartRoutine
  <2>4. CASE ~ Enqueued(b)
    BY ZenonT(30), <1>8, <2>1, <2>2, <2>4 DEF Reconcile, MarkCommandBatchFinished
  <2> QED BY Zenon, <2>3, <2>4
<1> QED BY <1>1, <1>2, <1>3, <1>4, <1>5, <1>6, <1>7, <1>8, Zenon DEF Caller

\* Every such step: saving the batch, its outcome, the reconciliation.
LEMMA CallerKeeps ==
  ASSUME CInv, NEW b \in Batches, Caller(b) \/ RollBackEnqueue(b), ~ BeginEnqueue(b)
  PROVE  CInv'
<1>1. OwnBatch(b) /\ CallerMoves(b)
  BY Zenon, CallerEffect
<1>2. RequestOK(b) /\ ClosingOK(b)
  BY Zenon DEF CInv, Requests, Closing
<1>3. enqueue[b] = "none" => ~ AllDecided(b)
  BY Zenon, MessageFacts DEF CInv, RowsExist, AllDecided, Terminal
<1>4. \A c \in Batches : AllDecided(c) => AllDecided(c)'
  BY Zenon, <1>1 DEF AllDecided, OwnBatch
<1>5. ASSUME NEW c \in Batches, c # b
      PROVE  /\ batch'[c] = batch[c] /\ client'[c] = client[c]
             /\ enqueue'[c] = enqueue[c] /\ routine'[c] = routine[c]
  BY Zenon, <1>1, <1>5 DEF OwnBatch
<1>6. marked' = marked /\ finished' = finished
  BY Zenon, <1>1 DEF OwnBatch
<1>7. RequestOK(b)'
  BY Zenon, <1>1, <1>2 DEF CallerMoves, RequestOK
<1>8. ClosingOK(b)'
  <2>1. /\ batch'[b] = "FINISHED" => AllDecided(b) \/ (enqueue'[b] = "none" /\ client'[b] = "error")
        /\ routine'[b] \in {"call", "mark"} \/ b \in finished => AllDecided(b)
        /\ batch'[b] = "PROCESSING" => b \in marked \/ routine'[b] = "end"
        /\ b \in finished => batch'[b] = "FINISHED"
    BY Zenon, <1>1, <1>2, <1>3 DEF CallerMoves, RequestOK, ClosingOK
  <2> QED BY <1>4, <1>6, <2>1, Zenon DEF ClosingOK
<1>9. Requests'
  <2>1. ASSUME NEW c \in Batches, c # b PROVE RequestOK(c)'
    BY <1>5, <2>1, Zenon DEF CInv, Requests, RequestOK
  <2> QED BY <1>7, <2>1, Zenon DEF Requests
<1>10. Closing'
  <2>1. ASSUME NEW c \in Batches, c # b PROVE ClosingOK(c)'
    BY <1>4, <1>5, <1>6, <2>1, Zenon DEF CInv, Closing, ClosingOK
  <2> QED BY <1>8, <2>1, Zenon DEF Closing
<1>11. \A c \in Batches : /\ enqueue'[c] = "committed" <=> enqueue[c] = "committed"
                          /\ enqueue'[c] # "none" => enqueue[c] # "none"
  <2>1. /\ enqueue'[b] = "committed" <=> enqueue[b] = "committed"
        /\ enqueue'[b] # "none" => enqueue[b] # "none"
    BY Zenon, <1>1, <1>2 DEF CallerMoves, RequestOK
  <2> QED BY <1>5, <2>1, Zenon
<1> QED BY ZenonT(30), <1>1, <1>9, <1>10, <1>11, RequestKeeps DEF OwnBatch, CInv, Typed
-----------------------------------------------------------------------------
(* The enqueue itself.                                                     *)

\* An enqueue transaction begins: created_at is later than all it has seen.
LEMMA BeginKeeps ==
  ASSUME CInv, NEW b \in Batches, BeginEnqueue(b)
  PROVE  CInv'
<1>1. /\ UNCHANGED <<message, retries, devlog, batch, routine, marked, finished, workers, picked>>
      /\ client[b] = "saved" /\ client' = [client EXCEPT ![b] = "enqueueing"]
      /\ enqueue' = [enqueue EXCEPT ![b] = "begun"]
      /\ clock' \in {clock, clock + 1} /\ created' = [created EXCEPT ![b] = clock']
      /\ seen' = [seen EXCEPT ![b] = {c \in Batches : enqueue[c] = "committed"}]
  BY Zenon DEF BeginEnqueue, ClientAt, tables, execution, threads, follow
<1>2. enqueue[b] = "none" /\ clock \in Nat /\ clock' \in Nat /\ clock <= clock'
  BY <1>1 DEF CInv, Requests, RequestOK, Typed
<1>3. \A m \in Messages : m[1] = b => message[m] = "none"
  BY Zenon, <1>2 DEF CInv, RowsExist
<1>4. Typed'
  BY ZenonT(30), <1>1, <1>2 DEF CInv, Typed
<1>5. RowsExist' /\ Requests'
  BY SMTT(30), <1>1, <1>2, MessageFacts DEF CInv, Typed, RowsExist, Requests, RequestOK
<1>6. Closing'
  <2>1. \A c \in Batches : AllDecided(c) => AllDecided(c)'
    BY Zenon, <1>1 DEF AllDecided
  <2>2. ASSUME NEW c \in Batches, c # b
        PROVE  client'[c] = client[c] /\ enqueue'[c] = enqueue[c]
    BY Zenon, <1>1, <2>2 DEF CInv, Typed
  <2>3. batch[b] = "FINISHED" => AllDecided(b)
    BY ZenonT(30), <1>1 DEF CInv, Closing, ClosingOK
  <2> QED BY Zenon, <1>1, <2>1, <2>2, <2>3 DEF CInv, Closing, ClosingOK
<1>7. Working'
  <2>1. Working /\ UNCHANGED <<message, retries, workers, picked>>
    BY Zenon, <1>1 DEF CInv
  <2>2. OneWorker /\ workers' = workers
    BY Zenon, <2>1 DEF Working
  <2>3. OneWorker'
    BY <2>2 DEF OneWorker
  <2> QED
    BY Zenon, <2>1, <2>3 DEF Working
<1>8. Logged'
  BY Zenon, <1>1 DEF CInv, Logged
<1>9. Ages'
  <2>1. ASSUME NEW c \in Batches
        PROVE  /\ enqueue'[c] = "committed" => created'[c] < clock'
               /\ enqueue'[c] # "none" => created'[c] <= clock'
    BY <1>1, <1>2 DEF CInv, Typed, Ages
  <2>2. ASSUME NEW c \in Batches, NEW d \in seen'[c]
        PROVE  enqueue'[d] = "committed" /\ created'[d] < created'[c]
    <3>1. d \in Batches /\ enqueue[d] = "committed" /\ d # b
      BY Zenon, <1>1, <1>2, <2>2 DEF CInv, Typed, Ages
    <3>2. CASE c = b
      <4>1. created[d] < clock /\ created[d] \in Nat
        BY <3>1, Zenon DEF CInv, Typed, Ages
      <4>2. created'[d] = created[d] /\ created'[c] = clock' /\ enqueue'[d] = enqueue[d]
        BY ZenonT(30), <1>1, <3>1, <3>2 DEF CInv, Typed
      <4> QED BY <1>2, <3>1, <4>1, <4>2
    <3>3. CASE c # b
      BY ZenonT(30), <1>1, <2>2, <3>1, <3>3 DEF CInv, Typed, Ages
    <3> QED BY <3>2, <3>3
  <2> QED BY ZenonT(30), <2>1, <2>2 DEF Ages
<1>10. Ordering'
  <2>1. ASSUME NEW m \in Messages, message[m] # "none" PROVE seen'[m[1]] = seen[m[1]]
    BY Zenon, <1>1, <1>3, <2>1, MessageFacts DEF CInv, Typed
  <2>2. ASSUME NEW m \in Messages, Begun(m) PROVE message[m] # "none"
    BY <2>2 DEF Begun, Terminal, CInv, Logged
  <2>3. DeviceOrder'
    BY Zenon, <1>1, <2>1, <2>2 DEF CInv, Ordering, DeviceOrder, Begun
  <2>4. ASSUME NEW r \in Runs, NEW p \in picked[r] PROVE seen'[p[1][1]] = seen[p[1][1]]
    <3>1. p[1] \in Messages /\ message[p[1]] # "none"
      BY <2>4 DEF CInv, Typed, Working
    <3> QED BY <2>1, <3>1, Zenon
  <2> QED BY <1>1, <2>3, <2>4, Zenon DEF CInv, Ordering
<1> QED BY ZenonT(30), <1>4, <1>5, <1>6, <1>7, <1>8, <1>9, <1>10 DEF CInv

\* The enqueue commits: all rows of the batch appear, PENDING.
LEMMA CommitKeeps ==
  ASSUME CInv, NEW b \in Batches, CommitEnqueue(b)
  PROVE  CInv'
<1>1. /\ enqueue[b] = "locked" /\ enqueue' = [enqueue EXCEPT ![b] = "committed"]
      /\ clock' = clock + 1 /\ UNCHANGED <<retries, batch, devlog>>
      /\ message' = [m \in Messages |-> IF m[1] = b THEN "PENDING" ELSE message[m]]
      /\ UNCHANGED <<created, seen, workers, picked, marked, finished>>
  BY Zenon DEF CommitEnqueue, CreateQueueMessages, execution, threads, StartRoutine, follow
<1>2. \/ /\ client[b] = "enqueueing" /\ client' = [client EXCEPT ![b] = "ok"]
         /\ routine' = [routine EXCEPT ![b] = "tick"]
      \/ /\ client[b] # "enqueueing" /\ UNCHANGED <<client, routine>>
  BY Zenon DEF CommitEnqueue, ClientAt, StartRoutine, follow
<1>3. batch[b] = "PENDING" /\ routine[b] = "off" /\ clock \in Nat /\ b \notin finished
  BY Zenon, <1>1 DEF CInv, Typed, Requests, RequestOK, Closing, ClosingOK
<1>4. \A m \in Messages : m[1] = b => message[m] = "none" /\ retries[m] = 0 /\ devlog[m] = "none"
  BY ZenonT(30), <1>1 DEF CInv, RowsExist, Logged, Terminal
<1>5. Typed'
  <2>1. message' \in [Messages -> Statuses]
    BY ZenonT(30), <1>1 DEF CInv, Typed, Statuses, Open
  <2>2. clock' \in Nat /\ enqueue' \in [Batches -> {"none", "begun", "locked", "committed"}]
    BY <1>1, <1>3 DEF CInv, Typed
  <2> QED BY ZenonT(30), <1>1, <1>2, <2>1, <2>2 DEF CInv, Typed
<1>6. RowsExist'
  BY ZenonT(30), <1>1, MessageFacts DEF CInv, Typed, RowsExist
<1>7. Requests'
  <2>1. ASSUME NEW c \in Batches, c # b
        PROVE  client'[c] = client[c] /\ enqueue'[c] = enqueue[c] /\ routine'[c] = routine[c]
    BY <1>1, <1>2, <2>1 DEF CInv, Typed
  <2>2. ASSUME NEW c \in Batches, c # b PROVE RequestOK(c)'
    BY ZenonT(30), <1>1, <2>1, <2>2 DEF CInv, Requests, RequestOK
  <2>3. /\ enqueue'[b] = "committed" /\ RequestOK(b)
        /\ \/ client'[b] = "ok"
           \/ client'[b] = client[b] /\ routine'[b] = routine[b] /\ client[b] # "enqueueing"
    BY <1>1, <1>2, Zenon DEF CInv, Typed, Requests
  <2>4. RequestOK(b)'
    BY ZenonT(30), <1>1, <1>3, <2>3 DEF RequestOK
  <2> QED BY <2>2, <2>4, Zenon DEF Requests
<1>8. Closing'
  <2>1. ASSUME NEW c \in Batches, c # b, AllDecided(c) PROVE AllDecided(c)'
    BY Zenon, <1>1, <2>1, MessageFacts DEF AllDecided
  <2>2. ASSUME NEW c \in Batches, c # b
        PROVE  client'[c] = client[c] /\ enqueue'[c] = enqueue[c] /\ routine'[c] = routine[c]
    BY <1>1, <1>2, <2>2 DEF CInv, Typed
  <2>3. routine'[b] \in {"off", "tick"}
    BY Zenon, <1>2, <1>3 DEF CInv, Typed
  <2>4. ASSUME NEW c \in Batches, c # b PROVE ClosingOK(c)'
    BY <1>1, <2>1, <2>2, <2>4, Zenon DEF CInv, Closing, ClosingOK
  <2>5. ClosingOK(b)'
    BY ZenonT(30), <1>1, <1>3, <2>3 DEF ClosingOK
  <2> QED BY <2>4, <2>5, Zenon DEF Closing
<1>9. Working'
  <2>1. ASSUME NEW m \in Messages, message[m] # "none" PROVE message'[m] = message[m]
    BY Zenon, <1>1, <1>4, <2>1
  <2>2. ASSUME NEW r \in Runs, NEW w \in workers[r]
        PROVE  message'[w[1]] \in {"PROCESSING"} \cup Terminal
    <3>0. /\ workers[r] \in SUBSET (Messages \X Nat)
          /\ message[w[1]] \in {"PROCESSING"} \cup Terminal
      BY Zenon, <2>2 DEF CInv, Typed, Working
    <3>1. w[1] \in Messages /\ message[w[1]] \in {"PROCESSING"} \cup Terminal
      BY <2>2, <3>0
    <3>2. "none" \notin {"PROCESSING"} \cup Terminal
      BY DEF Terminal
    <3> QED
      BY Zenon, <2>1, <3>1, <3>2
  <2>3. ASSUME NEW r \in Runs, NEW p \in picked[r] PROVE message'[p[1]] # "none"
    BY <2>1, <2>3 DEF CInv, Typed, Working
  <2> QED BY <1>1, <2>2, <2>3 DEF CInv, Working, OneWorker
<1>10. Logged'
  BY Zenon, <1>1, <1>4 DEF CInv, Logged
<1>11. Ages'
  <2>1. ASSUME NEW c \in Batches
        PROVE  /\ enqueue'[c] = "committed" => created[c] < clock'
               /\ enqueue'[c] # "none" => created[c] <= clock'
    BY <1>1, <1>3 DEF CInv, Typed, Ages
  <2>2. ASSUME NEW c \in Batches, NEW d \in seen[c]
        PROVE  enqueue'[d] = "committed" /\ created[d] < created[c]
    BY ZenonT(30), <1>1, <2>2 DEF CInv, Typed, Ages
  <2> QED BY ZenonT(30), <1>1, <2>1, <2>2 DEF Ages
<1>12. Ordering'
  <2>1. ASSUME NEW m \in Messages, Begun(m)' PROVE Begun(m)
    BY Zenon, <1>1, <1>4, <2>1 DEF Begun, Terminal
  <2>2. ASSUME NEW n \in Messages, message[n] \in Terminal PROVE message'[n] \in Terminal
    BY Zenon, <1>1, <1>4, <2>2 DEF Terminal
  <2>3. DeviceOrder'
    BY Zenon, <1>1, <2>1, <2>2 DEF CInv, Ordering, DeviceOrder, Begun
  <2> QED BY Zenon, <1>1, <2>2, <2>3 DEF CInv, Ordering
<1> QED BY ZenonT(30), <1>5, <1>6, <1>7, <1>8, <1>9, <1>10, <1>11, <1>12 DEF CInv
-----------------------------------------------------------------------------
\* The initial state satisfies the invariant.
LEMMA CommandInit == Init => CInv
<1> SUFFICES ASSUME Init PROVE CInv
  OBVIOUS
<1> USE DEF Init, QueueInit, ExecutionInit
<1>1. Typed
  BY Zenon DEF Typed, Statuses
<1>2. RowsExist /\ Logged
  BY Zenon, MessageFacts DEF RowsExist, Logged
<1>3. Requests /\ Closing
  BY Zenon DEF Requests, RequestOK, Closing, ClosingOK
<1>4. Working
  BY Zenon DEF Working, OneWorker
<1>5. Ages
  BY Zenon DEF Ages
<1>6. Ordering
  BY Zenon, MessageFacts DEF Ordering, DeviceOrder
<1> QED BY ZenonT(30), <1>1, <1>2, <1>3, <1>4, <1>5, <1>6 DEF CInv

\* Every step preserves the invariant.
LEMMA CommandStep == CInv /\ [Next]_vars => CInv'
<1> SUFFICES ASSUME CInv, [Next]_vars PROVE CInv'
  OBVIOUS
<1>1. CASE ExecutionStep /\ UNCHANGED dispatch
  BY Zenon, <1>1, ExecutionKeeps
<1>2. ASSUME NEW r \in Runs, EndRun(r) PROVE CInv'
  BY Zenon, <1>2, TablesUnchanged DEF EndRun, FinishRun, threads, CInv, Typed
<1>3. ASSUME NEW r \in Runs, Crash(r) PROVE CInv'
  BY Zenon, <1>3, CrashKeeps
<1>4. ASSUME NEW b \in Batches, Caller(b) \/ EnqueueEnds(b) PROVE CInv'
  BY Zenon, <1>4, CallerKeeps, BeginKeeps, CommitKeeps DEF EnqueueEnds
<1>5. ASSUME NEW b \in Batches, Routine(b) PROVE CInv'
  BY Zenon, <1>5, RoutineKeeps
<1>6. CASE UNCHANGED vars
  BY Zenon, <1>6, TablesUnchanged DEF vars, execution, threads, CInv, Typed
<1> QED BY ZenonT(30), <1>1, <1>2, <1>3, <1>4, <1>5, <1>6 DEF Next

\* The invariant of queue, execution service and dispatch.
THEOREM CommandInvariant == Spec => []CInv
<1> QED BY CommandInit, CommandStep, PTL DEF Spec

\* Commands reach a device in the order of their enqueues (GetMessagesToProcess),
\* through retries, lost answers, crashes and overlapping processes.
THEOREM CommandsInDeviceOrder == Spec => []DeviceOrder
<1>1. CInv => DeviceOrder
  BY Zenon DEF CInv, Ordering
<1> QED BY <1>1, CommandInvariant, PTL

\* No command has two workers (ClaimMessageForProcessing and the reapers).
THEOREM NoCommandTwice == Spec => []OneWorker
<1>1. CInv => OneWorker
  BY Zenon DEF CInv, Working
<1> QED BY <1>1, CommandInvariant, PTL

\* A FINISHED batch is decided or was never enqueued (reconcileFailedEnqueue).
THEOREM FinishedBatchIsFinal == Spec => []FinishedIsFinal
<1>1. CInv => FinishedIsFinal
  <2> SUFFICES ASSUME CInv, NEW b \in Batches, batch[b] = "FINISHED"
               PROVE  \/ \A m \in Rows(b) : message[m] \in Terminal
                      \/ \A m \in Rows(b) : message[m] = "none"
    BY Zenon DEF FinishedIsFinal
  <2>1. enqueue[b] = "none" => \A m \in Rows(b) : message[m] = "none"
    BY Zenon, MessageFacts DEF CInv, RowsExist
  <2> QED BY <2>1 DEF CInv, Closing, ClosingOK, AllDecided
<1> QED BY <1>1, CommandInvariant, PTL

\* What admitCommand returns is true of the queue.
THEOREM CallerIsToldTheTruth == Spec => []CallerToldTruth
<1>1. CInv => CallerToldTruth
  BY SMTT(30), MessageFacts DEF CInv, Requests, RequestOK, RowsExist, CallerToldTruth, Enqueued
<1> QED BY <1>1, CommandInvariant, PTL

\* The status routine's UPDATE never misses the batch.
THEOREM RoutineMarkIsEffective == Spec => []MarkIsEffective
<1>1. CInv => MarkIsEffective
  BY Zenon DEF CInv, Typed, Closing, ClosingOK, MarkIsEffective
<1> QED BY <1>1, CommandInvariant, PTL
-----------------------------------------------------------------------------
(* Decided commands.                                                       *)

\* The transactions that write to queue_message or to command_on_device_log;
\* what the others do to a batch.
Written ==
  \/ /\ UNCHANGED <<message, devlog>>
     /\ \A b \in Batches : batch[b] = "FINISHED" => batch'[b] = "FINISHED" \/ client[b] = "new"
  \/ \E S \in SUBSET Processing : ReapMessages(S)
  \/ \E r \in Runs : ClaimMessages(Picked(r))
  \/ \E r \in Runs, w \in Known, result \in Results : WorkerProcessCommand(r, w, result)
  \/ \E b \in Batches : enqueue[b] = "locked" /\ CreateQueueMessages(b)

\* The ways a step may write the status of a message or its device log.
LEMMA OnlyWritten == ASSUME CInv, [Next]_vars PROVE Written
<1> USE DEF tables
<1>0. batch \in [Batches -> {"none", "PENDING", "PROCESSING", "FINISHED"}]
  BY Zenon DEF CInv, Typed
<1>a. ASSUME UNCHANGED <<message, devlog>>,
             \A c \in Batches : batch[c] = "FINISHED" => batch'[c] = "FINISHED" \/ client[c] = "new"
      PROVE  Written
  BY Zenon, <1>a DEF Written
<1>b. FinishTerminalCommandBatches => Written
  BY Zenon, <1>a DEF FinishTerminalCommandBatches
<1>c. \A b \in Batches, from \in SUBSET Open : MarkCommandBatchFinished(b, from) => Written
  BY Zenon, <1>0, <1>a DEF MarkCommandBatchFinished
<1>d. \A b \in Batches : MarkCommandBatchProcessing(b) => Written
  <2>1. \A b \in Batches : MarkCommandBatchProcessing(b) =>
          \A c \in Batches : batch[c] = "FINISHED" => batch'[c] = "FINISHED"
    BY <1>0 DEF MarkCommandBatchProcessing, StartsProcessing
  <2> QED
    BY Zenon, <1>a, <2>1 DEF MarkCommandBatchProcessing
<1>e. UNCHANGED tables => Written
  BY Zenon, <1>a
<1>1. ASSUME NEW r \in Runs, Start(r) \/ RestartFinish(r) \/ BeginStop(r) \/ EndRun(r) \/ Crash(r)
      PROVE  Written
  BY Zenon, <1>1, <1>b, <1>e DEF Start, RestartFinish, BeginStop, EndRun, FinishRun, Crash, Die
<1>2. ASSUME NEW r \in Runs, RestartReap(r) PROVE Written
  BY Zenon, <1>2 DEF Written, RestartReap
<1>3. ASSUME NEW r \in Runs, Processor(r) PROVE Written
  <2>1. UNCHANGED tables \/ ClaimMessages(Picked(r))
    BY Zenon, <1>3 DEF Processor, ReserveWorkerSlots, DequeueSelect, DequeueClaim,
       DequeueGiveUp, DequeueRetry, DequeueOutcome, ProcessorExit
  <2> QED
    BY Zenon, <1>e, <2>1 DEF Written
<1>4. ASSUME NEW r \in Runs, Workers(r) PROVE Written
  <2>1. UNCHANGED tables \/ \E w \in Known, result \in Results : WorkerProcessCommand(r, w, result)
    BY Zenon, <1>4 DEF Workers, WorkerFails
  <2> QED
    BY Zenon, <1>e, <2>1 DEF Written
<1>5. ASSUME NEW r \in Runs, Reaper(r) PROVE Written
  <2>1. ASSUME NEW S \in SUBSET Messages, ReapStuck(r, S) PROVE Written
    BY Zenon, <2>1 DEF Written, ReapStuck
  <2> QED
    BY Zenon, <1>5, <1>b, <1>e, <2>1 DEF Reaper, FinishStuck, ReaperExit
<1>6. ASSUME NEW b \in Batches, Caller(b) \/ RollBackEnqueue(b) PROVE Written
  <2>1. ASSUME client[b] = "new", CreateCommandBatchLog(b) PROVE Written
    <3>1. \A c \in Batches : c = b \/ batch'[c] = batch[c]
      BY Zenon, <1>0, <2>1 DEF CreateCommandBatchLog
    <3> QED
      BY Zenon, <1>a, <2>1, <3>1 DEF CreateCommandBatchLog
  <2>2. ASSUME MarkCommandBatchFinished(b, {"PENDING"}) PROVE Written
    BY Zenon, <1>c, <2>2 DEF Open
  <2> QED
    BY Zenon, <1>6, <1>e, <2>1, <2>2 DEF Caller, SaveBatch, SaveBatchUnanswered, ClientAt, BeginEnqueue,
       RefuseEnqueue, LockAndInsert, LoseEnqueue, Reconcile, ReconcileFails, RollBackEnqueue
<1>7. ASSUME NEW b \in Batches, CommitEnqueue(b) PROVE Written
  BY Zenon, <1>7 DEF Written, CommitEnqueue
<1>8. ASSUME NEW b \in Batches, Routine(b) PROVE Written
  <2>1. (IF b \in marked THEN Open ELSE {"PENDING"}) \in SUBSET Open
    BY DEF Open
  <2>2. \/ UNCHANGED tables \/ MarkCommandBatchProcessing(b)
        \/ MarkCommandBatchFinished(b, IF b \in marked THEN Open ELSE {"PENDING"})
    BY Zenon, <1>8 DEF Routine, MarkProcessing, MarkProcessingFails, SkipProcessing,
       CheckFinished, CheckFinishedFails, Complete, CompleteFails, SkipComplete, MarkFinished,
       MarkFinishedFails, SkipMark
  <2> QED
    BY Zenon, <1>c, <1>d, <1>e, <2>1, <2>2
<1>9. CASE UNCHANGED vars
  BY Zenon, <1>9, <1>e DEF vars
<1> QED
  BY Zenon, <1>1, <1>2, <1>3, <1>4, <1>5, <1>6, <1>7, <1>8, <1>9 DEF Next, ExecutionStep, EnqueueEnds

\* None of these ways changes a decided message, given the invariant.
LEMMA DecidedStays ==
  ASSUME CInv, Written, NEW m \in Messages
  PROVE  /\ message[m] \in Terminal => message'[m] = message[m]
         /\ devlog[m] # "none" => devlog'[m] = devlog[m]
<1>1. devlog[m] # "none" => message[m] \in Terminal
  BY Zenon DEF CInv, Logged
<1>2. ASSUME NEW S \in SUBSET Processing, ReapMessages(S), message[m] \in Terminal
      PROVE  message'[m] = message[m] /\ devlog'[m] = devlog[m]
  BY Zenon, <1>2 DEF ReapMessages, Processing, Terminal
<1>3. ASSUME NEW r \in Runs, ClaimMessages(Picked(r)), message[m] \in Terminal
      PROVE  message'[m] = message[m] /\ devlog'[m] = devlog[m]
  BY Zenon, <1>3 DEF ClaimMessages, Claimed, Terminal
<1>4. ASSUME NEW n \in Messages, NEW result, NEW k, RecordResult(n, result, k),
             message[m] \in Terminal
      PROVE  message'[m] = message[m] /\ devlog'[m] = devlog[m]
  BY Zenon, <1>4 DEF RecordResult, Terminal, CInv, Typed
<1>5. ASSUME NEW b \in Batches, enqueue[b] = "locked", CreateQueueMessages(b),
             message[m] \in Terminal
      PROVE  message'[m] = message[m] /\ devlog'[m] = devlog[m]
  <2>1. m[1] # b
    BY Zenon, <1>5 DEF CInv, RowsExist, Terminal
  <2> QED BY <1>5, <2>1 DEF CreateQueueMessages
<1>6. ASSUME NEW r \in Runs, NEW w \in Known, NEW result, WorkerProcessCommand(r, w, result),
             message[m] \in Terminal
      PROVE  message'[m] = message[m] /\ devlog'[m] = devlog[m]
  <2>1. w[1] \in Messages
    BY DEF Known
  <2> QED
    BY Zenon, <1>4, <1>6, <2>1 DEF WorkerProcessCommand
<1> QED
  BY Zenon, <1>1, <1>2, <1>3, <1>5, <1>6 DEF Written

\* A decided command and its device log are never overwritten (queue.sql).
THEOREM DecidedForGood == Spec => TerminalStays
<1>1. CInv /\ [Next]_vars =>
        [\A m \in Messages :
           /\ message[m] \in Terminal => message'[m] = message[m]
           /\ devlog[m] # "none" => devlog'[m] = devlog[m]]_vars
  BY Zenon, OnlyWritten, DecidedStays
<1> QED BY <1>1, CommandInvariant, PTL DEF Spec, TerminalStays
-----------------------------------------------------------------------------
(* One process at a time: what a worker knows of its message is current.   *)

Steps == {"off", "reserve", "select", "claim"}

\* A process that is not alive has nothing under way.
Alone ==
  /\ run \in [Runs -> Alive \cup {"off", "dead"}] /\ processor \in [Runs -> Steps]
  /\ \A r \in Runs : run[r] \notin Alive =>
       processor[r] = "off" /\ picked[r] = {} /\ workers[r] = {}
  /\ MaxLive = 1 => \A r, q \in Runs : run[r] \in Alive /\ run[q] \in Alive => r = q

\* The retry_count that was read with a row is still the row's.
Fresh ==
  MaxLive = 1 =>
    /\ \A r \in Runs : \A p \in picked[r] : message[p[1]] = "PENDING" /\ p[2] = retries[p[1]]
    /\ \A r \in Runs : \A w \in workers[r] : message[w[1]] = "PROCESSING" => w[2] = retries[w[1]]

\* A decided message has its outcome in the device log.
Agrees == MaxLive = 1 => \A m \in Messages : message[m] \in Terminal => devlog[m] = message[m]

Completed ==
  /\ activity \in [Batches -> {"none", "success", "failure"}]
  /\ MaxLive = 1 => CompletedIsTrue

DInv == CInv /\ Alone /\ Fresh /\ Agrees /\ Completed

\* The runs of a step that is not about runs.
LEMMA AloneKept ==
  ASSUME Alone, UNCHANGED run, processor' \in [Runs -> Steps],
         \A r \in Runs : run[r] \notin Alive =>
           processor'[r] = "off" /\ picked'[r] \subseteq picked[r] /\ workers'[r] \subseteq workers[r]
  PROVE  Alone'
  BY Zenon DEF Alone

\* A process starts only when no other is alive, if there is to be one.
LEMMA StartsAlone ==
  ASSUME Alone, MaxLive = 1, NEW r \in Runs, Start(r)
  PROVE  \A q \in Runs : run[q] \notin Alive
<1>1. Cardinality(AliveRuns) < 1
  BY Zenon DEF Start
<1>2. ASSUME NEW q \in Runs, run[q] \in Alive PROVE FALSE
  <2>1. AliveRuns = {q}
    BY Zenon, <1>2 DEF Alone, AliveRuns
  <2>2. Cardinality(AliveRuns) = 1
    BY Zenon, <2>1, FS_Singleton
  <2> QED
    BY <1>1, <2>2
<1> QED
  BY Zenon, <1>2

\* Every step keeps Alone.
LEMMA AloneStep == ASSUME CInv, Alone, [Next]_vars PROVE Alone'
<1> USE DEF threads
<1>0. /\ picked \in [Runs -> SUBSET (Messages \X Nat)] /\ workers \in [Runs -> SUBSET (Messages \X Nat)]
      /\ run \in [Runs -> Alive \cup {"off", "dead"}] /\ processor \in [Runs -> Steps]
      /\ \A s \in Steps : s = "off" \/ s # "off"
  BY Zenon DEF CInv, Typed, Alone
<1>s. {"off", "reserve", "select", "claim"} \subseteq Steps
  BY DEF Steps
<1>a. "reaping" \in Alive /\ "finishing" \in Alive /\ "running" \in Alive /\ "stopping" \in Alive
      /\ "done" \in Alive /\ "dead" \notin Alive /\ "off" \notin Alive
  BY DEF Alive
<1>1. ASSUME NEW r \in Runs, Start(r) PROVE Alone'
  <2>1. /\ run' = [run EXCEPT ![r] = "reaping"] /\ UNCHANGED <<processor, picked, workers>>
    BY Zenon, <1>1 DEF Start
  <2>2. MaxLive = 1 => \A q \in Runs : run[q] \notin Alive
    BY Zenon, <1>1, StartsAlone
  <2> QED
    BY Zenon, <1>0, <1>a, <2>1, <2>2 DEF Alone
<1>2. ASSUME NEW r \in Runs, RestartReap(r) \/ BeginStop(r) \/ EndRun(r) PROVE Alone'
  <2>1. PICK s \in Alive : run' = [run EXCEPT ![r] = s] /\ run[r] \in Alive /\ UNCHANGED <<processor, picked, workers>>
    BY Zenon, <1>2, <1>a DEF RestartReap, BeginStop, EndRun, FinishRun
  <2> QED
    BY Zenon, <1>0, <1>a, <2>1 DEF Alone
<1>3. ASSUME NEW r \in Runs, RestartFinish(r) PROVE Alone'
  <2>1. /\ run' = [run EXCEPT ![r] = "running"] /\ run[r] \in Alive /\ UNCHANGED <<picked, workers>>
        /\ processor' = [processor EXCEPT ![r] = "reserve"]
    BY Zenon, <1>3, <1>a DEF RestartFinish
  <2> QED
    BY Zenon, <1>0, <1>a, <1>s, <2>1 DEF Alone
<1>4. ASSUME NEW r \in Runs, Crash(r) PROVE Alone'
  <2>1. /\ run' = [run EXCEPT ![r] = "dead"] /\ processor' = [processor EXCEPT ![r] = "off"]
        /\ picked' = [picked EXCEPT ![r] = {}] /\ workers' = [workers EXCEPT ![r] = {}]
    BY Zenon, <1>4 DEF Crash, Die
  <2> QED
    BY Zenon, <1>0, <1>a, <1>s, <2>1 DEF Alone
<1>5. ASSUME NEW r \in Runs, Processor(r) PROVE Alone'
  <2>1. UNCHANGED run /\ processor[r] # "off"
    BY Zenon, <1>5 DEF Processor, ReserveWorkerSlots, DequeueSelect, DequeueClaim, DequeueGiveUp, DequeueRetry,
       ProcessorExit
  <2>2. run[r] \in Alive
    BY Zenon, <2>1 DEF Alone
  <2>3. \E s \in Steps : processor' = [processor EXCEPT ![r] = s]
    BY Zenon, <1>5, <1>s DEF Processor, ReserveWorkerSlots, DequeueSelect, DequeueClaim, DequeueGiveUp, DequeueRetry,
       ProcessorExit, Release, Idle
  <2>4. \A q \in Runs : q # r => picked'[q] = picked[q] /\ workers'[q] = workers[q]
    BY Zenon, <1>0, <1>5 DEF Processor, ReserveWorkerSlots, DequeueSelect, DequeueClaim, DequeueGiveUp, DequeueRetry,
       ProcessorExit, Release
  <2> QED
    BY ZenonT(30), <1>0, <2>1, <2>2, <2>3, <2>4, AloneKept DEF Alone
<1>6. ASSUME NEW r \in Runs, Workers(r) PROVE Alone'
  <2>1. UNCHANGED <<run, processor, picked>> /\ \E w : workers' = [workers EXCEPT ![r] = @ \ {w}]
    BY Zenon, <1>6 DEF Workers, WorkerProcessCommand, WorkerFails, WorkerEnds
  <2> QED
    BY Zenon, <1>0, <2>1, AloneKept DEF Alone
<1>7. CASE UNCHANGED <<run, processor, picked, workers>>
  BY Zenon, <1>7 DEF Alone
<1>8. ASSUME NEW r \in Runs, Reaper(r) PROVE UNCHANGED <<run, processor, picked, workers>>
  BY Zenon, <1>8 DEF Reaper, ReapStuck, FinishStuck, ReaperExit
<1>9. ASSUME NEW b \in Batches, Caller(b) \/ EnqueueEnds(b) \/ Routine(b)
      PROVE  UNCHANGED <<run, processor, picked, workers>>
  <2>1. CASE Caller(b)
    BY Zenon, <2>1 DEF Caller, SaveBatch, SaveBatchUnanswered, BeginEnqueue, RefuseEnqueue, LockAndInsert,
       LoseEnqueue, Reconcile, ReconcileFails, execution
  <2>2. CASE EnqueueEnds(b)
    BY Zenon, <2>2 DEF EnqueueEnds, CommitEnqueue, RollBackEnqueue, execution
  <2>3. CASE Routine(b)
    BY Zenon, <2>3 DEF Routine, MarkProcessing, MarkProcessingFails, SkipProcessing, CheckFinished,
       CheckFinishedFails, Complete, CompleteFails, SkipComplete, MarkFinished, MarkFinishedFails, SkipMark, execution
  <2> QED
    BY Zenon, <1>9, <2>1, <2>2, <2>3
<1>10. CASE UNCHANGED vars
  BY Zenon, <1>7, <1>10 DEF vars, execution
<1> QED
  BY ZenonT(30), <1>1, <1>2, <1>3, <1>4, <1>5, <1>6, <1>7, <1>8, <1>9, <1>10 DEF Next, ExecutionStep

\* Rows that nobody touches stay as they were read.
LEMMA FreshKept ==
  ASSUME Fresh, UNCHANGED <<message, retries>>,
         \A r \in Runs : picked'[r] \subseteq picked[r] /\ workers'[r] \subseteq workers[r]
  PROVE  Fresh'
  BY Zenon DEF Fresh

\* A claim by r takes rows as they were read; nobody else has any in hand.
LEMMA FreshClaim ==
  ASSUME CInv, Alone, Fresh, NEW r \in Runs, ClaimMessages(Picked(r)),
         picked' = [picked EXCEPT ![r] = {}],
         \A q \in Runs : \A w \in workers'[q] : w \in workers[q] \/ w \in picked[r]
  PROVE  Fresh'
<1> SUFFICES ASSUME MaxLive = 1 PROVE Fresh'
  BY Zenon DEF Fresh
<1>0. /\ picked \in [Runs -> SUBSET (Messages \X Nat)] /\ workers \in [Runs -> SUBSET (Messages \X Nat)]
  BY Zenon DEF CInv, Typed
<1>1. UNCHANGED retries /\ \A m \in Messages : message[m] # "PENDING" => message'[m] = message[m]
  BY Zenon DEF ClaimMessages, Claimed
<1>2. ASSUME NEW q \in Runs, NEW p \in picked'[q]
      PROVE  message'[p[1]] = "PENDING" /\ p[2] = retries'[p[1]]
  <2>1. q # r /\ p \in picked[q] /\ p[1] \in Messages
    BY <1>0, <1>2
  <2>2. picked[r] = {}
    BY Zenon, <2>1 DEF Alone
  <2>3. message'[p[1]] = message[p[1]]
    BY Zenon, <2>1, <2>2 DEF ClaimMessages, Claimed, Picked
  <2> QED
    BY ZenonT(30), <1>1, <2>1, <2>3 DEF Fresh
<1>3. ASSUME NEW q \in Runs, NEW w \in workers'[q], message'[w[1]] = "PROCESSING"
      PROVE  w[2] = retries'[w[1]]
  <2>1. CASE w \in workers[q]
    <3>1. w[1] \in Messages
      BY <1>0, <2>1
    <3>2. message[w[1]] \in {"PROCESSING"} \cup Terminal
      BY Zenon, <2>1 DEF CInv, Working
    <3>3. message[w[1]] # "PENDING"
      BY <3>2 DEF Terminal
    <3> QED
      BY ZenonT(30), <1>1, <1>3, <2>1, <3>1, <3>3 DEF Fresh
  <2>2. CASE w \in picked[r]
    BY Zenon, <1>1, <2>2 DEF Fresh
  <2> QED
    BY Zenon, <1>3, <2>1, <2>2
<1> QED
  BY Zenon, <1>2, <1>3 DEF Fresh

\* The steps of the processor.
LEMMA FreshProcessor ==
  ASSUME CInv, Alone, Fresh, NEW r \in Runs, Processor(r)
  PROVE  Fresh'
<1>0. /\ picked \in [Runs -> SUBSET (Messages \X Nat)] /\ workers \in [Runs -> SUBSET (Messages \X Nat)]
  BY Zenon DEF CInv, Typed
<1>1. CASE ReserveWorkerSlots(r) \/ ProcessorExit(r)
  <2>1. UNCHANGED <<message, retries, workers>> /\ \A q \in Runs : picked'[q] \subseteq picked[q]
    BY Zenon, <1>0, <1>1 DEF ReserveWorkerSlots, ProcessorExit, Release, tables
  <2> QED
    BY Zenon, <2>1, FreshKept
<1>2. CASE DequeueSelect(r)
  <2>1. PICK S \in MessagesToProcess(Limit(r)) :
          \/ picked' = [picked EXCEPT ![r] = {}]
          \/ picked' = [picked EXCEPT ![r] = {<<m, retries[m]>> : m \in S}]
    BY Zenon, <1>2 DEF DequeueSelect, Release
  <2>2. UNCHANGED <<message, retries, workers>>
    BY Zenon, <1>2 DEF DequeueSelect, tables
  <2>3. \A m \in S : message[m] = "PENDING"
    BY Zenon DEF MessagesToProcess, Ready
  <2>4. CASE picked' = [picked EXCEPT ![r] = {}]
    <3>1. \A q \in Runs : picked'[q] \subseteq picked[q]
      BY Zenon, <1>0, <2>4
    <3> QED
      BY Zenon, <2>2, <3>1, FreshKept
  <2>5. CASE picked' = [picked EXCEPT ![r] = {<<m, retries[m]>> : m \in S}]
    <3>1. ASSUME NEW q \in Runs, NEW p \in picked'[q]
          PROVE  p \in picked[q] \/ \E m \in S : p = <<m, retries[m]>>
      BY Zenon, <1>0, <2>5, <3>1
    <3>2. ASSUME NEW q \in Runs, NEW p \in picked'[q], MaxLive = 1
          PROVE  message[p[1]] = "PENDING" /\ p[2] = retries[p[1]]
      <4>1. ASSUME NEW m \in S, p = <<m, retries[m]>>
            PROVE  message[p[1]] = "PENDING" /\ p[2] = retries[p[1]]
        BY <2>3, <4>1
      <4> QED
        BY Zenon, <3>1, <3>2, <4>1 DEF Fresh
    <3> QED
      BY Zenon, <2>2, <3>2 DEF Fresh
  <2> QED
    BY Zenon, <2>1, <2>4, <2>5
<1>3. CASE DequeueClaim(r)
  <2>1. /\ ClaimMessages(Picked(r)) /\ picked' = [picked EXCEPT ![r] = {}]
        /\ workers' = [workers EXCEPT ![r] = @ \cup Won(r)]
    BY Zenon, <1>3 DEF DequeueClaim, Release
  <2>2. \A q \in Runs : \A w \in workers'[q] : w \in workers[q] \/ w \in picked[r]
    BY Zenon, <1>0, <2>1 DEF Won
  <2> QED
    BY Zenon, <2>1, <2>2, FreshClaim
<1>4. CASE DequeueGiveUp(r) \/ DequeueRetry(r)
  <2>1. /\ DequeueOutcome(r) /\ picked' = [picked EXCEPT ![r] = {}] /\ UNCHANGED workers
    BY Zenon, <1>4 DEF DequeueGiveUp, DequeueRetry, Release
  <2>2. CASE UNCHANGED tables
    <3>1. \A q \in Runs : picked'[q] \subseteq picked[q]
      BY Zenon, <1>0, <2>1
    <3> QED
      BY Zenon, <2>1, <2>2, <3>1, FreshKept DEF tables
  <2>3. CASE ClaimMessages(Picked(r))
    BY Zenon, <2>1, <2>3, FreshClaim
  <2> QED
    BY Zenon, <2>1, <2>2, <2>3 DEF DequeueOutcome
<1> QED
  BY Zenon, <1>1, <1>2, <1>3, <1>4 DEF Processor

\* The end of a worker.
LEMMA FreshWorker ==
  ASSUME CInv, Fresh, NEW r \in Runs, Workers(r)
  PROVE  Fresh'
<1>0. /\ picked \in [Runs -> SUBSET (Messages \X Nat)] /\ workers \in [Runs -> SUBSET (Messages \X Nat)]
      /\ message \in [Messages -> Statuses] /\ retries \in [Messages -> Nat]
  BY Zenon DEF CInv, Typed
<1>1. PICK w \in Known : (\E result \in Results : WorkerProcessCommand(r, w, result)) \/ WorkerFails(r, w)
  BY Zenon DEF Workers
<1>2. w \in workers[r] /\ workers' = [workers EXCEPT ![r] = @ \ {w}] /\ UNCHANGED picked
  BY Zenon, <1>1 DEF WorkerProcessCommand, WorkerFails, WorkerEnds
<1>3. \A q \in Runs : picked'[q] \subseteq picked[q] /\ workers'[q] \subseteq workers[q]
  BY Zenon, <1>0, <1>2
<1>4. CASE UNCHANGED <<message, retries>>
  BY Zenon, <1>3, <1>4, FreshKept
<1>5. ASSUME NEW result \in Results, RecordResult(w[1], result, w[2]), message[w[1]] = "PROCESSING"
      PROVE  Fresh'
  <2>1. \A m \in Messages : m # w[1] => message'[m] = message[m] /\ retries'[m] = retries[m]
    BY Zenon, <1>0, <1>5 DEF RecordResult
  <2>2. ASSUME NEW q \in Runs, NEW p \in picked'[q], MaxLive = 1
        PROVE  message'[p[1]] = "PENDING" /\ p[2] = retries'[p[1]]
    <3>1. p \in picked[q] /\ p[1] \in Messages
      BY <1>0, <1>3, <2>2
    <3>2. message[p[1]] = "PENDING" /\ p[2] = retries[p[1]] /\ "PENDING" # "PROCESSING"
      BY Zenon, <2>2, <3>1 DEF Fresh
    <3> QED
      BY Zenon, <1>5, <2>1, <3>1, <3>2
  <2>3. ASSUME NEW q \in Runs, NEW v \in workers'[q], MaxLive = 1, message'[v[1]] = "PROCESSING"
        PROVE  v[2] = retries'[v[1]]
    <3>1. v \in workers[q] /\ v[1] \in Messages /\ (q = r => v # w)
      BY <1>0, <1>2, <1>3, <2>3
    <3>2. v[1] # w[1]
      BY Zenon, <1>2, <3>1 DEF CInv, Working, OneWorker
    <3> QED
      BY ZenonT(30), <2>1, <2>3, <3>1, <3>2 DEF Fresh
  <2> QED
    BY Zenon, <2>2, <2>3 DEF Fresh
<1>6. WorkerFails(r, w) => UNCHANGED <<message, retries>>
  BY Zenon DEF WorkerFails, tables
<1>7. ASSUME NEW result \in Results, WorkerProcessCommand(r, w, result) PROVE Fresh'
  BY Zenon, <1>4, <1>5, <1>7 DEF WorkerProcessCommand, RecordResult
<1> QED
  BY Zenon, <1>1, <1>4, <1>6, <1>7

\* Rows are reaped from PROCESSING only, and none was selected there.
LEMMA FreshReap ==
  ASSUME CInv, Fresh, NEW S \in SUBSET Processing, ReapMessages(S), UNCHANGED <<picked, workers>>
  PROVE  Fresh'
<1>0. /\ picked \in [Runs -> SUBSET (Messages \X Nat)] /\ workers \in [Runs -> SUBSET (Messages \X Nat)]
  BY Zenon DEF CInv, Typed
<1>1. UNCHANGED retries
  BY Zenon DEF ReapMessages
<1>2. \A m \in Messages : message[m] = "PENDING" => message'[m] = "PENDING"
  <2>1. \A m \in S : message[m] # "PENDING"
    BY ZenonT(30) DEF Processing
  <2> QED
    BY Zenon, <2>1 DEF ReapMessages
<1>3. \A m \in Messages : message'[m] = "PROCESSING" => message[m] = "PROCESSING"
  BY DEF ReapMessages
<1>4. \A r \in Runs : \A p \in picked[r] \cup workers[r] : p[1] \in Messages
  BY <1>0
<1> QED
  BY Zenon, <1>1, <1>2, <1>3, <1>4 DEF Fresh

\* A batch that is being enqueued has no rows yet.
LEMMA FreshCommit ==
  ASSUME CInv, Fresh, NEW b \in Batches, CommitEnqueue(b)
  PROVE  Fresh'
<1>0. /\ picked \in [Runs -> SUBSET (Messages \X Nat)] /\ workers \in [Runs -> SUBSET (Messages \X Nat)]
  BY Zenon DEF CInv, Typed
<1>1. CreateQueueMessages(b) /\ enqueue[b] = "locked" /\ "locked" # "committed" /\ UNCHANGED <<picked, workers>>
  BY Zenon DEF CommitEnqueue, execution, threads
<1>2. UNCHANGED retries /\ \A m \in Messages : message[m] # "none" => message'[m] = message[m]
  BY Zenon, <1>1 DEF CreateQueueMessages, CInv, RowsExist
<1>t. \A r \in Runs : \A p \in picked[r] \cup workers[r] : p[1] \in Messages
  BY <1>0
<1>3. \A r \in Runs : \A p \in picked[r] : p[1] \in Messages /\ message[p[1]] # "none"
  BY Zenon, <1>t DEF CInv, Working
<1>4. \A r \in Runs : \A w \in workers[r] : w[1] \in Messages /\ message[w[1]] # "none"
  <2>1. "none" \notin {"PROCESSING"} \cup Terminal
    BY DEF Terminal
  <2> QED
    BY ZenonT(30), <1>t, <2>1 DEF CInv, Working
<1> QED
  BY ZenonT(30), <1>1, <1>2, <1>3, <1>4 DEF Fresh

\* Every step keeps what was read fresh.
LEMMA FreshStep == ASSUME CInv, Alone, Fresh, [Next]_vars PROVE Fresh'
<1> USE DEF tables, threads
<1>0. /\ picked \in [Runs -> SUBSET (Messages \X Nat)] /\ workers \in [Runs -> SUBSET (Messages \X Nat)]
  BY Zenon DEF CInv, Typed
<1>1. CASE UNCHANGED <<message, retries, picked, workers>>
  BY Zenon, <1>1, FreshKept
<1>2. ASSUME NEW r \in Runs, Start(r) \/ RestartFinish(r) \/ BeginStop(r) \/ EndRun(r)
      PROVE  UNCHANGED <<message, retries, picked, workers>>
  BY Zenon, <1>2 DEF Start, RestartFinish, FinishTerminalCommandBatches, BeginStop, EndRun, FinishRun
<1>3. ASSUME NEW r \in Runs, RestartReap(r) PROVE Fresh'
  BY Zenon, <1>3, FreshReap DEF RestartReap
<1>4. ASSUME NEW r \in Runs, Crash(r) PROVE Fresh'
  <2>1. /\ UNCHANGED <<message, retries>>
        /\ picked' = [picked EXCEPT ![r] = {}] /\ workers' = [workers EXCEPT ![r] = {}]
    BY Zenon, <1>4 DEF Crash, Die
  <2>2. \A q \in Runs : picked'[q] \subseteq picked[q] /\ workers'[q] \subseteq workers[q]
    BY Zenon, <1>0, <2>1
  <2> QED
    BY Zenon, <2>1, <2>2, FreshKept
<1>5. ASSUME NEW r \in Runs, Processor(r) PROVE Fresh'
  BY Zenon, <1>5, FreshProcessor
<1>6. ASSUME NEW r \in Runs, Workers(r) PROVE Fresh'
  BY Zenon, <1>6, FreshWorker
<1>7. ASSUME NEW r \in Runs, Reaper(r) PROVE Fresh'
  <2>1. ASSUME NEW S \in SUBSET Messages, ReapStuck(r, S) PROVE Fresh'
    BY Zenon, <2>1, FreshReap DEF ReapStuck
  <2>2. CASE FinishStuck(r) \/ ReaperExit(r)
    BY Zenon, <1>1, <2>2 DEF FinishStuck, FinishTerminalCommandBatches, ReaperExit
  <2> QED
    BY Zenon, <1>7, <2>1, <2>2 DEF Reaper
<1>8. ASSUME NEW b \in Batches, Caller(b) \/ RollBackEnqueue(b) PROVE UNCHANGED <<message, retries, picked, workers>>
  BY Zenon, <1>8 DEF Caller, SaveBatch, SaveBatchUnanswered, CreateCommandBatchLog, BeginEnqueue, RefuseEnqueue,
     LockAndInsert, LoseEnqueue, Reconcile, MarkCommandBatchFinished, ReconcileFails, RollBackEnqueue, execution
<1>9. ASSUME NEW b \in Batches, CommitEnqueue(b) PROVE Fresh'
  BY Zenon, <1>9, FreshCommit
<1>10. ASSUME NEW b \in Batches, Routine(b) PROVE UNCHANGED <<message, retries, picked, workers>>
  BY Zenon, <1>10 DEF Routine, MarkProcessing, MarkProcessingFails, SkipProcessing, CheckFinished,
     CheckFinishedFails, Complete, CompleteFails, SkipComplete, MarkFinished, MarkFinishedFails, SkipMark,
     MarkCommandBatchProcessing, MarkCommandBatchFinished, execution
<1>11. CASE UNCHANGED vars
  BY Zenon, <1>1, <1>11 DEF vars, execution
<1> QED
  BY ZenonT(30), <1>1, <1>2, <1>3, <1>4, <1>5, <1>6, <1>7, <1>8, <1>9, <1>10, <1>11 DEF Next, ExecutionStep, EnqueueEnds

\* A worker that knows the row's retry_count logs what the row becomes.
LEMMA ResultAgrees ==
  ASSUME CInv, NEW m \in Messages, NEW result \in Results, NEW k, k = retries[m],
         message[m] = "PROCESSING", RecordResult(m, result, k)
  PROVE  /\ message'[m] \in Terminal => devlog'[m] = message'[m]
         /\ message'[m] \notin Terminal => message'[m] = "PENDING" /\ devlog' = devlog
         /\ \A n \in Messages : n # m => message'[n] = message[n] /\ devlog'[n] = devlog[n]
         /\ message' \in [Messages -> Statuses]
<1>0. /\ message \in [Messages -> Statuses] /\ devlog \in [Messages -> {"none"} \cup Terminal]
      /\ retries[m] \in Nat /\ MaxFailureRetries \in Nat
  BY Zenon, QueueAssumption DEF CInv, Typed
<1>1. /\ message' = [message EXCEPT ![m] = StatusAfter(m, result)]
      /\ devlog' = IF IsTerminal(result, k)
                   THEN [devlog EXCEPT ![m] = IF result = "ok" THEN "SUCCESS" ELSE "FAILED"] ELSE devlog
  BY Zenon DEF RecordResult
<1>2. /\ IsTerminal(result, k) =>
           StatusAfter(m, result) = (IF result = "ok" THEN "SUCCESS" ELSE "FAILED")
      /\ ~ IsTerminal(result, k) => StatusAfter(m, result) = "PENDING"
  BY ZenonT(30), <1>0 DEF IsTerminal, StatusAfter, Results
<1>3. "SUCCESS" \in Terminal /\ "FAILED" \in Terminal /\ "PENDING" \notin Terminal
      /\ {"SUCCESS", "FAILED", "PENDING"} \subseteq Statuses
  BY ZenonT(30) DEF Terminal, Statuses, Open
<1>4. CASE IsTerminal(result, k)
  BY ZenonT(30), <1>0, <1>1, <1>2, <1>3, <1>4
<1>5. CASE ~ IsTerminal(result, k)
  BY ZenonT(30), <1>0, <1>1, <1>2, <1>3, <1>5
<1> QED
  BY Zenon, <1>4, <1>5

\* The results of the one worker there is of a message.
LEMMA ResultsAgree ==
  ASSUME CInv, Fresh, Agrees, NEW r \in Runs, NEW w \in Known, NEW result \in Results,
         WorkerProcessCommand(r, w, result)
  PROVE  Agrees'
<1> SUFFICES ASSUME MaxLive = 1 PROVE Agrees'
  BY Zenon DEF Agrees
<1>1. w \in workers[r] /\ RecordResult(w[1], result, w[2]) /\ w[1] \in Messages
  BY DEF WorkerProcessCommand, Known
<1>2. CASE UNCHANGED <<message, devlog>>
  BY Zenon, <1>2 DEF Agrees
<1>3. CASE message[w[1]] = "PROCESSING"
  <2>1. w[2] = retries[w[1]]
    BY Zenon, <1>1, <1>3 DEF Fresh
  <2> QED
    BY Zenon, <1>1, <1>3, <2>1, ResultAgrees DEF Agrees
<1> QED
  BY Zenon, <1>1, <1>2, <1>3 DEF RecordResult

\* Every step keeps message and device log in agreement.
LEMMA AgreesStep == ASSUME CInv, Fresh, Agrees, [Next]_vars PROVE Agrees'
<1>1. ASSUME NEW r \in Runs, NEW w \in Known, NEW result \in Results, WorkerProcessCommand(r, w, result)
      PROVE  Agrees'
  BY Zenon, <1>1, ResultsAgree
<1>2. CASE UNCHANGED <<message, devlog>>
  BY Zenon, <1>2 DEF Agrees
<1>3. ASSUME NEW S \in SUBSET Processing, ReapMessages(S) PROVE Agrees'
  BY Zenon, <1>3 DEF ReapMessages, Agrees
<1>4. ASSUME NEW r \in Runs, ClaimMessages(Picked(r)) PROVE Agrees'
  <2>1. "PROCESSING" \notin Terminal
    BY DEF Terminal
  <2> QED
    BY Zenon, <1>4, <2>1 DEF ClaimMessages, Agrees
<1>5. ASSUME NEW b \in Batches, CreateQueueMessages(b) PROVE Agrees'
  <2>1. "PENDING" \notin Terminal
    BY DEF Terminal
  <2> QED
    BY Zenon, <1>5, <2>1 DEF CreateQueueMessages, Agrees
<1>6. \/ \E r \in Runs, w \in Known, result \in Results : WorkerProcessCommand(r, w, result)
      \/ UNCHANGED <<message, devlog>>
      \/ \E S \in SUBSET Processing : ReapMessages(S)
      \/ \E r \in Runs : ClaimMessages(Picked(r))
      \/ \E b \in Batches : CreateQueueMessages(b)
  BY Zenon, OnlyWritten DEF Written
<1> QED
  BY Zenon, <1>1, <1>2, <1>3, <1>4, <1>5, <1>6

\* The activity of a batch is written when its messages are decided, from the
\* device logs, which agree with them.
LEMMA CompletedStep == ASSUME CInv, Agrees, Completed, [Next]_vars PROVE Completed'
<1>1. ASSUME NEW m \in Messages, message[m] \in Terminal PROVE message'[m] = message[m]
  BY Zenon, <1>1, OnlyWritten, DecidedStays
<1>2. \A b \in Batches : \A m \in Rows(b) : m \in Messages
  BY Zenon, MessageFacts
<1>3. ASSUME UNCHANGED activity PROVE Completed'
  <2>1. ASSUME MaxLive = 1, NEW b \in Batches, activity[b] # "none"
        PROVE  /\ \A m \in Rows(b) : message'[m] \in Terminal
               /\ activity[b] = "failure" <=> \E m \in Rows(b) : message'[m] = "FAILED"
    <3>1. /\ \A m \in Rows(b) : message[m] \in Terminal
          /\ activity[b] = "failure" <=> \E m \in Rows(b) : message[m] = "FAILED"
      BY Zenon, <2>1 DEF Completed, CompletedIsTrue
    <3>2. \A m \in Rows(b) : message'[m] = message[m]
      BY Zenon, <1>1, <1>2, <3>1
    <3> QED
      BY Zenon, <3>1, <3>2
  <2> QED
    BY ZenonT(30), <1>3, <2>1 DEF Completed, CompletedIsTrue, Rows
<1>4. ASSUME NEW b \in Batches, Complete(b) PROVE Completed'
  <2>1. /\ routine[b] = "call" /\ UNCHANGED <<message, devlog>>
        /\ activity' = [activity EXCEPT ![b] =
             IF @ # "none" THEN @
             ELSE IF \E m \in Rows(b) : devlog[m] = "FAILED" THEN "failure" ELSE "success"]
    BY Zenon, <1>4 DEF Complete, RoutineAt, tables
  <2>2. AllDecided(b)
    BY <2>1 DEF CInv, Closing, ClosingOK
  <2>3. MaxLive = 1 => \A m \in Rows(b) : devlog[m] = message[m]
    BY Zenon, <1>2, <2>2 DEF Agrees, AllDecided
  <2>4. activity' \in [Batches -> {"none", "success", "failure"}]
    BY Zenon, <2>1 DEF Completed
  <2>5. ASSUME MaxLive = 1, NEW c \in Batches, activity'[c] # "none"
        PROVE  /\ \A m \in Rows(c) : message[m] \in Terminal
               /\ activity'[c] = "failure" <=> \E m \in Rows(c) : message[m] = "FAILED"
    <3>1. CASE activity'[c] = activity[c]
      BY Zenon, <2>5, <3>1 DEF Completed, CompletedIsTrue
    <3>2. CASE c = b /\ activity'[b] = (IF \E m \in Rows(b) : devlog[m] = "FAILED" THEN "failure" ELSE "success")
      BY ZenonT(30), <2>2, <2>3, <2>5, <3>2 DEF AllDecided
    <3> QED
      BY Zenon, <2>1, <3>1, <3>2 DEF Completed
  <2> QED
    BY ZenonT(30), <2>1, <2>4, <2>5 DEF Completed, CompletedIsTrue
<1>5. UNCHANGED activity \/ \E b \in Batches : Complete(b)
  <2> USE DEF dispatch, follow
  <2>1. ASSUME NEW r \in Runs, Crash(r) \/ EndRun(r) PROVE UNCHANGED activity
    BY Zenon, <2>1 DEF Crash, EndRun
  <2>2. ASSUME NEW b \in Batches, Caller(b) PROVE UNCHANGED activity
    BY Zenon, <2>2 DEF Caller, SaveBatch, SaveBatchUnanswered, BeginEnqueue, RefuseEnqueue, LockAndInsert,
       LoseEnqueue, Reconcile, ReconcileFails, StartRoutine
  <2>3. ASSUME NEW b \in Batches, EnqueueEnds(b) PROVE UNCHANGED activity
    BY Zenon, <2>3 DEF EnqueueEnds, CommitEnqueue, RollBackEnqueue, StartRoutine
  <2>4. ASSUME NEW b \in Batches, Routine(b) PROVE UNCHANGED activity \/ Complete(b)
    BY Zenon, <2>4 DEF Routine, MarkProcessing, MarkProcessingFails, SkipProcessing, CheckFinished,
       CheckFinishedFails, CompleteFails, SkipComplete, MarkFinished, MarkFinishedFails, SkipMark
  <2>5. CASE UNCHANGED vars
    BY Zenon, <2>5 DEF vars
  <2> QED
    BY Zenon, <2>1, <2>2, <2>3, <2>4, <2>5 DEF Next
<1> QED
  BY Zenon, <1>3, <1>4, <1>5

\* All of it holds at the beginning, and every step keeps it.
LEMMA CurrentInit == Init => DInv
<1> SUFFICES ASSUME Init PROVE DInv
  OBVIOUS
<1>1. CInv
  BY ZenonT(30), CommandInit
<1> USE DEF Init, QueueInit, ExecutionInit
<1>2. Alone
  BY DEF Alone, Steps, Alive
<1>3. Fresh
  BY Zenon DEF Fresh
<1>4. "none" \notin Terminal
  BY DEF Terminal
<1>5. Agrees
  BY Zenon, <1>4 DEF Agrees
<1>6. Completed
  BY Zenon DEF Completed, CompletedIsTrue
<1> QED
  BY Zenon, <1>1, <1>2, <1>3, <1>5, <1>6 DEF DInv

\* The invariant with one process at a time, on top of CInv.
THEOREM OneProcessInvariant == Spec => []DInv
<1>1. DInv /\ [Next]_vars => DInv'
  BY Zenon, CommandStep, AloneStep, FreshStep, AgreesStep, CompletedStep DEF DInv
<1> QED
  BY <1>1, CurrentInit, PTL DEF Spec

\* While one process is alive at a time, the '.completed' activity of a batch is
\* written when its messages are decided and tells whether one has failed.
THEOREM ActivityIsTrue == Spec => [](MaxLive = 1 => CompletedIsTrue)
<1>1. DInv => (MaxLive = 1 => CompletedIsTrue)
  BY Zenon DEF DInv, Completed
<1> QED
  BY <1>1, OneProcessInvariant, PTL
-----------------------------------------------------------------------------
(* The ledger.                                                             *)

\* What the ledger sees of a message.
Shown(m) == IF message[m] \in Open THEN "queued" ELSE message[m]

\* A step that writes no message can only close batches, which are decided or
\* were never enqueued.
LEMMA ClosingShown ==
  ASSUME CInv, CInv', UNCHANGED <<message, devlog>>,
         \A b \in Batches : batch[b] = "FINISHED" => batch'[b] = "FINISHED" \/ client[b] = "new"
  PROVE  \E B \in SUBSET Batches : Ledger!Close(B)
<1>1. \A b \in Batches : batch[b] = "FINISHED" => batch'[b] = "FINISHED"
  <2> SUFFICES ASSUME NEW b \in Batches, batch[b] = "FINISHED", client[b] = "new" PROVE FALSE
    BY Zenon
  <2>1. AllDecided(b) /\ enqueue[b] = "none"
    BY Zenon DEF CInv, Closing, ClosingOK, Requests, RequestOK
  <2>2. PICK m \in Messages : m \in Rows(b)
    BY ZenonT(30), MessageFacts
  <2>3. message[m] = "none" /\ message[m] \in Terminal
    BY ZenonT(30), <2>1, <2>2, MessageFacts DEF CInv, RowsExist, AllDecided
  <2> QED
    BY <2>3 DEF Terminal
<1>2. \A b \in Batches : batch'[b] = "FINISHED" =>
        (\A m \in Rows(b) : message[m] \in Terminal) \/ (\A m \in Rows(b) : message[m] = "none")
  <2> SUFFICES ASSUME NEW b \in Batches, batch'[b] = "FINISHED"
               PROVE  (\A m \in Rows(b) : message[m] \in Terminal) \/ (\A m \in Rows(b) : message[m] = "none")
    BY Zenon
  <2>1. AllDecided(b)' \/ enqueue'[b] = "none"
    BY ZenonT(30) DEF CInv, Closing, ClosingOK
  <2>2. enqueue'[b] = "none" => \A m \in Rows(b) : message'[m] = "none"
    <3>1. \A m \in Rows(b) : m \in Messages /\ m[1] = b
      BY Zenon, MessageFacts
    <3> QED
      BY ZenonT(30), <3>1 DEF CInv, RowsExist
  <2> QED
    BY Zenon, <2>1, <2>2 DEF AllDecided, Rows
<1> DEFINE B == {b \in Batches : batch'[b] = "FINISHED"}
<1>3. Terminal = Ledger!Outcomes /\ Terminal \cap Open = {} /\ "none" \notin Open
  BY DEF Terminal, Ledger!Outcomes, Open
<1>4. \A b \in B : Ledger!Decided(b) \/ Ledger!Unsubmitted(b)
  BY Zenon, <1>2, <1>3 DEF Ledger!Decided, Ledger!Unsubmitted, Ledger!Of, Rows
<1>5. {b \in Batches : batch'[b] = "FINISHED"} = {b \in Batches : batch[b] = "FINISHED"} \cup B
  BY Zenon, <1>1
<1>6. Ledger!Close(B)
  BY Zenon, <1>4, <1>5 DEF Ledger!Close
<1>7. B \in SUBSET Batches
  BY Zenon
<1> HIDE DEF B
<1> QED
  BY Zenon, <1>6, <1>7 DEF Ledger!Close

\* Reaped rows are decided together with their device logs.
LEMMA ReapShown ==
  ASSUME CInv, NEW S \in SUBSET Processing, ReapMessages(S)
  PROVE  S \in SUBSET Messages /\ Ledger!Decide(S)
<1>1. S \in SUBSET Messages /\ \A m \in S : message[m] = "PROCESSING"
  BY Zenon DEF Processing
<1>2. "PROCESSING" \in Open /\ "FAILED" \notin Open /\ "FAILED" \in Ledger!Outcomes
  BY DEF Open, Ledger!Outcomes
<1>3. /\ \A m \in S : Shown(m) = "queued" /\ Shown(m)' = "FAILED" /\ devlog'[m] = "FAILED"
      /\ \A m \in Messages : m \notin S => Shown(m)' = Shown(m) /\ devlog'[m] = devlog[m]
      /\ devlog' = [m \in Messages |-> devlog'[m]] /\ UNCHANGED batch
  BY Zenon, <1>1, <1>2 DEF ReapMessages, Shown
<1> QED
  BY Zenon, <1>1, <1>2, <1>3 DEF Ledger!Decide, Shown

\* A claim does not show.
LEMMA ClaimShown ==
  ASSUME CInv, NEW r \in Runs, ClaimMessages(Picked(r))
  PROVE  UNCHANGED Ledger!vars
<1>1. \A m \in Messages : Shown(m)' = Shown(m)
  BY Zenon DEF ClaimMessages, Claimed, Shown, Open
<1>2. UNCHANGED <<batch, devlog>>
  BY Zenon DEF ClaimMessages
<1> QED
  BY Zenon, <1>1, <1>2 DEF Shown, Ledger!vars

\* A worker's result decides its command, or does not show.
LEMMA ResultShown ==
  ASSUME DInv, MaxLive = 1, NEW r \in Runs, NEW w \in Known, NEW result \in Results,
         WorkerProcessCommand(r, w, result)
  PROVE  (\E D \in SUBSET Messages : Ledger!Decide(D)) \/ UNCHANGED Ledger!vars
<1>1. w \in workers[r] /\ RecordResult(w[1], result, w[2]) /\ w[1] \in Messages /\ CInv /\ Fresh
  BY DEF WorkerProcessCommand, Known, DInv
<1>2. CASE UNCHANGED <<message, devlog, batch>>
  BY Zenon, <1>2 DEF Ledger!vars
<1>3. CASE message[w[1]] = "PROCESSING"
  <2>1. w[2] = retries[w[1]] /\ UNCHANGED batch
    BY Zenon, <1>1, <1>3 DEF Fresh, RecordResult
  <2>2. /\ message'[w[1]] \in Terminal => devlog'[w[1]] = message'[w[1]]
        /\ message'[w[1]] \notin Terminal => message'[w[1]] = "PENDING" /\ devlog' = devlog
        /\ \A n \in Messages : n # w[1] => message'[n] = message[n] /\ devlog'[n] = devlog[n]
    BY Zenon, <1>1, <1>3, <2>1, ResultAgrees
  <2>3. /\ "PROCESSING" \in Open /\ "PENDING" \in Open /\ \A s \in Terminal : s \notin Open
        /\ Terminal = Ledger!Outcomes
    BY DEF Open, Terminal, Ledger!Outcomes
  <2>4. \A n \in Messages : n # w[1] => Shown(n)' = Shown(n)
    BY Zenon, <2>2 DEF Shown
  <2>5. Shown(w[1]) = "queued"
    BY Zenon, <1>3, <2>3 DEF Shown
  <2>6. CASE message'[w[1]] \in Terminal
    <3>1. Shown(w[1])' \in Ledger!Outcomes /\ devlog'[w[1]] = Shown(w[1])'
      BY Zenon, <2>2, <2>3, <2>6 DEF Shown
    <3>2. devlog' = [n \in Messages |-> devlog'[n]]
      BY Zenon, <1>1, <1>3 DEF RecordResult, CInv, Typed
    <3>3. Ledger!Decide({w[1]})
      BY ZenonT(30), <1>1, <2>1, <2>2, <2>4, <2>5, <3>1, <3>2 DEF Ledger!Decide, Shown
    <3> QED
      BY Zenon, <1>1, <3>3
  <2>7. CASE message'[w[1]] \notin Terminal
    <3>1. Shown(w[1])' = "queued"
      BY Zenon, <2>2, <2>3, <2>7 DEF Shown
    <3>2. \A n \in Messages : Shown(n)' = Shown(n)
      BY Zenon, <2>4, <2>5, <3>1
    <3> QED
      BY Zenon, <2>1, <2>2, <2>7, <3>2 DEF Shown, Ledger!vars
  <2> QED
    BY Zenon, <2>6, <2>7
<1> QED
  BY Zenon, <1>1, <1>2, <1>3 DEF RecordResult

\* The commit of an enqueue submits the batch.
LEMMA CommitShown ==
  ASSUME CInv, NEW b \in Batches, enqueue[b] = "locked", CreateQueueMessages(b)
  PROVE  Ledger!Submit(b)
<1>1. batch[b] = "PENDING" /\ \A m \in Rows(b) : m \in Messages /\ m[1] = b /\ message[m] = "none"
  <2>1. RequestOK(b) /\ RowsExist /\ "locked" # "committed"
    BY Zenon DEF CInv, Requests
  <2>2. batch[b] = "PENDING"
    BY Zenon, <2>1 DEF RequestOK
  <2> QED
    BY Zenon, <2>1, <2>2, MessageFacts DEF RowsExist
<1>2. "none" \notin Open /\ "PENDING" \in Open /\ "PENDING" # "FINISHED"
  BY DEF Open
<1>3. \A m \in Messages : /\ m[1] = b => Shown(m)' = "queued" /\ Shown(m) = "none"
                          /\ m[1] # b => Shown(m)' = Shown(m)
  BY Zenon, <1>1, <1>2 DEF CreateQueueMessages, Shown, Rows
<1>4. UNCHANGED <<batch, devlog>>
  BY Zenon DEF CreateQueueMessages
<1> QED
  BY Zenon, <1>1, <1>2, <1>3, <1>4 DEF Ledger!Submit, Ledger!Unsubmitted, Ledger!Of, Shown

\* While one process is alive at a time, queue, execution service and dispatch
\* keep the ledger: a command is decided once and with its device log, and a
\* batch is closed only when it is decided or was never submitted.
THEOREM CommandsKeepLedger == MaxLive = 1 /\ Spec => KeepsLedger
<1>1. Init => Ledger!Init
  <2> SUFFICES ASSUME Init PROVE Ledger!Init
    OBVIOUS
  <2>1. "none" \notin Open /\ "none" # "FINISHED"
    BY DEF Open
  <2> QED
    BY Zenon, <2>1 DEF Init, QueueInit, Ledger!Init
<1>2. MaxLive = 1 /\ DInv /\ DInv' /\ [Next]_vars => [Ledger!Next]_(Ledger!vars)
  <2> SUFFICES ASSUME MaxLive = 1, DInv, DInv', [Next]_vars PROVE Ledger!Next \/ UNCHANGED Ledger!vars
    BY Zenon
  <2>0. CInv /\ CInv' /\ Written
    BY Zenon, OnlyWritten DEF DInv
  <2>1. CASE /\ UNCHANGED <<message, devlog>>
             /\ \A b \in Batches : batch[b] = "FINISHED" => batch'[b] = "FINISHED" \/ client[b] = "new"
    BY Zenon, <2>0, <2>1, ClosingShown DEF Ledger!Next
  <2>2. ASSUME NEW S \in SUBSET Processing, ReapMessages(S) PROVE Ledger!Next
    BY Zenon, <2>0, <2>2, ReapShown DEF Ledger!Next
  <2>3. ASSUME NEW r \in Runs, ClaimMessages(Picked(r)) PROVE UNCHANGED Ledger!vars
    BY Zenon, <2>0, <2>3, ClaimShown
  <2>4. ASSUME NEW r \in Runs, NEW w \in Known, NEW result \in Results, WorkerProcessCommand(r, w, result)
        PROVE  Ledger!Next \/ UNCHANGED Ledger!vars
    BY Zenon, <2>4, ResultShown DEF Ledger!Next
  <2>5. ASSUME NEW b \in Batches, enqueue[b] = "locked", CreateQueueMessages(b) PROVE Ledger!Next
    BY Zenon, <2>0, <2>5, CommitShown DEF Ledger!Next
  <2> QED
    BY Zenon, <2>0, <2>1, <2>2, <2>3, <2>4, <2>5 DEF Written
<1>3. CASE MaxLive # 1
  BY <1>3
<1>4. CASE MaxLive = 1
  BY <1>1, <1>2, <1>4, OneProcessInvariant, PTL DEF Spec, KeepsLedger, Ledger!Spec
<1> QED
  BY ZenonT(30), <1>3, <1>4

-----------------------------------------------------------------------------
(* The worker slots.                                                       *)

Accounted(r) ==
  /\ IsFiniteSet(workers[r]) /\ IsFiniteSet(picked[r])
  /\ Cardinality(picked[r]) <= reserved[r]
  /\ processor[r] \in {"off", "reserve"} => reserved[r] = 0
  /\ slots[r] = reserved[r] + Cardinality(workers[r]) /\ slots[r] <= MaxWorkers
  /\ run[r] \in {"off", "reaping", "finishing"} => processor[r] = "off"

\* The processor has as many slots as it may start workers, and gives them back
\* on every way out.
Slots ==
  /\ slots \in [Runs -> Nat] /\ reserved \in [Runs -> Nat] /\ processor \in [Runs -> Steps]
  /\ \A r \in Runs : Accounted(r)

\* There are finitely many messages.
LEMMA FiniteMessages == IsFiniteSet(Messages)
<1>1. IsFiniteSet(Batches \X Devices)
  BY Zenon, FiniteAssumption, FS_Product
<1>2. Messages \in SUBSET (Batches \X Devices)
  BY Zenon DEF Messages
<1> QED
  BY Zenon, <1>1, <1>2, FS_Subset

\* Cardinalities of finite sets are natural numbers.
LEMMA Counts ==
  ASSUME NEW S, IsFiniteSet(S)
  PROVE  Cardinality(S) \in Nat
  BY Zenon, FS_CardinalityType

\* What is left of the slots when the reservation is given back.
LEMMA SlotsLeft ==
  ASSUME NEW s \in Nat, NEW k \in Nat, NEW n \in Nat, NEW m \in Nat, s = k + n, s <= m
  PROVE  s - k \in Nat /\ s - k = 0 + n /\ s - k <= m
OBVIOUS

\* All slots that are free can be reserved.
LEMMA SlotsFree ==
  ASSUME NEW s \in Nat, NEW n \in Nat, NEW m \in Nat, s = 0 + n, s <= m
  PROVE  m - s \in Nat /\ 0 <= m - s /\ m = (m - s) + n /\ m <= m
OBVIOUS

\* One worker fewer takes one slot fewer.
LEMMA SlotLess ==
  ASSUME NEW s \in Nat, NEW k \in Nat, NEW n \in Nat, NEW m \in Nat, n - 1 \in Nat,
         s = k + n, s <= m
  PROVE  s - 1 \in Nat /\ s - 1 = k + (n - 1) /\ s - 1 <= m
OBVIOUS

\* Counts are ordered, from zero.
LEMMA CountOrder ==
  \A k, l, m \in Nat : 0 <= k /\ (k <= l /\ l <= m => k <= m) /\ (k <= 0 => k = 0)
OBVIOUS

\* The lesser of three counts is at most the first.
LEMMA LesserCount ==
  \A x, k, l, m \in Nat :
    x = (IF (IF k < l THEN k ELSE l) < m THEN IF k < l THEN k ELSE l ELSE m) => x <= k
OBVIOUS

\* A step of the run r alone, or of none.
LEMMA SlotsMove ==
  ASSUME Slots, NEW r \in Runs, NEW s \in Steps, NEW i \in Nat, NEW j \in Nat, NEW P, NEW W, NEW x,
         run' = [run EXCEPT ![r] = x] \/ UNCHANGED run, run \in [Runs -> Alive \cup {"off", "dead"}],
         processor' = [processor EXCEPT ![r] = s] \/ (UNCHANGED processor /\ s = processor[r]),
         slots' = [slots EXCEPT ![r] = i] \/ (UNCHANGED slots /\ i = slots[r]),
         reserved' = [reserved EXCEPT ![r] = j] \/ (UNCHANGED reserved /\ j = reserved[r]),
         picked \in [Runs -> SUBSET (Messages \X Nat)],
         workers \in [Runs -> SUBSET (Messages \X Nat)],
         picked' = [picked EXCEPT ![r] = P] \/ (UNCHANGED picked /\ P = picked[r]),
         workers' = [workers EXCEPT ![r] = W] \/ (UNCHANGED workers /\ W = workers[r]),
         IsFiniteSet(W), IsFiniteSet(P), Cardinality(P) <= j,
         s \in {"off", "reserve"} => j = 0,
         i = j + Cardinality(W), i <= MaxWorkers,
         run'[r] \in {"off", "reaping", "finishing"} => s = "off"
  PROVE  Slots'
<1>1. slots' \in [Runs -> Nat] /\ slots'[r] = i /\ \A q \in Runs : q # r => slots'[q] = slots[q]
  BY Zenon DEF Slots
<1>2. reserved' \in [Runs -> Nat] /\ reserved'[r] = j /\ \A q \in Runs : q # r => reserved'[q] = reserved[q]
  BY Zenon DEF Slots
<1>3. processor' \in [Runs -> Steps] /\ processor'[r] = s /\ \A q \in Runs : q # r => processor'[q] = processor[q]
  BY Zenon DEF Slots
<1>4. picked'[r] = P /\ \A q \in Runs : q # r => picked'[q] = picked[q]
  BY Zenon
<1>5. workers'[r] = W /\ \A q \in Runs : q # r => workers'[q] = workers[q]
  BY Zenon
<1>6. \A q \in Runs : q # r => run'[q] = run[q]
  BY Zenon
<1>7. Accounted(r)'
  BY ZenonT(30), <1>1, <1>2, <1>3, <1>4, <1>5 DEF Accounted
<1>8. \A q \in Runs : q # r => Accounted(q)'
  BY ZenonT(30), <1>1, <1>2, <1>3, <1>4, <1>5, <1>6 DEF Accounted, Slots
<1> QED
  BY Zenon, <1>1, <1>2, <1>3, <1>7, <1>8 DEF Slots

\* The processor gives everything back that it reserved.
LEMMA SlotsReleased ==
  ASSUME CInv, Alone, Slots, NEW r \in Runs, NEW s \in {"reserve", "off"}, Release(r, reserved[r], s),
         UNCHANGED <<run, workers>>, run[r] \notin {"off", "reaping", "finishing"}
  PROVE  Slots'
<1>1. Accounted(r) /\ slots[r] \in Nat /\ reserved[r] \in Nat
  BY Zenon DEF Slots
<1>2. IsFiniteSet({}) /\ Cardinality({}) = 0 /\ IsFiniteSet(workers[r]) /\ Cardinality(workers[r]) \in Nat
  BY ZenonT(30), <1>1, FS_EmptySet, Counts DEF Accounted
<1>3. /\ slots[r] - reserved[r] \in Nat /\ slots[r] - reserved[r] = 0 + Cardinality(workers[r])
      /\ slots[r] - reserved[r] <= MaxWorkers /\ 0 \in Nat /\ Cardinality({}) <= 0
  <2>1. 0 \in Nat /\ 0 <= 0 /\ MaxWorkers \in Nat
    BY ExecutionAssumption
  <2>2. slots[r] = reserved[r] + Cardinality(workers[r]) /\ slots[r] <= MaxWorkers
    BY Zenon, <1>1 DEF Accounted
  <2>3. /\ slots[r] - reserved[r] \in Nat /\ slots[r] - reserved[r] = 0 + Cardinality(workers[r])
        /\ slots[r] - reserved[r] <= MaxWorkers
    BY Zenon, <1>1, <1>2, <2>1, <2>2, SlotsLeft
  <2> QED
    BY Zenon, <1>2, <2>1, <2>3
<1>4. s \in Steps
  BY DEF Steps
<1>5. /\ slots' = [slots EXCEPT ![r] = slots[r] - reserved[r]] /\ reserved' = [reserved EXCEPT ![r] = 0]
      /\ picked' = [picked EXCEPT ![r] = {}] /\ processor' = [processor EXCEPT ![r] = s]
  BY Zenon DEF Release
<1>6. run \in [Runs -> Alive \cup {"off", "dead"}] /\ picked \in [Runs -> SUBSET (Messages \X Nat)]
      /\ workers \in [Runs -> SUBSET (Messages \X Nat)]
  BY Zenon DEF Alone, CInv, Typed
<1> HIDE DEF Steps
<1> QED
  BY Zenon, <1>2, <1>3, <1>4, <1>5, <1>6, SlotsMove

\* A selection is no larger than the slots that are reserved for it.
LEMMA SlotsSelected ==
  ASSUME CInv, Slots, NEW r \in Runs, NEW S \in MessagesToProcess(Limit(r))
  PROVE  /\ IsFiniteSet({<<m, retries[m]>> : m \in S})
         /\ Cardinality({<<m, retries[m]>> : m \in S}) <= reserved[r]
<1> DEFINE P == {<<m, retries[m]>> : m \in S}
           f == [m \in S |-> <<m, retries[m]>>]
<1>1. Ready \in SUBSET Messages /\ S \in SUBSET Ready
      /\ Cardinality(S) = IF Limit(r) < Cardinality(Ready) THEN Limit(r) ELSE Cardinality(Ready)
  BY Zenon DEF MessagesToProcess, Ready
<1>2. IsFiniteSet(Ready) /\ Cardinality(Ready) \in Nat
  BY Zenon, <1>1, FiniteMessages, FS_Subset, Counts
<1>3. IsFiniteSet(S) /\ Cardinality(S) \in Nat
  BY Zenon, <1>1, <1>2, FS_Subset, Counts
<1>4. reserved[r] \in Nat /\ DequeLimit \in Nat
  BY Zenon, ExecutionAssumption DEF Slots
<1>5. Cardinality(S) <= reserved[r]
  BY Zenon, <1>1, <1>2, <1>3, <1>4, LesserCount DEF Limit
<1>6. f \in Surjection(S, P)
  BY Zenon DEF Surjection
<1>7. IsFiniteSet(P) /\ Cardinality(P) <= Cardinality(S)
  BY Zenon, <1>3, <1>6, FS_Surjection
<1>8. Cardinality(P) \in Nat
  BY ZenonT(30), <1>7, Counts
<1>9. Cardinality(P) <= reserved[r]
  <2> HIDE DEF P
  <2> QED
    BY Zenon, <1>3, <1>4, <1>5, <1>7, <1>8, CountOrder
<1> QED
  BY Zenon, <1>7, <1>9

\* A claimed row had no worker.
LEMMA SlotsClaimed ==
  ASSUME CInv, Slots, NEW r \in Runs
  PROVE  /\ IsFiniteSet(Won(r)) /\ Cardinality(Won(r)) \in Nat /\ Cardinality(Won(r)) <= reserved[r]
         /\ IsFiniteSet(workers[r] \cup Won(r))
         /\ Cardinality(workers[r] \cup Won(r)) = Cardinality(workers[r]) + Cardinality(Won(r))
<1>1. Accounted(r) /\ reserved[r] \in Nat
  BY Zenon DEF Slots
<1>2. Won(r) \in SUBSET picked[r] /\ \A p \in Won(r) : message[p[1]] = "PENDING"
  BY Zenon DEF Won, Claimed
<1>3. IsFiniteSet(Won(r)) /\ Cardinality(Won(r)) <= Cardinality(picked[r])
  BY Zenon, <1>1, <1>2, FS_Subset DEF Accounted
<1>4. /\ Cardinality(Won(r)) \in Nat /\ Cardinality(picked[r]) \in Nat /\ Cardinality(workers[r]) \in Nat
      /\ IsFiniteSet(workers[r])
  BY Zenon, <1>1, <1>3, Counts DEF Accounted
<1>5. workers[r] \cap Won(r) = {}
  <2>1. \A w \in workers[r] : message[w[1]] \in {"PROCESSING"} \cup Terminal
    BY Zenon DEF CInv, Working
  <2>2. "PENDING" \notin {"PROCESSING"} \cup Terminal
    BY DEF Terminal
  <2> QED
    BY Zenon, <1>2, <2>1, <2>2
<1>6. /\ IsFiniteSet(workers[r] \cup Won(r))
      /\ Cardinality(workers[r] \cup Won(r)) = Cardinality(workers[r]) + Cardinality(Won(r)) - Cardinality({})
  BY Zenon, <1>3, <1>4, <1>5, FS_Union
<1>7. Cardinality({}) = 0
  BY ZenonT(30), FS_EmptySet
<1>8. Cardinality(Won(r)) <= reserved[r]
  BY Zenon, <1>1, <1>3, <1>4, CountOrder DEF Accounted
<1>9. Cardinality(workers[r]) + Cardinality(Won(r)) - 0 = Cardinality(workers[r]) + Cardinality(Won(r))
  BY <1>4
<1> QED
  BY ZenonT(30), <1>3, <1>4, <1>6, <1>7, <1>8, <1>9

\* The steps of the queue processor.
LEMMA SlotsProcessor == ASSUME CInv, Alone, Slots, NEW r \in Runs, Processor(r) PROVE Slots'
<1>0. Accounted(r) /\ slots[r] \in Nat /\ reserved[r] \in Nat /\ processor[r] \in Steps
  BY Zenon DEF Slots
<1>t. /\ run \in [Runs -> Alive \cup {"off", "dead"}] /\ picked \in [Runs -> SUBSET (Messages \X Nat)]
      /\ workers \in [Runs -> SUBSET (Messages \X Nat)] /\ MaxWorkers \in Nat /\ UNCHANGED run
  BY Zenon, ExecutionAssumption DEF Alone, CInv, Typed, Processor, ReserveWorkerSlots, DequeueSelect,
     DequeueClaim, DequeueGiveUp, DequeueRetry, ProcessorExit
<1>e. IsFiniteSet({}) /\ Cardinality({}) = 0 /\ Cardinality(workers[r]) \in Nat /\ Cardinality(picked[r]) \in Nat
      /\ IsFiniteSet(workers[r]) /\ IsFiniteSet(picked[r])
  BY Zenon, <1>0, FS_EmptySet, Counts DEF Accounted
<1>s. "off" \in Steps /\ "reserve" \in Steps /\ "select" \in Steps /\ "claim" \in Steps
  BY DEF Steps
<1>r. processor[r] # "off" /\ run[r] \notin {"off", "reaping", "finishing"}
  <2>1. processor[r] # "off"
    BY Zenon DEF Processor, ReserveWorkerSlots, DequeueSelect, DequeueClaim, DequeueGiveUp, DequeueRetry,
       ProcessorExit
  <2> QED
    BY Zenon, <1>0, <2>1 DEF Accounted
<1>i. Idle(r) \in {"reserve", "off"}
  BY Zenon DEF Idle
<1>1. CASE ReserveWorkerSlots(r)
  <2>1. /\ reserved[r] = 0 /\ slots[r] < MaxWorkers /\ UNCHANGED <<picked, workers>>
        /\ reserved' = [reserved EXCEPT ![r] = MaxWorkers - slots[r]]
        /\ slots' = [slots EXCEPT ![r] = MaxWorkers]
        /\ processor' = [processor EXCEPT ![r] = "select"]
    BY ZenonT(30), <1>0, <1>1 DEF ReserveWorkerSlots, Accounted
  <2>2. /\ MaxWorkers - slots[r] \in Nat /\ Cardinality(picked[r]) <= MaxWorkers - slots[r]
        /\ MaxWorkers = (MaxWorkers - slots[r]) + Cardinality(workers[r]) /\ MaxWorkers <= MaxWorkers
        /\ "select" \notin {"off", "reserve"}
    <3>1. /\ slots[r] = reserved[r] + Cardinality(workers[r]) /\ slots[r] <= MaxWorkers
          /\ Cardinality(picked[r]) <= 0
      BY Zenon, <1>0, <2>1 DEF Accounted
    <3>a. slots[r] = 0 + Cardinality(workers[r])
      BY Zenon, <2>1, <3>1
    <3>2. /\ MaxWorkers - slots[r] \in Nat /\ 0 <= MaxWorkers - slots[r]
          /\ MaxWorkers = (MaxWorkers - slots[r]) + Cardinality(workers[r]) /\ MaxWorkers <= MaxWorkers
      BY Zenon, <1>0, <1>t, <1>e, <3>1, <3>a, SlotsFree
    <3>3. Cardinality(picked[r]) = 0
      BY Zenon, <1>e, <3>1, CountOrder
    <3> QED
      BY Zenon, <3>2, <3>3
  <2> QED
    BY Zenon, <1>t, <1>e, <1>s, <1>r, <2>1, <2>2, SlotsMove
<1>2. CASE DequeueSelect(r)
  <2>1. PICK S \in MessagesToProcess(Limit(r)) :
          IF S = {}
          THEN Release(r, reserved[r], Idle(r))
          ELSE /\ picked' = [picked EXCEPT ![r] = {<<m, retries[m]>> : m \in S}]
               /\ processor' = [processor EXCEPT ![r] = "claim"]
               /\ UNCHANGED <<reserved, slots>>
    BY Zenon, <1>2 DEF DequeueSelect
  <2>2. UNCHANGED workers
    BY Zenon, <1>2 DEF DequeueSelect
  <2>3. CASE S = {}
    BY ZenonT(30), <1>t, <1>r, <1>i, <2>1, <2>2, <2>3, SlotsReleased
  <2>4. CASE S # {}
    <3>1. "claim" \notin {"off", "reserve"}
      OBVIOUS
    <3>2. /\ IsFiniteSet({<<m, retries[m]>> : m \in S})
          /\ Cardinality({<<m, retries[m]>> : m \in S}) <= reserved[r]
      BY Zenon, SlotsSelected
    <3>3. slots[r] = reserved[r] + Cardinality(workers[r]) /\ slots[r] <= MaxWorkers
      BY Zenon, <1>0 DEF Accounted
    <3> QED
      BY ZenonT(30), <1>0, <1>t, <1>e, <1>s, <1>r, <2>1, <2>2, <2>4, <3>1, <3>2, <3>3, SlotsMove
  <2> QED
    BY Zenon, <2>3, <2>4
<1>3. CASE DequeueClaim(r)
  <2> DEFINE i == slots[r] - (reserved[r] - Cardinality(Won(r)))
  <2>1. /\ workers' = [workers EXCEPT ![r] = workers[r] \cup Won(r)]
        /\ slots' = [slots EXCEPT ![r] = i] /\ reserved' = [reserved EXCEPT ![r] = 0]
        /\ picked' = [picked EXCEPT ![r] = {}] /\ processor' = [processor EXCEPT ![r] = "reserve"]
    BY Zenon, <1>3 DEF DequeueClaim, Release
  <2>2. /\ IsFiniteSet(Won(r)) /\ Cardinality(Won(r)) \in Nat /\ Cardinality(Won(r)) <= reserved[r]
        /\ IsFiniteSet(workers[r] \cup Won(r))
        /\ Cardinality(workers[r] \cup Won(r)) = Cardinality(workers[r]) + Cardinality(Won(r))
    BY Zenon, SlotsClaimed
  <2>3. i \in Nat /\ i = 0 + Cardinality(workers[r] \cup Won(r)) /\ i <= MaxWorkers /\ 0 \in Nat
        /\ Cardinality({}) <= 0
    <3>1. slots[r] = reserved[r] + Cardinality(workers[r]) /\ slots[r] <= MaxWorkers
      BY Zenon, <1>0 DEF Accounted
    <3>2. \A s, a, c, n, m \in Nat : s = a + c /\ s <= m /\ n <= a =>
            s - (a - n) \in Nat /\ s - (a - n) = 0 + (c + n) /\ s - (a - n) <= m
      OBVIOUS
    <3>3. i \in Nat /\ i = 0 + (Cardinality(workers[r]) + Cardinality(Won(r))) /\ i <= MaxWorkers
      BY ZenonT(30), <1>0, <1>t, <1>e, <2>2, <3>1, <3>2
    <3>4. 0 \in Nat /\ 0 <= 0
      OBVIOUS
    <3> QED
      BY Zenon, <1>e, <2>2, <3>3, <3>4
  <2> HIDE DEF i
  <2> QED
    BY ZenonT(30), <1>t, <1>e, <1>s, <1>r, <2>1, <2>2, <2>3, SlotsMove
<1>4. CASE DequeueGiveUp(r)
  BY Zenon, <1>4, <1>t, <1>r, <1>i, SlotsReleased DEF DequeueGiveUp
<1>5. CASE DequeueRetry(r)
  <2>1. /\ picked' = [picked EXCEPT ![r] = {}] /\ processor' = [processor EXCEPT ![r] = "select"]
        /\ UNCHANGED <<reserved, slots, workers>>
    BY ZenonT(30), <1>5 DEF DequeueRetry
  <2>2. "select" \notin {"off", "reserve"} /\ Cardinality({}) <= reserved[r]
    BY Zenon, <1>0, <1>e, CountOrder
  <2>3. slots[r] = reserved[r] + Cardinality(workers[r]) /\ slots[r] <= MaxWorkers
    BY Zenon, <1>0 DEF Accounted
  <2> QED
    BY ZenonT(30), <1>0, <1>t, <1>e, <1>s, <1>r, <2>1, <2>2, <2>3, SlotsMove
<1>6. CASE ProcessorExit(r)
  BY Zenon, <1>6, <1>t, <1>r, SlotsReleased DEF ProcessorExit
<1> QED
  BY Zenon, <1>1, <1>2, <1>3, <1>4, <1>5, <1>6 DEF Processor

\* Every step keeps the slots accounted.
LEMMA SlotsStep == ASSUME CInv, Alone, Slots, [Next]_vars PROVE Slots'
<1> USE DEF threads
<1>t. /\ run \in [Runs -> Alive \cup {"off", "dead"}] /\ picked \in [Runs -> SUBSET (Messages \X Nat)]
      /\ workers \in [Runs -> SUBSET (Messages \X Nat)] /\ MaxWorkers \in Nat
  BY Zenon, ExecutionAssumption DEF Alone, CInv, Typed
<1>s. "off" \in Steps /\ "reserve" \in Steps /\ 0 \in Nat
  BY ZenonT(30) DEF Steps
<1>e. IsFiniteSet({}) /\ Cardinality({}) = 0 /\ Cardinality({}) <= 0 /\ 0 = 0 + Cardinality({}) /\ 0 <= MaxWorkers
  BY SMTT(30), FS_EmptySet, <1>t
<1>1. ASSUME NEW r \in Runs, NEW x, run' = [run EXCEPT ![r] = x],
             x \in {"off", "reaping", "finishing"} => processor[r] = "off",
             UNCHANGED <<processor, reserved, picked, workers, slots>>
      PROVE  Slots'
  <2>1. Accounted(r) /\ slots[r] \in Nat /\ reserved[r] \in Nat /\ processor[r] \in Steps /\ run'[r] = x
    BY Zenon, <1>1, <1>t DEF Slots
  <2> QED
    BY Zenon, <1>1, <1>t, <2>1, SlotsMove DEF Accounted
<1>2. ASSUME NEW r \in Runs, Start(r) \/ RestartReap(r) \/ BeginStop(r) \/ EndRun(r) PROVE Slots'
  <2>1. run[r] \in {"off", "reaping", "finishing"} => processor[r] = "off"
    BY Zenon DEF Slots, Accounted
  <2>2. CASE Start(r)
    BY Zenon, <1>1, <2>1, <2>2 DEF Start
  <2>3. CASE RestartReap(r)
    BY Zenon, <1>1, <2>1, <2>3 DEF RestartReap
  <2>4. CASE BeginStop(r)
    <3>1. "stopping" \notin {"off", "reaping", "finishing"}
      OBVIOUS
    <3> QED
      BY Zenon, <1>1, <2>4, <3>1 DEF BeginStop
  <2>5. CASE EndRun(r)
    <3>1. "done" \notin {"off", "reaping", "finishing"}
      OBVIOUS
    <3> QED
      BY Zenon, <1>1, <2>5, <3>1 DEF EndRun, FinishRun
  <2> QED
    BY ZenonT(30), <1>2, <2>2, <2>3, <2>4, <2>5
<1>3. ASSUME NEW r \in Runs, RestartFinish(r) PROVE Slots'
  <2>1. /\ run' = [run EXCEPT ![r] = "running"] /\ run[r] = "finishing"
        /\ processor' = [processor EXCEPT ![r] = "reserve"] /\ UNCHANGED <<reserved, picked, workers, slots>>
    BY Zenon, <1>3 DEF RestartFinish
  <2>2. Accounted(r) /\ slots[r] \in Nat /\ reserved[r] = 0 /\ reserved[r] \in Nat
    BY Zenon, <2>1 DEF Slots, Accounted
  <2>3. run'[r] \notin {"off", "reaping", "finishing"}
    BY ZenonT(30), <1>t, <2>1
  <2> QED
    BY Zenon, <1>t, <1>s, <2>1, <2>2, <2>3, SlotsMove DEF Accounted
<1>4. ASSUME NEW r \in Runs, Crash(r) PROVE Slots'
  <2>1. /\ run' = [run EXCEPT ![r] = "dead"] /\ processor' = [processor EXCEPT ![r] = "off"]
        /\ reserved' = [reserved EXCEPT ![r] = 0] /\ slots' = [slots EXCEPT ![r] = 0]
        /\ picked' = [picked EXCEPT ![r] = {}] /\ workers' = [workers EXCEPT ![r] = {}]
    BY Zenon, <1>4 DEF Crash, Die
  <2> QED
    BY Zenon, <1>t, <1>s, <1>e, <2>1, SlotsMove
<1>5. ASSUME NEW r \in Runs, Processor(r) PROVE Slots'
  BY Zenon, <1>5, SlotsProcessor
<1>6. ASSUME NEW r \in Runs, Workers(r) PROVE Slots'
  <2>1. PICK w \in workers[r] : WorkerEnds(r, w)
    BY Zenon, <1>6 DEF Workers, WorkerProcessCommand, WorkerFails
  <2>2. /\ workers' = [workers EXCEPT ![r] = workers[r] \ {w}] /\ slots' = [slots EXCEPT ![r] = slots[r] - 1]
        /\ UNCHANGED <<run, processor, reserved, picked>>
    BY Zenon, <2>1 DEF WorkerEnds
  <2>3. Accounted(r) /\ slots[r] \in Nat /\ reserved[r] \in Nat /\ processor[r] \in Steps
    BY Zenon DEF Slots
  <2>4. IsFiniteSet(workers[r]) /\ Cardinality(workers[r]) \in Nat
    BY Zenon, <2>3, Counts DEF Accounted
  <2>5. IsFiniteSet(workers[r] \ {w}) /\ Cardinality(workers[r] \ {w}) = Cardinality(workers[r]) - 1
    BY Zenon, <2>1, <2>4, FS_RemoveElement
  <2>6. Cardinality(workers[r] \ {w}) \in Nat
    BY ZenonT(30), <2>5, Counts
  <2>7. slots[r] - 1 \in Nat /\ slots[r] - 1 = reserved[r] + Cardinality(workers[r] \ {w}) /\ slots[r] - 1 <= MaxWorkers
    <3>1. slots[r] = reserved[r] + Cardinality(workers[r]) /\ slots[r] <= MaxWorkers
      BY Zenon, <2>3 DEF Accounted
    <3>2. Cardinality(workers[r]) - 1 \in Nat
      BY Zenon, <2>5, <2>6
    <3>3. /\ slots[r] - 1 \in Nat /\ slots[r] - 1 = reserved[r] + (Cardinality(workers[r]) - 1)
          /\ slots[r] - 1 <= MaxWorkers
      BY Zenon, <1>t, <2>3, <2>4, <3>1, <3>2, SlotLess
    <3> QED
      BY Zenon, <2>5, <3>3
  <2> QED
    BY Zenon, <1>t, <2>2, <2>3, <2>5, <2>7, SlotsMove DEF Accounted
<1>7. CASE UNCHANGED <<run, processor, reserved, picked, workers, slots>>
  BY Zenon, <1>7 DEF Slots, Accounted
<1>8. ASSUME NEW r \in Runs, Reaper(r) PROVE UNCHANGED <<run, processor, reserved, picked, workers, slots>>
  BY Zenon, <1>8 DEF Reaper, ReapStuck, FinishStuck, ReaperExit
<1>9. ASSUME NEW b \in Batches, Caller(b) \/ EnqueueEnds(b) \/ Routine(b)
      PROVE  UNCHANGED <<run, processor, reserved, picked, workers, slots>>
  <2>1. CASE Caller(b)
    BY Zenon, <2>1 DEF Caller, SaveBatch, SaveBatchUnanswered, BeginEnqueue, RefuseEnqueue, LockAndInsert,
       LoseEnqueue, Reconcile, ReconcileFails, execution
  <2>2. CASE EnqueueEnds(b)
    BY Zenon, <2>2 DEF EnqueueEnds, CommitEnqueue, RollBackEnqueue, execution
  <2>3. CASE Routine(b)
    BY Zenon, <2>3 DEF Routine, MarkProcessing, MarkProcessingFails, SkipProcessing, CheckFinished,
       CheckFinishedFails, Complete, CompleteFails, SkipComplete, MarkFinished, MarkFinishedFails, SkipMark, execution
  <2> QED
    BY Zenon, <1>9, <2>1, <2>2, <2>3
<1>10. CASE UNCHANGED vars
  BY Zenon, <1>7, <1>10 DEF vars, execution
<1> QED
  BY ZenonT(30), <1>2, <1>3, <1>4, <1>5, <1>6, <1>7, <1>8, <1>9, <1>10 DEF Next, ExecutionStep

\* The semaphore of every process counts its workers and the processor's
\* reservation, for any limits, failing dequeues, stops and crashes.
THEOREM SlotsNeverLeak == Spec => []SlotsAccounted
<1>1. Init => Slots
  <2> SUFFICES ASSUME Init PROVE Slots
    OBVIOUS
  <2>1. IsFiniteSet({}) /\ Cardinality({}) = 0
    BY Zenon, FS_EmptySet
  <2> QED
    BY SMTT(30), <2>1, ExecutionAssumption DEF Init, ExecutionInit, Slots, Accounted, Steps
<1>2. DInv /\ Slots /\ [Next]_vars => Slots'
  BY Zenon, SlotsStep DEF DInv
<1>3. Slots => SlotsAccounted
  BY Zenon DEF Slots, Accounted, SlotsAccounted
<1> QED
  BY <1>1, <1>2, <1>3, OneProcessInvariant, PTL DEF Spec
=============================================================================
