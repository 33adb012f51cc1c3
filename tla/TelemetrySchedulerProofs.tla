---------------------- MODULE TelemetrySchedulerProofs ----------------------
(***************************************************************************)
(* No device is lost by the telemetry scheduler, for any number of workers *)
(* and refreshers, any capacity of the channel and any limit of failures.  *)
(*                                                                         *)
(* The argument: an entry that says "queued" is in the queue or about to   *)
(* be put there (Queued), so the addDevices that leaves it alone loses     *)
(* nothing; a poll of the queue carries its device until it has put it     *)
(* back or written the last failure, and only workers make such polls      *)
(* (Polls); and a count that is written is one that was read below the     *)
(* limit, so that either it reaches the limit or the writer requeues.      *)
(***************************************************************************)
EXTENDS TelemetryScheduler, TLAPS

Queued == sched.managed = "queued" => sched.devices \/ \E a \in Adders : adder[a] = "queue"

Polls ==
  /\ \A r \in Refreshers : proc[r].kind \in {"none", "refresh"}
  /\ \A p \in Procs : proc[p].pc = "write" => proc[p].count < MaxFailures

TInv == TypeOK /\ Queued /\ Polls /\ NoDeviceLost
-----------------------------------------------------------------------------
(* The records.                                                            *)

PCs == {"idle", "try", "admit", "fetch", "clear", "add", "requeue", "read", "write", "send", "restore", "release"}
At(k, pc) == [k EXCEPT !.pc = pc]
AtHad(k, pc, b) == [k EXCEPT !.pc = pc, !.had = b]
AtBusy(k, pc, b) == [k EXCEPT !.pc = pc, !.busy = b]
AtCount(k, pc, c) == [k EXCEPT !.count = c, !.pc = pc]

\* A poll goes on as a poll of the same kind.
LEMMA AtRecord ==
  \A k \in ProcStates : \A pc \in PCs :
    At(k, pc) \in ProcStates /\ At(k, pc).pc = pc /\ At(k, pc).kind = k.kind /\ At(k, pc).count = k.count
BY DEF ProcStates, PCs, At

WithHad(k, b) == [k EXCEPT !.had = b]

\* It remembers that the device was awaiting its first poll.
LEMMA AtHadRecord ==
  ASSUME NEW k \in ProcStates, NEW pc \in PCs, NEW b \in BOOLEAN
  PROVE  /\ AtHad(k, pc, b) \in ProcStates /\ AtHad(k, pc, b).pc = pc
         /\ AtHad(k, pc, b).kind = k.kind
<1>1. WithHad(k, b) \in ProcStates /\ WithHad(k, b).kind = k.kind
  BY DEF ProcStates, WithHad
<1>2. AtHad(k, pc, b) = At(WithHad(k, b), pc)
  BY Zenon DEF AtHad, At, WithHad, ProcStates
<1> QED BY <1>1, <1>2, AtRecord

WithBusy(k, b) == [k EXCEPT !.busy = b]

\* It remembers that the node was saturated.
LEMMA AtBusyRecord ==
  ASSUME NEW k \in ProcStates, NEW pc \in PCs, NEW b \in BOOLEAN
  PROVE  /\ AtBusy(k, pc, b) \in ProcStates /\ AtBusy(k, pc, b).pc = pc
         /\ AtBusy(k, pc, b).kind = k.kind
<1>1. WithBusy(k, b) \in ProcStates /\ WithBusy(k, b).kind = k.kind
  BY DEF ProcStates, WithBusy
<1>2. AtBusy(k, pc, b) = At(WithBusy(k, b), pc)
  BY Zenon DEF AtBusy, At, WithBusy, ProcStates
<1> QED BY <1>1, <1>2, AtRecord

WithCount(k, c) == [k EXCEPT !.count = c]

\* It remembers the failures it read.
LEMMA AtCountRecord ==
  ASSUME NEW k \in ProcStates, NEW pc \in PCs, NEW c \in 0..MaxFailures
  PROVE  /\ AtCount(k, pc, c) \in ProcStates /\ AtCount(k, pc, c).pc = pc
         /\ AtCount(k, pc, c).kind = k.kind /\ AtCount(k, pc, c).count = c
<1>1. WithCount(k, c) \in ProcStates /\ WithCount(k, c).kind = k.kind /\ WithCount(k, c).count = c
  BY DEF ProcStates, WithCount
<1>2. AtCount(k, pc, c) = At(WithCount(k, c), pc)
  BY DEF AtCount, At, WithCount, ProcStates
<1> QED BY <1>1, <1>2, AtRecord

\* What addDevices does to the scheduler's entry.
LEMMA AddDevicesEffect ==
  ASSUME NEW s \in Schedules
  PROVE  /\ addDevices(s) \in Schedules
         /\ addDevices(s).failures = s.failures
         /\ s.managed = "absent" => addDevices(s).managed = "absent"
         /\ s.managed = "out" => addDevices(s).devices
         /\ s.devices => addDevices(s).devices
         /\ s.managed = "queued" => addDevices(s) = s
         /\ addDevices(s).managed \in {"absent", "queued"}
BY Zenon DEF addDevices, Schedules
-----------------------------------------------------------------------------
(* Who has the device.                                                     *)

Carries(p) ==
  \/ proc[p].pc \in {"clear", "add", "requeue"}
  \/ proc[p].kind = "full" /\ proc[p].pc \in {"try", "admit", "fetch", "read", "write"}

\* What InHand says.
LEMMA InHandIs ==
  InHand <=> (queue.batch \/ queue.tasks > 0 \/ (\E a \in Adders : adder[a] = "queue") \/ \E p \in Procs : Carries(p))
BY DEF InHand, Carries

\* A step that leaves the entry alone and takes the device from nobody.
LEMMA Calm ==
  ASSUME TInv, sched' = sched,
         queue.batch \/ queue.tasks > 0 => queue'.batch \/ queue'.tasks > 0,
         \A a \in Adders : adder[a] = "queue" => adder'[a] = "queue",
         \A p \in Procs : Carries(p) => Carries(p)'
  PROVE  Queued' /\ NoDeviceLost'
<1>1. Queued'
  BY DEF TInv, Queued
<1>2. InHand => InHand'
  BY InHandIs DEF InHand, Carries
<1> QED BY <1>1, <1>2 DEF TInv, NoDeviceLost, HasFailed

\* A step that puts the device back.
LEMMA PutBack ==
  ASSUME TInv, NEW s \in Schedules, s.managed = sched.managed, s.devices = sched.devices, sched' = addDevices(s),
         \A a \in Adders : adder[a] = "queue" => adder'[a] = "queue"
  PROVE  Queued' /\ NoDeviceLost'
<1>1. CASE sched.managed = "out"
  <2>1. sched'.devices
    BY <1>1, AddDevicesEffect
  <2> QED BY <2>1 DEF Queued, NoDeviceLost
<1>2. CASE sched.managed = "queued"
  <2>1. sched' = s
    BY <1>2, AddDevicesEffect
  <2>2. sched.devices \/ \E a \in Adders : adder[a] = "queue"
    BY <1>2 DEF TInv, Queued
  <2> QED BY <2>1, <2>2 DEF Queued, NoDeviceLost, InHand
<1>3. CASE sched.managed = "absent"
  <2>1. sched'.managed = "absent"
    BY <1>3, AddDevicesEffect
  <2> QED BY <2>1 DEF Queued, NoDeviceLost
<1> QED BY <1>1, <1>2, <1>3 DEF TInv, TypeOK, Schedules

\* Some process has the device after the step.
LEMMA TakesOver ==
  ASSUME NEW p \in Procs, Carries(p)'
  PROVE  NoDeviceLost'
BY DEF Carries, NoDeviceLost, InHand

\* The processes but p are where they were.
LEMMA ProcMove ==
  ASSUME TypeOK, NEW p \in Procs, NEW r \in ProcStates, proc' = [proc EXCEPT ![p] = r]
  PROVE  /\ proc' \in [Procs -> ProcStates] /\ proc'[p] = r
         /\ \A q \in Procs \ {p} : proc'[q] = proc[q] /\ (Carries(q) <=> Carries(q)')
BY DEF TypeOK, Carries

\* Polls is kept by a process that keeps its kind, or begins with one it may
\* have, and that is about to write a count below the limit if any.
LEMMA PollsKeep ==
  ASSUME TInv, NEW p \in Procs, \A q \in Procs \ {p} : proc'[q] = proc[q],
         p \in Refreshers => proc'[p].kind \in {"none", "refresh"},
         proc'[p].pc = "write" => proc'[p].count < MaxFailures
  PROVE  Polls'
BY DEF TInv, Polls, Procs

Holds(r) ==
  \/ r.pc \in {"clear", "add", "requeue"}
  \/ r.kind = "full" /\ r.pc \in {"try", "admit", "fetch", "read", "write"}
Claimants == Procs \cup {"status", None}

\* What every step of a poll keeps.
LEMMA ProcStep ==
  ASSUME TInv, NEW p \in Procs, NEW r \in ProcStates, proc' = [proc EXCEPT ![p] = r], ProcFrame,
         sched' \in Schedules, service' \in Services, queue' \in Queues, claim' \in Claimants,
         p \in Refreshers => r.kind \in {"none", "refresh"},
         r.pc = "write" => r.count < MaxFailures
  PROVE  TypeOK' /\ Polls' /\ (Carries(p)' <=> Holds(r))
<1>1. /\ proc' \in [Procs -> ProcStates] /\ proc'[p] = r
      /\ \A q \in Procs \ {p} : proc'[q] = proc[q] /\ (Carries(q) <=> Carries(q)')
  BY Zenon, ProcMove DEF TInv
<1>2. Polls'
  BY <1>1, PollsKeep
<1>3. TypeOK'
  BY <1>1 DEF TInv, TypeOK, ProcFrame, Claimants
<1>4. Carries(p)' <=> Holds(proc'[p])
  BY Zenon DEF Carries, Holds
<1> QED BY <1>1, <1>2, <1>3, <1>4

\* A step of a poll that leaves the entry and the queue alone and keeps the
\* device if it has it.
LEMMA ProcCalm ==
  ASSUME TInv, NEW p \in Procs, NEW r \in ProcStates, proc' = [proc EXCEPT ![p] = r], ProcFrame,
         sched' = sched, service' \in Services, queue' = queue, claim' \in Claimants,
         p \in Refreshers => r.kind \in {"none", "refresh"},
         r.pc = "write" => r.count < MaxFailures,
         Carries(p) => Holds(r)
  PROVE  TInv'
<1>1. sched' \in Schedules /\ queue' \in Queues
  BY DEF TInv, TypeOK
<1>2. TypeOK' /\ Polls' /\ (Carries(p)' <=> Holds(r))
  BY Zenon, <1>1, ProcStep
<1>3. \A q \in Procs : Carries(q) => Carries(q)'
  BY Zenon, <1>2, ProcMove DEF TInv
<1>4. Queued' /\ NoDeviceLost'
  BY <1>3, Calm DEF ProcFrame
<1> QED BY <1>2, <1>4 DEF TInv
-----------------------------------------------------------------------------
(* The initial state.                                                      *)

\* Nobody polls, and the device is not managed.
LEMMA InitTInv == Init => TInv
<1> SUFFICES ASSUME Init PROVE TInv
  OBVIOUS
<1> USE SchedulerAssumption
<1>1. Idle \in ProcStates /\ Idle.kind = "none" /\ Idle.pc = "idle"
  BY DEF Idle, ProcStates
<1>2. proc \in [Procs -> ProcStates]
  BY <1>1 DEF Init
<1>3. world \in Worlds
  BY DEF Init, Worlds
<1>4. sched \in Schedules /\ sched.managed = "absent"
  BY DEF Init, Schedules
<1>5. service \in Services /\ queue \in Queues
  BY DEF Init, Services, Queues
<1>6. TypeOK
  BY <1>2, <1>3, <1>4, <1>5 DEF Init, TypeOK
<1>7. Polls
  BY <1>1 DEF Init, Polls, Procs
<1> QED BY <1>4, <1>6, <1>7 DEF TInv, Queued, NoDeviceLost
-----------------------------------------------------------------------------
(* The steps of a poll that leave the scheduler's entry alone.             *)

WithKind(k, kind) == [k EXCEPT !.kind = kind]

\* The polls that begin.
LEMMA Begun ==
  /\ Idle \in ProcStates /\ Idle.pc = "idle" /\ Idle.kind = "none"
  /\ \A pc \in {"try", "fetch", "clear"} : \A kind \in {"full", "status", "refresh", "skip"} :
       LET r == [Idle EXCEPT !.pc = pc, !.kind = kind]
       IN r \in ProcStates /\ r.pc = pc /\ r.kind = kind
<1>1. Idle \in ProcStates /\ Idle.pc = "idle" /\ Idle.kind = "none"
  BY SchedulerAssumption DEF Idle, ProcStates
<1>2. ASSUME NEW pc \in {"try", "fetch", "clear"}, NEW kind \in {"full", "status", "refresh", "skip"}
      PROVE  LET r == [Idle EXCEPT !.pc = pc, !.kind = kind]
             IN r \in ProcStates /\ r.pc = pc /\ r.kind = kind
  <2>1. WithKind(Idle, kind) \in ProcStates /\ WithKind(Idle, kind).kind = kind
    BY <1>1 DEF ProcStates, WithKind
  <2>2. pc \in PCs
    BY DEF PCs
  <2>3. [Idle EXCEPT !.pc = pc, !.kind = kind] = At(WithKind(Idle, kind), pc)
    BY Zenon, <1>1 DEF At, WithKind, ProcStates
  <2> QED BY <2>1, <2>2, <2>3, AtRecord
<1> QED BY <1>1, <1>2

\* What a poll is made of.
LEMMA ProcFacts ==
  ASSUME TInv, NEW p \in Procs
  PROVE  /\ proc[p] \in ProcStates /\ proc[p].count \in 0..MaxFailures
         /\ p \in Refreshers => proc[p].kind \in {"none", "refresh"}
         /\ proc[p].pc = "write" => proc[p].count < MaxFailures
         /\ p \in Workers => p \notin Refreshers
         /\ service \in Services /\ queue \in Queues /\ claim \in Claimants /\ sched \in Schedules
BY SchedulerAssumption DEF TInv, TypeOK, Polls, ProcStates, Claimants, Procs

\* A worker takes a task off a channel, a refresher begins, and a claim is won.
LEMMA KeepTakeTask ==
  ASSUME TInv, NEW p \in Workers, TakeTask(p)
  PROVE  TInv'
<1> DEFINE r == [Idle EXCEPT !.pc = "try", !.kind = "full"]
<1>1. p \in Procs /\ r \in ProcStates /\ r.pc = "try" /\ r.kind = "full" /\ proc' = [proc EXCEPT ![p] = r]
  BY Begun DEF TakeTask, Step, Procs
<1>2. queue' \in Queues
  BY SchedulerAssumption DEF TInv, TypeOK, TakeTask, Queues
<1>3. sched' \in Schedules /\ service' \in Services /\ claim' \in Claimants /\ p \notin Refreshers
  BY <1>1, ProcFacts DEF TakeTask
<1> HIDE DEF r
<1>4. TypeOK' /\ Polls' /\ (Carries(p)' <=> Holds(r))
  BY Zenon, <1>1, <1>2, <1>3, ProcStep DEF TakeTask
<1>5. NoDeviceLost'
  BY <1>1, <1>4, TakesOver DEF Holds
<1>6. Queued'
  BY DEF TInv, Queued, TakeTask, ProcFrame
<1> QED BY <1>4, <1>5, <1>6 DEF TInv

\* A status task is not the device's poll.
LEMMA KeepTakeStatusTask ==
  ASSUME TInv, NEW p \in Workers, TakeStatusTask(p)
  PROVE  TInv'
<1> DEFINE r == [Idle EXCEPT !.pc = "fetch", !.kind = "status"]
<1>1. p \in Procs /\ r \in ProcStates /\ r.pc = "fetch" /\ r.kind = "status" /\ proc' = [proc EXCEPT ![p] = r]
  BY Begun DEF TakeStatusTask, Step, Procs
<1>2. queue' \in Queues /\ queue'.batch = queue.batch /\ queue'.tasks = queue.tasks
  BY Zenon DEF TInv, TypeOK, TakeStatusTask, Queues
<1>3. sched' \in Schedules /\ service' \in Services /\ claim' \in Claimants /\ p \notin Refreshers
  BY <1>1, ProcFacts DEF TakeStatusTask
<1>4. ~Carries(p)
  <2>1. proc[p].pc = "idle"
    BY DEF TakeStatusTask, Step
  <2> QED BY <2>1 DEF Carries
<1> HIDE DEF r
<1>5. TypeOK' /\ Polls' /\ (Carries(p)' <=> Holds(r))
  BY Zenon, <1>1, <1>2, <1>3, ProcStep DEF TakeStatusTask
<1>6. \A q \in Procs : Carries(q) => Carries(q)'
  BY Zenon, <1>1, <1>4, ProcMove DEF TInv
<1>7. Queued' /\ NoDeviceLost'
  BY <1>2, <1>6, Calm DEF TakeStatusTask, ProcFrame
<1> QED BY <1>5, <1>7 DEF TInv

\* A refresher begins with a poll of its own.
LEMMA KeepRefreshDevice ==
  ASSUME TInv, NEW p \in Refreshers, RefreshDevice(p)
  PROVE  TInv'
<1> DEFINE r == [Idle EXCEPT !.pc = "try", !.kind = "refresh"]
<1>1. p \in Procs /\ r \in ProcStates /\ r.pc = "try" /\ r.kind = "refresh" /\ proc' = [proc EXCEPT ![p] = r]
  BY Begun DEF RefreshDevice, Step, Procs
<1>2. ~Carries(p)
  <2>1. proc[p].pc = "idle"
    BY DEF RefreshDevice, Step
  <2> QED BY <2>1 DEF Carries
<1>3. service' \in Services /\ claim' \in Claimants
  BY <1>1, ProcFacts DEF RefreshDevice
<1> HIDE DEF r
<1> QED BY Zenon, <1>1, <1>2, <1>3, ProcCalm DEF RefreshDevice

\* The claim is won with the device in hand.
LEMMA KeepClaims ==
  ASSUME TInv, NEW p \in Procs, Claims(p)
  PROVE  TInv'
<1> DEFINE pc == IF proc[p].kind = "full" THEN "admit" ELSE "fetch"
<1> DEFINE r == At(proc[p], pc)
<1>1. proc[p].pc = "try" /\ proc' = [proc EXCEPT ![p] = r]
  BY DEF Claims, To, Step, At
<1>2. pc \in PCs /\ pc \in {"admit", "fetch"}
  BY DEF PCs
<1> HIDE DEF pc
<1>3. r \in ProcStates /\ r.pc = pc /\ r.kind = proc[p].kind
  BY <1>2, ProcFacts, AtRecord
<1>4. service' \in Services /\ claim' \in Claimants /\ sched' = sched /\ queue' = queue
  BY ProcFacts DEF Claims, Claimants
<1> HIDE DEF r
<1>5. Carries(p) => Holds(r)
  BY <1>1, <1>2, <1>3 DEF Carries, Holds
<1> QED BY Zenon, <1>1, <1>2, <1>3, <1>4, <1>5, ProcFacts, ProcCalm DEF Claims

\* A poll that stays with the same kind and goes to a place where it still has
\* the device, if it had it.
LEMMA Moves ==
  ASSUME TInv, NEW p \in Procs, NEW pc \in PCs, proc' = [proc EXCEPT ![p] = At(proc[p], pc)], ProcFrame,
         sched' = sched, service' \in Services, queue' = queue, claim' \in Claimants, pc # "write",
         Carries(p) => \/ pc \in {"clear", "add", "requeue"}
                       \/ proc[p].kind = "full" /\ pc \in {"try", "admit", "fetch", "read", "write"}
  PROVE  TInv'
<1> DEFINE r == At(proc[p], pc)
<1>1. r \in ProcStates /\ r.pc = pc /\ r.kind = proc[p].kind
  BY ProcFacts, AtRecord
<1> HIDE DEF r
<1>2. Carries(p) => Holds(r)
  BY <1>1 DEF Holds
<1>3. proc' = [proc EXCEPT ![p] = r]
  BY DEF r
<1> QED BY Zenon, <1>1, <1>2, <1>3, ProcFacts, ProcCalm

\* A worker that finds the device claimed puts it back, a refresher gives up.
LEMMA KeepSkips ==
  ASSUME TInv, NEW p \in Procs, Skips(p)
  PROVE  TInv'
<1>0. service' \in Services /\ claim' \in Claimants /\ sched' = sched /\ queue' = queue /\ ProcFrame
  BY ProcFacts DEF Skips
<1>1. CASE p \in Workers /\ Step(p, "try", [Idle EXCEPT !.pc = "clear", !.kind = "skip"])
  <2> DEFINE r == [Idle EXCEPT !.pc = "clear", !.kind = "skip"]
  <2>1. r \in ProcStates /\ r.pc = "clear" /\ r.kind = "skip" /\ proc' = [proc EXCEPT ![p] = r]
    BY <1>1, Begun DEF Step
  <2> HIDE DEF r
  <2>2. Holds(r)
    BY <2>1 DEF Holds
  <2> QED BY Zenon, <1>0, <1>1, <2>1, <2>2, ProcFacts, ProcCalm
<1>2. CASE p \in Refreshers /\ Step(p, "try", Idle)
  <2>1. proc[p].pc = "try" /\ proc' = [proc EXCEPT ![p] = Idle] /\ proc[p].kind \in {"none", "refresh"}
    BY <1>2, ProcFacts DEF Step
  <2>2. ~Carries(p)
    BY <2>1 DEF Carries
  <2>3. Idle \in ProcStates /\ Idle.pc = "idle" /\ Idle.kind = "none"
    BY Begun
  <2> QED BY Zenon, <1>0, <2>1, <2>2, <2>3, ProcCalm
<1> QED BY <1>1, <1>2 DEF Skips

\* A poll of the queue is admitted, and remembers whether it is the first.
LEMMA KeepAdmits ==
  ASSUME TInv, NEW p \in Workers, Admits(p)
  PROVE  TInv'
<1> DEFINE r == AtHad(proc[p], "fetch", service.awaiting)
<1>1. p \in Procs /\ proc[p].pc = "admit" /\ proc' = [proc EXCEPT ![p] = r]
  BY DEF Admits, Step, AtHad, Procs
<1>2. service.awaiting \in BOOLEAN /\ "fetch" \in PCs
  BY <1>1, ProcFacts DEF Services, PCs
<1>3. r \in ProcStates /\ r.pc = "fetch" /\ r.kind = proc[p].kind
  BY <1>1, <1>2, ProcFacts, AtHadRecord
<1>4. service' \in Services
  BY Zenon, <1>1, ProcFacts DEF Admits, Services
<1>5. claim' \in Claimants /\ sched' = sched /\ queue' = queue /\ ProcFrame
  BY <1>1, ProcFacts DEF Admits
<1> HIDE DEF r
<1>6. Carries(p) => Holds(r)
  BY <1>1, <1>3 DEF Carries, Holds
<1> QED BY Zenon, <1>1, <1>3, <1>4, <1>5, <1>6, ProcFacts, ProcCalm

\* The answer of the miner sends a poll where it puts the device back or
\* counts a failure.
LEMMA KeepFetches ==
  ASSUME TInv, NEW p \in Procs, Fetches(p)
  PROVE  TInv'
<1>0. service' \in Services /\ claim' \in Claimants /\ sched' = sched /\ queue' = queue /\ ProcFrame
  BY ProcFacts DEF Fetches
<1>1. CASE To(p, "fetch", "clear")
  <2>1. "clear" \in PCs /\ proc' = [proc EXCEPT ![p] = At(proc[p], "clear")]
    BY <1>1 DEF To, Step, At, PCs
  <2> QED BY Zenon, <1>0, <2>1, Moves
<1>2. CASE Step(p, "fetch", [proc[p] EXCEPT !.pc = "requeue", !.busy = TRUE])
  <2> DEFINE r == AtBusy(proc[p], "requeue", TRUE)
  <2>1. "requeue" \in PCs /\ proc' = [proc EXCEPT ![p] = r]
    BY <1>2 DEF Step, AtBusy, PCs
  <2>2. r \in ProcStates /\ r.pc = "requeue" /\ r.kind = proc[p].kind
    BY Zenon, <2>1, ProcFacts, AtBusyRecord
  <2> HIDE DEF r
  <2>3. Holds(r)
    BY <2>2 DEF Holds
  <2> QED BY Zenon, <1>0, <2>1, <2>2, <2>3, ProcFacts, ProcCalm
<1>3. CASE To(p, "fetch", "read")
  <2>1. "read" \in PCs /\ proc' = [proc EXCEPT ![p] = At(proc[p], "read")] /\ proc[p].pc = "fetch"
    BY <1>3 DEF To, Step, At, PCs
  <2>2. Carries(p) => proc[p].kind = "full"
    BY <2>1 DEF Carries
  <2> QED BY Zenon, <1>0, <2>1, <2>2, Moves
<1> QED BY <1>1, <1>2, <1>3 DEF Fetches

\* A status poll does not have the device.
LEMMA KeepFetchesStatus ==
  ASSUME TInv, NEW p \in Workers, FetchesStatus(p)
  PROVE  TInv'
<1>0. /\ p \in Procs /\ service' \in Services /\ claim' \in Claimants /\ sched' = sched /\ queue' = queue
      /\ ProcFrame
  BY ProcFacts DEF FetchesStatus, Procs
<1>1. PICK pc \in {"clear", "send", "release"} : To(p, "fetch", pc)
  BY DEF FetchesStatus
<1>2. pc \in PCs /\ pc # "write" /\ proc' = [proc EXCEPT ![p] = At(proc[p], pc)] /\ proc[p].pc = "fetch"
  BY <1>1 DEF To, Step, At, PCs
<1>3. proc[p].kind = "status"
  BY DEF FetchesStatus
<1>4. ~Carries(p)
  BY <1>2, <1>3 DEF Carries
<1> QED BY ZenonT(30), <1>0, <1>2, <1>4, Moves

\* The steps after the device is back.
LEMMA KeepEndings ==
  ASSUME TInv, NEW p \in Procs, SendsStatus(p) \/ DropsStatus(p) \/ Restores(p) \/ Releases(p)
  PROVE  TInv'
<1>0. claim' \in Claimants /\ sched' = sched /\ queue' = queue /\ ProcFrame
  BY Zenon, ProcFacts DEF SendsStatus, DropsStatus, Restores, Releases, Claimants
<1>1. proc[p].pc \in {"send", "restore", "release"}
  BY Zenon DEF SendsStatus, DropsStatus, Restores, Releases, To, Step
<1>2. ~Carries(p)
  BY <1>1 DEF Carries
<1>3. CASE SendsStatus(p)
  <2>1. "restore" \in PCs /\ proc' = [proc EXCEPT ![p] = At(proc[p], "restore")]
    BY <1>3 DEF SendsStatus, To, Step, At, PCs
  <2>2. service' \in Services
    BY <1>3, ProcFacts DEF SendsStatus, Services
  <2> QED BY Zenon, <1>0, <1>2, <2>1, <2>2, Moves
<1>4. CASE DropsStatus(p)
  <2>1. PICK a \in Answers : Step(p, "send", [proc[p] EXCEPT !.pc = "restore", !.busy = (a = "busy")])
    BY Zenon, <1>4 DEF DropsStatus
  <2> DEFINE r == AtBusy(proc[p], "restore", a = "busy")
  <2>2. "restore" \in PCs /\ proc' = [proc EXCEPT ![p] = r] /\ (a = "busy") \in BOOLEAN
    BY <2>1 DEF Step, AtBusy, PCs
  <2>3. r \in ProcStates /\ r.pc = "restore" /\ r.kind = proc[p].kind
    BY ZenonT(30), <2>2, ProcFacts, AtBusyRecord
  <2>4. service' \in Services
    BY Zenon, <1>4, ProcFacts DEF DropsStatus
  <2> HIDE DEF r
  <2> QED BY Zenon, <1>0, <1>2, <2>2, <2>3, <2>4, ProcFacts, ProcCalm
<1>5. CASE Restores(p)
  <2>1. "release" \in PCs /\ proc' = [proc EXCEPT ![p] = At(proc[p], "release")]
    BY <1>5 DEF Restores, To, Step, At, PCs
  <2>2. service' \in Services
    BY <1>5, ProcFacts DEF Restores, Services, ProcStates
  <2> QED BY Zenon, <1>0, <1>2, <2>1, <2>2, Moves
<1>6. CASE Releases(p)
  <2>1. proc' = [proc EXCEPT ![p] = Idle] /\ service' \in Services
    BY <1>6, ProcFacts DEF Releases, Step
  <2>2. Idle \in ProcStates /\ Idle.pc = "idle" /\ Idle.kind = "none"
    BY Begun
  <2> QED BY Zenon, <1>0, <1>2, <2>1, <2>2, ProcCalm
<1> QED BY <1>3, <1>4, <1>5, <1>6
-----------------------------------------------------------------------------
(* The steps of a poll that change the entry or read it.                   *)

\* Only the failures of the entry change.
LEMMA FailuresOnly ==
  ASSUME NEW s \in Schedules, NEW n \in 0..MaxFailures
  PROVE  LET t == [s EXCEPT !.failures = n]
         IN t \in Schedules /\ t.managed = s.managed /\ t.devices = s.devices /\ t.failures = n
BY DEF Schedules

\* The failures are forgotten by a poll that is about to add the device.
LEMMA KeepClearsFailures ==
  ASSUME TInv, NEW p \in Procs, ClearsFailures(p)
  PROVE  TInv'
<1> DEFINE r == At(proc[p], "add")
<1>1. "add" \in PCs /\ proc' = [proc EXCEPT ![p] = r]
  BY DEF ClearsFailures, To, Step, At, PCs
<1>2. r \in ProcStates /\ r.pc = "add" /\ r.kind = proc[p].kind
  BY <1>1, ProcFacts, AtRecord
<1>3. sched' \in Schedules /\ sched'.managed = sched.managed /\ sched'.devices = sched.devices
  BY SchedulerAssumption, ProcFacts, FailuresOnly DEF ClearsFailures
<1>4. service' \in Services /\ queue' \in Queues /\ claim' \in Claimants /\ ProcFrame
  BY ProcFacts DEF ClearsFailures
<1> HIDE DEF r
<1>5. TypeOK' /\ Polls' /\ (Carries(p)' <=> Holds(r))
  BY Zenon, <1>1, <1>2, <1>3, <1>4, ProcFacts, ProcStep
<1>6. NoDeviceLost'
  BY <1>2, <1>5, TakesOver DEF Holds
<1>7. Queued'
  BY <1>3, <1>4 DEF TInv, Queued, ProcFrame
<1> QED BY <1>5, <1>6, <1>7 DEF TInv

\* The device is put back, by AddDevices or by RequeueDevices.
LEMMA KeepAdds ==
  ASSUME TInv, NEW p \in Procs, Adds(p) \/ Requeues(p)
  PROVE  TInv'
<1>1. sched' = addDevices(sched) /\ sched \in Schedules /\ sched' \in Schedules
  BY ProcFacts, AddDevicesEffect DEF Adds, Requeues
<1>2. service' \in Services /\ queue' \in Queues /\ claim' \in Claimants /\ ProcFrame
  BY ProcFacts DEF Adds, Requeues
<1>3. PICK r \in ProcStates : /\ proc' = [proc EXCEPT ![p] = r] /\ r.pc # "write"
                              /\ r.kind \in {"none", proc[p].kind}
  <2>1. CASE Step(p, "add", Idle)
    BY Zenon, <2>1, Begun DEF Step
  <2>2. CASE \E pc \in {"send", "read", "restore"} : To(p, "add", pc) \/ To(p, "requeue", pc)
    <3>1. PICK pc \in {"send", "read", "restore"} : proc' = [proc EXCEPT ![p] = At(proc[p], pc)]
      BY <2>2 DEF To, Step, At
    <3>2. pc \in PCs /\ pc # "write"
      BY DEF PCs
    <3>3. At(proc[p], pc) \in ProcStates /\ At(proc[p], pc).pc = pc /\ At(proc[p], pc).kind = proc[p].kind
      BY <3>2, ProcFacts, AtRecord
    <3> QED BY Zenon, <3>1, <3>2, <3>3
  <2> QED BY <2>1, <2>2 DEF Adds, Requeues
<1>4. TypeOK' /\ Polls'
  BY Zenon, <1>1, <1>2, <1>3, ProcFacts, ProcStep
<1>5. Queued' /\ NoDeviceLost'
  BY <1>1, <1>2, PutBack DEF ProcFrame
<1> QED BY <1>4, <1>5 DEF TInv

\* A count that is a time says the device has failed; any other is below the
\* limit.
LEMMA KeepReadsFailures ==
  ASSUME TInv, NEW p \in Procs, ReadsFailures(p)
  PROVE  TInv'
<1> DEFINE pc == IF HasFailed THEN "send" ELSE "write"
<1> DEFINE r == AtCount(proc[p], pc, sched.failures)
<1>1. proc[p].pc = "read" /\ proc' = [proc EXCEPT ![p] = r]
  BY DEF ReadsFailures, Step, AtCount
<1>2. service' \in Services /\ queue' = queue /\ claim' \in Claimants /\ ProcFrame /\ sched' = sched
  BY ProcFacts DEF ReadsFailures
<1>3. sched.failures \in 0..MaxFailures
  BY ProcFacts DEF Schedules
<1>4. pc \in PCs /\ (pc = "write" <=> ~HasFailed) /\ (pc = "send" <=> HasFailed)
  BY DEF PCs
<1> HIDE DEF pc
<1>5. r \in ProcStates /\ r.pc = pc /\ r.kind = proc[p].kind /\ r.count = sched.failures
  BY <1>3, <1>4, ProcFacts, AtCountRecord
<1> HIDE DEF r
<1>6. r.pc = "write" => r.count < MaxFailures
  BY <1>3, <1>4, <1>5, SchedulerAssumption DEF HasFailed
<1>7. TypeOK' /\ Polls' /\ (Carries(p)' <=> Holds(r))
  BY Zenon, <1>1, <1>2, <1>5, <1>6, ProcFacts, ProcStep
<1>8. CASE HasFailed
  <2>1. HasFailed'
    BY <1>2, <1>8 DEF HasFailed
  <2>2. Queued'
    BY <1>2 DEF TInv, Queued, ProcFrame
  <2> QED BY <1>7, <2>1, <2>2 DEF TInv, NoDeviceLost
<1>9. CASE ~HasFailed
  <2>1. Carries(p) => Holds(r)
    BY <1>1, <1>4, <1>5, <1>9 DEF Carries, Holds
  <2> QED BY Zenon, <1>1, <1>2, <1>5, <1>6, <2>1, ProcFacts, ProcCalm
<1> QED BY <1>8, <1>9

\* The count that is written is the limit, or the writer requeues.
LEMMA KeepWritesFailures ==
  ASSUME TInv, NEW p \in Procs, WritesFailures(p)
  PROVE  TInv'
<1> DEFINE n == proc[p].count + 1
<1> DEFINE pc == IF n >= MaxFailures THEN "send" ELSE "requeue"
<1> DEFINE r == At(proc[p], pc)
<1>1. proc[p].pc = "write" /\ proc' = [proc EXCEPT ![p] = r]
  BY DEF WritesFailures, To, Step, At
<1>2. n \in 0..MaxFailures
  BY <1>1, ProcFacts, SchedulerAssumption
<1>3. sched' \in Schedules /\ sched'.managed = sched.managed /\ sched'.devices = sched.devices /\ sched'.failures = n
  BY <1>2, ProcFacts, FailuresOnly DEF WritesFailures
<1>4. pc \in PCs /\ pc # "write" /\ (pc = "requeue" \/ n = MaxFailures)
  BY <1>2, SchedulerAssumption DEF PCs
<1>5. service' \in Services /\ queue' \in Queues /\ claim' \in Claimants /\ ProcFrame
  BY ProcFacts DEF WritesFailures
<1> HIDE DEF n, pc
<1>6. r \in ProcStates /\ r.pc = pc /\ r.kind = proc[p].kind
  BY <1>4, ProcFacts, AtRecord
<1> HIDE DEF r
<1>7. TypeOK' /\ Polls' /\ (Carries(p)' <=> Holds(r))
  BY Zenon, <1>1, <1>3, <1>4, <1>5, <1>6, ProcFacts, ProcStep
<1>8. NoDeviceLost'
  <2>1. CASE pc = "requeue"
    BY <1>6, <1>7, <2>1, TakesOver DEF Holds
  <2>2. CASE n = MaxFailures
    BY <1>3, <2>2 DEF NoDeviceLost, HasFailed
  <2> QED BY <1>4, <2>1, <2>2
<1>9. Queued'
  BY <1>3, <1>5 DEF TInv, Queued, ProcFrame
<1> QED BY <1>7, <1>8, <1>9 DEF TInv
-----------------------------------------------------------------------------
(* The callers, the routines and the activation.                           *)

\* Steps outside the polls that touch neither the entry, nor the tasks, nor
\* a caller about to put the device into the queue.
LEMMA OutsideCalm ==
  ASSUME TInv, world' \in Worlds, sched' = sched, service' \in Services, queue' \in Queues, claim' \in Claimants,
         proc' = proc, adder' \in [Adders -> {"idle", "track", "await", "manage", "queue"}],
         remover' \in {"idle", "untrack", "forget", "unmanage"}, poller' \in {"idle", "try", "won"},
         queue'.batch = queue.batch, queue'.tasks = queue.tasks,
         \A a \in Adders : adder[a] = "queue" => adder'[a] = "queue"
  PROVE  TInv'
<1>1. TypeOK' /\ Polls'
  BY DEF TInv, TypeOK, Polls, Claimants
<1>2. \A p \in Procs : Carries(p) => Carries(p)'
  BY DEF Carries
<1>3. Queued' /\ NoDeviceLost'
  BY <1>2, Calm
<1> QED BY <1>1, <1>3 DEF TInv

\* What an unchanged variable contributes.
LEMMA OutsideFacts ==
  ASSUME TInv
  PROVE  /\ world \in Worlds /\ sched \in Schedules /\ service \in Services /\ queue \in Queues /\ claim \in Claimants
         /\ adder \in [Adders -> {"idle", "track", "await", "manage", "queue"}]
         /\ remover \in {"idle", "untrack", "forget", "unmanage"} /\ poller \in {"idle", "try", "won"}
BY DEF TInv, TypeOK, Claimants

\* A caller of AddDevices comes and goes.
LEMMA KeepCallers ==
  ASSUME TInv, loadPairedDevices \/ Pair \/ \E a \in Adders : AddDevices(a)
  PROVE  TInv'
<1>1. CASE loadPairedDevices
  <2>1. /\ adder' \in [Adders -> {"idle", "track", "await", "manage", "queue"}]
        /\ \A a \in Adders : adder[a] = "queue" => adder'[a] = "queue"
    BY <1>1, OutsideFacts, SchedulerAssumption DEF loadPairedDevices, Goes
  <2> QED BY SMTT(30), <1>1, <2>1, OutsideFacts, OutsideCalm DEF loadPairedDevices, ServiceFrame
<1>2. CASE Pair
  <2>1. /\ adder' \in [Adders -> {"idle", "track", "await", "manage", "queue"}]
        /\ \A a \in Adders : adder[a] = "queue" => adder'[a] = "queue"
    BY <1>2, OutsideFacts DEF Pair, Goes
  <2>2. world' \in Worlds
    BY Zenon, <1>2, OutsideFacts DEF Pair, Worlds
  <2> QED BY <1>2, <2>1, <2>2, OutsideFacts, OutsideCalm DEF Pair, ServiceFrame
<1>3. CASE \E a \in Adders : AddDevices(a)
  <2>1. PICK a \in Adders : AddDevices(a)
    BY <1>3
  <2>2. /\ adder' \in [Adders -> {"idle", "track", "await", "manage", "queue"}]
        /\ \A b \in Adders : adder[b] = "queue" => adder'[b] = "queue"
    BY <2>1, OutsideFacts DEF AddDevices, Goes
  <2>3. service' \in Services
    BY Zenon, <2>1, OutsideFacts DEF AddDevices, Services
  <2>4. sched' = sched
    BY <2>1 DEF AddDevices
  <2> QED BY <2>1, <2>2, <2>3, <2>4, OutsideFacts, OutsideCalm DEF AddDevices, ServiceFrame
<1> QED BY <1>1, <1>2, <1>3

\* The entry is made before the device is in the queue.
LEMMA KeepAddNewDevices ==
  ASSUME TInv, NEW a \in Adders, AddNewDevices(a)
  PROVE  TInv'
<1>0. proc' = proc /\ queue' = queue /\ UNCHANGED <<world, service, remover, claim, poller>>
  BY DEF AddNewDevices, ServiceFrame
<1>1. adder' \in [Adders -> {"idle", "track", "await", "manage", "queue"}]
  BY OutsideFacts DEF AddNewDevices, Goes
<1>2. sched' \in Schedules
  BY Zenon, OutsideFacts DEF AddNewDevices, Schedules
<1>3. TypeOK' /\ Polls'
  BY <1>0, <1>1, <1>2 DEF TInv, TypeOK, Polls
<1>4. CASE adder[a] = "manage" /\ sched.managed = "absent"
  <2>1. adder'[a] = "queue"
    BY <1>4, OutsideFacts DEF AddNewDevices, Goes
  <2>2. Queued' /\ NoDeviceLost'
    BY <2>1 DEF Queued, NoDeviceLost, InHand
  <2> QED BY <1>3, <2>2 DEF TInv
<1>5. CASE adder[a] = "manage" /\ sched.managed # "absent"
  <2>1. sched' = sched
    BY <1>5, OutsideFacts DEF AddNewDevices, Goes, Schedules
  <2>2. \A b \in Adders : adder[b] = "queue" => adder'[b] = "queue"
    BY <1>5, OutsideFacts DEF AddNewDevices, Goes
  <2> QED BY <1>0, <1>1, <2>1, <2>2, OutsideFacts, OutsideCalm
<1>6. CASE adder[a] = "queue"
  <2>1. sched'.devices
    BY <1>6, OutsideFacts DEF AddNewDevices, Goes, Schedules
  <2> QED BY <1>3, <2>1 DEF TInv, Queued, NoDeviceLost
<1> QED BY <1>4, <1>5, <1>6 DEF AddNewDevices, Goes

\* A removed entry has nothing to lose.
LEMMA KeepRemoval ==
  ASSUME TInv, Unpair \/ RemoveDevices
  PROVE  TInv'
<1>1. CASE Unpair
  <2>1. world' \in Worlds
    <3> DEFINE u == [world EXCEPT !.paired = FALSE]
    <3>1. u \in Worlds /\ u.unpairs = world.unpairs
      BY Zenon, OutsideFacts DEF Worlds
    <3>2. world.unpairs + 1 \in 0..MaxUnpairs
      BY <1>1, OutsideFacts, SchedulerAssumption DEF Unpair, Worlds
    <3>3. world' = [u EXCEPT !.unpairs = world.unpairs + 1]
      BY <1>1, OutsideFacts DEF Unpair, Worlds
    <3> HIDE DEF u
    <3> QED BY <3>1, <3>2, <3>3 DEF Worlds
  <2> QED BY <1>1, <2>1, OutsideFacts, OutsideCalm DEF Unpair, ServiceFrame
<1>2. CASE RemoveDevices
  <2>0. proc' = proc /\ UNCHANGED <<world, queue, claim, poller, adder>>
    BY <1>2 DEF RemoveDevices, ServiceFrame
  <2>1. service' \in Services /\ remover' \in {"idle", "untrack", "forget", "unmanage"}
    BY Zenon, <1>2, OutsideFacts DEF RemoveDevices, Services
  <2>2. CASE sched' = sched
    BY <2>0, <2>1, <2>2, OutsideFacts, OutsideCalm
  <2>3. CASE sched' = [sched EXCEPT !.managed = "absent", !.devices = FALSE]
    <3>1. sched' \in Schedules /\ sched'.managed = "absent"
      BY Zenon, <2>3, OutsideFacts DEF Schedules
    <3>2. TypeOK' /\ Polls'
      BY <2>0, <2>1, <3>1 DEF TInv, TypeOK, Polls
    <3> QED BY <3>1, <3>2 DEF TInv, Queued, NoDeviceLost
  <2> QED BY <1>2, <2>2, <2>3 DEF RemoveDevices, Unmanaged
<1> QED BY <1>1, <1>2

\* What is fetched is in the routine's hands; it sends it or puts it back.
LEMMA KeepGathering ==
  ASSUME TInv, gatherMetricsRoutine \/ GatherSends
  PROVE  TInv'
<1>0. proc' = proc /\ UNCHANGED <<world, adder, remover, service, claim, poller>>
  BY DEF gatherMetricsRoutine, GatherSends, RoutineFrame
<1>1. CASE gatherMetricsRoutine
  <2>1. queue' \in Queues /\ queue'.batch
    BY Zenon, <1>1, OutsideFacts DEF gatherMetricsRoutine, Queues
  <2>2. sched' \in Schedules /\ sched'.managed = "out"
    BY Zenon, <1>1, OutsideFacts DEF gatherMetricsRoutine, Fetched, Schedules
  <2>3. TypeOK' /\ Polls'
    BY <1>0, <2>1, <2>2 DEF TInv, TypeOK, Polls
  <2> QED BY <2>1, <2>2, <2>3 DEF TInv, Queued, NoDeviceLost, InHand
<1>2. CASE queue.tasks < Limit /\ queue' = [queue EXCEPT !.batch = FALSE, !.tasks = @ + 1] /\ sched' = sched
  <2> DEFINE u == [queue EXCEPT !.batch = FALSE]
  <2>1. u \in Queues /\ u.tasks = queue.tasks
    BY Zenon, OutsideFacts DEF Queues
  <2>2. queue.tasks + 1 \in 0..Limit /\ queue.tasks + 1 > 0
    BY <1>2, OutsideFacts, SchedulerAssumption DEF Queues
  <2>3. queue' = [u EXCEPT !.tasks = queue.tasks + 1]
    BY <1>2, OutsideFacts DEF Queues
  <2> HIDE DEF u
  <2>4. queue' \in Queues /\ queue'.tasks > 0
    BY <2>1, <2>2, <2>3 DEF Queues
  <2>5. TypeOK' /\ Polls'
    BY <1>0, <1>2, <2>4 DEF TInv, TypeOK, Polls
  <2>6. Queued' /\ NoDeviceLost'
    BY <1>0, <1>2, <2>4 DEF TInv, Queued, NoDeviceLost, InHand
  <2> QED BY <2>5, <2>6 DEF TInv
<1>3. CASE queue' = [queue EXCEPT !.batch = FALSE] /\ sched' = AddedAtOnce
  <2> DEFINE s == [sched EXCEPT !.failures = 0]
  <2>1. s \in Schedules /\ s.managed = sched.managed /\ s.devices = sched.devices
    BY OutsideFacts, FailuresOnly, SchedulerAssumption
  <2>2. sched' = addDevices(s)
    BY <1>3 DEF AddedAtOnce
  <2> HIDE DEF s
  <2>3. sched' \in Schedules
    BY <2>1, <2>2, AddDevicesEffect
  <2>4. queue' \in Queues
    BY Zenon, <1>3, OutsideFacts DEF Queues
  <2>5. TypeOK' /\ Polls'
    BY <1>0, <2>3, <2>4 DEF TInv, TypeOK, Polls
  <2>6. Queued' /\ NoDeviceLost'
    BY <1>0, <2>1, <2>2, PutBack
  <2> QED BY <2>5, <2>6 DEF TInv
<1> QED BY <1>1, <1>2, <1>3 DEF GatherSends

\* The status poller, its writer, the activation and the miner.
LEMMA KeepRoutines ==
  ASSUME TInv,
         statusPollingRoutine \/ PollerClaims \/ FlushStatus \/ FlushGivesUp \/ Start \/ Stop \/ MinerChanges
  PROVE  TInv'
<1>0. proc' = proc /\ sched' = sched /\ UNCHANGED <<adder, remover>>
  BY DEF statusPollingRoutine, PollerClaims, FlushStatus, FlushGivesUp, Start, Stop, MinerChanges, RoutineFrame
<1>1. world' \in Worlds
  BY OutsideFacts
  DEF statusPollingRoutine, PollerClaims, FlushStatus, FlushGivesUp, Start, Stop, MinerChanges, RoutineFrame, Worlds
<1>2. service' \in Services
  BY Zenon, OutsideFacts DEF statusPollingRoutine, PollerClaims, FlushStatus, FlushGivesUp, Start, Stop, MinerChanges, Services
<1>3. queue' \in Queues /\ queue'.batch = queue.batch /\ queue'.tasks = queue.tasks
  BY Zenon, OutsideFacts DEF statusPollingRoutine, PollerClaims, FlushStatus, FlushGivesUp, Start, Stop, MinerChanges, Queues
<1>4. claim' \in Claimants /\ poller' \in {"idle", "try", "won"}
  BY OutsideFacts
  DEF statusPollingRoutine, PollerClaims, FlushStatus, FlushGivesUp, Start, Stop, MinerChanges, Claimants
<1> QED BY <1>0, <1>1, <1>2, <1>3, <1>4, OutsideFacts, OutsideCalm

\* The tasks left when the activation ends go back to the scheduler.
LEMMA KeepFinish ==
  ASSUME TInv, finishActivation
  PROVE  TInv'
<1>0. proc' = proc /\ UNCHANGED <<service, adder, remover, poller>>
  BY DEF finishActivation
<1>1. world' \in Worlds
  BY OutsideFacts DEF finishActivation, Worlds
<1>2. queue' \in Queues /\ claim' \in Claimants
  BY OutsideFacts, SchedulerAssumption DEF finishActivation, Queues, Claimants
<1>3. CASE queue.tasks > 0
  <2> DEFINE s == [sched EXCEPT !.failures = 0]
  <2>1. s \in Schedules /\ s.managed = sched.managed /\ s.devices = sched.devices
    BY OutsideFacts, FailuresOnly, SchedulerAssumption
  <2>2. sched' = addDevices(s)
    BY <1>3 DEF finishActivation, AddedAtOnce
  <2> HIDE DEF s
  <2>3. sched' \in Schedules
    BY <2>1, <2>2, AddDevicesEffect
  <2>4. TypeOK' /\ Polls'
    BY <1>0, <1>1, <1>2, <2>3 DEF TInv, TypeOK, Polls, Claimants
  <2>5. Queued' /\ NoDeviceLost'
    BY <1>0, <2>1, <2>2, PutBack
  <2> QED BY <2>4, <2>5 DEF TInv
<1>4. CASE ~(queue.tasks > 0)
  <2>1. sched' = sched /\ ~queue.batch
    BY <1>4 DEF finishActivation
  <2>2. \A p \in Procs : Carries(p) => Carries(p)'
    BY <1>0 DEF Carries
  <2>3. Queued' /\ NoDeviceLost'
    BY <1>0, <1>4, <2>1, <2>2, Calm
  <2>4. TypeOK' /\ Polls'
    BY SMTT(30), <1>0, <1>1, <1>2, <2>1 DEF TInv, TypeOK, Polls, Claimants
  <2> QED BY <2>3, <2>4 DEF TInv
<1> QED BY <1>3, <1>4
-----------------------------------------------------------------------------
(* The theorems.                                                           *)

\* TInv is inductive.
LEMMA StepTInv == TInv /\ [Next]_vars => TInv'
<1> SUFFICES ASSUME TInv, [Next]_vars PROVE TInv'
  OBVIOUS
<1>1. CASE UNCHANGED vars
  BY <1>1, OutsideFacts, OutsideCalm DEF vars
<1>2. ASSUME NEW p \in Procs, Claims(p) \/ Works(p) PROVE TInv'
  BY <1>2, KeepClaims, KeepSkips, KeepFetches, KeepClearsFailures, KeepAdds, KeepReadsFailures, KeepWritesFailures,
     KeepEndings DEF Works
<1>3. ASSUME NEW w \in Workers, TakeTask(w) \/ TakeStatusTask(w) \/ WorkerStep(w) PROVE TInv'
  BY <1>3, KeepTakeTask, KeepTakeStatusTask, KeepAdmits, KeepFetchesStatus DEF WorkerStep
<1>4. ASSUME NEW a \in Adders, Adding(a) PROVE TInv'
  BY <1>4, KeepCallers, KeepAddNewDevices DEF Adding
<1> QED
  BY <1>1, <1>2, <1>3, <1>4, KeepRefreshDevice, KeepCallers, KeepRemoval, KeepGathering, KeepRoutines, KeepFinish
  DEF Next

\* The invariant holds of every behaviour of the scheduler and its callers.
THEOREM SchedulerInvariant == Spec => []TInv
BY InitTInv, StepTInv, PTL DEF Spec

\* The variables keep their types and the channel its capacity.
THEOREM SchedulerTypes == Spec => []TypeOK
<1>1. TInv => TypeOK
  BY DEF TInv
<1> QED BY <1>1, SchedulerInvariant, PTL

\* A managed device is in the queue, in someone's hands, or failed: claims,
\* shutdowns, failure counts and removals never lose it.
THEOREM SchedulerLosesNothing == Spec => []NoDeviceLost
<1>1. TInv => NoDeviceLost
  BY DEF TInv
<1> QED BY <1>1, SchedulerInvariant, PTL
=============================================================================
