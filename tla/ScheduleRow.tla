---------------------------- MODULE ScheduleRow -----------------------------
(***************************************************************************)
(* The schedule table and what users and time do to it.  A schedule is     *)
(* recurring, or runs once; a window schedule sets a power target and      *)
(* stays running until its end time, when the target is reverted.          *)
(***************************************************************************)
EXTENDS Naturals

CONSTANTS
  Schedules,
  MaxEdits,    \* bound: timings a schedule has had
  MaxUserOps   \* bound: pauses, edits and deletions

ASSUME ScheduleAssumption ==
  MaxEdits \in Nat \ {0} /\ MaxUserOps \in Nat

VARIABLES
  row,      \* once (it runs once), window (it has a power target and an end time), status,
            \* last (last_run_at: none, or whether its window is open or over), timing
  over,     \* timings with no run left: the one time, or the end date, has passed
  userOps

rowVars == <<row, over, userOps>>

Statuses == {"active", "running", "paused", "completed", "deleted"}
RowTypeOK ==
  /\ row \in [Schedules -> [once : BOOLEAN, window : BOOLEAN, status : Statuses,
                          last : {"none", "open", "over"}, timing : 1..MaxEdits]]
  /\ over \in [Schedules -> SUBSET (1..MaxEdits)]
  /\ userOps \in 0..MaxUserOps

RowInit ==
  /\ row \in [Schedules -> [once : BOOLEAN, window : BOOLEAN, status : {"active"},
                          last : {"none"}, timing : {1}]]
  /\ over = [s \in Schedules |-> {}]
  /\ userOps = 0

OneTime == {s \in Schedules : row[s].once}
Window == {s \in Schedules : row[s].window}
Active == {s \in Schedules : row[s].status \in {"active", "running"}}
\* ComputeNextRun finds no run.
NoNextRun(s) == row[s].timing \in over[s]
-----------------------------------------------------------------------------
(* What the processor's queries do to a row.                               *)

SetScheduleRunning(s) == row' = [row EXCEPT ![s].status = "running"]

RevertScheduleToActive(s) ==
  row' = [row EXCEPT ![s].status = IF @ = "running" THEN "active" ELSE @]

\* Faulty variant: the update does not look at the status.
UpdateAnyRow(s, status, last) == row' = [row EXCEPT ![s].status = status, ![s].last = last]

UpdateScheduleAfterRun(s, status, last) ==
  row' = IF s \in Active THEN [row EXCEPT ![s].status = status, ![s].last = last] ELSE row
-----------------------------------------------------------------------------
(* Users and time.                                                         *)

UserOp == userOps < MaxUserOps /\ userOps' = userOps + 1

PauseSchedule(s) ==
  /\ UserOp /\ s \in Active
  /\ row' = [row EXCEPT ![s].status = "paused"]
  /\ UNCHANGED over

ResumeSchedule(s) ==
  /\ row[s].status = "paused"
  /\ row' = [row EXCEPT ![s].status = IF NoNextRun(s) THEN "completed" ELSE "active"]
  /\ UNCHANGED <<over, userOps>>

\* UpdateSchedule with a new timing, which must have a future run.
UpdateSchedule(s) ==
  /\ UserOp /\ row[s].status \notin {"running", "deleted"} /\ row[s].timing < MaxEdits
  /\ row' = [row EXCEPT ![s].timing = @ + 1,
                        ![s].status = IF @ = "completed" THEN "active" ELSE @]
  /\ UNCHANGED over

DeleteSchedule(s) ==
  /\ UserOp /\ row[s].status # "deleted"
  /\ row' = [row EXCEPT ![s].status = "deleted"]
  /\ UNCHANGED over

\* The time of a schedule that runs once passes, or the end date of a recurring one.
TimePasses(s) ==
  /\ \E t \in 1..row[s].timing : t \notin over[s] /\ over' = [over EXCEPT ![s] = @ \cup {t}]
  /\ UNCHANGED <<row, userOps>>

\* The end time of the window that the last run opened passes.
WindowEnds(s) ==
  /\ row[s].last = "open" /\ row' = [row EXCEPT ![s].last = "over"]
  /\ UNCHANGED <<over, userOps>>

User(s) == PauseSchedule(s) \/ ResumeSchedule(s) \/ UpdateSchedule(s) \/ DeleteSchedule(s)
=============================================================================
