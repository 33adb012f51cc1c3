---------------------------- MODULE CommandLedger ----------------------------
(***************************************************************************)
(* What the command component promises to those who dispatch commands and  *)
(* to those who read their outcome: a batch is submitted as a whole or not *)
(* at all; each of its commands is decided once, together with its device  *)
(* log; a batch is closed when all its commands are decided, or when none  *)
(* was submitted, and then nothing is submitted any more.                  *)
(***************************************************************************)
CONSTANTS Commands, Batches   \* a command is a pair <<batch, device>>

VARIABLES
  status,   \* [Commands -> "none", "queued", or the outcome]
  log,      \* [Commands -> "none" or the outcome in the device log]
  closed    \* the batches that are FINISHED

vars == <<status, log, closed>>

Outcomes == {"SUCCESS", "FAILED"}
Of(b) == {c \in Commands : c[1] = b}
Decided(b) == \A c \in Of(b) : status[c] \in Outcomes
Unsubmitted(b) == \A c \in Of(b) : status[c] = "none"

Init ==
  /\ status = [c \in Commands |-> "none"]
  /\ log = [c \in Commands |-> "none"]
  /\ closed = {}

Submit(b) ==
  /\ b \notin closed /\ Unsubmitted(b)
  /\ status' = [c \in Commands |-> IF c \in Of(b) THEN "queued" ELSE status[c]]
  /\ UNCHANGED <<log, closed>>

\* The commands D are decided and logged in one step.
Decide(D) ==
  /\ \A c \in D : status[c] = "queued" /\ status'[c] \in Outcomes
  /\ status' = [c \in Commands |-> IF c \in D THEN status'[c] ELSE status[c]]
  /\ log' = [c \in Commands |-> IF c \in D THEN status'[c] ELSE log[c]]
  /\ UNCHANGED closed

Close(B) ==
  /\ \A b \in B : Decided(b) \/ Unsubmitted(b)
  /\ closed' = closed \cup B
  /\ UNCHANGED <<status, log>>

Next ==
  \/ \E b \in Batches : Submit(b)
  \/ \E D \in SUBSET Commands : Decide(D)
  \/ \E B \in SUBSET Batches : Close(B)

Spec == Init /\ [][Next]_vars
=============================================================================
