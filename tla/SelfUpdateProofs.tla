-------------------------- MODULE SelfUpdateProofs --------------------------
(***************************************************************************)
(* Proofs about SelfUpdate: the authority of a replacement is used once,   *)
(* whatever fails, and an executable that has not proved itself is marked  *)
(* beside a backup that has, as long as no second file operation fails.    *)
(***************************************************************************)
EXTENDS SelfUpdate, TLAPS

-----------------------------------------------------------------------------
(* The authority of a replacement.                                         *)

\* The argument of exec goes with a first marker and an executable not yet
\* started; a marker a repair authorized, too, is of one not yet started.
Authority ==
  /\ tries \in {0, 1}
  /\ arg => pc = "off" /\ mark = "first" /\ tries = 0
  /\ pc \in {"swap", "queued", "authorize"} => mark = "first"
  /\ pc \in {"queued", "authorize"} => tries = 0
  /\ mark = "retry" => tries = 0
  /\ after \in {"off", "ready", "converge"}

-----------------------------------------------------------------------------
(* The executable and its backup, up to the second fault.                  *)

Unproven == dest \notin proven

Recoverable ==
  /\ Unproven => mark # "none" /\ backup \in proven /\ dest = installed
  /\ backup \in proven \cup {0}
  /\ pc \in {"unlink", "link", "mark", "swap", "clear", "ready"} => ~ Unproven
  /\ pc \in {"mark", "swap"} => backup = dest
  /\ pc = "init" => running = dest
  /\ pc = "restore" /\ after = "ready" /\ Unproven => faults = 1
  /\ pc = "restore" /\ after = "converge" => who = "repair"

UntilSecondFault == faults <= 1 => Recoverable
-----------------------------------------------------------------------------
(* The steps.                                                              *)

\* The conjuncts of TypeOK, apart.
Flags == ha \in BOOLEAN /\ arg \in BOOLEAN /\ active \in BOOLEAN
Files ==
  /\ dest \in Releases \cup {0} /\ backup \in Releases \cup {0} /\ running \in Releases \cup {0}
  /\ installed \in Releases /\ mark \in {"none", "first", "retry", "retried"}
Places == pc \in Steps /\ after \in Steps /\ who \in {"daemon", "repair"}
Counts ==
  /\ proven \subseteq Releases /\ tries \in Nat
  /\ faults \in 0..MaxFaults /\ crashes \in 0..MaxCrashes /\ repairs \in 0..MaxRepairs

\* Every step keeps the types.
LEMMA TypesStep ==
  ASSUME Flags, Files, Places, Counts, [Next]_vars
  PROVE  Flags' /\ Files' /\ Places' /\ Counts'
<1> USE ReleasesAssumption
<1>1. CASE RestoreExecutable
  <2>1. Flags'
    BY Zenon, <1>1 DEF RestoreExecutable, RollbackFrame, Abandoned, Goto, Works, Fault, Flags
  <2>2. Files'
    BY <1>1 DEF RestoreExecutable, RollbackFrame, Abandoned, Goto, Works, Fault, Files, Places
  <2>3. Places'
    BY <1>1 DEF RestoreExecutable, RollbackFrame, Abandoned, Goto, Works, Fault, Places, Steps
  <2>4. Counts'
    BY <1>1 DEF RestoreExecutable, RollbackFrame, Abandoned, Goto, Works, Fault, Counts, Places
  <2> QED
    BY Zenon, <2>1, <2>2, <2>3, <2>4
<1>2. CASE ClearHandoff
  <2>1. Flags'
    BY Zenon, <1>2 DEF ClearHandoff, RollbackFrame, Abandoned, Goto, Works, Fault, Flags
  <2>2. Files'
    BY <1>2 DEF ClearHandoff, RollbackFrame, Abandoned, Goto, Works, Fault, Files, Places
  <2>3. Places'
    BY <1>2 DEF ClearHandoff, RollbackFrame, Abandoned, Goto, Works, Fault, Places, Steps
  <2>4. Counts'
    BY <1>2 DEF ClearHandoff, RollbackFrame, Abandoned, Goto, Works, Fault, Counts, Places
  <2> QED
    BY Zenon, <2>1, <2>2, <2>3, <2>4
<1>3. CASE Unlink
  <2>1. Flags'
    BY Zenon, <1>3 DEF Unlink, InstallFrame, Failed, Goto, Works, Fault, Flags
  <2>2. Files'
    BY <1>3 DEF Unlink, InstallFrame, Failed, Goto, Works, Fault, Files, Places
  <2>3. Places'
    BY <1>3 DEF Unlink, InstallFrame, Failed, Goto, Works, Fault, Places, Steps
  <2>4. Counts'
    BY <1>3 DEF Unlink, InstallFrame, Failed, Goto, Works, Fault, Counts, Places
  <2> QED
    BY Zenon, <2>1, <2>2, <2>3, <2>4
<1>4. CASE Link
  <2>1. Flags'
    BY Zenon, <1>4 DEF Link, InstallFrame, Failed, Goto, Works, Fault, Flags
  <2>2. Files'
    BY <1>4 DEF Link, InstallFrame, Failed, Goto, Works, Fault, Files, Places
  <2>3. Places'
    BY <1>4 DEF Link, InstallFrame, Failed, Goto, Works, Fault, Places, Steps
  <2>4. Counts'
    BY <1>4 DEF Link, InstallFrame, Failed, Goto, Works, Fault, Counts, Places
  <2> QED
    BY Zenon, <2>1, <2>2, <2>3, <2>4
<1>5. CASE MarkHandoff
  <2>1. Flags'
    BY Zenon, <1>5 DEF MarkHandoff, InstallFrame, Failed, CleanUp, Rollback, Goto, Works, Fault, Flags
  <2>2. Files'
    BY <1>5 DEF MarkHandoff, InstallFrame, Failed, CleanUp, Rollback, Goto, Works, Fault, Files, Places
  <2>3. Places'
    BY <1>5 DEF MarkHandoff, InstallFrame, Failed, CleanUp, Rollback, Goto, Works, Fault, Places, Steps
  <2>4. Counts'
    BY <1>5 DEF MarkHandoff, InstallFrame, Failed, CleanUp, Rollback, Goto, Works, Fault, Counts, Places
  <2> QED
    BY Zenon, <2>1, <2>2, <2>3, <2>4
<1>6. CASE Swap
  <2>1. Flags'
    BY Zenon, <1>6 DEF Swap, InstallFrame, Failed, Rollback, Goto, Works, Fault, Flags
  <2>2. Files'
    BY <1>6 DEF Swap, InstallFrame, Failed, Rollback, Goto, Works, Fault, Files, Places
  <2>3. Places'
    BY <1>6 DEF Swap, InstallFrame, Failed, Rollback, Goto, Works, Fault, Places, Steps
  <2>4. Counts'
    BY <1>6 DEF Swap, InstallFrame, Failed, Rollback, Goto, Works, Fault, Counts, Places
  <2> QED
    BY Zenon, <2>1, <2>2, <2>3, <2>4
<1>7. CASE Authorize
  <2>1. Flags'
    BY Zenon, <1>7 DEF Authorize, InstallFrame, Goto, Works, Fault, Flags
  <2>2. Files'
    BY <1>7 DEF Authorize, InstallFrame, Goto, Works, Fault, Files, Places
  <2>3. Places'
    BY <1>7 DEF Authorize, InstallFrame, Goto, Works, Fault, Places, Steps
  <2>4. Counts'
    BY <1>7 DEF Authorize, InstallFrame, Goto, Works, Fault, Counts, Places
  <2> QED
    BY Zenon, <2>1, <2>2, <2>3, <2>4
<1>8. CASE Prepare
  <2>1. Flags'
    BY Zenon, <1>8 DEF Prepare, DaemonFrame, Attempt, Works, Fault, Flags
  <2>2. Files'
    BY <1>8 DEF Prepare, DaemonFrame, Attempt, Works, Fault, Files, Places
  <2>3. Places'
    BY <1>8 DEF Prepare, DaemonFrame, Attempt, Works, Fault, Places, Steps
  <2>4. Counts'
    BY <1>8 DEF Prepare, DaemonFrame, Attempt, Works, Fault, Counts, Places
  <2> QED
    BY Zenon, <2>1, <2>2, <2>3, <2>4
<1>9. CASE BecomeReady
  <2>1. Flags'
    BY Zenon, <1>9 DEF BecomeReady, DaemonFrame, StartupFailed, Rollback, Goto, Works, Fault, Flags
  <2>2. Files'
    BY <1>9 DEF BecomeReady, DaemonFrame, StartupFailed, Rollback, Goto, Works, Fault, Files, Places
  <2>3. Places'
    BY <1>9 DEF BecomeReady, DaemonFrame, StartupFailed, Rollback, Goto, Works, Fault, Places, Steps
  <2>4. Counts'
    <3>0. proven' = proven \/ (running \in Good /\ proven' = proven \cup {running})
      BY Zenon, <1>9 DEF BecomeReady
    <3>1. proven' \subseteq Releases
      <4>1. proven \subseteq Releases /\ Good \subseteq Releases
        BY DEF Counts
      <4>2. \A x \in proven' : x \in proven \/ (x = running /\ running \in Good)
        BY Zenon, <3>0
      <4> QED
        BY Zenon, <4>1, <4>2
    <3>2. faults' \in 0..MaxFaults
      BY <1>9 DEF BecomeReady, Works, Fault, Counts
    <3> QED
      BY <1>9, <3>1, <3>2 DEF BecomeReady, DaemonFrame, Counts
  <2> QED
    BY Zenon, <2>1, <2>2, <2>3, <2>4
<1>10. CASE HandOff
  <2>1. Flags'
    BY Zenon, <1>10 DEF HandOff, Rollback, Goto, exe, Flags
  <2>2. Files'
    BY <1>10 DEF HandOff, Rollback, Goto, exe, Files, Places
  <2>3. Places'
    BY <1>10 DEF HandOff, Rollback, Goto, exe, Places, Steps
  <2>4. Counts'
    BY <1>10 DEF HandOff, Rollback, Goto, exe, Counts, Places
  <2> QED
    BY Zenon, <2>1, <2>2, <2>3, <2>4
<1>11. CASE Converge
  <2>1. Flags'
    BY Zenon, <1>11 DEF Converge, Goto, exe, counters, Flags
  <2>2. Files'
    BY <1>11 DEF Converge, Goto, exe, counters, Files, Places
  <2>3. Places'
    BY <1>11 DEF Converge, Goto, exe, counters, Places, Steps
  <2>4. Counts'
    BY <1>11 DEF Converge, Goto, exe, counters, Counts, Places
  <2> QED
    BY Zenon, <2>1, <2>2, <2>3, <2>4
<1>12. CASE Repair
  <2>1. Flags'
    BY Zenon, <1>12 DEF Repair, exe, Flags
  <2>2. Files'
    BY <1>12 DEF Repair, exe, Files, Places
  <2>3. Places'
    BY <1>12 DEF Repair, exe, Places, Steps
  <2>4. Counts'
    BY <1>12 DEF Repair, exe, Counts, Places
  <2> QED
    BY Zenon, <2>1, <2>2, <2>3, <2>4
<1>13. CASE Crash
  <2>1. Flags'
    BY Zenon, <1>13 DEF Crash, Goto, exe, Flags
  <2>2. Files'
    BY <1>13 DEF Crash, Goto, exe, Files, Places
  <2>3. Places'
    BY <1>13 DEF Crash, Goto, exe, Places, Steps
  <2>4. Counts'
    BY <1>13 DEF Crash, Goto, exe, Counts, Places
  <2> QED
    BY Zenon, <2>1, <2>2, <2>3, <2>4
<1>14. ASSUME NEW r \in Releases, Upgrade(r) PROVE Flags' /\ Files' /\ Places' /\ Counts'
  <2>1. Flags'
    BY Zenon, <1>14 DEF Upgrade, Goto, exe, counters, Flags
  <2>2. Files'
    BY <1>14 DEF Upgrade, Goto, exe, counters, Files, Places
  <2>3. Places'
    BY <1>14 DEF Upgrade, Goto, exe, counters, Places, Steps
  <2>4. Counts'
    BY <1>14 DEF Upgrade, Goto, exe, counters, Counts, Places
  <2> QED
    BY Zenon, <2>1, <2>2, <2>3, <2>4
<1>15. CASE UNCHANGED vars
  <2>1. Flags'
    BY Zenon, <1>15 DEF vars, Flags
  <2>2. Files'
    BY <1>15 DEF vars, Files, Places
  <2>3. Places'
    BY <1>15 DEF vars, Places, Steps
  <2>4. Counts'
    BY <1>15 DEF vars, Counts, Places
  <2> QED
    BY Zenon, <2>1, <2>2, <2>3, <2>4
<1>q. QED
  BY <1>1, <1>2, <1>3, <1>4, <1>5, <1>6, <1>7, <1>8, <1>9, <1>10, <1>11, <1>12, <1>13, <1>14, <1>15 DEF Next, Process

\* Every step keeps the authority one-shot: only Swap starts a new count.
LEMMA AuthorityStep ==
  ASSUME Authority, [Next]_vars
  PROVE  Authority'
<1>1. CASE RestoreExecutable
  BY <1>1 DEF RestoreExecutable, RollbackFrame, Abandoned, Goto, Works, Fault, Authority
<1>2. CASE ClearHandoff
  BY <1>2 DEF ClearHandoff, RollbackFrame, Abandoned, Goto, Works, Fault, Authority
<1>3. CASE Unlink
  BY <1>3 DEF Unlink, InstallFrame, Failed, Goto, Works, Fault, Authority
<1>4. CASE Link
  BY <1>4 DEF Link, InstallFrame, Failed, Goto, Works, Fault, Authority
<1>5. CASE MarkHandoff
  BY <1>5 DEF MarkHandoff, InstallFrame, Failed, CleanUp, Rollback, Goto, Works, Fault, Authority
<1>6. CASE Swap
  BY <1>6 DEF Swap, InstallFrame, Failed, Rollback, Goto, Works, Fault, Authority
<1>7. CASE Authorize
  BY <1>7 DEF Authorize, InstallFrame, Goto, Works, Fault, Authority
<1>8. CASE Prepare
  BY <1>8 DEF Prepare, DaemonFrame, Attempt, Works, Fault, Authority
<1>9. CASE BecomeReady
  BY <1>9 DEF BecomeReady, DaemonFrame, StartupFailed, Rollback, Goto, Works, Fault, Authority
<1>10. CASE HandOff
  BY <1>10 DEF HandOff, Rollback, Goto, exe, Authority
<1>11. CASE Converge
  BY <1>11 DEF Converge, Goto, exe, counters, Authority
<1>12. CASE Repair
  BY <1>12 DEF Repair, exe, Authority
<1>13. CASE Crash
  BY <1>13 DEF Crash, Goto, exe, Authority
<1>14. ASSUME NEW r \in Releases, Upgrade(r) PROVE Authority'
  BY <1>14 DEF Upgrade, Goto, exe, counters, Authority
<1>15. CASE UNCHANGED vars
  BY <1>15 DEF vars, Authority
<1>q. QED
  BY <1>1, <1>2, <1>3, <1>4, <1>5, <1>6, <1>7, <1>8, <1>9, <1>10, <1>11, <1>12, <1>13, <1>14, <1>15 DEF Next, Process

\* Every step up to the second fault leaves the host recoverable.
LEMMA RecoverableStep ==
  ASSUME Files, Places, Counts, Authority, UntilSecondFault, [Next]_vars
  PROVE  UntilSecondFault'
<1> USE ReleasesAssumption
<1>1. CASE RestoreExecutable
  BY <1>1 DEF Authority, RestoreExecutable, RollbackFrame, Abandoned, Goto, Works, Fault, UntilSecondFault, Recoverable, Unproven, Files, Counts
<1>2. CASE ClearHandoff
  BY <1>2 DEF Authority, ClearHandoff, RollbackFrame, Abandoned, Goto, Works, Fault, UntilSecondFault, Recoverable, Unproven, Files, Counts
<1>3. CASE Unlink
  BY <1>3 DEF Unlink, InstallFrame, Failed, Goto, Works, Fault, UntilSecondFault, Recoverable, Unproven, Files, Counts
<1>4. CASE Link
  BY <1>4 DEF Link, InstallFrame, Failed, Goto, Works, Fault, UntilSecondFault, Recoverable, Unproven, Files, Counts
<1>5. CASE MarkHandoff
  BY <1>5 DEF MarkHandoff, InstallFrame, Failed, CleanUp, Rollback, Goto, Works, Fault, UntilSecondFault, Recoverable, Unproven, Files, Counts
<1>6. CASE Swap
  BY <1>6 DEF Swap, InstallFrame, Failed, Rollback, Goto, Works, Fault, Authority, UntilSecondFault, Recoverable, Unproven, Files, Counts
<1>7. CASE Authorize
  BY <1>7 DEF Authorize, InstallFrame, Goto, Works, Fault, UntilSecondFault, Recoverable, Unproven, Files, Counts
<1>8. CASE Prepare
  BY <1>8 DEF Prepare, DaemonFrame, Attempt, Works, Fault, UntilSecondFault, Recoverable, Unproven, Files, Counts
<1>9. CASE BecomeReady
  BY <1>9 DEF BecomeReady, DaemonFrame, StartupFailed, Rollback, Goto, Works, Fault, UntilSecondFault, Recoverable, Unproven, Files, Counts
<1>10. CASE HandOff
  BY <1>10 DEF HandOff, Rollback, Goto, exe, UntilSecondFault, Recoverable, Unproven, Files, Counts
<1>11. CASE Converge
  BY <1>11 DEF Converge, Goto, exe, counters, UntilSecondFault, Recoverable, Unproven, Files, Counts
<1>12. CASE Repair
  BY <1>12 DEF Repair, exe, UntilSecondFault, Recoverable, Unproven, Files, Counts
<1>13. CASE Crash
  BY <1>13 DEF Crash, Goto, exe, UntilSecondFault, Recoverable, Unproven, Files, Counts
<1>14. ASSUME NEW r \in Releases, Upgrade(r) PROVE UntilSecondFault'
  BY <1>14 DEF Upgrade, Goto, exe, counters, UntilSecondFault, Recoverable, Unproven, Files, Counts
<1>15. CASE UNCHANGED vars
  BY <1>15 DEF vars, UntilSecondFault, Recoverable, Unproven, Files, Counts
<1>q. QED
  BY <1>1, <1>2, <1>3, <1>4, <1>5, <1>6, <1>7, <1>8, <1>9, <1>10, <1>11, <1>12, <1>13, <1>14, <1>15 DEF Next, Process
-----------------------------------------------------------------------------
(* The theorems.                                                           *)

\* What holds of every state: the types, the authority and, up to the second
\* fault, the recovery.
SInv == Flags /\ Files /\ Places /\ Counts /\ Authority /\ UntilSecondFault

\* Every behaviour of the handoff, with any releases and any number of faults,
\* crashes and repairs, keeps SInv.
THEOREM HandoffInvariant == Spec => []SInv
<1>1. Init => SInv
  <2> SUFFICES ASSUME Init PROVE SInv
    OBVIOUS
  <2> USE ReleasesAssumption
  <2>1. Flags
    BY Zenon DEF Init, Flags
  <2>2. Files /\ Places
    BY DEF Init, Files, Places, Steps
  <2>3. Counts
    BY DEF Init, Counts
  <2>4. Authority /\ UntilSecondFault
    BY DEF Init, Authority, UntilSecondFault, Recoverable, Unproven
  <2> QED
    BY Zenon, <2>1, <2>2, <2>3, <2>4 DEF SInv
<1>2. SInv /\ [Next]_vars => SInv'
  BY Zenon, TypesStep, AuthorityStep, RecoverableStep DEF SInv
<1> QED
  BY <1>1, <1>2, PTL DEF Spec

\* The state of the handoff has its types.
THEOREM HandoffTypes == Spec => []TypeOK
<1>1. SInv => TypeOK
  <2> SUFFICES ASSUME SInv PROVE TypeOK
    OBVIOUS
  <2>1. {dest, backup, running} \subseteq Releases \cup {0} /\ installed \in Releases
    BY DEF SInv, Files
  <2> QED
    BY Zenon, <2>1 DEF SInv, Flags, Files, Places, Counts, TypeOK
<1> QED
  BY <1>1, HandoffInvariant, PTL

\* prepareSelfUpdateStartup gives the authority of a replacement to one startup:
\* AttemptedOnce, whatever fails and however often a process is lost.
THEOREM AuthorityIsOneShot == Spec => []AttemptedOnce
<1>1. SInv => AttemptedOnce
  BY DEF SInv, Authority, AttemptedOnce
<1> QED
  BY <1>1, HandoffInvariant, PTL

\* Until a second file operation fails, an executable that has not been ready is
\* under a marker beside a backup that has been: UnprovenIsMarked.
THEOREM UnprovenIsRecoverable == Spec => []UnprovenIsMarked
<1>1. SInv => UnprovenIsMarked
  BY DEF SInv, UntilSecondFault, Recoverable, Unproven, UnprovenIsMarked
<1> QED
  BY <1>1, HandoffInvariant, PTL
=============================================================================
