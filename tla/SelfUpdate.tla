----------------------------- MODULE SelfUpdate -----------------------------
(***************************************************************************)
(* The updater replaces its own executable.  The daemon installs the       *)
(* candidate of a release it has activated and execs it; with HA, a repair *)
(* that runs before the HA services start brings the executable in line    *)
(* with the installed deployment.  The executable that is replaced is kept *)
(* as a backup, and a handoff marker says that the new one has not proved  *)
(* itself by becoming ready.                                               *)
(***************************************************************************)
EXTENDS Naturals

CONSTANTS
  Releases,    \* updater executables; 1 is installed first
  Good,        \* those that can become ready
  MaxFaults,   \* bound: failing links, renames, unlinks and syncs
  MaxCrashes,  \* bound: losses of a process, and intentional stops
  MaxRepairs   \* bound: starts of the HA services

ASSUME ReleasesAssumption ==
  /\ Releases \subseteq Nat \ {0} /\ 1 \in Good /\ Good \subseteq Releases
  /\ MaxFaults \in Nat /\ MaxCrashes \in Nat /\ MaxRepairs \in Nat

VARIABLES
  ha,
  dest, backup,  \* the supervised executable and its hard-linked predecessor; 0: none
  mark,          \* the handoff marker: none, first, retry (Retry) or retried (Retried)
  installed,     \* the updater in the installed deployment
  running,       \* the executable the daemon process runs
  arg,           \* the daemon was exec'ed with the handoff argument
  active,        \* SelfUpdateStartup.active
  pc, who,       \* where the process, a daemon or a repair, is
  after,         \* where a rollback of its leads
  proven,        \* history: executables that have become ready
  tries,         \* history: startups of the executable last installed
  faults, crashes, repairs

vars == <<ha, dest, backup, mark, installed, running, arg, active, pc, who, after, proven,
          tries, faults, crashes, repairs>>
exe == <<dest, backup, mark>>
counters == <<faults, crashes, repairs>>

Steps == {"off", "restore", "clear", "unlink", "link", "mark", "swap", "authorize",
          "converge", "init", "ready", "queued"}
TypeOK ==
  /\ ha \in BOOLEAN /\ arg \in BOOLEAN /\ active \in BOOLEAN
  /\ {dest, backup, running} \subseteq Releases \cup {0} /\ installed \in Releases
  /\ mark \in {"none", "first", "retry", "retried"}
  /\ pc \in Steps /\ after \in Steps /\ who \in {"daemon", "repair"}
  /\ proven \subseteq Releases /\ tries \in Nat
  /\ faults \in 0..MaxFaults /\ crashes \in 0..MaxCrashes /\ repairs \in 0..MaxRepairs

Init ==
  /\ ha \in BOOLEAN
  /\ dest = 1 /\ backup = 0 /\ mark = "none" /\ installed = 1
  /\ running = 0 /\ arg = FALSE /\ active = FALSE
  /\ pc = "off" /\ after = "off" /\ who = "daemon"
  /\ proven = {1} /\ tries = 0
  /\ faults = 0 /\ crashes = 0 /\ repairs = 0

Goto(s) == pc' = s /\ active' = (active /\ s # "off") /\ UNCHANGED <<who, after>>
\* rollbackPendingSelfUpdate, and where its caller goes on.
Rollback(s) == pc' = "restore" /\ after' = s /\ UNCHANGED <<who, active>>

Fault == faults < MaxFaults /\ faults' = faults + 1
Works == UNCHANGED faults
-----------------------------------------------------------------------------
(* rollbackPendingSelfUpdate: restorePreviousExecutable, then the marker.  *)
(* An active startup restores without a marker too; without either, or     *)
(* without a backup, the rollback fails, and a repair with it.             *)

RollbackFrame == UNCHANGED <<ha, backup, installed, running, arg, proven, tries, crashes, repairs>>
Abandoned == IF who = "daemon" THEN after ELSE "off"

\* Faulty variant: the marker goes before the executable is back.
RestoreUnmarked ==
  /\ pc = "restore" /\ Works /\ mark' = "none" /\ UNCHANGED dest
  /\ Goto("clear") /\ RollbackFrame

RestoreExecutable ==
  /\ pc = "restore"
  /\ \/ /\ (mark # "none" \/ active) /\ backup # 0
        /\ \/ Works /\ dest' = backup /\ Goto(IF mark = "none" THEN after ELSE "clear")
           \/ Fault /\ dest' \in {dest, backup} /\ Goto(Abandoned)
     \/ /\ ~ ((mark # "none" \/ active) /\ backup # 0)
        /\ Works /\ UNCHANGED dest /\ Goto(Abandoned)
  /\ RollbackFrame /\ UNCHANGED mark

ClearHandoff ==
  /\ pc = "clear"
  /\ \/ Works /\ mark' = "none" /\ Goto(after)
     \/ Fault /\ mark' \in {mark, "none"} /\ Goto(Abandoned)
  /\ RollbackFrame /\ UNCHANGED dest
-----------------------------------------------------------------------------
(* installExecutableCandidate, by the daemon after an upgrade or by the    *)
(* repair.  A failure leaves the daemon serving and ends the repair.       *)

Failed == IF who = "daemon" THEN "ready" ELSE "off"
InstallFrame == UNCHANGED <<ha, installed, running, arg, proven, crashes, repairs>>

Unlink ==
  /\ pc = "unlink" /\ InstallFrame /\ UNCHANGED <<dest, mark, tries>>
  /\ \/ Works /\ backup' = 0 /\ Goto("link")
     \/ Fault /\ backup' \in {backup, 0} /\ Goto(Failed)

Link ==
  /\ pc = "link" /\ InstallFrame /\ UNCHANGED <<dest, mark, tries>>
  /\ \/ Works /\ backup' = dest /\ Goto("mark")
     \/ Fault /\ backup' \in {0, dest} /\ Goto(Failed)

\* Faulty variant: the candidate is installed without a marker.
MarkNothing ==
  /\ pc = "mark" /\ InstallFrame /\ UNCHANGED <<dest, tries>>
  /\ Works /\ Goto("swap") /\ UNCHANGED <<mark, backup>>

\* cleanupFailedSelfUpdatePreparation: a marker that is there already, or could
\* not be written.
CleanUp ==
  IF mark' # "none"
  THEN Rollback(Failed) /\ UNCHANGED backup
  ELSE backup' = 0 /\ Goto(Failed)

MarkHandoff ==
  /\ pc = "mark" /\ InstallFrame /\ UNCHANGED <<dest, tries>>
  /\ \/ /\ mark = "none" /\ backup = dest /\ Works
        /\ mark' = "first" /\ Goto("swap") /\ UNCHANGED backup
     \/ /\ \/ (mark # "none" \/ backup # dest) /\ Works /\ UNCHANGED mark
           \/ mark = "none" /\ Fault /\ mark' \in {"none", "first"}
        /\ CleanUp

Swap ==
  /\ pc = "swap" /\ InstallFrame /\ UNCHANGED <<backup, mark>>
  /\ \/ /\ Works /\ dest' = installed /\ tries' = 0
        /\ Goto(IF who = "daemon" THEN "queued" ELSE "authorize")
     \/ Fault /\ dest' \in {dest, installed} /\ Rollback(Failed) /\ UNCHANGED tries

\* authorizeSelfUpdateRestart.
Authorize ==
  /\ pc = "authorize" /\ Goto("off")
  /\ \/ Works /\ mark' = "retry"
     \/ Fault /\ mark' \in {mark, "retry"}
  /\ InstallFrame /\ UNCHANGED <<dest, backup, tries>>
-----------------------------------------------------------------------------
(* The daemon.                                                             *)

DaemonFrame == UNCHANGED <<ha, installed, repairs>>

\* A startup with the authority of the replacement.
Attempt == pc' = "init" /\ active' = TRUE /\ tries' = tries + 1 /\ UNCHANGED after

\* Faulty variant: Retry stays set beside Retried.
PrepareKeepingRetry ==
  /\ pc = "off" /\ Works /\ DaemonFrame /\ UNCHANGED <<dest, backup, proven, crashes>>
  /\ running' = dest /\ arg' = FALSE /\ who' = "daemon"
  /\ \/ mark = "none" /\ pc' = "init" /\ UNCHANGED <<mark, active, after, tries>>
     \/ mark # "none" /\ arg /\ Attempt /\ UNCHANGED mark
     \/ mark \in {"retry", "both"} /\ ~ arg /\ mark' = "both" /\ Attempt
     \/ /\ mark = "first" /\ ~ arg
        /\ pc' = "restore" /\ after' = "off" /\ UNCHANGED <<mark, active, tries>>

\* prepareSelfUpdateStartup: the first start of a replacement, which has the
\* argument; one that a repair authorized, once; or a restoration.
Prepare ==
  /\ pc = "off" /\ DaemonFrame /\ UNCHANGED <<dest, backup, proven, crashes>>
  /\ running' = dest /\ arg' = FALSE /\ who' = "daemon"
  /\ \/ /\ mark = "none" /\ Works
        /\ pc' = (IF arg THEN "off" ELSE "init") /\ UNCHANGED <<mark, active, after, tries>>
     \/ mark # "none" /\ arg /\ Works /\ Attempt /\ UNCHANGED mark
     \/ mark = "retry" /\ ~ arg /\ Works /\ mark' = "retried" /\ Attempt
     \/ /\ mark = "retry" /\ ~ arg /\ Fault /\ mark' \in {"retry", "retried"}
        /\ UNCHANGED <<pc, active, after, tries>>
     \/ /\ mark \in {"first", "retried"} /\ ~ arg /\ Works
        /\ pc' = "restore" /\ after' = "off" /\ UNCHANGED <<mark, active, tries>>

\* NewManager, RecoverApplication, Serve, and Commit once the socket is bound;
\* handleSelfUpdateStartupFailure.
StartupFailed == IF active THEN Rollback("off") ELSE Goto("off")
BecomeReady ==
  /\ pc = "init"
  /\ \/ /\ running \in Good /\ proven' = proven \cup {running}
        /\ \/ /\ Works /\ mark' = (IF active THEN "none" ELSE mark)
              /\ pc' = "ready" /\ active' = FALSE /\ UNCHANGED <<who, after>>
           \/ active /\ Fault /\ mark' \in {mark, "none"} /\ StartupFailed
     \/ Works /\ StartupFailed /\ UNCHANGED <<mark, proven>>
  /\ DaemonFrame /\ UNCHANGED <<dest, backup, running, arg, tries, crashes>>

\* An upgrade has activated a newer release, which brings its updater: it is
\* installed unless it fails its smoke test.
Upgrade(r) ==
  /\ pc = "ready" /\ r > installed /\ installed' = r
  /\ Goto("unlink") \/ Goto("ready")
  /\ UNCHANGED <<ha, exe, running, arg, proven, tries, counters>>

\* exec of the replacement; or a rollback, if that fails or a signal waits.
HandOff ==
  /\ pc = "queued"
  /\ \/ Goto("off") /\ arg' = TRUE /\ UNCHANGED crashes
     \/ Rollback("off") /\ crashes < MaxCrashes /\ crashes' = crashes + 1 /\ UNCHANGED arg
  /\ UNCHANGED <<ha, exe, installed, running, proven, tries, faults, repairs>>

\* The process is lost, or the daemon stops on a signal while it starts or serves.
Crash ==
  /\ pc # "off" \/ arg
  /\ crashes < MaxCrashes /\ crashes' = crashes + 1
  /\ Goto("off") /\ arg' = FALSE
  /\ UNCHANGED <<ha, exe, installed, running, proven, tries, faults, repairs>>
-----------------------------------------------------------------------------
(* RepairStartup, before the HA services start.  The daemon's unit is      *)
(* ordered after theirs, and a daemon that serves makes the repair return. *)

Repair ==
  /\ ha /\ pc = "off" /\ ~ arg /\ repairs < MaxRepairs /\ repairs' = repairs + 1
  /\ who' = "repair" /\ UNCHANGED active
  /\ \/ mark \in {"none", "retry"} /\ pc' = "converge" /\ UNCHANGED after
     \/ mark = "first" /\ pc' = "restore" /\ after' = "converge"
     \/ mark = "retried" /\ pc' = "restore" /\ after' = "off"
  /\ UNCHANGED <<ha, exe, installed, running, arg, proven, tries, faults, crashes>>

\* restoreUpdaterFromInstalledDeployment, unless the executable matches, or
\* newManager or the smoke test fails.
Converge ==
  /\ pc = "converge"
  /\ \/ dest # installed /\ Goto("unlink")
     \/ Goto("off")
  /\ UNCHANGED <<ha, exe, installed, running, arg, proven, tries, counters>>

Process ==
  \/ RestoreExecutable \/ ClearHandoff
  \/ Unlink \/ Link \/ MarkHandoff \/ Swap \/ Authorize
  \/ Prepare \/ BecomeReady \/ HandOff \/ Converge

Next == Process \/ Repair \/ Crash \/ \E r \in Releases : Upgrade(r)

\* systemd restarts the daemon, a process takes its next step, and a good
\* executable that is started over and over becomes ready.
Fairness == WF_vars(Process) /\ SF_vars(BecomeReady /\ pc' = "ready")

Spec == Init /\ [][Next]_vars
FairSpec == Spec /\ Fairness
-----------------------------------------------------------------------------
(* Properties.                                                             *)

\* "A durable sibling marker preserves that authority if this process is
\* interrupted": an executable that has never been ready is under a marker, and
\* what the marker would restore has been ready.  It takes two failing file
\* operations to lose that: one that leaves a replacement in place without its
\* exec, one that keeps it from being rolled back; the next upgrade then unlinks
\* the backup.
UnprovenIsMarked == faults <= 1 /\ dest \notin proven => mark # "none" /\ backup \in proven

\* The authority of a replacement is one-shot: between its installation and its
\* first readiness an executable is started with it at most once.
AttemptedOnce == dest \notin proven => tries <= 1

\* Whatever the release brings, the host ends up with an updater that serves,
\* unless two file operations fail: a crash between the unlink of the backup and
\* its link, under a marker that could not be removed, ends in refused starts.
ServesAgain == pc = "off" ~> (pc = "ready" \/ faults > 1)
=============================================================================
