----------------------------- MODULE QuotaGuard ------------------------------
(***************************************************************************)
(* buildkit-wrapper runs BuildKit under a scratch quota (guard.go,         *)
(* quota.go). RunQuotaGuard starts a monitor process, waits for the file   *)
(* that proves it has measured the root once, and only then starts the     *)
(* guarded process; without a monitor command it measures by itself. The   *)
(* root outlives the container, so an earlier run's proof may be in it.    *)
(***************************************************************************)
EXTENDS Naturals

CONSTANT MaxGuardFaults   \* bound: failures of a behaviour

ASSUME GuardAssumption == MaxGuardFaults \in Nat

VARIABLES
  gmode,      \* "external": MonitorCommand is set; "internal": it is not
  gpc,        \* step of the guard
  gmon,       \* the monitor: process or goroutine
  gproc,      \* the guarded process
  gready,     \* the readiness proof is in the root
  gmeasured,  \* this run's monitor has measured the root
  gover,      \* the root is over its quota
  gdone,      \* the wrapper was told to stop
  gfaults

guardVars == <<gmode, gpc, gmon, gproc, gready, gmeasured, gover, gdone, gfaults>>

GuardInit ==
  /\ gmode \in {"external", "internal"} /\ gready \in BOOLEAN
  /\ gpc = "prepare" /\ gmon = "off" /\ gproc = "off"
  /\ gmeasured = FALSE /\ gover = gready /\ gdone = FALSE /\ gfaults = 0

GuardFault == gfaults < MaxGuardFaults /\ gfaults' = gfaults + 1

\* Mutant: what an earlier run left in the root stays.
PrepareRootKept ==
  /\ gpc = "prepare"
  /\ IF gmode = "external" THEN gpc' = "wait" /\ gmon' = "clear" /\ UNCHANGED gproc
     ELSE gpc' = "supervise" /\ gmon' = "measure" /\ gproc' = "running"
  /\ UNCHANGED <<gmode, gready, gover, gmeasured, gdone, gfaults>>

\* emptyGuardRoot and prepareGuardDirectories; then the monitor is started,
\* or the process with a goroutine that measures.
PrepareRoot ==
  /\ gpc = "prepare"
  /\ gready' = FALSE /\ gover' = FALSE
  /\ IF gmode = "external" THEN gpc' = "wait" /\ gmon' = "clear" /\ UNCHANGED gproc
     ELSE gpc' = "supervise" /\ gmon' = "measure" /\ gproc' = "running"
  /\ UNCHANGED <<gmode, gmeasured, gdone, gfaults>>

\* The directory or a process cannot be prepared.
PrepareRootFails ==
  /\ gpc = "prepare" /\ GuardFault
  /\ gpc' = "returned"
  /\ UNCHANGED <<gmode, gmon, gproc, gready, gmeasured, gover, gdone>>

\* RunScratchQuotaMonitor: a stale proof is removed first.
ClearReady ==
  /\ gmon = "clear"
  /\ gready' = FALSE /\ gmon' = "measure"
  /\ UNCHANGED <<gmode, gpc, gproc, gmeasured, gover, gdone, gfaults>>

\* One measurement: over the limit, or not measurable in five attempts, ends
\* the monitor. The first one that is neither publishes the proof.
MeasureScratch ==
  /\ gmon \in {"measure", "poll"}
  /\ \/ /\ ~ gover /\ gmon' = "poll" /\ gmeasured' = TRUE /\ UNCHANGED gfaults
        /\ gready' = IF gmode = "external" /\ gmon = "measure" THEN TRUE ELSE gready
     \/ gover /\ gmon' = "exited" /\ UNCHANGED <<gready, gmeasured, gfaults>>
     \/ ~ gover /\ gmon' = "exited" /\ GuardFault /\ UNCHANGED <<gready, gmeasured>>
  /\ UNCHANGED <<gmode, gpc, gproc, gover, gdone>>

\* waitForGuardMonitor, and what follows a good proof: it is removed and the
\* guarded process starts.
WaitForMonitor ==
  /\ gpc = "wait" /\ gready
  /\ gready' = FALSE /\ gpc' = "supervise" /\ gproc' = "running"
  /\ UNCHANGED <<gmode, gmon, gmeasured, gover, gdone, gfaults>>

\* The monitor ended before it was ready, the wrapper is stopped, thirty
\* seconds have passed, or the process did not start.
WaitFails ==
  /\ gpc = "wait"
  /\ \/ gmon = "exited" /\ gpc' = "returned" /\ UNCHANGED gfaults
     \/ gmon # "exited" /\ gdone /\ gpc' = "stop monitor" /\ UNCHANGED gfaults
     \/ gmon # "exited" /\ ~ gdone /\ GuardFault /\ gpc' = "stop monitor"
  /\ UNCHANGED <<gmode, gmon, gproc, gready, gmeasured, gover, gdone>>

\* The select over both processes and the context.
Supervise ==
  /\ gpc = "supervise"
  /\ \/ gproc = "exited" /\ gpc' = "stop monitor"
     \/ gmon = "exited" /\ gpc' = "stop process"
     \/ gdone /\ gpc' = "stop process"
  /\ UNCHANGED <<gmode, gmon, gproc, gready, gmeasured, gover, gdone, gfaults>>

\* Mutant: a process that ignores the signal is waited for.
StopProcessPolitely ==
  /\ gpc = "stop process" /\ gproc = "exited"
  /\ gpc' = IF gmon = "exited" THEN "returned" ELSE "stop monitor"
  /\ UNCHANGED <<gmode, gmon, gproc, gready, gmeasured, gover, gdone, gfaults>>

\* stopGuardProcess: terminate, a grace period, kill.
StopProcess ==
  /\ gpc = "stop process"
  /\ gproc' = "exited"
  /\ gpc' = IF gmon = "exited" THEN "returned" ELSE "stop monitor"
  /\ UNCHANGED <<gmode, gmon, gready, gmeasured, gover, gdone, gfaults>>

StopMonitorProcess ==
  /\ gpc = "stop monitor"
  /\ gmon' = "exited" /\ gpc' = "returned"
  /\ UNCHANGED <<gmode, gproc, gready, gmeasured, gover, gdone, gfaults>>

\* The guarded process writes, removes what it wrote, or ends; a signal
\* reaches the wrapper.
ProcessWrites ==
  /\ gproc = "running" /\ ~ gover
  /\ gover' = TRUE
  /\ UNCHANGED <<gmode, gpc, gmon, gproc, gready, gmeasured, gdone, gfaults>>

ProcessFrees ==
  /\ gproc = "running" /\ gover
  /\ gover' = FALSE
  /\ UNCHANGED <<gmode, gpc, gmon, gproc, gready, gmeasured, gdone, gfaults>>

ProcessExits ==
  /\ gproc = "running"
  /\ gproc' = "exited"
  /\ UNCHANGED <<gmode, gpc, gmon, gready, gmeasured, gover, gdone, gfaults>>

WrapperSignaled ==
  /\ ~ gdone
  /\ gdone' = TRUE
  /\ UNCHANGED <<gmode, gpc, gmon, gproc, gready, gmeasured, gover, gfaults>>

GuardStep == PrepareRoot \/ WaitForMonitor \/ WaitFails \/ Supervise \/ StopProcess \/ StopMonitorProcess
MonitorStep == ClearReady \/ MeasureScratch
GuardNext ==
  \/ GuardStep \/ MonitorStep \/ PrepareRootFails
  \/ ProcessWrites \/ ProcessFrees \/ ProcessExits \/ WrapperSignaled

GuardSpec == GuardInit /\ [][GuardNext]_guardVars

-----------------------------------------------------------------------------
\* An externally monitored process never runs before this run's monitor has
\* measured the root, whatever proof an earlier run left behind; and a guard
\* that has returned leaves neither process behind.
GuardedRun ==
  /\ gmode = "external" /\ gproc = "running" => gmeasured
  /\ gpc = "returned" => gproc # "running" /\ gmon \in {"off", "exited"}

\* The monitor samples on a ticker and keeps no maximum, so a process that
\* frees what it wrote between two samples may run on. A process that stays
\* over its quota is stopped, even if it ignores signals and never ends by
\* itself; and once a sample has ended the monitor, freeing comes too late.
OverQuotaStops ==
  /\ ~ <>[](gproc = "running" /\ gover)
  /\ (gproc = "running" /\ gmon = "exited") ~> gproc # "running"
=============================================================================
