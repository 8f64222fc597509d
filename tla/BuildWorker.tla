----------------------------- MODULE BuildWorker -----------------------------
(***************************************************************************)
(* BuildKitExecutor.Execute in a build cell: an attempt materializes its   *)
(* source, and for each output takes a lease on a directory cache, solves, *)
(* validates and commits the artifact, while a monitor measures its        *)
(* scratch. Deferred functions then settle the cache leases in reverse     *)
(* order, stop the monitor, scrub the scratch and decide the result.       *)
(*                                                                         *)
(* Attempts of different builds run side by side and share the caches,     *)
(* which are directories with a file lock: a cache is named by the output  *)
(* it serves (trust domain and policy are the same for all attempts here). *)
(* A record is named by the digest of what BuildKit exported.              *)
(***************************************************************************)
EXTENDS OCILayout

CONSTANTS
  Attempts,         \* executions, each of one attempt of a build
  BuildID,          \* the build of each attempt
  Declared,         \* names of its outputs, in the order they were declared
  WithSecrets,      \* attempts whose definition lock names secrets
  WithoutCaches,    \* attempts whose definition lock names no caches
  CacheExport,      \* digest -> the export that has it
  Overlaps,         \* bound: the attempts of one behaviour
  MaxWorkerFaults   \* bound: failures and crashes of a behaviour

ASSUME WorkerAssumption ==
  /\ DOMAIN BuildID = Attempts /\ DOMAIN Declared = Attempts
  /\ "none" \notin Attempts
  /\ \A a \in Attempts : Declared[a] \in Seq(Nat) /\ IsInjective(Declared[a])
  /\ WithSecrets \subseteq Attempts /\ WithoutCaches \subseteq Attempts
  /\ Overlaps \subseteq SUBSET Attempts
  /\ MaxWorkerFaults \in Nat

VARIABLES
  exec,         \* step of each execution
  at,           \* outputs it has finished
  cause,        \* why its context is done: "none", "canceled", "scratch_quota"
  verdict,      \* its result
  scratch,      \* attempts whose directory exists
  published,    \* <<attempt, output>> committed
  lockedBy,     \* cache -> attempt that holds its file lock, or "none"
  staging,      \* exports in a cache's staging directory: <<attempt, cache, digest>>
  records,      \* records in place: <<cache, digest>>
  metadata,     \* records with producer metadata
  current,      \* cache -> digest its pointer names, or "none"
  quarantined,  \* builds with a quarantine marker
  wfaults

workerVars == <<exec, at, cause, verdict, scratch, published, lockedBy, staging, records,
                metadata, current, quarantined, wfaults>>
cacheVars  == <<lockedBy, staging, records, metadata, current>>

Caches == UNION {Range(Declared[a]) : a \in Attempts}
Corrupt == {d \in DOMAIN CacheExport : ~ validateBuildKitCache(CacheExport[d])}

\* Mutant: the outputs keep the order of their declarations.
OutputsDeclared(a) == Declared[a]

\* Build IR has its outputs in lexical order, whatever order the program
\* declares them in; compiler, lock and assignment keep that order.
Outputs(a) ==
  CHOOSE s \in SetToSeqs(Range(Declared[a])) : \A i, j \in DOMAIN s : i < j => s[i] < s[j]

Output(a) == Outputs(a)[at[a] + 1]

WorkerInit ==
  /\ \E together \in Overlaps :
       exec = [a \in Attempts |-> IF a \in together THEN "idle" ELSE "absent"]
  /\ at = [a \in Attempts |-> 0]
  /\ cause = [a \in Attempts |-> "none"] /\ verdict = [a \in Attempts |-> "none"]
  /\ scratch = {} /\ published = {} /\ staging = {} /\ records = {} /\ metadata = {}
  /\ lockedBy = [c \in Caches |-> "none"] /\ current = [c \in Caches |-> "none"]
  /\ quarantined = {} /\ wfaults = 0

Working == {"source", "next", "acquire", "solve", "inspect", "commit"}
Live == Working \cup {"settle", "describe", "point", "clean"}

WorkerFault == wfaults < MaxWorkerFaults /\ wfaults' = wfaults + 1
To(a, step) == exec' = [exec EXCEPT ![a] = step]

\* An error is on its way through the deferred functions.
Unwind(a, outcome) == To(a, "settle") /\ verdict' = [verdict EXCEPT ![a] = outcome]

\* phaseForContext and classifySolveError: why a call ended early.
Outcome(a) == IF cause[a] = "none" THEN "failed" ELSE cause[a]

\* A call fails by itself, or because the context is done.
Interrupted(a) == IF cause[a] = "none" THEN WorkerFault ELSE UNCHANGED wfaults

-----------------------------------------------------------------------------
\* Validation of the request, then a fresh attempt directory. The controller
\* runs the attempts of a build one after the other.
Begin(a) ==
  /\ exec[a] = "idle"
  /\ \A b \in Attempts \ {a} : BuildID[b] = BuildID[a] =>
       exec[b] \in {"absent", "idle", "dead"} \/ (exec[b] = "done" /\ verdict[b] # "complete")
  /\ To(a, "source")
  /\ scratch' = scratch \cup {a}
  /\ UNCHANGED <<at, cause, verdict, published, cacheVars, quarantined, wfaults>>

\* ensureFreshDirectory fails: the cleanup runs, the monitor never started.
BeginFails(a) ==
  /\ exec[a] = "idle" /\ WorkerFault
  /\ To(a, "clean") /\ verdict' = [verdict EXCEPT ![a] = "failed"]
  /\ UNCHANGED <<at, cause, scratch, published, cacheVars, quarantined>>

\* monitorScratch: usage exceeds a limit, or cannot be measured five times in
\* a row. What it finds after the last check of Execute has no consequence.
BreachQuota(a) ==
  /\ exec[a] \in Working /\ cause[a] = "none" /\ WorkerFault
  /\ cause' = [cause EXCEPT ![a] = "scratch_quota"]
  /\ UNCHANGED <<exec, at, verdict, scratch, published, cacheVars, quarantined>>

\* The controller cancels the attempt or its deadline passes.
CancelAttempt(a) ==
  /\ exec[a] \in Working /\ cause[a] = "none" /\ WorkerFault
  /\ cause' = [cause EXCEPT ![a] = "canceled"]
  /\ UNCHANGED <<exec, at, verdict, scratch, published, cacheVars, quarantined>>

\* Materialize: download, verify and extract.
Materialize(a) ==
  /\ exec[a] = "source"
  /\ \/ To(a, "next") /\ UNCHANGED <<verdict, wfaults>>
     \/ Interrupted(a) /\ Unwind(a, Outcome(a))
  /\ UNCHANGED <<at, cause, scratch, published, cacheVars, quarantined>>

\* Mutant: the quota is not looked at once the last output is committed.
NextOutputUnchecked(a) ==
  /\ exec[a] = "next"
  /\ IF at[a] = Len(Outputs(a)) THEN Unwind(a, "none")
     ELSE IF cause[a] # "none" THEN Unwind(a, cause[a])
     ELSE To(a, "acquire") /\ UNCHANGED verdict
  /\ UNCHANGED <<at, cause, scratch, published, cacheVars, quarantined, wfaults>>

\* The head of the loop, and what follows it: a cancellation that comes after
\* the last output does not undo the build, an exceeded quota does.
NextOutput(a) ==
  /\ exec[a] = "next"
  /\ IF at[a] = Len(Outputs(a))
     THEN Unwind(a, IF cause[a] = "scratch_quota" THEN "scratch_quota" ELSE "none")
     ELSE IF cause[a] # "none" THEN Unwind(a, cause[a])
     ELSE To(a, "acquire") /\ UNCHANGED verdict
  /\ UNCHANGED <<at, cause, scratch, published, cacheVars, quarantined, wfaults>>

\* readCurrent: the pointer names a record of this producer whose content
\* has its digest and is a cache.
readCurrent(c) ==
  current[c] # "none" => <<c, current[c]>> \in records \cap metadata /\ current[c] \notin Corrupt

\* Executions that get an empty lease: without caches there is nothing to
\* keep, and with secrets what BuildKit exports must not be kept.
Unleased == WithoutCaches \cup WithSecrets

\* Acquire: an empty lease, or the file lock, which is waited for as long as
\* the context lives. Whatever goes wrong here is reported as "cache_acquire".
AcquireCache(a) ==
  LET c == Output(a) IN
  /\ exec[a] = "acquire"
  /\ \/ /\ a \in Unleased
        /\ To(a, "solve") /\ UNCHANGED <<verdict, lockedBy, wfaults>>
     \/ /\ a \notin Unleased /\ lockedBy[c] = "none" /\ readCurrent(c)
        /\ lockedBy' = [lockedBy EXCEPT ![c] = a]
        /\ To(a, "solve") /\ UNCHANGED <<verdict, wfaults>>
     \/ /\ a \notin Unleased /\ (lockedBy[c] = "none" \/ cause[a] # "none")
        /\ IF readCurrent(c) THEN Interrupted(a) ELSE UNCHANGED wfaults
        /\ Unwind(a, "failed") /\ UNCHANGED lockedBy
  /\ UNCHANGED <<at, cause, scratch, published, staging, records, metadata, current, quarantined>>

\* Solve with its timeout, and streamStatuses until the channel closes.
Solve(a) ==
  LET c == Output(a) IN
  /\ exec[a] = "solve"
  /\ \/ /\ To(a, "inspect")
        /\ \/ lockedBy[c] # a /\ UNCHANGED <<staging, wfaults>>
           \/ \E d \in DOMAIN CacheExport :
                /\ lockedBy[c] = a /\ staging' = staging \cup {<<a, c, d>>}
                /\ IF d \in Corrupt THEN WorkerFault ELSE UNCHANGED wfaults
        /\ UNCHANGED verdict
     \/ Interrupted(a) /\ Unwind(a, Outcome(a)) /\ UNCHANGED staging
  /\ UNCHANGED <<at, cause, scratch, published, lockedBy, records, metadata, current, quarantined>>

\* exportedArtifactDigest and validateOCIArtifact.
InspectExport(a) ==
  /\ exec[a] = "inspect"
  /\ \/ To(a, "commit") /\ UNCHANGED <<verdict, wfaults>>
     \/ WorkerFault /\ Unwind(a, "failed")
  /\ UNCHANGED <<at, cause, scratch, published, cacheVars, quarantined>>

\* ArtifactCommitter.Commit, and the comparison of what it returns with the
\* export and the supply chain policy. An exceeded quota is reported as a
\* cancellation here.
CommitOutput(a) ==
  /\ exec[a] = "commit"
  /\ \/ /\ published' = published \cup {<<a, Output(a)>>}
        /\ at' = [at EXCEPT ![a] = @ + 1]
        /\ To(a, "next") /\ UNCHANGED <<verdict, wfaults>>
     \/ /\ published' \in {published, published \cup {<<a, Output(a)>>}}
        /\ Interrupted(a)
        /\ Unwind(a, IF cause[a] = "none" THEN "failed" ELSE "canceled")
        /\ UNCHANGED at
  /\ UNCHANGED <<cause, scratch, cacheVars, quarantined>>

-----------------------------------------------------------------------------
(* The deferred functions.                                                 *)

HeldBy(a) == {c \in Caches : lockedBy[c] = a}
Newest(a) == Max(HeldBy(a))
Succeeded(a, c) == \E i \in 1 .. at[a] : Outputs(a)[i] = c
Exported(a, c) == {d \in DOMAIN CacheExport : <<a, c, d>> \in staging}
Export(a, c) == CHOOSE d \in Exported(a, c) : TRUE
Unstaged(a, c) == {x \in staging : x[1] # a \/ x[2] # c}
Release(c) == lockedBy' = [lockedBy EXCEPT ![c] = "none"]

\* directoryCacheLease.Complete of the newest lease: an unsuccessful output's
\* export is removed, a bad one fails the build, a good one becomes a record
\* or is recognized as one.
SettleCache(a) ==
  LET c == Newest(a) IN
  /\ exec[a] = "settle" /\ HeldBy(a) # {}
  /\ \/ /\ ~ Succeeded(a, c)
        /\ Release(c) /\ UNCHANGED <<exec, verdict, records>>
     \/ /\ Succeeded(a, c) /\ Export(a, c) \in Corrupt
        /\ Release(c) /\ verdict' = [verdict EXCEPT ![a] = "failed"] /\ UNCHANGED <<exec, records>>
     \/ /\ Succeeded(a, c) /\ Export(a, c) \notin Corrupt
        /\ records' = records \cup {<<c, Export(a, c)>>}
        /\ To(a, "describe") /\ UNCHANGED <<lockedBy, verdict>>
  /\ staging' = IF exec'[a] = "describe" THEN staging ELSE Unstaged(a, c)
  /\ UNCHANGED <<at, cause, scratch, published, metadata, current, quarantined, wfaults>>

\* Mutant: the pointer is written before the metadata.
DescribeAfterPoint(a) ==
  /\ exec[a] = "describe"
  /\ current' = [current EXCEPT ![Newest(a)] = Export(a, Newest(a))]
  /\ To(a, "point")
  /\ UNCHANGED <<at, cause, verdict, scratch, published, lockedBy, staging, records, metadata, quarantined, wfaults>>

\* writeCacheMetadata and protectCommittedTree.
DescribeRecord(a) ==
  /\ exec[a] = "describe"
  /\ metadata' = metadata \cup {<<Newest(a), Export(a, Newest(a))>>}
  /\ To(a, "point")
  /\ UNCHANGED <<at, cause, verdict, scratch, published, lockedBy, staging, records, current, quarantined, wfaults>>

\* writeAtomicFile of the pointer; the lock is released last.
PointCurrent(a) ==
  LET c == Newest(a) IN
  /\ exec[a] = "point"
  /\ current' = [current EXCEPT ![c] = Export(a, c)]
  /\ staging' = Unstaged(a, c) /\ Release(c)
  /\ To(a, "settle")
  /\ UNCHANGED <<at, cause, verdict, scratch, published, records, metadata, quarantined, wfaults>>

\* A file operation of Complete fails: the build fails with "cache_commit".
\* The pointer may have been renamed already when its directory is synced.
SettleFails(a) ==
  LET c == Newest(a) IN
  /\ exec[a] \in {"settle", "describe", "point"} /\ HeldBy(a) # {} /\ WorkerFault
  /\ Release(c) /\ staging' \in {staging, Unstaged(a, c)}
  /\ Unwind(a, "failed")
  /\ current' = current \/ (exec[a] = "point" /\ current' = [current EXCEPT ![c] = Export(a, c)])
  /\ UNCHANGED <<at, cause, scratch, published, records, metadata, quarantined>>

\* Secrets are wiped and the monitor is stopped and waited for.
StopMonitor(a) ==
  /\ exec[a] = "settle" /\ HeldBy(a) = {}
  /\ To(a, "clean")
  /\ UNCHANGED <<at, cause, verdict, scratch, published, cacheVars, quarantined, wfaults>>

SameBuild(a) == {b \in Attempts : BuildID[b] = BuildID[a]}

\* The deferred cleanup of Execute: only a clean worker lets an execution
\* without error be complete.
Concluded(a, clean) ==
  CASE clean -> IF verdict[a] = "none" THEN "complete" ELSE verdict[a]
    [] ~ clean -> IF verdict[a] = "scratch_quota" THEN "scratch_quota" ELSE "failed"

\* ResidueCleaner.Cleanup: scrub and inspect the whole build. When either
\* fails the build is quarantined, which may fail as well. An execution that
\* would be complete fails if the digest of its events does.
Cleanup(a) ==
  /\ exec[a] = "clean" /\ To(a, "done")
  /\ \/ /\ scratch' = scratch \ SameBuild(a) /\ UNCHANGED quarantined
        /\ \/ verdict' = [verdict EXCEPT ![a] = Concluded(a, TRUE)] /\ UNCHANGED wfaults
           \/ verdict[a] = "none" /\ WorkerFault /\ verdict' = [verdict EXCEPT ![a] = "failed"]
     \/ /\ WorkerFault
        /\ scratch' \in {scratch, scratch \ SameBuild(a)}
        /\ quarantined' \in {quarantined, quarantined \cup {BuildID[a]}}
        /\ verdict' = [verdict EXCEPT ![a] = Concluded(a, FALSE)]
  /\ UNCHANGED <<at, cause, published, cacheVars>>

\* The cell dies: its file locks are gone, everything on disk stays.
CellCrash ==
  /\ WorkerFault /\ \E a \in Attempts : exec[a] \in Live
  /\ exec' = [a \in Attempts |-> IF exec[a] \in Live THEN "dead" ELSE exec[a]]
  /\ lockedBy' = [c \in Caches |-> "none"]
  /\ UNCHANGED <<at, cause, verdict, scratch, published, staging, records, metadata, current, quarantined>>

-----------------------------------------------------------------------------
ExecuteStep(a) ==
  \/ Materialize(a) \/ NextOutput(a) \/ AcquireCache(a) \/ Solve(a) \/ InspectExport(a) \/ CommitOutput(a)
  \/ SettleCache(a) \/ DescribeRecord(a) \/ PointCurrent(a) \/ StopMonitor(a) \/ Cleanup(a)

WorkerNext ==
  \/ \E a \in Attempts :
       \/ Begin(a) \/ BeginFails(a) \/ ExecuteStep(a) \/ SettleFails(a)
       \/ BreachQuota(a) \/ CancelAttempt(a)
  \/ CellCrash

WorkerSpec == WorkerInit /\ [][WorkerNext]_workerVars

-----------------------------------------------------------------------------
\* What a complete execution vouches for: every output is committed, the
\* quota was never found exceeded while it worked, nothing of the build is
\* left in the scratch, no cache is locked and nothing is staged.
CompleteIsProven ==
  \A a \in Attempts : verdict[a] = "complete" =>
    /\ \A i \in 1 .. Len(Outputs(a)) : <<a, Outputs(a)[i]>> \in published
    /\ cause[a] # "scratch_quota"
    /\ scratch \cap SameBuild(a) = {}
    /\ HeldBy(a) = {} /\ \A x \in staging : x[1] # a

\* Whenever the lock of a cache is free its pointer can be followed, also
\* after a crash between any two writes of Complete; and what it serves was
\* exported by an execution with a lease, so one without secrets, that
\* published its output.
CacheIsServable ==
  \A c \in Caches : lockedBy[c] = "none" /\ current[c] # "none" =>
    /\ readCurrent(c)
    /\ \E a \in Attempts \ Unleased : <<a, c>> \in published

\* Executions that hold leases while they wait for others never wait in a
\* circle: every execution returns or dies with its cell.
ExecutionsEnd ==
  \A a \in Attempts : []<>(exec[a] \notin Live)
=============================================================================
