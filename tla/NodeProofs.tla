------------------------------ MODULE NodeProofs -----------------------------
(***************************************************************************)
(* Theorems about what runs on a worker's node: the quota guard and the    *)
(* residue agent, for any number of faults, and the executor and what      *)
(* becomes of its outputs, for any attempts, outputs and changes too.      *)
(*                                                                         *)
(* The guard.  A proof of readiness that the guard waits for was written   *)
(* by this run's monitor (ProofIsFresh): the root was emptied before the   *)
(* monitor started.  Each way to return passes a step that knows the       *)
(* guarded process to be over (GuardStages).                               *)
(*                                                                         *)
(* The agent.  Each inspection that found nothing stays true, because      *)
(* without a sandbox nothing of the Pod is started: the inspections are    *)
(* taken in an order in which each keeps the earlier ones (Inspected).     *)
(*                                                                         *)
(* The executor.  An execution holds locks only until it has settled them, *)
(* and what it has staged lies under a lock of its own unless it failed    *)
(* (Leases); a pointer is written after the record and its metadata, and   *)
(* only for an output that was published (Servable).                       *)
(*                                                                         *)
(* The outputs.  While an archive or a directory is as it was inspected,   *)
(* what was read of it is a part of what was inspected (ReaderKnows,       *)
(* ReadSoFar); changed once, it has another digest (ArchiveSeen).          *)
(***************************************************************************)
EXTENDS QuotaGuard, ResidueAgent, BuildWorker, Outputs, FiniteSetTheorems, TLAPS

GuardStages ==
  /\ gmode \in {"external", "internal"}
  /\ gpc \in {"prepare", "wait", "supervise", "stop process", "stop monitor", "returned"}
  /\ gmon \in {"off", "clear", "measure", "poll", "exited"}
  /\ gproc \in {"off", "running", "exited"}
  /\ gready \in BOOLEAN /\ gmeasured \in BOOLEAN /\ gover \in BOOLEAN
  /\ gpc = "prepare" => gmon = "off" /\ gproc = "off"
  /\ gpc = "wait" => gmode = "external" /\ gproc = "off" /\ gmon # "off"
  /\ gpc = "stop monitor" => gproc # "running"

ProofIsFresh == gpc = "wait" /\ gready => gmeasured

GuardInv == GuardStages /\ ProofIsFresh /\ GuardedRun

\* The guarded process runs only after this run's monitor has measured the
\* root, and a guard that returned leaves no process (guard.go).
THEOREM GuardKeepsOrder == GuardSpec => []GuardedRun
<1>1. GuardInit => GuardInv
  BY DEF GuardInit, GuardInv, GuardStages, ProofIsFresh, GuardedRun
<1>2. GuardInv /\ [GuardNext]_guardVars => GuardInv'
  <2> SUFFICES ASSUME GuardInv, [GuardNext]_guardVars PROVE GuardInv'
    OBVIOUS
  <2> USE DEF GuardInv, GuardStages, ProofIsFresh, GuardedRun
  <2>1. CASE PrepareRoot
    BY <2>1 DEF PrepareRoot
  <2>2. CASE WaitForMonitor
    BY <2>2 DEF WaitForMonitor
  <2>3. CASE WaitFails
    BY <2>3 DEF WaitFails
  <2>4. CASE Supervise
    BY <2>4 DEF Supervise
  <2>5. CASE StopProcess
    BY <2>5 DEF StopProcess
  <2>6. CASE StopMonitorProcess
    BY <2>6 DEF StopMonitorProcess
  <2>7. CASE ClearReady
    BY <2>7 DEF ClearReady
  <2>8. CASE MeasureScratch
    <3>1. /\ gmon \in {"measure", "poll"}
          /\ UNCHANGED <<gmode, gpc, gproc, gover, gdone>>
          /\ gmon' \in {"poll", "exited"}
          /\ \/ gmeasured' = TRUE
             \/ UNCHANGED <<gready, gmeasured>>
      BY <2>8 DEF MeasureScratch
    <3>2. gready' \in BOOLEAN
      BY <2>8 DEF MeasureScratch
    <3>3. CASE gmeasured' = TRUE
      BY <3>1, <3>2, <3>3
    <3>4. CASE UNCHANGED <<gready, gmeasured>>
      BY <3>1, <3>4
    <3> QED
      BY <3>1, <3>3, <3>4
  <2>9. CASE PrepareRootFails
    BY <2>9 DEF PrepareRootFails
  <2>10. CASE ProcessWrites
    BY <2>10 DEF ProcessWrites
  <2>14. CASE ProcessFrees
    BY <2>14 DEF ProcessFrees
  <2>12. CASE ProcessExits
    BY <2>12 DEF ProcessExits
  <2>13. CASE WrapperSignaled
    BY <2>13, ZenonT(30) DEF WrapperSignaled
  <2>11. CASE UNCHANGED guardVars
    BY <2>11, ZenonT(30) DEF guardVars
  <2> QED
    BY <2>1, <2>2, <2>3, <2>4, <2>5, <2>6, <2>7, <2>8, <2>9, <2>10,
       <2>11, <2>12, <2>13, <2>14
       DEF GuardNext, GuardStep, MonitorStep
<1>3. GuardInv => GuardedRun
  BY DEF GuardInv
<1> QED
  BY <1>1, <1>2, <1>3, PTL DEF GuardSpec

-----------------------------------------------------------------------------
\* What the inspections of an attempt have established by now.
Quiet == ~ nfailed /\ ~ nfound
Inspected ==
  /\ npc = "inspect mounts" /\ Quiet => nruntime = {}
  /\ npc = "inspect cgroups" /\ Quiet => nruntime = {} /\ nmounts = {}
  /\ npc = "inspect root" /\ Quiet => nruntime = {} /\ nmounts = {} /\ ncgroup = "gone"
  /\ npc = "conclude" /\ Quiet => nruntime = {} /\ nmounts = {} /\ ncgroup = "gone" /\ ~ nroot

\* Nothing of the Pod runs outside its sandbox.
InSandbox == "sandbox" \notin nruntime => nruntime = {}

ResidueInv ==
  /\ InSandbox
  /\ nfailed \in BOOLEAN /\ nfound \in BOOLEAN /\ nroot \in BOOLEAN
  /\ Inspected /\ CleanNodeIsClean

\* A node that is reported clean has nothing of the Pod left, and nothing of
\* it comes back (residueagent/agent.go).
THEOREM CleanReportHolds == ResidueSpec => []CleanNodeIsClean
<1>1. ResidueInit => ResidueInv
  BY DEF ResidueInit, ResidueInv, InSandbox, Inspected, CleanNodeIsClean
<1>2. ResidueInv /\ [ResidueNext]_residueVars => ResidueInv'
  <2> SUFFICES ASSUME ResidueInv, [ResidueNext]_residueVars PROVE ResidueInv'
    OBVIOUS
  <2> USE DEF ResidueInv, InSandbox, Inspected, Quiet, CleanNodeIsClean, nodeVars, callVars
  <2>1. CASE ResolveAgent
    BY <2>1 DEF ResolveAgent
  <2>2. CASE ListContainers \/ ListPodSandbox
    <3>1. /\ npc' \in {"sandboxes", "remove", "mounts"} /\ nfailed' \in BOOLEAN
          /\ UNCHANGED <<nruntime, nmounts, nroot, ncgroup, nanswer, nfound>>
      <4>1. ASSUME NEW place, NEW listed, NEW after \in {"sandboxes", "remove"}, ListRuntime(place, listed, after)
            PROVE  /\ npc' \in {"sandboxes", "remove", "mounts"} /\ nfailed' \in BOOLEAN
                   /\ UNCHANGED <<nruntime, nmounts, nroot, ncgroup, nanswer, nfound>>
        BY <4>1 DEF ListRuntime
      <4> QED
        BY <2>2, <4>1 DEF ListContainers, ListPodSandbox
    <3> QED
      BY <3>1
  <2>3. CASE RemoveRuntime
    <3>1. /\ npc = "remove" /\ UNCHANGED <<nmounts, nroot, npc, nanswer, nfound>>
          /\ nfailed' \in BOOLEAN
      BY <2>3 DEF RemoveRuntime
    <3>2. nanswer = "clean" => UNCHANGED <<nruntime, ncgroup>>
      BY <2>3 DEF RemoveRuntime
    <3>3. InSandbox'
      <4>1. PICK resource \in nlisted :
              \/ nruntime' = IF resource = "sandbox" THEN {} ELSE nruntime \ {resource}
              \/ nruntime' = nruntime
        BY <2>3 DEF RemoveRuntime
      <4> QED
        BY <4>1
    <3> QED
      BY <3>1, <3>2, <3>3
  <2>4. CASE ListMounts
    BY <2>4 DEF ListMounts, ResidueFault
  <2>5. CASE Unmount
    BY <2>5 DEF Unmount, ResidueFault
  <2>6. CASE RemovePodRoot
    BY <2>6 DEF RemovePodRoot
  <2>7. CASE ScrubCgroups
    BY <2>7 DEF ScrubCgroups
  <2>8. CASE InspectContainers
    BY <2>8 DEF InspectContainers, Inspect, ResidueFault
  <2>18. CASE InspectSandboxes
    BY <2>18 DEF InspectSandboxes, Inspect, ResidueFault
  <2>9. CASE InspectMounts
    BY <2>9 DEF InspectMounts, Inspect, ResidueFault
  <2>10. CASE InspectCgroups
    BY <2>10 DEF InspectCgroups, Inspect, ResidueFault
  <2>11. CASE InspectRoot
    BY <2>11 DEF InspectRoot
  <2>12. CASE Conclude
    BY <2>12 DEF Conclude
  <2>13. CASE ReceiveReport
    BY <2>13 DEF ReceiveReport, ResidueFault
  <2>14. CASE KubeletTeardown
    BY <2>14 DEF KubeletTeardown
  <2>15. CASE LateStart
    BY <2>15 DEF LateStart, ResidueFault
  <2>16. CASE CancelCleanup
    BY <2>16 DEF CancelCleanup
  <2>17. CASE UNCHANGED residueVars
    BY <2>17 DEF residueVars
  <2> QED
    BY <2>1, <2>2, <2>3, <2>4, <2>5, <2>6, <2>7, <2>8, <2>9, <2>10, <2>11, <2>12,
       <2>13, <2>14, <2>15, <2>16, <2>17, <2>18 DEF ResidueNext
<1>3. ResidueInv => CleanNodeIsClean
  BY DEF ResidueInv
<1> QED
  BY <1>1, <1>2, <1>3, PTL DEF ResidueSpec

-----------------------------------------------------------------------------
(* The executor.  First, that a finite set of numbers can be sorted.       *)

NotAbove(S, x) == {y \in S : y <= x}

\* A number has more numbers below it than a smaller one has.
LEMMA RankGrows ==
  ASSUME NEW S, \A x \in S : x \in Nat, IsFiniteSet(S)
  PROVE  /\ \A x \in S : Cardinality(NotAbove(S, x)) \in 1 .. Cardinality(S)
         /\ \A x, y \in S : x < y => Cardinality(NotAbove(S, x)) < Cardinality(NotAbove(S, y))
<1>1. ASSUME NEW x \in S
      PROVE  /\ IsFiniteSet(NotAbove(S, x))
             /\ Cardinality(NotAbove(S, x)) \in Nat
             /\ Cardinality(NotAbove(S, x)) \in 1 .. Cardinality(S)
  <2>1. NotAbove(S, x) \in SUBSET S /\ NotAbove(S, x) # {}
    BY DEF NotAbove
  <2>2. /\ IsFiniteSet(NotAbove(S, x)) /\ Cardinality(NotAbove(S, x)) <= Cardinality(S)
        /\ Cardinality(NotAbove(S, x)) \in Nat /\ Cardinality(S) \in Nat
    BY <2>1, FS_Subset, FS_CardinalityType
  <2>3. Cardinality(NotAbove(S, x)) # 0
    BY <2>1, <2>2, FS_EmptySet
  <2> QED
    BY <2>2, <2>3
<1>2. ASSUME NEW x \in S, NEW y \in S, x < y
      PROVE  Cardinality(NotAbove(S, x)) < Cardinality(NotAbove(S, y))
  <2>1. NotAbove(S, x) \in SUBSET NotAbove(S, y) /\ y \in NotAbove(S, y) /\ y \notin NotAbove(S, x)
    BY <1>2 DEF NotAbove
  <2>2. NotAbove(S, x) # NotAbove(S, y)
    BY <2>1
  <2>3. /\ Cardinality(NotAbove(S, x)) <= Cardinality(NotAbove(S, y))
        /\ Cardinality(NotAbove(S, x)) # Cardinality(NotAbove(S, y))
    BY <1>1, <2>1, <2>2, FS_Subset
  <2> QED
    BY <1>1, <2>3
<1> QED
  BY <1>1, <1>2

\* Numbers in the order of how many are not above them.
LEMMA SortedExists ==
  ASSUME NEW S, \A x \in S : x \in Nat, IsFiniteSet(S)
  PROVE  /\ Cardinality(S) \in Nat
         /\ \E s \in [1 .. Cardinality(S) -> S] :
              /\ \A i, j \in 1 .. Cardinality(S) : i < j => s[i] < s[j]
              /\ \A x \in S : \E i \in 1 .. Cardinality(S) : s[i] = x
<1> DEFINE n == Cardinality(S)
<1>1. n \in Nat
  BY FS_CardinalityType
<1> SUFFICES \E t \in [1 .. n -> S] : /\ \A i, j \in 1 .. n : i < j => t[i] < t[j]
                                      /\ \A x \in S : \E i \in 1 .. n : t[i] = x
  BY <1>1, Zenon
<1>2. PICK rank \in [S -> 1 .. n] : \A x, y \in S : x < y => rank[x] < rank[y]
  <2> DEFINE r == [x \in S |-> Cardinality(NotAbove(S, x))]
  <2>1. r \in [S -> 1 .. n] /\ \A x, y \in S : x < y => r[x] < r[y]
    BY <1>1, RankGrows
  <2> QED
    BY <2>1
<1>6. IsFiniteSet(1 .. n) /\ Cardinality(1 .. n) = Cardinality(S)
  BY <1>1, FS_Interval
<1> HIDE DEF n
<1>3. \A x \in S : rank[x] \in 1 .. n /\ rank[x] \in Nat
  BY <1>1, <1>2
<1>4. ASSUME NEW x \in S, NEW y \in S, rank[x] = rank[y] PROVE x = y
  BY <1>2, <1>3, <1>4
<1>5. rank \in Injection(S, 1 .. n)
  BY <1>2, <1>4, Zenon DEF Injection, IsInjective
<1>7. rank \in Surjection(S, 1 .. n)
  BY <1>5, <1>6, FS_Injection
<1>8. \A k \in 1 .. n : \E x \in S : rank[x] = k
  BY <1>7, Zenon DEF Surjection
<1>9. PICK s \in [1 .. n -> S] : \A k \in 1 .. n : rank[s[k]] = k
  <2> DEFINE t == [k \in 1 .. n |-> CHOOSE x \in S : rank[x] = k]
  <2>1. t \in [1 .. n -> S] /\ \A k \in 1 .. n : rank[t[k]] = k
    BY <1>8
  <2> QED
    BY <2>1
<1>10. ASSUME NEW i \in 1 .. n, NEW j \in 1 .. n, i < j PROVE s[i] < s[j]
  <2>1. s[i] \in S /\ s[j] \in S /\ rank[s[i]] = i /\ rank[s[j]] = j
    BY <1>9
  <2>2. s[i] # s[j] /\ ~ (s[j] < s[i])
    BY <1>2, <1>10, <2>1
  <2> QED
    BY <2>1, <2>2
<1>11. ASSUME NEW x \in S PROVE s[rank[x]] = x
  <2>1. s[rank[x]] \in S /\ rank[s[rank[x]]] = rank[x]
    BY <1>3, <1>9
  <2> QED
    BY <1>4, <2>1
<1>12. \A x \in S : \E i \in 1 .. n : s[i] = x
  BY <1>3, <1>11
<1> QED
  BY <1>9, <1>10, <1>12

\* A finite nonempty set of numbers has a greatest one.
LEMMA GreatestExists ==
  ASSUME NEW S, \A x \in S : x \in Nat, IsFiniteSet(S), S # {}
  PROVE  Max(S) \in S
<1> DEFINE n == Cardinality(S)
<1>1. n \in Nat
  BY FS_CardinalityType
<1>2. PICK s \in [1 .. n -> S] : /\ \A i, j \in 1 .. n : i < j => s[i] < s[j]
                                 /\ \A x \in S : \E i \in 1 .. n : s[i] = x
  BY SortedExists
<1> HIDE DEF n
<1>3. n \in 1 .. n /\ s[n] \in S
  <2>1. PICK x \in S : TRUE
    OBVIOUS
  <2>2. PICK i \in 1 .. n : s[i] = x
    BY <1>2
  <2>3. n \in 1 .. n
    BY <1>1, <2>2
  <2> QED
    BY <1>2, <2>3
<1>4. ASSUME NEW x \in S PROVE s[n] >= x
  <2>1. PICK i \in 1 .. n : s[i] = x
    BY <1>2
  <2>2. i = n \/ i < n
    BY <1>1
  <2>3. i < n => s[i] < s[n]
    BY <1>2, <1>3
  <2> QED
    BY <1>3, <2>1, <2>2, <2>3
<1> QED
  BY <1>3, <1>4 DEF Max

\* The outputs of an attempt are caches it declared.
LEMMA OutputsListed ==
  ASSUME NEW a \in Attempts
  PROVE  /\ IsFiniteSet(Range(Declared[a])) /\ \A c \in Range(Declared[a]) : c \in Nat
         /\ Len(Outputs(a)) \in Nat
         /\ \A i \in 1 .. Len(Outputs(a)) : Outputs(a)[i] \in Range(Declared[a])
         /\ Range(Declared[a]) \subseteq Caches
<1> DEFINE S == Range(Declared[a])
           Sorted(s) == \A i, j \in DOMAIN s : i < j => s[i] < s[j]
<1>1. Declared[a] \in Seq(Nat)
  BY WorkerAssumption
<1>2. \A c \in S : c \in Nat
  BY <1>1 DEF Range
<1>3. IsFiniteSet(S)
  <2>1. Declared[a] \in Surjection(1 .. Len(Declared[a]), S)
    BY <1>1 DEF Range, Surjection
  <2>2. IsFiniteSet(1 .. Len(Declared[a]))
    BY <1>1, FS_Interval
  <2> QED
    BY <2>1, <2>2, FS_Surjection
<1>4. Cardinality(S) \in Nat
  BY <1>3, FS_CardinalityType
<1>5. \E s \in SetToSeqs(S) : Sorted(s)
  <2> HIDE DEF S
  <2>1. PICK s \in [1 .. Cardinality(S) -> S] :
               \A i, j \in 1 .. Cardinality(S) : i < j => s[i] < s[j]
    BY <1>2, <1>3, SortedExists
  <2>2. \A i \in 1 .. Cardinality(S) : s[i] \in Nat
    BY <1>2, <2>1
  <2>3. \A i, j \in 1 .. Cardinality(S) : i # j => s[i] # s[j]
    BY <1>4, <2>1, <2>2
  <2>4. s \in SetToSeqs(S)
    BY <2>1, <2>3 DEF SetToSeqs
  <2> QED
    BY <2>1, <2>4
<1>6. Outputs(a) \in SetToSeqs(S)
  <2> HIDE DEF Sorted
  <2>1. Outputs(a) = CHOOSE s \in SetToSeqs(S) : Sorted(s)
    BY DEF Outputs, Sorted
  <2> QED
    BY <1>5, <2>1
<1> HIDE DEF S
<1>7. Outputs(a) \in [1 .. Cardinality(S) -> S]
  BY <1>6 DEF SetToSeqs
<1>8. Outputs(a) \in Seq(S) /\ Len(Outputs(a)) = Cardinality(S)
  BY <1>4, <1>7
<1>9. S \subseteq Caches
  BY DEF S, Caches
<1> QED
  BY <1>2, <1>3, <1>4, <1>7, <1>8, <1>9 DEF S

-----------------------------------------------------------------------------
(* What is known of an execution and of the caches.                        *)

Returning == {"settle", "describe", "point", "clean"}
Holding == {"next", "acquire", "solve", "inspect", "commit", "settle", "describe", "point"}
Failure == {"failed", "canceled", "scratch_quota"}

WorkerTypes ==
  /\ exec \in [Attempts -> Live \cup {"absent", "idle", "done", "dead"}]
  /\ at \in [Attempts -> Nat]
  /\ cause \in [Attempts -> {"none", "canceled", "scratch_quota"}]
  /\ verdict \in [Attempts -> Failure \cup {"none", "complete"}]
  /\ lockedBy \in [Caches -> Attempts \cup {"none"}]
  /\ current = [c \in Caches |-> current[c]]

\* An execution without an error is on its way to its last output.
Unfailed(a) ==
  /\ exec[a] \in Working \cup {"absent", "idle"} => verdict[a] = "none"
  /\ exec[a] \in Returning /\ verdict[a] = "none" =>
       at[a] = Len(Outputs(a)) /\ cause[a] # "scratch_quota"
  /\ verdict[a] = "complete" =>
       /\ exec[a] = "done" /\ at[a] = Len(Outputs(a)) /\ cause[a] # "scratch_quota"
       /\ scratch \cap SameBuild(a) = {}

OutputsDone(a) ==
  /\ at[a] <= Len(Outputs(a))
  /\ exec[a] \in {"acquire", "solve", "inspect", "commit"} => at[a] < Len(Outputs(a))
  /\ \A i \in 1 .. at[a] : <<a, Outputs(a)[i]>> \in published

\* Its leases, what it has staged under them, and how far the settlement of
\* the newest one has come.
Leases(a) ==
  /\ \A c \in Caches : lockedBy[c] = a =>
       exec[a] \in Holding /\ a \notin Unleased /\ c \in Range(Declared[a])
  /\ \A x \in staging : x[1] = a =>
       \/ x[2] \in Caches /\ lockedBy[x[2]] = a
       \/ verdict[a] \in Failure \/ exec[a] = "dead"
  /\ exec[a] \in {"describe", "point"} =>
       /\ HeldBy(a) # {} /\ Succeeded(a, Newest(a))
       /\ <<Newest(a), Export(a, Newest(a))>> \in records
       /\ Export(a, Newest(a)) \notin Corrupt
  /\ exec[a] = "point" => <<Newest(a), Export(a, Newest(a))>> \in metadata

Servable(c) ==
  current[c] # "none" =>
    /\ <<c, current[c]>> \in records \cap metadata /\ current[c] \notin Corrupt
    /\ \E a \in Attempts \ Unleased : <<a, c>> \in published

WorkerInv ==
  /\ WorkerTypes
  /\ \A a \in Attempts : Unfailed(a) /\ OutputsDone(a) /\ Leases(a)
  /\ \A c \in Caches : Servable(c)

\* What a step of one execution leaves alone.
OnlyMoves(a) ==
  /\ \A b \in Attempts \ {a} :
       /\ exec'[b] = exec[b] /\ at'[b] = at[b] /\ cause'[b] = cause[b] /\ verdict'[b] = verdict[b]
       /\ verdict[b] = "complete" => scratch' \cap SameBuild(b) \subseteq scratch
  /\ published \subseteq published' /\ records \subseteq records' /\ metadata \subseteq metadata'
  /\ \A c \in Caches : lockedBy'[c] # lockedBy[c] =>
       lockedBy[c] \in {a, "none"} /\ lockedBy'[c] \in {a, "none"}
  /\ \A x \in staging \cup staging' : x[1] # a => (x \in staging' <=> x \in staging)

\* Nothing changes for an execution whose step it is not.
LEMMA BystanderKept ==
  ASSUME WorkerInv, NEW a \in Attempts, OnlyMoves(a), NEW b \in Attempts, b # a
  PROVE  (Unfailed(b) /\ OutputsDone(b) /\ Leases(b))'
<1>0. b # "none" /\ Unfailed(b) /\ OutputsDone(b) /\ Leases(b)
  BY WorkerAssumption DEF WorkerInv
<1>1. exec'[b] = exec[b] /\ at'[b] = at[b] /\ cause'[b] = cause[b] /\ verdict'[b] = verdict[b]
  BY DEF OnlyMoves
<1>2. verdict[b] = "complete" => scratch' \cap SameBuild(b) = {}
  BY <1>0 DEF OnlyMoves, Unfailed
<1>3. Unfailed(b)'
  BY <1>0, <1>1, <1>2 DEF Unfailed, SameBuild, Outputs
<1>4. OutputsDone(b)'
  BY <1>0, <1>1 DEF OutputsDone, OnlyMoves, Outputs
<1>5. \A c \in Caches : lockedBy'[c] = b <=> lockedBy[c] = b
  BY <1>0 DEF OnlyMoves
<1>6. \A x \in staging \cup staging' : x[1] = b => (x \in staging' <=> x \in staging)
  BY DEF OnlyMoves
<1>7. HeldBy(b)' = HeldBy(b) /\ Newest(b)' = Newest(b)
  BY <1>5 DEF HeldBy, Newest, Caches
<1>8. Export(b, Newest(b))' = Export(b, Newest(b))
  <2> DEFINE c == Newest(b)
  <2>1. \A d : <<b, c, d>> \in staging' <=> <<b, c, d>> \in staging
    BY <1>6
  <2>2. Exported(b, c)' = Exported(b, c)
    BY <1>7, <2>1 DEF Exported
  <2> QED
    BY <2>2 DEF Export
<1>9. Succeeded(b, Newest(b))' <=> Succeeded(b, Newest(b))
  BY <1>1, <1>7 DEF Succeeded, Outputs
<1>10. Leases(b)'
  <2>1. \A c \in Caches : lockedBy'[c] = b =>
          exec'[b] \in Holding /\ b \notin Unleased /\ c \in Range(Declared[b])
    BY <1>0, <1>1, <1>5 DEF Leases
  <2>2. \A x \in staging' : x[1] = b =>
          \/ x[2] \in Caches /\ lockedBy'[x[2]] = b
          \/ verdict'[b] \in Failure \/ exec'[b] = "dead"
    BY <1>0, <1>1, <1>5, <1>6 DEF Leases
  <2> QED
    BY <1>0, <1>1, <1>7, <1>8, <1>9, <2>1, <2>2 DEF Leases, OnlyMoves, Caches, Corrupt
<1> QED
  BY <1>3, <1>4, <1>10

\* A step keeps the invariant if it does so for its own execution and for the
\* pointer it writes.
LEMMA WorkerKept ==
  ASSUME WorkerInv, NEW a \in Attempts, OnlyMoves(a), WorkerTypes',
         Unfailed(a)', OutputsDone(a)', Leases(a)',
         \A c \in Caches : current'[c] = current[c] \/ Servable(c)'
  PROVE  WorkerInv'
<1>1. ASSUME NEW c \in Caches PROVE Servable(c)'
  BY DEF WorkerInv, Servable, OnlyMoves, Corrupt
<1>2. ASSUME NEW b \in Attempts PROVE (Unfailed(b) /\ OutputsDone(b) /\ Leases(b))'
  BY BystanderKept
<1> QED
  BY <1>1, <1>2 DEF WorkerInv, Caches

-----------------------------------------------------------------------------
(* The steps of an execution.                                              *)

\* A step that leaves the caches alone and does not start to settle.
LEMMA LeasesKept ==
  ASSUME WorkerInv, NEW a \in Attempts, UNCHANGED cacheVars,
         exec[a] # "dead", exec'[a] \notin {"describe", "point"},
         exec[a] \in Holding => exec'[a] \in Holding \/ HeldBy(a) = {},
         verdict[a] \in Failure => verdict'[a] \in Failure
  PROVE  Leases(a)' /\ \A c \in Caches : current'[c] = current[c]
<1>1. Leases(a)
  BY DEF WorkerInv
<1>2. UNCHANGED <<lockedBy, staging, current>>
  BY DEF cacheVars
<1>3. \A c \in Caches : lockedBy'[c] = a =>
        exec'[a] \in Holding /\ a \notin Unleased /\ c \in Range(Declared[a])
  BY <1>1, <1>2 DEF Leases, HeldBy
<1>4. \A x \in staging' : x[1] = a =>
        \/ x[2] \in Caches /\ lockedBy'[x[2]] = a
        \/ verdict'[a] \in Failure \/ exec'[a] = "dead"
  BY <1>1, <1>2 DEF Leases
<1> QED
  BY <1>2, <1>3, <1>4 DEF Leases, Caches

\* A step that only moves an execution on, or unwinds it.
Moved(a, step, outcome) ==
  /\ exec' = [exec EXCEPT ![a] = step] /\ verdict' = [verdict EXCEPT ![a] = outcome]

LEMMA MovedKept ==
  ASSUME WorkerInv, NEW a \in Attempts, NEW step, NEW outcome, Moved(a, step, outcome),
         UNCHANGED <<at, cause, scratch, published, cacheVars>>,
         exec[a] \in Live, exec[a] \notin {"describe", "point"},
         step \in Live \ {"describe", "point"},
         exec[a] \in Holding => step \in Holding \/ HeldBy(a) = {},
         step \in Working => outcome = "none",
         step \in {"acquire", "solve", "inspect", "commit"} => at[a] < Len(Outputs(a)),
         outcome \in Failure \cup {"none"}, verdict[a] \in Failure => outcome \in Failure,
         step \in Returning /\ outcome = "none" => at[a] = Len(Outputs(a)) /\ cause[a] # "scratch_quota"
  PROVE  WorkerInv'
<1> USE DEF Moved
<1>0. WorkerTypes /\ Unfailed(a) /\ OutputsDone(a)
  BY DEF WorkerInv
<1>1. exec'[a] = step /\ verdict'[a] = outcome /\ \A b \in Attempts \ {a} : exec'[b] = exec[b] /\ verdict'[b] = verdict[b]
  BY <1>0 DEF WorkerTypes
<1>2. WorkerTypes'
  BY <1>0, <1>1 DEF WorkerTypes, Caches, cacheVars
<1>3. OnlyMoves(a)
  BY <1>1 DEF OnlyMoves, cacheVars
<1>4. Leases(a)' /\ \A c \in Caches : current'[c] = current[c]
  BY <1>1, LeasesKept DEF Live, Working
<1>5. Unfailed(a)'
  BY <1>0, <1>1 DEF Unfailed, Outputs, SameBuild, Live, Working, Returning, Failure
<1>6. OutputsDone(a)'
  BY <1>0, <1>1 DEF OutputsDone, Outputs
<1> QED
  BY <1>2, <1>3, <1>4, <1>5, <1>6, WorkerKept

LEMMA MovingKept ==
  ASSUME WorkerInv, NEW a \in Attempts,
         Materialize(a) \/ NextOutput(a) \/ InspectExport(a) \/ StopMonitor(a)
  PROVE  WorkerInv'
<1>0. WorkerTypes /\ Unfailed(a) /\ OutputsDone(a)
  BY DEF WorkerInv
<1>1. verdict[a] \in Failure \cup {"none", "complete"} /\ cause[a] \in {"none", "canceled", "scratch_quota"}
      /\ at[a] \in Nat /\ Len(Outputs(a)) \in Nat
  BY <1>0, OutputsListed DEF WorkerTypes
<1>2. \A step : To(a, step) /\ UNCHANGED verdict => Moved(a, step, verdict[a])
  BY <1>0 DEF To, Moved, WorkerTypes
<1>3. \A outcome : Unwind(a, outcome) => Moved(a, "settle", outcome)
  BY DEF Unwind, To, Moved
<1>4. Outcome(a) \in Failure
  BY <1>1 DEF Outcome, Failure
<1> USE DEF Live, Working, Returning, Holding
<1>5. CASE Materialize(a)
  <2>1. verdict[a] = "none"
    BY <1>0, <1>5 DEF Materialize, Unfailed
  <2>2. UNCHANGED <<at, cause, scratch, published, cacheVars>> /\ exec[a] = "source"
    BY <1>5 DEF Materialize
  <2>3. Moved(a, "next", "none") \/ Moved(a, "settle", Outcome(a))
    BY <1>2, <1>3, <1>5, <2>1 DEF Materialize
  <2>4. Moved(a, "next", "none") => WorkerInv'
    BY <2>1, <2>2, MovedKept
  <2>5. Moved(a, "settle", Outcome(a)) => WorkerInv'
    BY <1>4, <2>1, <2>2, MovedKept DEF Failure
  <2> QED
    BY <2>3, <2>4, <2>5
<1>6. CASE NextOutput(a)
  <2>1. verdict[a] = "none"
    BY <1>0, <1>6 DEF NextOutput, Unfailed
  <2>2. UNCHANGED <<at, cause, scratch, published, cacheVars>> /\ exec[a] = "next"
    BY <1>6 DEF NextOutput
  <2>3. CASE at[a] = Len(Outputs(a)) /\ cause[a] = "scratch_quota"
    <3>1. Moved(a, "settle", "scratch_quota")
      BY <1>3, <1>6, <2>3 DEF NextOutput
    <3> QED
      BY <2>1, <2>2, <3>1, MovedKept DEF Failure
  <2>4. CASE at[a] = Len(Outputs(a)) /\ cause[a] # "scratch_quota"
    <3>1. Moved(a, "settle", "none")
      BY <1>3, <1>6, <2>4 DEF NextOutput
    <3> QED
      BY <2>1, <2>2, <2>4, <3>1, MovedKept DEF Failure
  <2>5. CASE at[a] # Len(Outputs(a)) /\ cause[a] # "none"
    <3>1. Moved(a, "settle", cause[a])
      BY <1>3, <1>6, <2>5 DEF NextOutput
    <3>2. cause[a] \in Failure
      BY <1>1, <2>5 DEF Failure
    <3> QED
      BY <2>1, <2>2, <3>1, <3>2, MovedKept DEF Failure
  <2>6. CASE at[a] # Len(Outputs(a)) /\ cause[a] = "none"
    <3>1. Moved(a, "acquire", "none")
      BY <1>2, <1>6, <2>1, <2>6 DEF NextOutput
    <3>2. at[a] < Len(Outputs(a))
      BY <1>0, <1>1, <2>6 DEF OutputsDone
    <3> QED
      BY <2>1, <2>2, <3>1, <3>2, MovedKept DEF Failure
  <2> QED
    BY <2>3, <2>4, <2>5, <2>6
<1>7. CASE InspectExport(a)
  <2>1. verdict[a] = "none" /\ at[a] < Len(Outputs(a))
    BY <1>0, <1>7 DEF InspectExport, Unfailed, OutputsDone
  <2>2. UNCHANGED <<at, cause, scratch, published, cacheVars>> /\ exec[a] = "inspect"
    BY <1>7 DEF InspectExport
  <2>3. Moved(a, "commit", "none") \/ Moved(a, "settle", "failed")
    BY <1>2, <1>3, <1>7, <2>1 DEF InspectExport
  <2>4. Moved(a, "commit", "none") => WorkerInv'
    BY <2>1, <2>2, MovedKept
  <2>5. Moved(a, "settle", "failed") => WorkerInv'
    BY <2>1, <2>2, MovedKept DEF Failure
  <2> QED
    BY <2>3, <2>4, <2>5
<1>8. CASE StopMonitor(a)
  <2>1. UNCHANGED <<at, cause, scratch, published, cacheVars>> /\ exec[a] = "settle" /\ HeldBy(a) = {}
    BY <1>8 DEF StopMonitor
  <2>2. Moved(a, "clean", verdict[a])
    BY <1>2, <1>8 DEF StopMonitor
  <2>3. verdict[a] # "complete"
    BY <1>0, <2>1 DEF Unfailed
  <2>4. verdict[a] = "none" => at[a] = Len(Outputs(a)) /\ cause[a] # "scratch_quota"
    BY <1>0, <2>1 DEF Unfailed
  <2> QED
    BY <1>1, <2>1, <2>2, <2>3, <2>4, MovedKept
<1> QED
  BY <1>5, <1>6, <1>7, <1>8

\* BreachQuota and CancelAttempt: while it works nothing depends on its cause.
LEMMA CauseKept ==
  ASSUME WorkerInv, NEW a \in Attempts, BreachQuota(a) \/ CancelAttempt(a)
  PROVE  WorkerInv'
<1>0. WorkerTypes /\ Unfailed(a) /\ OutputsDone(a)
  BY DEF WorkerInv
<1>1. /\ UNCHANGED <<exec, at, verdict, scratch, published, cacheVars>> /\ exec[a] \in Working
      /\ cause' \in [Attempts -> {"none", "canceled", "scratch_quota"}]
      /\ \A b \in Attempts \ {a} : cause'[b] = cause[b]
  BY <1>0 DEF BreachQuota, CancelAttempt, WorkerTypes
<1>2. WorkerTypes'
  BY <1>0, <1>1 DEF WorkerTypes, Caches, cacheVars
<1>3. OnlyMoves(a)
  BY <1>1 DEF OnlyMoves, cacheVars
<1>4. Leases(a)' /\ \A c \in Caches : current'[c] = current[c]
  BY <1>1, LeasesKept DEF Working
<1>5. Unfailed(a)'
  BY <1>0, <1>1 DEF Unfailed, Outputs, Working, Returning
<1>6. OutputsDone(a)'
  BY <1>0, <1>1 DEF OutputsDone, Outputs
<1> QED
  BY <1>2, <1>3, <1>4, <1>5, <1>6, WorkerKept

\* Begin starts no attempt of a build that is complete.
LEMMA BeginningKept ==
  ASSUME WorkerInv, NEW a \in Attempts, Begin(a) \/ BeginFails(a)
  PROVE  WorkerInv'
<1>0. WorkerTypes /\ Unfailed(a) /\ OutputsDone(a) /\ \A b \in Attempts : Unfailed(b)
  BY DEF WorkerInv
<1>1. PICK step \in {"source", "clean"}, outcome \in {"none", "failed"} :
        /\ Moved(a, step, outcome) /\ (step = "source" <=> outcome = "none")
        /\ exec[a] = "idle" /\ verdict[a] = "none"
  BY <1>0 DEF Begin, BeginFails, To, Moved, Unfailed, WorkerTypes
<1>2. UNCHANGED <<at, cause, published, cacheVars>>
  BY DEF Begin, BeginFails
<1>3. exec'[a] = step /\ verdict'[a] = outcome /\ \A b \in Attempts \ {a} : exec'[b] = exec[b] /\ verdict'[b] = verdict[b]
  BY <1>0, <1>1 DEF WorkerTypes, Moved
<1>4. WorkerTypes'
  BY <1>0, <1>1, <1>2 DEF WorkerTypes, Moved, Caches, cacheVars, Live, Working, Failure
<1>5. ASSUME NEW b \in Attempts \ {a}, verdict[b] = "complete"
      PROVE  scratch' \cap SameBuild(b) \subseteq scratch
  <2>1. exec[b] = "done"
    BY <1>0, <1>5 DEF Unfailed
  <2>2. CASE Begin(a)
    <3>1. BuildID[b] # BuildID[a]
      BY <1>5, <2>1, <2>2 DEF Begin
    <3> QED
      BY <2>2, <3>1 DEF Begin, SameBuild
  <2>3. CASE BeginFails(a)
    BY <2>3 DEF BeginFails
  <2> QED
    BY <2>2, <2>3
<1>6. OnlyMoves(a)
  BY <1>2, <1>3, <1>5 DEF OnlyMoves, cacheVars
<1>7. Leases(a)' /\ \A c \in Caches : current'[c] = current[c]
  BY <1>1, <1>2, <1>3, LeasesKept DEF Holding, Failure
<1>8. Unfailed(a)'
  BY <1>1, <1>3 DEF Unfailed, Working, Returning
<1>9. OutputsDone(a)'
  BY <1>0, <1>1, <1>2, <1>3 DEF OutputsDone, Outputs
<1> QED
  BY <1>4, <1>6, <1>7, <1>8, <1>9, WorkerKept

\* The output an execution works on is a cache it declared.
LEMMA OutputIsCache ==
  ASSUME WorkerInv, NEW a \in Attempts, exec[a] \in {"acquire", "solve", "inspect", "commit"}
  PROVE  /\ Output(a) \in Caches /\ Output(a) \in Range(Declared[a])
         /\ verdict[a] = "none" /\ at[a] < Len(Outputs(a))
<1>1. at[a] < Len(Outputs(a)) /\ at[a] \in Nat /\ verdict[a] = "none"
  BY DEF WorkerInv, OutputsDone, Unfailed, WorkerTypes, Working
<1>2. at[a] + 1 \in 1 .. Len(Outputs(a))
  BY <1>1, OutputsListed
<1> QED
  BY <1>1, <1>2, OutputsListed DEF Output

LEMMA AcquireKept ==
  ASSUME WorkerInv, NEW a \in Attempts, AcquireCache(a)
  PROVE  WorkerInv'
<1> DEFINE c == Output(a)
<1>0. WorkerTypes /\ Unfailed(a) /\ OutputsDone(a) /\ Leases(a)
  BY DEF WorkerInv
<1>1. /\ exec[a] = "acquire" /\ c \in Caches /\ c \in Range(Declared[a])
      /\ verdict[a] = "none" /\ at[a] < Len(Outputs(a))
  BY OutputIsCache DEF AcquireCache
<1>2. UNCHANGED <<at, cause, scratch, published, staging, records, metadata, current>>
  BY DEF AcquireCache
<1> USE DEF Live, Working, Returning, Holding
<1>3. CASE UNCHANGED lockedBy
  <2>1. Moved(a, "solve", "none") \/ Moved(a, "settle", "failed")
    <3>1. (To(a, "solve") /\ UNCHANGED verdict) \/ Unwind(a, "failed")
      BY DEF AcquireCache
    <3> QED
      BY <1>0, <1>1, <3>1 DEF To, Unwind, Moved, WorkerTypes
  <2>2. UNCHANGED cacheVars
    BY <1>2, <1>3 DEF cacheVars
  <2>3. Moved(a, "solve", "none") => WorkerInv'
    BY <1>1, <1>2, <2>2, MovedKept
  <2>4. Moved(a, "settle", "failed") => WorkerInv'
    BY <1>1, <1>2, <2>2, MovedKept DEF Failure
  <2> QED
    BY <2>1, <2>3, <2>4
<1>4. CASE ~ UNCHANGED lockedBy
  <2>1. /\ a \notin Unleased /\ lockedBy[c] = "none"
        /\ lockedBy' = [lockedBy EXCEPT ![c] = a]
        /\ exec' = [exec EXCEPT ![a] = "solve"] /\ UNCHANGED verdict
    BY <1>4 DEF AcquireCache, To
  <2>2. /\ exec'[a] = "solve" /\ verdict'[a] = "none" /\ \A b \in Attempts \ {a} : exec'[b] = exec[b]
        /\ lockedBy'[c] = a /\ \A d \in Caches : d # c => lockedBy'[d] = lockedBy[d]
    BY <1>0, <1>1, <2>1 DEF WorkerTypes
  <2>3. WorkerTypes'
    BY <1>0, <1>1, <1>2, <2>1 DEF WorkerTypes, Caches
  <2>4. OnlyMoves(a)
    BY <1>2, <2>1, <2>2 DEF OnlyMoves
  <2>5. Unfailed(a)'
    BY <2>2 DEF Unfailed
  <2>6. OutputsDone(a)'
    BY <1>0, <1>1, <1>2 DEF OutputsDone, Outputs
  <2>7. Leases(a)'
    <3>1. \A d \in Caches : lockedBy'[d] = a =>
            exec'[a] \in Holding /\ a \notin Unleased /\ d \in Range(Declared[a])
      BY <1>0, <1>1, <2>1, <2>2 DEF Leases
    <3>2. \A x \in staging' : x[1] = a => x[2] \in Caches /\ lockedBy'[x[2]] = a
      BY <1>0, <1>1, <1>2, <2>2 DEF Leases, Failure
    <3> QED
      BY <2>2, <3>1, <3>2 DEF Leases, Caches
  <2> QED
    BY <1>2, <2>3, <2>4, <2>5, <2>6, <2>7, WorkerKept
<1> QED
  BY <1>3, <1>4

LEMMA SolveKept ==
  ASSUME WorkerInv, NEW a \in Attempts, Solve(a)
  PROVE  WorkerInv'
<1> DEFINE c == Output(a)
<1>0. WorkerTypes /\ Unfailed(a) /\ OutputsDone(a) /\ Leases(a)
  BY DEF WorkerInv
<1>1. /\ exec[a] = "solve" /\ c \in Caches /\ verdict[a] = "none" /\ at[a] < Len(Outputs(a))
  BY OutputIsCache DEF Solve
<1>2. UNCHANGED <<at, cause, scratch, published, lockedBy, records, metadata, current>>
  BY DEF Solve
<1>c. Outcome(a) \in Failure
  BY <1>0 DEF Outcome, Failure, WorkerTypes
<1> USE DEF Live, Working, Returning, Holding
<1>3. CASE UNCHANGED staging
  <2>1. Moved(a, "inspect", "none") \/ Moved(a, "settle", Outcome(a))
    <3>1. (To(a, "inspect") /\ UNCHANGED verdict) \/ Unwind(a, Outcome(a))
      BY DEF Solve
    <3> QED
      BY <1>0, <1>1, <3>1 DEF To, Unwind, Moved, WorkerTypes
  <2>2. UNCHANGED cacheVars
    BY <1>2, <1>3 DEF cacheVars
  <2>3. Moved(a, "inspect", "none") => WorkerInv'
    BY <1>1, <1>2, <2>2, MovedKept
  <2>4. Moved(a, "settle", Outcome(a)) => WorkerInv'
    BY <1>1, <1>2, <1>c, <2>2, MovedKept DEF Failure
  <2> QED
    BY <2>1, <2>3, <2>4
<1>4. CASE ~ UNCHANGED staging
  <2>1. PICK d : /\ lockedBy[c] = a /\ staging' = staging \cup {<<a, c, d>>}
                 /\ exec' = [exec EXCEPT ![a] = "inspect"] /\ UNCHANGED verdict
    BY <1>4 DEF Solve, To
  <2>2. exec'[a] = "inspect" /\ verdict'[a] = "none" /\ \A b \in Attempts \ {a} : exec'[b] = exec[b]
    BY <1>0, <1>1, <2>1 DEF WorkerTypes
  <2>3. WorkerTypes'
    BY <1>0, <1>2, <2>1 DEF WorkerTypes, Caches
  <2>4. OnlyMoves(a)
    BY <1>2, <2>1, <2>2 DEF OnlyMoves
  <2>5. Unfailed(a)'
    BY <2>2 DEF Unfailed
  <2>6. OutputsDone(a)'
    BY <1>0, <1>1, <1>2 DEF OutputsDone, Outputs
  <2>7. Leases(a)'
    <3>1. \A e \in Caches : lockedBy'[e] = a =>
            exec'[a] \in Holding /\ a \notin Unleased /\ e \in Range(Declared[a])
      BY <1>0, <1>2, <2>2 DEF Leases
    <3>2. \A x \in staging' : x[1] = a => x[2] \in Caches /\ lockedBy'[x[2]] = a
      BY <1>0, <1>1, <1>2, <2>1 DEF Leases, Failure
    <3> QED
      BY <2>2, <3>1, <3>2 DEF Leases, Caches
  <2> QED
    BY <1>2, <2>3, <2>4, <2>5, <2>6, <2>7, WorkerKept
<1> QED
  BY <1>3, <1>4

LEMMA CommitKept ==
  ASSUME WorkerInv, NEW a \in Attempts, CommitOutput(a)
  PROVE  WorkerInv'
<1>0. WorkerTypes /\ Unfailed(a) /\ OutputsDone(a)
  BY DEF WorkerInv
<1>1. exec[a] = "commit" /\ verdict[a] = "none" /\ at[a] < Len(Outputs(a)) /\ at[a] \in Nat /\ Len(Outputs(a)) \in Nat
  BY <1>0, OutputIsCache, OutputsListed DEF CommitOutput, WorkerTypes
<1>2. UNCHANGED <<cause, scratch, cacheVars>> /\ published \subseteq published'
  BY DEF CommitOutput
<1>3. PICK step \in {"next", "settle"}, outcome \in {"none", "failed", "canceled"} :
        /\ Moved(a, step, outcome) /\ (step = "next" <=> outcome = "none")
        /\ \/ at' = [at EXCEPT ![a] = @ + 1] /\ <<a, Output(a)>> \in published'
           \/ UNCHANGED at
  BY <1>0, <1>1 DEF CommitOutput, To, Unwind, Moved, WorkerTypes
<1>4. /\ exec'[a] = step /\ verdict'[a] = outcome
      /\ \A b \in Attempts \ {a} : exec'[b] = exec[b] /\ verdict'[b] = verdict[b] /\ at'[b] = at[b]
      /\ at'[a] = at[a] \/ (at'[a] = at[a] + 1 /\ <<a, Output(a)>> \in published')
      /\ at' \in [Attempts -> Nat]
  BY <1>0, <1>1, <1>3 DEF WorkerTypes, Moved
<1>5. WorkerTypes'
  BY <1>0, <1>2, <1>3, <1>4 DEF WorkerTypes, Moved, Caches, cacheVars, Live, Working, Failure
<1>6. OnlyMoves(a)
  BY <1>2, <1>4 DEF OnlyMoves, cacheVars
<1>7. Leases(a)' /\ \A c \in Caches : current'[c] = current[c]
  BY <1>1, <1>2, <1>4, LeasesKept DEF Holding, Failure
<1>8. Unfailed(a)'
  BY <1>3, <1>4 DEF Unfailed, Working, Returning
<1>9. OutputsDone(a)'
  <2>1. at'[a] <= Len(Outputs(a))
    BY <1>1, <1>4
  <2>2. \A i \in 1 .. at'[a] : <<a, Outputs(a)[i]>> \in published'
    <3>1. CASE at'[a] = at[a]
      BY <1>0, <1>2, <3>1 DEF OutputsDone
    <3>2. CASE at'[a] = at[a] + 1 /\ <<a, Outputs(a)[at[a] + 1]>> \in published'
      <4>1. \A i \in 1 .. at'[a] : i \in 1 .. at[a] \/ i = at[a] + 1
        BY <1>1, <3>2
      <4> QED
        BY <1>0, <1>2, <3>2, <4>1 DEF OutputsDone
    <3> QED
      BY <1>4, <3>1, <3>2 DEF Output
  <2> QED
    BY <1>4, <2>1, <2>2 DEF OutputsDone, Outputs
<1> QED
  BY <1>5, <1>6, <1>7, <1>8, <1>9, WorkerKept

\* The newest lease is one of those held.
LEMMA NewestHeld ==
  ASSUME WorkerInv, NEW a \in Attempts, HeldBy(a) # {}
  PROVE  /\ Newest(a) \in Caches /\ lockedBy[Newest(a)] = a
         /\ exec[a] \in Holding /\ a \notin Unleased
<1>1. Leases(a)
  BY DEF WorkerInv
<1>2. HeldBy(a) \in SUBSET Range(Declared[a])
  BY <1>1 DEF Leases, HeldBy
<1>3. IsFiniteSet(HeldBy(a)) /\ \A c \in HeldBy(a) : c \in Nat
  BY <1>2, OutputsListed, FS_Subset
<1>4. Newest(a) \in HeldBy(a)
  BY <1>3, GreatestExists DEF Newest
<1> QED
  BY <1>1, <1>4 DEF HeldBy, Leases

\* Complete has returned for the newest lease: its lock is released, and what
\* was staged under it is removed unless the execution has failed.
LEMMA ReleaseKept ==
  ASSUME WorkerInv, NEW a \in Attempts, HeldBy(a) # {}, NEW outcome,
         Moved(a, "settle", outcome), Release(Newest(a)),
         exec[a] \in {"settle", "describe", "point"},
         outcome \in Failure \/ outcome = verdict[a],
         staging' = Unstaged(a, Newest(a)) \/ (staging' = staging /\ outcome \in Failure),
         UNCHANGED <<at, cause, scratch, published, records, metadata>>,
         current' = [e \in Caches |-> current'[e]],
         \A e \in Caches : current'[e] = current[e] \/ Servable(e)'
  PROVE  WorkerInv'
<1> DEFINE c == Newest(a)
<1>0. WorkerTypes /\ Unfailed(a) /\ OutputsDone(a) /\ Leases(a) /\ a # "none"
  BY WorkerAssumption DEF WorkerInv
<1>1. c \in Caches /\ lockedBy[c] = a /\ exec[a] \in Holding /\ a \notin Unleased
  BY NewestHeld
<1>2. /\ exec'[a] = "settle" /\ verdict'[a] = outcome
      /\ \A b \in Attempts \ {a} : exec'[b] = exec[b] /\ verdict'[b] = verdict[b]
      /\ lockedBy'[c] = "none" /\ \A d \in Caches : d # c => lockedBy'[d] = lockedBy[d]
  BY <1>0, <1>1 DEF WorkerTypes, Moved, Release
<1>v. outcome \in Failure \cup {"none"} /\ (outcome = "none" => verdict[a] = "none")
  BY <1>0 DEF WorkerTypes, Unfailed, Failure
<1>3. WorkerTypes'
  <2>1. exec' \in [Attempts -> Live \cup {"absent", "idle", "done", "dead"}]
    BY <1>0 DEF WorkerTypes, Moved, Live
  <2>2. verdict' \in [Attempts -> Failure \cup {"none", "complete"}]
    BY <1>0, <1>v DEF WorkerTypes, Moved
  <2>3. lockedBy' \in [Caches -> Attempts \cup {"none"}]
    BY <1>0 DEF WorkerTypes, Release
  <2> QED
    BY <1>0, <2>1, <2>2, <2>3 DEF WorkerTypes, Caches
<1>4. \A x \in staging \cup staging' : x[1] # a => (x \in staging' <=> x \in staging)
  BY DEF Unstaged
<1>5. OnlyMoves(a)
  BY <1>1, <1>2, <1>4 DEF OnlyMoves
<1>6. Unfailed(a)'
  BY <1>0, <1>2, <1>v DEF Unfailed, Outputs, Working, Returning, Failure
<1>7. OutputsDone(a)'
  BY <1>0, <1>2 DEF OutputsDone, Outputs
<1>8. Leases(a)'
  <2>1. \A d \in Caches : lockedBy'[d] = a =>
          exec'[a] \in Holding /\ a \notin Unleased /\ d \in Range(Declared[a])
    BY <1>0, <1>1, <1>2 DEF Leases, Holding
  <2>2. \A x \in staging' : x[1] = a =>
          (x[2] \in Caches /\ lockedBy'[x[2]] = a) \/ verdict'[a] \in Failure
    <3>1. CASE outcome \in Failure
      BY <1>2, <3>1
    <3>2. CASE outcome \notin Failure
      <4>1. staging' = Unstaged(a, c) /\ verdict[a] \notin Failure
        BY <3>2
      <4>2. ASSUME NEW x \in staging', x[1] = a PROVE x[2] \in Caches /\ lockedBy'[x[2]] = a
        <5>1. x \in staging /\ x[2] # c
          BY <4>1, <4>2 DEF Unstaged
        <5>2. x[2] \in Caches /\ lockedBy[x[2]] = a
          BY <1>0, <4>1, <4>2, <5>1 DEF Leases
        <5> QED
          BY <1>2, <5>1, <5>2
      <4> QED
        BY <4>2
    <3> QED
      BY <3>1, <3>2
  <2> QED
    BY <1>2, <2>1, <2>2 DEF Leases, Caches
<1> QED
  BY <1>3, <1>5, <1>6, <1>7, <1>8, WorkerKept

\* The pointer of the newest lease is written: it can be followed.
LEMMA PointerServable ==
  ASSUME WorkerInv, NEW a \in Attempts, exec[a] = "point",
         current' = [current EXCEPT ![Newest(a)] = Export(a, Newest(a))],
         UNCHANGED <<published, records, metadata>>
  PROVE  /\ current' = [e \in Caches |-> current'[e]]
         /\ \A e \in Caches : current'[e] = current[e] \/ Servable(e)'
<1>c. PICK c : c = Newest(a)
  OBVIOUS
<1>0. WorkerTypes /\ Leases(a) /\ OutputsDone(a)
  BY DEF WorkerInv
<1>1. current' = [current EXCEPT ![c] = Export(a, c)]
  BY <1>c
<1>2. /\ HeldBy(a) # {} /\ Succeeded(a, c) /\ Export(a, c) \notin Corrupt
      /\ <<c, Export(a, c)>> \in records /\ <<c, Export(a, c)>> \in metadata
  BY <1>c, <1>0 DEF Leases
<1>3. c \in Caches /\ a \notin Unleased
  BY <1>c, <1>2, NewestHeld
<1>4. <<a, c>> \in published
  BY <1>0, <1>2 DEF Succeeded, OutputsDone
<1>5. /\ current'[c] = Export(a, c) /\ \A e \in Caches : e # c => current'[e] = current[e]
      /\ current' = [e \in Caches |-> current'[e]]
  BY <1>0, <1>1, <1>3 DEF WorkerTypes
<1>6. Servable(c)'
  <2>1. /\ <<c, current'[c]>> \in records' \cap metadata' /\ current'[c] \notin Corrupt
        /\ <<a, c>> \in published'
    BY <1>2, <1>4, <1>5
  <2> QED
    BY <1>3, <2>1 DEF Servable, Corrupt
<1> QED
  BY <1>5, <1>6

LEMMA SettleFailsKept ==
  ASSUME WorkerInv, NEW a \in Attempts, SettleFails(a)
  PROVE  WorkerInv'
<1>1. /\ Moved(a, "settle", "failed") /\ HeldBy(a) # {} /\ Release(Newest(a))
      /\ exec[a] \in {"settle", "describe", "point"}
      /\ staging' = Unstaged(a, Newest(a)) \/ staging' = staging
      /\ UNCHANGED <<at, cause, scratch, published, records, metadata>>
      /\ \/ UNCHANGED current
         \/ exec[a] = "point" /\ current' = [current EXCEPT ![Newest(a)] = Export(a, Newest(a))]
  BY DEF SettleFails, Unwind, To, Moved
<1>2. UNCHANGED current => current' = [e \in Caches |-> current'[e]]
  BY DEF WorkerInv, WorkerTypes
<1>3. /\ current' = [e \in Caches |-> current'[e]]
      /\ \A e \in Caches : current'[e] = current[e] \/ Servable(e)'
  BY <1>1, <1>2, PointerServable
<1> QED
  BY <1>1, <1>3, ReleaseKept DEF Failure

\* The steps of a settlement that keep the lock.
LEMMA SettlingKept ==
  ASSUME WorkerInv, NEW a \in Attempts, NEW step \in {"describe", "point"},
         exec' = [exec EXCEPT ![a] = step], HeldBy(a) # {}, exec[a] \in {"settle", "describe"},
         UNCHANGED <<at, cause, verdict, scratch, published, lockedBy, staging, current>>,
         records \subseteq records', metadata \subseteq metadata',
         Succeeded(a, Newest(a)), Export(a, Newest(a)) \notin Corrupt,
         <<Newest(a), Export(a, Newest(a))>> \in records',
         step = "point" => <<Newest(a), Export(a, Newest(a))>> \in metadata'
  PROVE  WorkerInv'
<1>0. WorkerTypes /\ Unfailed(a) /\ OutputsDone(a) /\ Leases(a)
  BY DEF WorkerInv
<1>1. exec'[a] = step /\ \A b \in Attempts \ {a} : exec'[b] = exec[b]
  BY <1>0 DEF WorkerTypes
<1>2. WorkerTypes'
  <2>1. exec' \in [Attempts -> Live \cup {"absent", "idle", "done", "dead"}]
    BY <1>0 DEF WorkerTypes, Live
  <2> QED
    BY <1>0, <2>1 DEF WorkerTypes, Caches
<1>3. OnlyMoves(a)
  BY <1>1 DEF OnlyMoves
<1>4. Unfailed(a)'
  BY <1>0, <1>1 DEF Unfailed, Outputs, Working, Returning
<1>5. OutputsDone(a)'
  BY <1>0, <1>1 DEF OutputsDone, Outputs
<1>6. HeldBy(a)' = HeldBy(a) /\ Newest(a)' = Newest(a)
  BY DEF HeldBy, Newest, Caches
<1>7. Export(a, Newest(a))' = Export(a, Newest(a))
  BY <1>6 DEF Export, Exported
<1>8. Succeeded(a, Newest(a))'
  BY <1>6 DEF Succeeded, Outputs
<1>9. Leases(a)'
  <2>1. \A c \in Caches : lockedBy'[c] = a =>
          exec'[a] \in Holding /\ a \notin Unleased /\ c \in Range(Declared[a])
    BY <1>0, <1>1 DEF Leases, Holding
  <2>2. \A x \in staging' : x[1] = a =>
          (x[2] \in Caches /\ lockedBy'[x[2]] = a) \/ verdict'[a] \in Failure \/ exec'[a] = "dead"
    BY <1>0, <1>1 DEF Leases
  <2> QED
    BY <1>1, <1>6, <1>7, <1>8, <2>1, <2>2 DEF Leases, Caches, Corrupt
<1> QED
  BY <1>2, <1>3, <1>4, <1>5, <1>9, WorkerKept

LEMMA SettleCacheKept ==
  ASSUME WorkerInv, NEW a \in Attempts, SettleCache(a)
  PROVE  WorkerInv'
<1> DEFINE c == Newest(a)
<1>0. WorkerTypes
  BY DEF WorkerInv
<1>1. /\ exec[a] = "settle" /\ HeldBy(a) # {}
      /\ UNCHANGED <<at, cause, scratch, published, metadata, current>>
  BY DEF SettleCache
<1>2. CASE Release(c) /\ UNCHANGED <<exec, records>> /\
           (UNCHANGED verdict \/ verdict' = [verdict EXCEPT ![a] = "failed"])
  <2>1. staging' = Unstaged(a, c)
    BY <1>1, <1>2 DEF SettleCache
  <2>2. PICK outcome : Moved(a, "settle", outcome) /\ (outcome = "failed" \/ outcome = verdict[a])
    <3>1. exec' = [exec EXCEPT ![a] = "settle"]
      BY <1>0, <1>1, <1>2 DEF WorkerTypes
    <3>2. UNCHANGED verdict => verdict' = [verdict EXCEPT ![a] = verdict[a]]
      BY <1>0 DEF WorkerTypes
    <3> QED
      BY <1>2, <3>1, <3>2 DEF Moved
  <2>3. current' = [e \in Caches |-> current'[e]]
    BY <1>0, <1>1 DEF WorkerTypes
  <2> QED
    BY <1>1, <1>2, <2>1, <2>2, <2>3, ReleaseKept DEF Failure
<1>3. CASE /\ Succeeded(a, c) /\ Export(a, c) \notin Corrupt
           /\ records' = records \cup {<<c, Export(a, c)>>}
           /\ To(a, "describe") /\ UNCHANGED <<lockedBy, verdict>>
  <2>1. exec' = [exec EXCEPT ![a] = "describe"] /\ exec'[a] = "describe"
    BY <1>0, <1>3 DEF To, WorkerTypes
  <2>2. staging' = staging
    BY <2>1 DEF SettleCache
  <2> QED
    BY <1>1, <1>3, <2>1, <2>2, SettlingKept
<1> QED
  BY <1>2, <1>3 DEF SettleCache

LEMMA DescribeKept ==
  ASSUME WorkerInv, NEW a \in Attempts, DescribeRecord(a)
  PROVE  WorkerInv'
<1>1. /\ exec[a] = "describe" /\ exec' = [exec EXCEPT ![a] = "point"]
      /\ metadata' = metadata \cup {<<Newest(a), Export(a, Newest(a))>>}
      /\ UNCHANGED <<at, cause, verdict, scratch, published, lockedBy, staging, records, current>>
  BY DEF DescribeRecord, To
<1>2. /\ HeldBy(a) # {} /\ Succeeded(a, Newest(a)) /\ Export(a, Newest(a)) \notin Corrupt
      /\ <<Newest(a), Export(a, Newest(a))>> \in records
  BY <1>1 DEF WorkerInv, Leases
<1> QED
  BY <1>1, <1>2, SettlingKept

LEMMA PointKept ==
  ASSUME WorkerInv, NEW a \in Attempts, PointCurrent(a)
  PROVE  WorkerInv'
<1>0. WorkerTypes /\ Leases(a)
  BY DEF WorkerInv
<1>1. /\ exec[a] = "point" /\ exec' = [exec EXCEPT ![a] = "settle"]
      /\ current' = [current EXCEPT ![Newest(a)] = Export(a, Newest(a))]
      /\ staging' = Unstaged(a, Newest(a)) /\ Release(Newest(a))
      /\ UNCHANGED <<at, cause, verdict, scratch, published, records, metadata>>
  BY DEF PointCurrent, To
<1>2. HeldBy(a) # {}
  BY <1>0, <1>1 DEF Leases
<1>3. /\ current' = [e \in Caches |-> current'[e]]
      /\ \A e \in Caches : current'[e] = current[e] \/ Servable(e)'
  BY <1>1, PointerServable
<1>4. Moved(a, "settle", verdict[a])
  BY <1>0, <1>1 DEF Moved, WorkerTypes
<1> QED
  BY <1>1, <1>2, <1>3, <1>4, ReleaseKept

\* Only an execution without an error becomes complete, and its scratch is gone.
LEMMA CleanupKept ==
  ASSUME WorkerInv, NEW a \in Attempts, Cleanup(a)
  PROVE  WorkerInv'
<1>0. WorkerTypes /\ Unfailed(a) /\ OutputsDone(a) /\ Leases(a)
  BY DEF WorkerInv
<1>1. exec[a] = "clean" /\ exec' = [exec EXCEPT ![a] = "done"] /\ UNCHANGED <<at, cause, published, cacheVars>>
      /\ scratch' \subseteq scratch
  BY DEF Cleanup, To
<1>2. verdict[a] \in Failure \cup {"none"}
  BY <1>0, <1>1 DEF Unfailed, WorkerTypes
<1>3. PICK outcome \in Failure \cup {"complete"} :
        /\ verdict' = [verdict EXCEPT ![a] = outcome]
        /\ outcome = "complete" => verdict[a] = "none" /\ scratch' = scratch \ SameBuild(a)
  BY <1>2 DEF Cleanup, Concluded, Failure
<1>4. /\ exec'[a] = "done" /\ verdict'[a] = outcome
      /\ \A b \in Attempts \ {a} : exec'[b] = exec[b] /\ verdict'[b] = verdict[b]
  BY <1>0, <1>1, <1>3 DEF WorkerTypes
<1>5. WorkerTypes'
  BY <1>0, <1>1, <1>3 DEF WorkerTypes, Caches, cacheVars
<1>6. OnlyMoves(a)
  BY <1>1, <1>4 DEF OnlyMoves, cacheVars
<1>7. Unfailed(a)'
  BY <1>0, <1>1, <1>3, <1>4 DEF Unfailed, Outputs, SameBuild, Working, Live, Returning
<1>8. OutputsDone(a)'
  BY <1>0, <1>1, <1>4 DEF OutputsDone, Outputs
<1>9. Leases(a)' /\ \A c \in Caches : current'[c] = current[c]
  <2>1. UNCHANGED <<lockedBy, staging, current>>
    BY <1>1 DEF cacheVars
  <2>2. \A c \in Caches : lockedBy'[c] # a
    BY <1>0, <1>1, <2>1 DEF Leases, Holding
  <2>3. \A x \in staging' : x[1] = a => verdict[a] \in Failure
    BY <1>0, <1>1, <2>1, <2>2 DEF Leases
  <2>4. verdict[a] \in Failure => verdict'[a] \in Failure
    BY <1>3, <1>4 DEF Failure
  <2> QED
    BY <1>4, <2>1, <2>2, <2>3, <2>4 DEF Leases, Caches
<1> QED
  BY <1>5, <1>6, <1>7, <1>8, <1>9, WorkerKept

\* A crash ends every execution and frees the locks; the files stay.
LEMMA CrashKept ==
  ASSUME WorkerInv, CellCrash
  PROVE  WorkerInv'
<1>0. WorkerTypes
  BY DEF WorkerInv
<1>1. /\ exec' = [a \in Attempts |-> IF exec[a] \in Live THEN "dead" ELSE exec[a]]
      /\ lockedBy' = [c \in Caches |-> "none"]
      /\ UNCHANGED <<at, cause, verdict, scratch, published, staging, records, metadata, current>>
  BY DEF CellCrash
<1>2. WorkerTypes'
  BY <1>0, <1>1 DEF WorkerTypes, Caches
<1>3. ASSUME NEW a \in Attempts PROVE (Unfailed(a) /\ OutputsDone(a) /\ Leases(a))'
  <2>0. Unfailed(a) /\ OutputsDone(a) /\ Leases(a) /\ a # "none"
    BY WorkerAssumption DEF WorkerInv
  <2>1. exec'[a] = IF exec[a] \in Live THEN "dead" ELSE exec[a]
    BY <1>1
  <2>2. Unfailed(a)'
    BY <1>1, <2>0, <2>1 DEF Unfailed, Outputs, SameBuild, Live, Working, Returning
  <2>3. OutputsDone(a)'
    BY <1>1, <2>0, <2>1 DEF OutputsDone, Outputs, Live, Working
  <2>4. \A c \in Caches : lockedBy'[c] # a
    BY <1>1, <2>0
  <2>5. \A x \in staging' : x[1] = a => verdict'[a] \in Failure \/ exec'[a] = "dead"
    BY <1>1, <2>0, <2>1 DEF Leases, Holding, Live, Working
  <2>6. exec'[a] \notin {"describe", "point"}
    BY <2>1 DEF Live
  <2> QED
    BY <2>2, <2>3, <2>4, <2>5, <2>6 DEF Leases, Caches
<1>4. ASSUME NEW c \in Caches PROVE Servable(c)'
  BY <1>1 DEF WorkerInv, Servable, Corrupt
<1> QED
  BY <1>2, <1>3, <1>4 DEF WorkerInv, Caches

LEMMA WorkerInitially == WorkerInit => WorkerInv
<1> SUFFICES ASSUME WorkerInit PROVE WorkerInv
  OBVIOUS
<1>1. PICK together \in Overlaps : exec = [a \in Attempts |-> IF a \in together THEN "idle" ELSE "absent"]
  BY DEF WorkerInit
<1>2. WorkerTypes
  BY <1>1 DEF WorkerInit, WorkerTypes
<1>3. ASSUME NEW a \in Attempts PROVE Unfailed(a) /\ OutputsDone(a) /\ Leases(a)
  <2>1. exec[a] \in {"idle", "absent"} /\ at[a] = 0 /\ verdict[a] = "none" /\ staging = {} /\ a # "none"
    BY <1>1, WorkerAssumption DEF WorkerInit
  <2>2. \A c \in Caches : lockedBy[c] # a
    BY <2>1 DEF WorkerInit
  <2>3. Len(Outputs(a)) \in Nat
    BY OutputsListed
  <2> QED
    BY <2>1, <2>2, <2>3 DEF Unfailed, OutputsDone, Leases, Working, Returning
<1>4. \A c \in Caches : current[c] = "none"
  BY DEF WorkerInit
<1> QED
  BY <1>2, <1>3, <1>4 DEF WorkerInv, Servable

LEMMA WorkerInvariant == WorkerSpec => []WorkerInv
<1>1. WorkerInv /\ [WorkerNext]_workerVars => WorkerInv'
  <2> SUFFICES ASSUME WorkerInv, [WorkerNext]_workerVars PROVE WorkerInv'
    OBVIOUS
  <2>1. ASSUME NEW a \in Attempts,
               \/ Begin(a) \/ BeginFails(a) \/ ExecuteStep(a) \/ SettleFails(a)
               \/ BreachQuota(a) \/ CancelAttempt(a)
        PROVE  WorkerInv'
    BY <2>1, MovingKept, CauseKept, BeginningKept, AcquireKept, SolveKept, CommitKept,
       SettleCacheKept, DescribeKept, PointKept, SettleFailsKept, CleanupKept DEF ExecuteStep
  <2>2. CASE UNCHANGED workerVars
    <3>1. WorkerTypes'
      BY <2>2 DEF workerVars, WorkerInv, WorkerTypes, Caches
    <3>2. ASSUME NEW a \in Attempts PROVE (Unfailed(a) /\ OutputsDone(a) /\ Leases(a))'
      <4>1. Unfailed(a)' /\ OutputsDone(a)'
        BY <2>2 DEF workerVars, WorkerInv, Unfailed, OutputsDone, Outputs, SameBuild
      <4>2. HeldBy(a)' = HeldBy(a) /\ Newest(a)' = Newest(a)
        BY <2>2 DEF workerVars, HeldBy, Newest, Caches
      <4>3. Export(a, Newest(a))' = Export(a, Newest(a)) /\ (Succeeded(a, Newest(a))' <=> Succeeded(a, Newest(a)))
        BY <2>2, <4>2 DEF workerVars, Export, Exported, Succeeded, Outputs
      <4>4. Leases(a)'
        BY <2>2, <4>2, <4>3 DEF workerVars, WorkerInv, Leases, Caches, Corrupt
      <4> QED
        BY <4>1, <4>4
    <3>3. ASSUME NEW c \in Caches PROVE Servable(c)'
      BY <2>2 DEF workerVars, WorkerInv, Servable, Corrupt
    <3> QED
      BY <3>1, <3>2, <3>3 DEF WorkerInv, Caches
  <2> QED
    BY <2>1, <2>2, CrashKept DEF WorkerNext
<1> QED
  BY <1>1, WorkerInitially, PTL DEF WorkerSpec

\* What a complete execution vouches for, for any attempts, outputs and faults:
\* its outputs are committed, its quota was kept, and it leaves neither scratch
\* nor a lock nor a staged export (executor.go).
THEOREM CompletionsAreProven == WorkerSpec => []CompleteIsProven
<1>1. WorkerInv => CompleteIsProven
  <2> SUFFICES ASSUME WorkerInv, NEW a \in Attempts, verdict[a] = "complete"
               PROVE  /\ \A i \in 1 .. Len(Outputs(a)) : <<a, Outputs(a)[i]>> \in published
                      /\ cause[a] # "scratch_quota"
                      /\ scratch \cap SameBuild(a) = {}
                      /\ HeldBy(a) = {} /\ \A x \in staging : x[1] # a
    BY DEF CompleteIsProven
  <2>1. Unfailed(a) /\ OutputsDone(a) /\ Leases(a)
    BY DEF WorkerInv
  <2>2. exec[a] = "done" /\ at[a] = Len(Outputs(a)) /\ cause[a] # "scratch_quota" /\ scratch \cap SameBuild(a) = {}
    BY <2>1 DEF Unfailed
  <2>3. HeldBy(a) = {}
    BY <2>1, <2>2 DEF Leases, HeldBy, Holding
  <2>4. \A x \in staging : x[1] # a
    BY <2>1, <2>2, <2>3 DEF Leases, HeldBy, Failure
  <2> QED
    BY <2>1, <2>2, <2>3, <2>4 DEF OutputsDone
<1> QED
  BY <1>1, WorkerInvariant, PTL

\* The pointer of a cache can be followed whenever its lock is free, also after
\* a crash between any two writes, and it names what an execution without
\* secrets exported for an output it published (cache_directory.go).
THEOREM CachesAreServable == WorkerSpec => []CacheIsServable
<1>1. WorkerInv => CacheIsServable
  BY DEF WorkerInv, CacheIsServable, Servable, readCurrent
<1> QED
  BY <1>1, WorkerInvariant, PTL

-----------------------------------------------------------------------------
\* The archive that extraction expects holds the closure of the manifest and
\* nothing else, every blob intact.
ClosedBy(f, m) ==
  /\ {e.path : e \in {x \in Range(f) : x.type = "file"}} = Metadata \cup {m} \cup OCIBlobs(m)
  /\ \A e \in Range(f) : e.type = "file" => Intact(e)

\* A file that changed once is another file: a reader that sees the expected
\* one has never seen anything else.
ArchiveSeen ==
  /\ ofile \in OCIArchives /\ oexpected \in OCIArchives /\ ochanges \in Nat
  /\ ochanges = 0 => ofile = oexpected
  /\ ochanges = 1 => ofile # oexpected

ReaderStages ==
  /\ opc \in {"index", "manifest", "blobs", "visit", "visited", "open", "extract", "extracted", "refused"}
  /\ ogoal \in {"inspect", "publish", "extract"}
  /\ opos \in Nat
  /\ oident \in DOMAIN OCIManifest \cup {"none"} /\ (oident = "none" => ogoal = "inspect")
  /\ ogoal = "inspect" => opc \in {"index", "manifest", "blobs", "refused"} /\ ovisited = {}
  /\ opc \in {"index", "manifest", "blobs", "open"} => opos = 0 /\ otree = <<>>
  /\ opc = "blobs" => omanifest \in DOMAIN OCIManifest

\* What the reader knows of the expected archive while nobody changed it.
ReaderKnows ==
  ochanges = 0 =>
    /\ opc \in {"manifest", "blobs"} =>
         /\ ~ scanOCIArchive(oexpected, Metadata).refused
         /\ ofiles = scanOCIArchive(oexpected, Metadata).files
    /\ opc = "blobs" => ~ scanOCIArchive(oexpected, {omanifest}).refused
    /\ ogoal # "inspect" => ClosedBy(oexpected, oident)
    /\ opc = "extract" => opos <= Len(oexpected) /\ otree = SubSeq(oexpected, 1, opos)

ArtifactInv == ArchiveSeen /\ ReaderStages /\ ReaderKnows /\ ArtifactIsExact

\* A commit that reads the directory while it has the declared digest, and
\* has changed at most once, has read what was exported and lacks the rest.
Undisturbed == kchanges < 2 /\ AsDeclared(ktree)
ExportedFiles(S) == {<<p, kexported[p]>> : p \in S}

CommitStages ==
  /\ kpc \in [Commits -> {"absent", "validate", "list", "read", "package", "rename", "done", "refused"}]
  /\ klist = [c \in Commits |-> klist[c]] /\ kread = [c \in Commits |-> kread[c]]
  /\ kchanges \in Nat /\ hashable(kexported) /\ (kchanges = 0 => ktree = kexported)
  /\ \A c \in Commits : kpc[c] \in {"validate", "list"} => klist[c] = {} /\ kread[c] = {}
  /\ \A c \in Copying : kpc[c] # "package"

ReadSoFar ==
  Undisturbed => \A c \in Commits :
    /\ kpc[c] = "read" =>
         /\ klist[c] \subseteq FilesOf(kexported)
         /\ kread[c] \cup ExportedFiles(klist[c]) = directoryDigest(kexported)
    /\ kpc[c] = "package" => kread[c] = directoryDigest(kexported)

CommitInv == CommitStages /\ ReadSoFar /\ CommittedCopyIsExact

\* An archive whose three scans pass, and whose files are the ones that were
\* captured, is closed: a captured path occurs once, with its contents.
LEMMA CapturedIsClosed ==
  ASSUME NEW f \in OCIArchives, NEW m,
         ~ scanOCIArchive(f, Metadata).refused, ~ scanOCIArchive(f, {m}).refused,
         ~ scanOCIArchive(f, OCIBlobs(m)).refused,
         scanOCIArchive(f, Metadata).files = Metadata \cup {m} \cup OCIBlobs(m)
  PROVE  ClosedBy(f, m)
<1> DEFINE files == {e.path : e \in {x \in Range(f) : x.type = "file"}}
<1>1. f \in Seq([path : STRING, type : {"file", "dir", "link"}, contents : STRING, manifests : Seq(STRING)])
  BY OCIAssumption
<1>2. \A i, j \in 1 .. Len(f) : i # j => f[i].path # f[j].path
  BY DEF scanOCIArchive, Refused
<1>3. /\ scanOCIArchive(f, Metadata).files = files
      /\ \A name \in Metadata : \E i \in 1 .. Len(f) : f[i].path = name /\ f[i].type = "file" /\ Intact(f[i])
  BY DEF scanOCIArchive, Refused
<1>4. \A name \in {m} : \E i \in 1 .. Len(f) : f[i].path = name /\ f[i].type = "file" /\ Intact(f[i])
  BY DEF scanOCIArchive, Refused
<1>5. \A name \in OCIBlobs(m) : \E i \in 1 .. Len(f) : f[i].path = name /\ f[i].type = "file" /\ Intact(f[i])
  BY DEF scanOCIArchive, Refused
<1>6. ASSUME NEW e \in Range(f), e.type = "file" PROVE Intact(e)
  <2>1. PICK j \in 1 .. Len(f) : e = f[j]
    BY <1>1 DEF Range
  <2>2. e.path \in files
    BY <1>6
  <2>3. e.path \in Metadata \cup {m} \cup OCIBlobs(m)
    BY <2>2, <1>3
  <2>4. PICK i \in 1 .. Len(f) : f[i].path = e.path /\ Intact(f[i])
    BY <2>3, <1>3, <1>4, <1>5
  <2> QED
    BY <2>1, <2>4, <1>2
<1>7. files = Metadata \cup {m} \cup OCIBlobs(m)
  BY <1>3
<1> QED
  BY <1>6, <1>7 DEF ClosedBy

\* One more entry of the archive is one more entry of the tree.
LEMMA NextEntry ==
  ASSUME NEW f \in OCIArchives, NEW n \in Nat, n < Len(f)
  PROVE  Append(SubSeq(f, 1, n), f[n + 1]) = SubSeq(f, 1, n + 1)
BY OCIAssumption
LEMMA WholeArchive ==
  ASSUME NEW f \in OCIArchives
  PROVE  SubSeq(f, 1, Len(f)) = f /\ SubSeq(f, 1, 0) = <<>> /\ Len(f) \in Nat
BY OCIAssumption

LEMMA ArtifactInitially == OCIInit => ArtifactInv
BY LayoutAssumption DEF OCIInit, ArtifactInv, ArchiveSeen, ReaderStages, ReaderKnows, ArtifactIsExact

LEMMA ArtifactStep == ArtifactInv /\ [OCINext]_ociVars => ArtifactInv'
<1> SUFFICES ASSUME ArtifactInv, [OCINext]_ociVars PROVE ArtifactInv'
  OBVIOUS
<1> USE DEF ArtifactInv, ArchiveSeen, ReaderStages, ReaderKnows, ArtifactIsExact, readVars
<1>0. CASE Refuse
  BY <1>0 DEF Refuse
<1>1. CASE ReadIndexFile
  BY <1>1, <1>0 DEF ReadIndexFile
<1>2. CASE ReadManifest
  BY <1>2, <1>0 DEF ReadManifest, validManifest
<1>3. CASE ReadBlobs
  <2>1. CASE Refuse
    BY <2>1, <1>0
  <2>2. CASE ~ Refuse
    <3>1. /\ opc = "blobs" /\ ~ scanOCIArchive(ofile, OCIBlobs(omanifest)).refused
          /\ ofiles = Metadata \cup {omanifest} \cup OCIBlobs(omanifest)
          /\ oident \in {"none", omanifest}
          /\ UNCHANGED <<ofiles, omanifest, opos, ovisited, otree, ofile, ochanges, oexpected>>
      BY <1>3, <2>2 DEF ReadBlobs
    <3>2. ochanges = 0 => ClosedBy(oexpected, omanifest)
      BY <3>1, CapturedIsClosed
    <3>3. CASE ogoal = "inspect"
      BY <3>1, <3>2, <3>3, <1>3, <2>2, LayoutAssumption DEF ReadBlobs
    <3>4. CASE ogoal # "inspect"
      BY <3>1, <3>2, <3>4, <1>3, <2>2 DEF ReadBlobs
    <3> QED
      BY <3>3, <3>4
  <2> QED
    BY <2>1, <2>2
<1>4. CASE VisitBlob
  <2>1. opc = "visit" /\ ogoal # "inspect" /\ oident \in DOMAIN OCIManifest /\ oident # "none"
    BY <1>4, LayoutAssumption DEF VisitBlob
  <2>2. OCIBlobs(oident) \cap Metadata = {}
    BY <2>1, LayoutAssumption DEF OCIBlobs
  <2>3. CASE opos < Len(ofile)
    <3> DEFINE e == ofile[opos + 1]
    <3>1. CASE e.path \notin OCIBlobs(oident)
      BY <1>4, <2>1, <2>3, <3>1, <1>0 DEF VisitBlob
    <3>2. CASE e.path \in OCIBlobs(oident) /\ e.type = "file" /\ Intact(e)
      <4>1. e.contents \in OCIBlobs(oident)
        BY <3>2, <2>2 DEF Intact
      <4>2. opos' = opos + 1 /\ ovisited' = ovisited \cup {e.contents}
            /\ UNCHANGED <<opc, ogoal, ofiles, omanifest, oident, otree, ofile, ochanges, oexpected>>
        BY <1>4, <2>3, <3>2 DEF VisitBlob
      <4> QED
        BY <4>1, <4>2, <2>1
    <3>3. CASE e.path \in OCIBlobs(oident) /\ ~ (e.type = "file" /\ Intact(e))
      BY <1>4, <2>3, <3>3, <1>0 DEF VisitBlob
    <3> QED
      BY <3>1, <3>2, <3>3
  <2>4. CASE ~ (opos < Len(ofile))
    BY <1>4, <2>1, <2>4 DEF VisitBlob
  <2> QED
    BY <2>3, <2>4
<1>5. CASE OpenArchive
  <2>1. /\ opc = "open" /\ UNCHANGED <<ogoal, ofiles, omanifest, oident, opos, ovisited, otree, ofile, ochanges, oexpected>>
        /\ opc' \in {"extract", "refused"}
    BY <1>5 DEF OpenArchive, Refuse
  <2>2. 0 <= Len(oexpected) /\ <<>> = SubSeq(oexpected, 1, 0)
    BY WholeArchive
  <2> QED
    BY <2>1, <2>2
<1>6. CASE ExtractEntry
  <2>1. /\ opc = "extract" /\ UNCHANGED <<ogoal, ofiles, omanifest, oident, ovisited, ofile, ochanges, oexpected>>
        /\ ogoal # "inspect"
    BY <1>6 DEF ExtractEntry
  <2>2. CASE opc' = "refused"
    BY <2>1, <2>2, <1>6 DEF ExtractEntry
  <2>3. CASE opc' = "extract"
    <3>1. opos < Len(ofile) /\ opos' = opos + 1 /\ otree' = Append(otree, ofile[opos + 1])
      BY <2>1, <2>3, <1>6 DEF ExtractEntry
    <3>2. ASSUME ochanges = 0 PROVE otree' = SubSeq(oexpected, 1, opos + 1) /\ opos + 1 <= Len(oexpected)
      <4>1. opos < Len(oexpected) /\ otree = SubSeq(oexpected, 1, opos) /\ otree' = Append(otree, oexpected[opos + 1])
        BY <3>1, <3>2, <2>1
      <4>2. Append(SubSeq(oexpected, 1, opos), oexpected[opos + 1]) = SubSeq(oexpected, 1, opos + 1)
        BY <4>1, NextEntry
      <4>3. opos + 1 <= Len(oexpected)
        BY <4>1, WholeArchive
      <4> QED
        BY <4>1, <4>2, <4>3
    <3> QED
      BY <2>1, <2>3, <3>1, <3>2
  <2>4. CASE opc' = "extracted"
    <3>1. opos >= Len(ofile) /\ ofile = oexpected /\ UNCHANGED <<opos, otree>>
      BY <2>1, <2>4, <1>6 DEF ExtractEntry
    <3>2. ASSUME ochanges < 2 PROVE otree = oexpected /\ ClosedBy(oexpected, oident)
      <4>1. ochanges = 0
        BY <3>1, <3>2
      <4>2. opos = Len(oexpected)
        BY <4>1, <3>1, <2>1, WholeArchive
      <4> QED
        BY <4>1, <4>2, <2>1, WholeArchive
    <3> QED
      BY <2>1, <2>4, <3>1, <3>2 DEF ClosedBy
  <2> QED
    BY <2>1, <2>2, <2>3, <2>4, <1>6 DEF ExtractEntry
<1>7. CASE \E f \in OCIArchives : FileChanges(f)
  BY <1>7 DEF FileChanges
<1>8. CASE UNCHANGED ociVars
  BY <1>8 DEF ociVars
<1> QED
  BY <1>1, <1>2, <1>3, <1>4, <1>5, <1>6, <1>7, <1>8 DEF OCINext

LEMMA CommitInitially == CommitInit => CommitInv
<1> SUFFICES ASSUME CommitInit PROVE CommitInv
  OBVIOUS
<1>1. \A c \in Commits : kpc[c] \in {"absent", "validate"} /\ klist[c] = {} /\ kread[c] = {}
  BY DEF CommitInit
<1>2. CommitStages
  BY <1>1, OutputCommitAssumption DEF CommitInit, CommitStages
<1>3. ReadSoFar /\ CommittedCopyIsExact
  BY <1>1 DEF CommitInit, ReadSoFar, CommittedCopyIsExact
<1> QED
  BY <1>2, <1>3 DEF CommitInv

\* A directory with the declared digest has the exported files.
LEMMA SameFiles ==
  ASSUME AsDeclared(ktree)
  PROVE  /\ FilesOf(ktree) = FilesOf(kexported)
         /\ \A p \in FilesOf(ktree) : ktree[p] = kexported[p]
<1>1. directoryDigest(ktree) = directoryDigest(kexported)
  BY DEF AsDeclared
<1>2. \A p \in FilesOf(ktree) : p \in FilesOf(kexported) /\ ktree[p] = kexported[p]
  <2> SUFFICES ASSUME NEW p \in FilesOf(ktree) PROVE p \in FilesOf(kexported) /\ ktree[p] = kexported[p]
    OBVIOUS
  <2>1. <<p, ktree[p]>> \in directoryDigest(kexported)
    BY <1>1 DEF directoryDigest
  <2> QED
    BY <2>1 DEF directoryDigest
<1>3. \A p \in FilesOf(kexported) : p \in FilesOf(ktree)
  <2> SUFFICES ASSUME NEW p \in FilesOf(kexported) PROVE p \in FilesOf(ktree)
    OBVIOUS
  <2>1. <<p, kexported[p]>> \in directoryDigest(ktree)
    BY <1>1 DEF directoryDigest
  <2> QED
    BY <2>1 DEF directoryDigest
<1> QED
  BY <1>2, <1>3

LEMMA ExportedIsDeclared == CommitStages => (kchanges = 0 => AsDeclared(ktree))
BY DEF CommitStages, AsDeclared

\* A digest is never that of nothing.
LEMMA DigestIsThere == CommitStages => directoryDigest(kexported) # {}
<1> SUFFICES ASSUME CommitStages PROVE directoryDigest(kexported) # {}
  OBVIOUS
<1>1. PICK p : p \in FilesOf(kexported)
  BY DEF CommitStages, hashable
<1>2. <<p, kexported[p]>> \in directoryDigest(kexported)
  BY <1>1 DEF directoryDigest
<1> QED
  BY <1>2

LEMMA CommitStep == CommitInv /\ [CommitNext]_commitVars => CommitInv'
<1> SUFFICES ASSUME CommitInv, [CommitNext]_commitVars PROVE CommitInv'
  OBVIOUS
<1> DEFINE D == directoryDigest(kexported)
<1> USE DEF CommitInv
<1>d. D # {}
  BY DigestIsThere
<1>1. ASSUME NEW c \in Commits,
             \/ ValidateExported(c) \/ ListSource(c) \/ ReadFile(c) \/ Package(c) \/ RenameStaged(c)
             \/ SyncParentFails(c) \/ CommitFails(c)
      PROVE  CommitInv'
  <2>1. /\ UNCHANGED <<ktree, kexported, kchanges>>
        /\ kpc' = [kpc EXCEPT ![c] = kpc'[c]]
        /\ klist' = [klist EXCEPT ![c] = klist'[c]]
        /\ kread' = [kread EXCEPT ![c] = kread'[c]]
        /\ kpc'[c] \in {"list", "read", "package", "rename", "done", "refused"}
    BY <1>1 DEF CommitStages, ValidateExported, ListSource, ReadFile, Package, RenameStaged, SyncParentFails, CommitFails, Committed,
                EndCommit, CommitTo
  <2>2. /\ D' = D /\ Undisturbed' = Undisturbed /\ hashable(kexported)' = hashable(kexported)
        /\ FilesOf(kexported)' = FilesOf(kexported)
        /\ \A S : ExportedFiles(S)' = ExportedFiles(S)
    BY <2>1 DEF directoryDigest, Undisturbed, AsDeclared, hashable, FilesOf, ExportedFiles
  <2>3. \A b \in Commits : b # c => kpc'[b] = kpc[b] /\ klist'[b] = klist[b] /\ kread'[b] = kread[b]
    BY <2>1 DEF CommitStages
  <2>4. kdestination' = kdestination \/ (kdestination = {} /\ kdestination' = D)
    BY <1>1 DEF ValidateExported, ListSource, ReadFile, Package, RenameStaged, SyncParentFails, CommitFails
  <2>5. CommitStages'
    <3>1. kpc'[c] = "list" => klist'[c] = {} /\ kread'[c] = {}
      BY <1>1 DEF CommitStages, ValidateExported, ListSource, ReadFile, Package, RenameStaged, SyncParentFails, CommitFails, Committed,
                  EndCommit, CommitTo
    <3>2. c \in Copying => kpc'[c] # "package"
      BY <1>1 DEF CommitStages, ValidateExported, ListSource, ReadFile, Package, RenameStaged, SyncParentFails, CommitFails, Committed,
                  EndCommit, CommitTo
    <3>3. /\ klist' = [b \in Commits |-> klist'[b]] /\ kread' = [b \in Commits |-> kread'[b]]
          /\ kpc' \in [Commits -> {"absent", "validate", "list", "read", "package", "rename", "done", "refused"}]
      BY <2>1, ZenonT(30) DEF CommitStages
    <3>4. \A b \in Commits : kpc'[b] \in {"validate", "list"} => klist'[b] = {} /\ kread'[b] = {}
      BY <2>1, <2>3, <3>1 DEF CommitStages
    <3>5. \A b \in Copying : kpc'[b] # "package"
      BY <2>3, <3>2, OutputCommitAssumption DEF CommitStages
    <3>6. kchanges' \in Nat /\ hashable(kexported)' /\ (kchanges' = 0 => ktree' = kexported')
      BY <2>1, <2>2 DEF CommitStages
    <3> QED
      BY <3>3, <3>4, <3>5, <3>6 DEF CommitStages
  <2>6. ASSUME Undisturbed
        PROVE  /\ kpc'[c] = "read" =>
                    /\ klist'[c] \subseteq FilesOf(kexported)
                    /\ kread'[c] \cup ExportedFiles(klist'[c]) = D
               /\ kpc'[c] = "package" => kread'[c] = D
    <3>1. /\ FilesOf(ktree) = FilesOf(kexported)
          /\ \A p \in FilesOf(ktree) : ktree[p] = kexported[p]
      BY <2>6, SameFiles DEF Undisturbed
    <3>2. ExportedFiles(FilesOf(kexported)) = D /\ ExportedFiles({}) = {}
      BY DEF ExportedFiles, directoryDigest
    <3>3. CASE ListSource(c)
      <4>1. kpc[c] = "list" /\ kread[c] = {}
        BY <3>3 DEF ListSource, CommitStages
      <4>2. kpc'[c] = "read" => klist'[c] = FilesOf(ktree) /\ kread'[c] = {}
        BY <3>3, <4>1 DEF ListSource, EndCommit, CommitTo, CommitStages
      <4>3. kpc'[c] # "package"
        BY <3>3 DEF ListSource, EndCommit, CommitTo, CommitStages
      <4> QED
        BY <3>1, <3>2, <4>2, <4>3
    <3>4. CASE ReadFile(c)
      <4>1. kpc[c] = "read" /\ klist[c] \subseteq FilesOf(kexported) /\ kread[c] \cup ExportedFiles(klist[c]) = D
        BY <3>4, <2>6 DEF ReadFile, ReadSoFar
      <4>2. CASE kpc'[c] = "read"
        <5>1. PICK p \in klist[c] :
                /\ p \in FilesOf(ktree)
                /\ kread'[c] = kread[c] \cup {<<p, ktree[p]>>} /\ klist'[c] = klist[c] \ {p}
          BY <3>4, <4>2, <4>1 DEF ReadFile, EndCommit, CommitTo, CommitStages
        <5>2. ExportedFiles(klist[c]) = ExportedFiles(klist[c] \ {p}) \cup {<<p, ktree[p]>>}
          BY <5>1, <3>1 DEF ExportedFiles
        <5> QED
          BY <4>1, <4>2, <5>1, <5>2
      <4>3. CASE kpc'[c] # "read"
        <5>1. kpc'[c] = "package" => klist[c] = {} /\ kread'[c] = kread[c]
          BY <3>4, <4>3, <4>1 DEF ReadFile, EndCommit, CommitTo, CommitStages
        <5> QED
          BY <4>1, <4>3, <5>1, <3>2
      <4> QED
        BY <4>2, <4>3
    <3>5. CASE ValidateExported(c) \/ Package(c) \/ RenameStaged(c) \/ SyncParentFails(c) \/ CommitFails(c)
      BY <3>5 DEF ValidateExported, Package, RenameStaged, SyncParentFails, CommitFails, Committed, EndCommit, CommitTo, CommitStages
    <3> QED
      BY <1>1, <3>3, <3>4, <3>5
  <2>7. ReadSoFar'
    <3> SUFFICES ASSUME Undisturbed, NEW b \in Commits
                 PROVE  /\ kpc'[b] = "read" =>
                             /\ klist'[b] \subseteq FilesOf(kexported)
                             /\ kread'[b] \cup ExportedFiles(klist'[b]) = D
                        /\ kpc'[b] = "package" => kread'[b] = D
      BY <2>1, <2>2 DEF ReadSoFar
    <3> QED
      BY <2>3, <2>6 DEF ReadSoFar
  <2>8. CommittedCopyIsExact'
    <3>1. kdestination' \in {{}, D}
      BY <2>4 DEF CommittedCopyIsExact
    <3>2. ASSUME kpc'[c] = "done"
          PROVE  IF c \in Copying THEN kdestination' = D ELSE kchanges < 2 => kread'[c] = D
      <4>1. CASE ValidateExported(c) \/ RenameStaged(c)
        <5>1. kdestination' = D /\ (ValidateExported(c) => c \in Copying)
          BY <4>1, <3>2, <1>d DEF ValidateExported, RenameStaged, Committed, EndCommit, CommitTo, CommitStages
        <5>2. RenameStaged(c) => kread'[c] = D
          BY <3>2 DEF RenameStaged, Committed, EndCommit, CommitTo, CommitStages
        <5> QED
          BY <4>1, <5>1, <5>2
      <4>2. CASE Package(c)
        <5>1. kpc[c] = "package" /\ AsDeclared(ktree) /\ kread' = kread
          BY <4>2, <3>2 DEF Package, EndCommit, CommitTo, CommitStages
        <5>2. kchanges < 2 => kread'[c] = D
          BY <5>1 DEF ReadSoFar, Undisturbed
        <5> QED
          BY <5>1, <5>2 DEF CommitStages
      <4>3. CASE ListSource(c) \/ ReadFile(c) \/ SyncParentFails(c) \/ CommitFails(c)
        BY <4>3, <3>2, <2>1 DEF ListSource, ReadFile, SyncParentFails, CommitFails, EndCommit, CommitTo, CommitStages
      <4> QED
        BY <1>1, <4>1, <4>2, <4>3
    <3> QED
      BY <2>1, <2>2, <2>3, <2>4, <3>1, <3>2, <1>d DEF CommittedCopyIsExact
  <2> QED
    BY <2>5, <2>7, <2>8
<1>2. CASE \E b \in Bundles : BundleChanges(b)
  <2>1. /\ UNCHANGED <<kexported, kpc, klist, kread, kdestination>>
        /\ kchanges' = kchanges + 1 /\ kchanges \in Nat
    BY <1>2 DEF BundleChanges, CommitStages
  <2>2. D' = D /\ hashable(kexported)' = hashable(kexported) /\ FilesOf(kexported)' = FilesOf(kexported)
        /\ \A S : ExportedFiles(S)' = ExportedFiles(S)
    BY <2>1 DEF directoryDigest, hashable, FilesOf, ExportedFiles
  <2>3. Undisturbed' => Undisturbed
    BY <2>1, ExportedIsDeclared DEF Undisturbed
  <2>4. CommitStages'
    BY <2>1, <2>2 DEF CommitStages
  <2>5. ReadSoFar'
    BY <2>1, <2>2, <2>3 DEF ReadSoFar
  <2>6. CommittedCopyIsExact'
    BY <2>1, <2>2 DEF CommittedCopyIsExact
  <2> QED
    BY <2>4, <2>5, <2>6
<1>3. CASE UNCHANGED commitVars
  BY <1>3 DEF commitVars, CommitStages, ReadSoFar, CommittedCopyIsExact, Undisturbed, AsDeclared, hashable, FilesOf,
              directoryDigest, ExportedFiles
<1> QED
  BY <1>1, <1>2, <1>3 DEF CommitNext

\* For every archive, directory and number of changes, readers and commits:
\* what is handed over of an output is what was inspected, as far as the
\* digests that oci.go, artifact.go and static.go take can tell.
THEOREM OutputsStayExact == OutputsSpec => []OutputsAreExact
<1>1. OutputsInit => ArtifactInv /\ CommitInv
  BY ArtifactInitially, CommitInitially DEF OutputsInit
<1>2. ArtifactInv /\ CommitInv /\ [OutputsNext]_<<ociVars, commitVars>> => (ArtifactInv /\ CommitInv)'
  <2> SUFFICES ASSUME ArtifactInv, CommitInv, [OutputsNext]_<<ociVars, commitVars>> PROVE (ArtifactInv /\ CommitInv)'
    OBVIOUS
  <2>1. [OCINext]_ociVars /\ [CommitNext]_commitVars
    BY DEF OutputsNext
  <2> QED
    BY <2>1, ArtifactStep, CommitStep
<1>3. ArtifactInv /\ CommitInv => OutputsAreExact
  BY DEF ArtifactInv, CommitInv, OutputsAreExact
<1> QED
  BY <1>1, <1>2, <1>3, PTL DEF OutputsSpec
=============================================================================
