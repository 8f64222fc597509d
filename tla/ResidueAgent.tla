---------------------------- MODULE ResidueAgent -----------------------------
(***************************************************************************)
(* The node's residue agent (residueagent) and its client in the allocator *)
(* (buildkube/residue_client.go): scrub what a terminated worker Pod left  *)
(* on its node, then inspect the node a second time, a bounded number of   *)
(* times, while the kubelet is still tearing the same Pod down. The        *)
(* kubelet starts nothing in a Pod without a sandbox and makes no new      *)
(* sandbox for a Pod that was deleted.                                     *)
(***************************************************************************)
EXTENDS Naturals, FiniteSets

CONSTANTS
  Containers, PodMounts,
  CleanupAttempts,
  MaxResidueFaults      \* bound: failed calls and late starts of a behaviour

ASSUME ResidueAssumption == CleanupAttempts \in Nat \ {0} /\ MaxResidueFaults \in Nat

VARIABLES
  nruntime,    \* CRI containers of the Pod, and "sandbox"
  nmounts,     \* mounts below the Pod's root
  nroot,       \* the Pod's volume root exists
  ncgroup,     \* "gone", "empty", or "busy" with processes
  nagents,     \* ready residue agents on the node
  npc, nattempt,
  nlisted,     \* what the current cleaner has listed and not yet handled
  nfailed,     \* an operation of this attempt failed
  nfound,      \* this attempt's inspection found something
  ncanceled,   \* the request's context ended
  nanswer,     \* what the allocator gets: none, clean, quarantined, error
  nfaults

residueVars == <<nruntime, nmounts, nroot, ncgroup, nagents, npc, nattempt, nlisted,
                 nfailed, nfound, ncanceled, nanswer, nfaults>>
nodeVars == <<nruntime, nmounts, nroot, ncgroup, nagents>>
callVars == <<nattempt, ncanceled, nanswer>>

ResidueInit ==
  /\ nruntime \in {Containers \cup {"sandbox"}, {"sandbox"}, {}}
  /\ nmounts \in {PodMounts, {}} /\ nroot = TRUE
  /\ ncgroup = IF nruntime = {} THEN "empty" ELSE "busy"
  /\ nagents \in 0 .. 2
  /\ npc = "resolve" /\ nattempt = 1 /\ nlisted = {} /\ nfailed = FALSE /\ nfound = FALSE
  /\ ncanceled = FALSE /\ nanswer = "none" /\ nfaults = 0

ResidueFault == nfaults < MaxResidueFaults /\ nfaults' = nfaults + 1

\* KubernetesResidueResolver.Resolve: exactly one agent is ready on the node.
ResolveAgent ==
  /\ npc = "resolve"
  /\ IF nagents = 1 THEN npc' = "runtime" /\ UNCHANGED nanswer ELSE npc' = "done" /\ nanswer' = "error"
  /\ UNCHANGED <<nodeVars, nattempt, nlisted, nfailed, nfound, ncanceled, nfaults>>

\* CRIRuntime.resources, as CleanupPod calls it: two lists, one after the
\* other. A call under an ended context fails like one the runtime refuses,
\* and then nothing counts as listed.
ListRuntime(at, listed, after) ==
  /\ npc = at
  /\ \/ ~ ncanceled /\ nlisted' = listed /\ npc' = after /\ UNCHANGED <<nfailed, nfaults>>
     \/ ncanceled /\ nlisted' = {} /\ nfailed' = TRUE /\ npc' = "mounts" /\ UNCHANGED nfaults
     \/ ResidueFault /\ nlisted' = {} /\ nfailed' = TRUE /\ npc' = "mounts"
  /\ UNCHANGED <<nodeVars, callVars, nfound>>

ListContainers == ListRuntime("runtime", nruntime \ {"sandbox"}, "sandboxes")
ListPodSandbox == ListRuntime("sandboxes", nlisted \cup (nruntime \cap {"sandbox"}), "remove")

\* CleanupPod: containers before sandboxes, one that is gone is not an error;
\* with its sandbox everything of the Pod stops.
RemoveRuntime ==
  /\ npc = "remove" /\ nlisted # {}
  /\ \E resource \in nlisted :
       /\ resource = "sandbox" => nlisted = {"sandbox"}
       /\ nlisted' = nlisted \ {resource}
       /\ \/ /\ ~ ncanceled /\ UNCHANGED <<nfailed, nfaults>>
             /\ nruntime' = IF resource = "sandbox" THEN {} ELSE nruntime \ {resource}
             /\ ncgroup' = IF ncgroup = "busy" /\ nruntime' \subseteq {"sandbox"} THEN "empty" ELSE ncgroup
          \/ ncanceled /\ nfailed' = TRUE /\ UNCHANGED <<nruntime, ncgroup, nfaults>>
          \/ ResidueFault /\ nfailed' = TRUE /\ UNCHANGED <<nruntime, ncgroup>>
  /\ UNCHANGED <<nmounts, nroot, nagents, callVars, npc, nfound>>

\* UnmountUnder: the mounts are listed, which fails as a whole, and then
\* unmounted one by one; one that is no longer there is an error.
ListMounts ==
  /\ npc = "mounts" \/ (npc = "remove" /\ nlisted = {})
  /\ \/ ~ ncanceled /\ nlisted' = nmounts /\ npc' = "unmount" /\ UNCHANGED <<nfailed, nfaults>>
     \/ ncanceled /\ nlisted' = {} /\ nfailed' = TRUE /\ npc' = "unmount" /\ UNCHANGED nfaults
     \/ ResidueFault /\ nlisted' = {} /\ nfailed' = TRUE /\ npc' = "unmount"
  /\ UNCHANGED <<nodeVars, callVars, nfound>>

Unmount ==
  /\ npc = "unmount" /\ nlisted # {}
  /\ \E mount \in nlisted :
       /\ nlisted' = nlisted \ {mount}
       /\ \/ mount \in nmounts /\ nmounts' = nmounts \ {mount} /\ UNCHANGED <<nfailed, nfaults>>
          \/ mount \notin nmounts /\ nfailed' = TRUE /\ UNCHANGED <<nmounts, nfaults>>
          \/ mount \in nmounts /\ ResidueFault /\ nfailed' = TRUE /\ UNCHANGED nmounts
  /\ UNCHANGED <<nruntime, nroot, ncgroup, nagents, callVars, npc, nfound>>

\* removePodRoot: a mount that is left keeps the directory.
RemovePodRoot ==
  /\ npc = "unmount" /\ nlisted = {}
  /\ npc' = "cgroup"
  /\ IF ncanceled \/ (nroot /\ nmounts # {}) THEN nfailed' = TRUE /\ UNCHANGED nroot
     ELSE nroot' = FALSE /\ UNCHANGED nfailed
  /\ UNCHANGED <<nruntime, nmounts, ncgroup, nagents, callVars, nlisted, nfound, nfaults>>

\* scrubCgroups: the processes are killed, the directory is removed unless
\* a container that still runs has put another process into it.
ScrubCgroups ==
  /\ npc = "cgroup"
  /\ npc' = "inspect runtime"
  /\ \/ ~ ncanceled /\ ncgroup' = "gone" /\ UNCHANGED nfailed
     \/ /\ ncanceled \/ (ncgroup = "busy" /\ ~ (nruntime \subseteq {"sandbox"}))
        /\ nfailed' = TRUE /\ UNCHANGED ncgroup
  /\ UNCHANGED <<nruntime, nmounts, nroot, nagents, callVars, nlisted, nfound, nfaults>>

\* One inspection: an error, or what it found.
Inspect(at, found, after) ==
  /\ npc = at /\ npc' = after
  /\ \/ ~ ncanceled /\ nfound' = (nfound \/ found) /\ UNCHANGED <<nfailed, nfaults>>
     \/ ncanceled /\ nfailed' = TRUE /\ UNCHANGED <<nfound, nfaults>>
     \/ ResidueFault /\ nfailed' = TRUE /\ UNCHANGED nfound
  /\ UNCHANGED <<nodeVars, callVars, nlisted>>

InspectContainers == Inspect("inspect runtime", nruntime \ {"sandbox"} # {}, "inspect sandboxes")
InspectSandboxes == Inspect("inspect sandboxes", "sandbox" \in nruntime, "inspect mounts")
InspectMounts == Inspect("inspect mounts", nmounts # {}, "inspect cgroups")
InspectCgroups == Inspect("inspect cgroups", ncgroup # "gone", "inspect root")

\* The Lstat of the root needs no context.
InspectRoot ==
  /\ npc = "inspect root" /\ npc' = "conclude"
  /\ nfound' = (nfound \/ nroot)
  /\ UNCHANGED <<nodeVars, callVars, nlisted, nfailed, nfaults>>

\* Mutant: only what the inspection lists counts.
ConcludeByFindings ==
  /\ npc = "conclude"
  /\ LET status == IF ~ nfound THEN "clean" ELSE "quarantined" IN
     IF status = "clean" \/ nattempt = CleanupAttempts \/ ncanceled
     THEN npc' = "answer" /\ nanswer' = status /\ UNCHANGED <<nattempt, nfailed, nfound>>
     ELSE npc' = "runtime" /\ nattempt' = nattempt + 1 /\ nfailed' = FALSE /\ nfound' = FALSE /\ UNCHANGED nanswer
  /\ UNCHANGED <<nodeVars, nlisted, ncanceled, nfaults>>

\* The end of cleanupAttempt and of a turn of Cleanup's loop.
Conclude ==
  /\ npc = "conclude"
  /\ LET status == IF ~ nfailed /\ ~ nfound THEN "clean" ELSE "quarantined" IN
     IF status = "clean" \/ nattempt = CleanupAttempts \/ ncanceled
     THEN npc' = "answer" /\ nanswer' = status /\ UNCHANGED <<nattempt, nfailed, nfound>>
     ELSE npc' = "runtime" /\ nattempt' = nattempt + 1 /\ nfailed' = FALSE /\ nfound' = FALSE /\ UNCHANGED nanswer
  /\ UNCHANGED <<nodeVars, nlisted, ncanceled, nfaults>>

\* The answer reaches the allocator, or the call fails there.
ReceiveReport ==
  /\ npc = "answer" /\ npc' = "done"
  /\ \/ ~ ncanceled /\ UNCHANGED <<nanswer, nfaults>>
     \/ ncanceled /\ nanswer' = "error" /\ UNCHANGED nfaults
     \/ ResidueFault /\ nanswer' = "error"
  /\ UNCHANGED <<nodeVars, nattempt, nlisted, nfailed, nfound, ncanceled>>

\* The kubelet removes something of the Pod too; with the sandbox, all that
\* runs in it.
KubeletTeardown ==
  /\ \/ \E resource \in nruntime :
          /\ nruntime' = IF resource = "sandbox" THEN {} ELSE nruntime \ {resource}
          /\ ncgroup' = IF ncgroup = "busy" /\ nruntime' \subseteq {"sandbox"} THEN "empty" ELSE ncgroup
          /\ UNCHANGED nmounts
     \/ \E m \in nmounts : nmounts' = nmounts \ {m} /\ UNCHANGED <<nruntime, ncgroup>>
  /\ UNCHANGED <<nroot, nagents, npc, nlisted, nfailed, nfound, callVars, nfaults>>

\* A start that was under way when the Pod was deleted.
LateStart ==
  /\ "sandbox" \in nruntime /\ ResidueFault
  /\ \E c \in Containers \ nruntime : nruntime' = nruntime \cup {c}
  /\ nmounts' = PodMounts /\ nroot' = TRUE /\ ncgroup' = "busy"
  /\ UNCHANGED <<nagents, npc, nlisted, nfailed, nfound, callVars>>

CancelCleanup ==
  /\ ~ ncanceled /\ npc # "done"
  /\ ncanceled' = TRUE
  /\ UNCHANGED <<nodeVars, nattempt, nanswer, npc, nlisted, nfailed, nfound, nfaults>>

ResidueNext ==
  \/ ResolveAgent \/ ListContainers \/ ListPodSandbox \/ RemoveRuntime \/ ListMounts \/ Unmount \/ RemovePodRoot \/ ScrubCgroups
  \/ InspectContainers \/ InspectSandboxes \/ InspectMounts \/ InspectCgroups \/ InspectRoot \/ Conclude \/ ReceiveReport
  \/ KubeletTeardown \/ LateStart \/ CancelCleanup

ResidueSpec == ResidueInit /\ [][ResidueNext]_residueVars

-----------------------------------------------------------------------------
\* A worker's node is reported clean only if nothing of the Pod is left on
\* it, and then nothing of it comes back: whatever call failed, whatever the
\* kubelet removed or started between the scrub and the inspection.
CleanNodeIsClean ==
  nanswer = "clean" => nruntime = {} /\ nmounts = {} /\ ~ nroot /\ ncgroup = "gone"
=============================================================================
