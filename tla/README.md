# Lrail: a verification development

TLA+ models of the parts of Lrail whose correctness depends on the order of
things: what happens to a build when processes crash, calls are repeated,
leases run out and cancellations arrive at the wrong moment. TLC checks the
models on small instances; TLAPS proves the most important statements for every
value of the constants. `PROJECT.json` maps every definition to the lines it
models, and lists runs, mutants, hazards, findings and theorems.

## Inventory

| Component | State | Operations | What is hard | What makes it correct |
|---|---|---|---|---|
| Build broker (`services/build-plane/internal/buildorchestrator`) | Bolt store: run record, event log and checkpoint per build and generation; map of active runs | Submit, Cancel, Watch, Resume, Close; execute loop; two cancellation goroutines | five writers of one record; dispatch and its record are two transactions; restart at any point; deadline, shutdown and cancellation share one context | one assignment per generation; a result is the cell's result for that assignment; terminal records stay; runs end |
| Orchestrator pipeline (same package) | checkpoint, scratch directory | materialize, detect, compile, store, sign, dispatch, recover | steps fail under a context that may be done for three different reasons | signed assignment durable before use |
| Build cell server (`buildtransport`) | map of active runs | ExecuteAssignment, CancelAssignment, GetAssignment | cancel persists and signals in two steps | accepted cancellations are honoured |
| Build controller (`buildcontrol`) | run store: owner, lease, phase, attempt, cancellation | Run, runAttempt, awaitOrForce, finish | takeover after lease expiry, crash with a worker running, late results | one owner per attempt, no stale worker, complete means clean |
| Replay store (`buildcell`) | watermark per build, set of nonces | Reserve | redelivery, collisions, capacity | one payload per generation, one build per nonce |
| Worker allocator (`buildkube`) | Kubernetes resources per attempt | Allocate, Release, Force, CleanupStale | partial creation, failed deletion | nothing left behind, or quarantine |
| Capability broker (`buildcap`) | OpenBao tokens | Acquire, Revoke | crash between login and revocation | token revoked or tracked |
| BuildKit executor (`buildworker`) | scratch directory, directory caches with file locks, quarantine marker, quota monitor, log buffers | Execute (materialize, lease, solve, inspect, commit), settle caches, cleanup; guard; redact | outliving a forced termination; leases held while waiting for others; crash inside a cache commit; breach after the last output; files read twice | complete means committed, within quota and clean; caches can always be followed; what is published is what was inspected; no secret in a log |
| Registry (`buildregistry`) | Harbor robots, push leases, repository, referrers index, retention journal | issue, revoke, sweep; push with evidence; authorise and perform a deletion | crash between robot and lease; read-merge-write of the referrers index; retention racing a push | no robot whose token is out without a lease; a committed publication stays complete; credentials end |
| Evidence and signing (`buildsupply`, `buildsigning`) | vulnerability database, transit key, signing tokens | analyze, evaluate, sign five payloads, verify | database replaced and key rotated under way; signer at capacity | nothing signed that policy denies; one trusted key version in a bundle |
| Egress proxy (`buildegress`) | worker certificate, issuer, tunnels with deadlines | issue, CONNECT: authorise, resolve, audit, dial, check ClientHello, relay | answers that change, capability expiring under a tunnel, silent peers | only what the signed lock grants, audited first; tunnels end |
| Residue agent (`residueagent`) | containers, mounts, cgroups, pod directory of a node | list, remove, unmount, inspect, repeat | kubelet works on the same Pod; each call may fail | a clean report is true and stays true |
| Source plane (`services/source-plane`) and its callers (`source_ingestion` in the control plane) | sessions, parts, receipts, snapshot objects, gateway slots, provider tunnels | create session, put part, finalize, fetch, delete parts; provider proxy | racing finalizers in two gateways, parts overwritten while read, lost answers, takeover of a stuck finalization | one answer per session, backed by stored objects; a failed finalization can be repeated; requests end |
| Control plane (`apps/control-plane`) | deployments, operations, outbox, inbox, idempotency keys, build events | create, cancel, apply event, publish, consume | at least once delivery, events out of order | each effect once, events applied in order |
| Workflow workers (`apps/control-workers`) | Temporal histories, NATS consumer | start, build, watch, finalize | retries, cancellation signal, duplicate starts | every deployment is finalized with the broker's result |
| Usage meter, domain state, edge compiler, target bundles | pure functions or small machines | | boundaries | agreement with a reference definition |
| Detector, DSL and LLB compiler, CLI, SDK, contracts | none | translation | data | outside this development |

How they interact: the control plane writes a deployment and an outbox row; the
workflow worker consumes the event, submits the build to the broker and polls
Watch. The broker prepares and signs one assignment, checkpoints it, streams
ExecuteAssignment to the cell and falls back to polling GetAssignment. The cell
reserves the assignment in the replay store, claims the run record, acquires
capabilities, allocates a worker, executes, releases, revokes and writes a
terminal record. A cancellation travels the same way, by build and generation.

## Modules

| Module | Models |
|---|---|
| `Assignment` | the signed assignment a verified payload stands for |
| `ReplayStore` | `reserveReplayState` as a function of the stored watermark and nonces |
| `RunStore` | the operations of the run store: guard and resulting record |
| `BuildControl` | cell server, controller, allocator and capability broker: one process is a `Servers` element, one run a record `run[s][b]` whose `pc` names the next call |
| `BuildOutcome` | abstract specification of a cell: accepted once, ended at most once, a canceled run never ends complete or failed |
| `BrokerStore` | the operations of the broker's Bolt store |
| `BuildBroker` | Submit, Cancel, Resume, Close, execute, Orchestrator.Run, the dispatcher and the cancellation goroutines; the cell appears as `BuildOutcome` plus the identity of the assignment it holds |
| `FileStore` | the file variants of the run and replay stores: lock, read, temporary file, sync, rename, directory sync |
| `BuildWorker` | BuildKitExecutor.Execute and the directory caches |
| `OCILayout`, `OCIArtifact` | which OCI archives are accepted; the repeated reads of one |
| `OutputCommit` | static outputs: packed by the Publisher, copied by DirectoryArtifactCommitter |
| `Outputs` | the two kinds of output together: an archive and a directory that change while they are read |
| `QuotaGuard` | buildkit-wrapper: guard, monitor and guarded process |
| `LogRedactor` | log streams cut into chunks, lines and secrets; the patterns in every order NewRedactor's sort leaves open |
| `BuildRegistry` | registry broker, publisher, retention |
| `BuildEvidence` | analysis, policy and the five signatures |
| `EgressPolicy`, `BuildEgress` | decisions of the egress proxy; one CONNECT through forwarder and proxy |
| `ProviderEgress` | the source plane's CONNECT proxy and the destination policy |
| `ResidueAgent` | residue agent and its client |
| `SourceArchive`, `SourcePlane` | what is accepted as a source tree; sessions, parts, finalization, fetch and receipts |
| `MCBuildControl`, `MCBuildBroker`, `MCSourcePlane`, `MCServices` | instances for TLC |
| `BuildControlProofs`, `BuildBrokerProofs`, `FileStoreProofs`, `SourcePlaneProofs`, `LogProofs` | theorems about `BuildControl`, `BuildBroker`, `FileStore`, `SourcePlane` and `LogRedactor` |
| `NodeProofs`, `RegistryProofs`, `EgressProofs` | theorems about `QuotaGuard`, `ResidueAgent`, `BuildWorker` and `Outputs`, about `BuildRegistry` and `BuildEvidence`, and about `BuildEgress` and `ProviderEgress` |

In all models every call that reaches a store, Kubernetes, OpenBao, the worker
or another service is a step of its own. A call's caller may find its context
done, its lease gone or its record changed at the next step. Local computation
between two such calls is part of the step that follows or precedes it.

`BuildControl`. `rec` is the run store, `watermark` and `nonces` the replay
store, `run[s][b].pc` the position in Controller.Run (`reserve`, `claim`,
`scrub`, `begin`, `resolve`, `attempt`) and in runAttempt (`acquire` ...
`release`, `revoke`, `retry`, `wait`), `finish` and `done` (the deferred delete
of the active entry). `workers` and `tokens` are the attempts whose Kubernetes
resources and OpenBao tokens exist; `scratch` and `leaked` stand for the
executor's directory and for an Execute that outlives a forced termination:
until its process ends it may write the directory again, scrub it or neither. A
login whose answer is lost leaves a token nobody tracks (`AcquireLogin`).
CancelAssignment is two actions, `CancelPersist` and `CancelSignal`, because
the run moves between them.

`BuildBroker`. `rec` and `ckpt` are the store, `run[k].pc` the position in
execute and, inside it, in Orchestrator.Run and GRPCCellDispatcher.
`run[k].stopped` is `ctx.Err() != nil`; `call[c]` is an HTTP call or the
goroutine it leaves behind, with what it remembers of the record it read
(`snap`). `Restart` is a crash or the end of a closed process followed by a new
one, whose Resume treats one record per step before it serves.

`SourcePlane`. A call `call[c]` is one request of the control plane and the
handler that serves it: the row lock and state of `finalize.rb` or `fetch.rb`,
the gateway's slot, each object read and each immutable write. `part`,
`archives`, `manifests` and `receipts` are the object store; `PutPart` is a
client with a presigned URL, enabled until the grant expires, also while a
finalizer reads. `withdrawn` holds expired sessions and fetches whose connection
is no longer active (`ConnectionChanges`; StartFetch looks, a running fetch does
not look again). A batch of deletions may fail with any subset of the parts gone. `PutImmutable` compares what is there with what it was to
write, as `minio.go` does with the stored digest. Digests are injective
functions of what they digest, signatures the record they bind.

`BuildRegistry`. `op` is the one broker call that holds the mutex, `commit[p]`
the position of a Publisher.Commit. Robot, lease and token of one Issue share a
number in `made`, so that each can outlive the others: `robots`, `leases`,
`lapsed`, `tokened`. The repository is `pushed`, `manifests`, `alias` and
`referrers`; a registry with the referrers API (`api`) merges the index by
itself, one without it leaves the merge to `ReadIndex` and `WriteIndex`.

`BuildEvidence`. `gen[i]` is the position in Pipeline.Generate; `database` and
`latest` change at any time. What the scanner saw (`scanned`) and what it said
it saw (`identity`) are kept apart, as are the version a session read and the
one that signed.

`BuildWorker`. `exec[a]` is the position in Execute and its deferred functions,
which run in Go's order: leases in reverse, then the monitor, then the scratch.
`cause[a]` is the cause of the execution's context, and the code looks at it only
where the model does. A cache is `lockedBy`, `staging`, `records`, `metadata`,
`current`: the five things on disk that a crash can leave in any combination.
`CellCrash` drops file locks, as the kernel does. An execution without caches or
with secrets gets an empty lease. A failing directory sync may leave the renamed
pointer in place (`SettleFails`).

`OCIArtifact` and `OutputCommit` keep the file or directory as it is now next to
what was read of it, one action per read. A file that is not the one listed, or
not of its size any more, is refused, and a commit may fail after its rename
(`SyncParentFails`). `FileStore` keeps, per name, the file
the processes see and the one a power failure would leave; only a directory sync
makes the first the second. `QuotaGuard` is three processes: guard, monitor and
guarded process, which may write and free as it likes. `LogRedactor` represents text as sequences of a few letters,
because where a chunk, a line and a secret end is what the property is about.
NewRedactor collects the patterns in a Go map and sorts them by length with an
unstable sort, so `lpatterns` is any order that has the longest first. The mask
and the notice of an omitted line are letters no secret has; in the code a secret
such as "RED" is part of "[REDACTED]" and cannot be kept out of the log.
`BuildEgress` counts time in small units and carries every deadline the code sets
and clears; a name behind several private gateways belongs to the first that has
it, and requests that are no CONNECT, or none with a good authority, are denied.
`ProviderEgress` has an address policy of its own, which reserves fewer ranges
(addresses of class "special" pass it), counts the addresses of an answer before
it removes repetitions, and sets the deadline of a tunnel once the client's
connection is taken over; hijack, answer, relay and close are steps. In
`ResidueAgent` every listing, removal and inspection is a step, containers and
sandboxes being two listings, and the kubelet moves between any two: it removes
what is left of the Pod, its sandbox included.

`MCServices` extends eleven components that share no state. `part` picks one of
them; the others stay in their first state, so the run's states are the sum and
not the product of theirs, and each property speaks of one of them only.

Abstractions that matter: the event log is only full or not; materialize,
detect, compile and put are one step that fails in each way the code tells
apart; timestamps appear as the events that make them matter (`LeaseExpires`,
`AssignmentExpires`, `Deadline`); result validation other than assignment
identity and attempt count is left out (a result that fails it takes the same
path as one that counts no attempt).

## Runs

| Run | Shows | Bounds |
|---|---|---|
| `cell` | type, durable cancellation honoured, complete means clean, no stale worker, terminal records stay | one process, one build in two generations, 2 attempts, 2 faults (crash or store error) |
| `shared` | two processes never inside the same numbered attempt, an attempt finds no resources of its name, the cell implements `BuildOutcome` | two processes on one store, 3 owners, 2 attempts; no crash, no assignment expiry, no leaked executor (`SharedBound`): the takeover itself is the fault |
| `replay` | one build per nonce, watermarks rise, records lie under their watermark | two builds, three assignments that collide in nonce or generation, run store with room for one, 1 fault |
| `live` | an undisturbed run ends; a redelivered one ends through faults and cancellation | one build, 2 attempts, 2 faults |
| `late_cancel` | violation: an accepted cancellation can be followed by success | 1 fault |
| `cleanup` | violation: resources can outlive a run reported failed and clean | 1 fault |
| `broker` | type and retry limit, one assignment per generation, complete comes from the cell under this assignment, one open generation, terminal records stay | one build, two generations, a conflicting request, 2 attempts, 1 fault, one call at a time beside the runs |
| `broker_live` | a run nobody cancels ends | one generation, 2 attempts, 1 fault |
| `shutdown` | violation: graceful shutdown cancels a build that is being prepared | 1 fault |
| `local_cancel` | violation: a run resumed from its checkpoint is canceled locally while the cell runs it | 1 fault |
| `source` | racing, repeated and interrupted requests get one answer; it is backed by stored objects; parts are kept until the receipt is there; requests end | one upload (two parts, two calls, two gateways with one slot each) or one fetch; archives in two orders, one incomplete, one repacked; 1 fault |
| `services` | the seventeen properties below | below |

The parts of `services`:

| Part | Properties | Bounds |
|---|---|---|
| registry | `TokenIsLeased`: a robot whose token is out has a lease. `CommittedIsComplete`: a committed publication keeps subject, blobs, evidence, alias and referrers unless a journaled deletion took them. `CapabilitiesEnd`: no robot stays for ever | pairs of publications: same business key with a deletion under way, same build one static, other build without referrers API; one lease, 1 fault |
| evidence | `BundleIsCoherent`: five kinds, one trusted key version, the scan's own database, no token left. `DeniedIsNeverSigned` | two images, three database and key versions, signer for one, 1 fault |
| worker | `CompleteIsProven`, `CacheIsServable`, `ExecutionsEnd` | two builds with two outputs in opposite declared order, or two attempts of one build one with secrets, or one with secrets beside one without caches; 1 fault |
| oci, commit | `OutputsAreExact`: what is published, extracted or copied is what was inspected | nine archives (extra, missing, corrupt, duplicate, linked entries), six directories, each changing up to twice |
| files | `AcknowledgedIsDurable`: acknowledged writes survive process death and power failure, none is overwritten from a stale read | two handles, two records, room for one, two writes, 2 faults |
| guard | `GuardedRun`: nothing runs before this run's monitor has measured, nothing stays after the guard. `OverQuotaStops`: a process that stays over its quota is stopped, and so is every one whose monitor has ended | both modes, with and without a stale readiness file, 1 fault |
| log | `LogsAreRedacted`: output equals redaction of the whole lines however the stream is cut; no secret, nor line of one, in it; a line that is a secret comes out as the mask alone | three secrets (one a prefix of another, one of two lines that overlaps with it), every order of patterns of one length, six chunks, lines of 3 and streams of 6 letters |
| egress, provider | `EgressIsAuthorized`, `ProviderStaysInside`, `TunnelsEnd` | thirteen requests, eight DNS answers, three issuers, capability of 3 units, clock to 6; four tunnels, one slot; 1 fault each |
| residue | `CleanNodeIsClean` | two containers, two mounts, the code's four attempts, 2 faults |

Why the bounds are enough. Two attempts are needed for a retry to meet what the
first left; a third repeats the second. Two faults allow a crash inside the
recovery from a crash. Two processes are the least that can contend, a third
contends in the same way because owners are never shared (proved). The broker's
one call slot still overlaps with the run it cancels and with the goroutine of
Resume; its interleavings with a second cancellation differ only in who writes
the terminal record, which `TerminalRunStays` covers for the run and the call.
In `source` two calls are the least that race; a third does what the second does
after the first has ended. A part of `services` has two actors wherever two can
meet; its fault budget allows a failure at any step, and two where a failure
inside the handling of a failure is what matters (files, residue). Line and
stream lengths of `log` let a secret lie across every kind of boundary. Two
changes let a file be changed and changed back between two digests.
Symmetry is over owners, processes, nonces and calls: random names or
interchangeable instances. It is not used in liveness runs.

`CHECK_DEADLOCK FALSE` stands in the broker's configurations because a broker
whose builds have all ended, with no request left to submit, stops. The same
holds of sources that are ingested and of services that have done what the run
asks of them.

Each property has a mutant: a plausible slip in a mapped definition (a dropped
guard, a forgotten write) under which TLC finds it violated.

### Fairness

In `BuildControl` a run that has begun takes its next step and the second half
of CancelAssignment follows the first: both are straight-line code of a live
process, and every external call has a timeout. Nothing is assumed of callers.
`RedeliveredRunEnds` carries its assumption in its statement: the assignment is
delivered again and again, and leases do not last for ever. The dispatcher does
not do this by itself: `recover` only polls, so it is a new attempt of the
broker that delivers again.

In `BuildBroker` runs, calls and Resume go on, request deadlines pass, and a
closed process is replaced. Nothing is assumed of the cell, which may stay
silent for ever, or of the callers.

In `SourcePlane` handlers run to their end, clients upload what they were granted
and, for `RequestsEnd` only, repeat a request until a gateway has a slot for it
(strong fairness: a slot may be taken between two tries). The repetition is the
caller's: the API's clients and the jobs of webhook deliveries retry; the gateway
promises that a retry can succeed, and that is what is checked.

In `MCServices` the broker's calls end (they have timeouts), its sweeper ticks and
leases lapse with time; a step of Execute ends, with the exception of the wait for
a file lock; guard and monitor run; proxy handlers run and time passes, so that deadlines that
were set end the tunnels they were set on. Nothing is assumed of publishers, of the
guarded process, of the ends of a tunnel, of the kubelet or of operators. The
monitor samples on a ticker (quota.go:86) and keeps no maximum: a process that is
over its quota only between two samples runs on, which is why `OverQuotaStops`
speaks of one that stays over it. `ExecutionsEnd` rests on buildir sorting outputs
(buildir.go:152): with the outputs in declared order, as its mutant has them, two
builds wait for each other's cache.

## Findings

Four statements of documents or comments that the code does not keep; each is a
run that TLC violates and an entry in `PROJECT.json`.

1. `late_cancel`: ADR 006 line 15 says a cancellation is persisted before an
   active process is signalled and survives a restart. One that arrives between
   registration of the run and the claim of its record is answered `accepted`
   without being persisted.
2. `cleanup`: ADR 006 lines 28 and 50 promise cleanup or quarantine on every
   path. A failed Allocate drops the error of its own rollback. The property asks
   nothing of tokens, which expire, nor of scratch an outlived executor writes.
3. `shutdown`: broker.go line 283 says a shutdown preserves the run. During
   preparation Run itself turns the done context into the terminal `canceled`.
4. `local_cancel`: ADR 022 line 48 says CancelAssignment is called after
   dispatch. A run resumed from its checkpoint after a crash between Save and
   the event `assigned` is never marked dispatched.

Observed without a run: ADR 006 line 15 also says that a cancellation "permits
immediate ownership takeover", while `applyClaim` (store_memory.go:141) asks for
an expired lease in any case; Controller.New accepts up to five attempts but the
run store refuses an attempt above `DefaultMaxAttempts` (three); a cell keyed by
build refuses every later generation of the build; a dispatched cancellation
whose Run fails leaves the record `canceling` until the next Cancel or restart;
a cancellation that reaches the cell after it has finished ends as
`build_cancel_unconfirmed`, since nobody asks for the result.

Further observations from the services, each a behaviour of the model that no
document of the repository clearly forbids:

- Sources. Two archives with the same files in another order have one snapshot
  digest; the second one meets `ErrImmutableConflict` on the archive key whenever
  it is tried (`RequestsEnd` exempts it as `Collided`). The 409 `parts_incomplete`
  of httpapi (api.go:212) is not reached, since missing parts surface as a format
  error. The rescue of `finalize.rb` writes `failed` over a session that another
  call completed after a takeover. A finalizer that loses the race for the receipt
  answers an error, where Fetch re-reads the winner's.
- Registry. A crash between CreatePushRobot and `leases.Put` leaves a robot that no
  lease names; its secret has not left the broker, and Harbor expires it
  after a day.
  The client drops a capability it finds invalid without revoking it, which leaves
  it to the sweeper. A later attempt that arrives at the same manifest digest meets
  the `.sig` alias of the earlier one and fails; that same alias is what keeps two
  publications from losing each other's entries in the referrers fallback. The
  protection set of a deletion may be stale when the deletion is carried out.
- Worker. A cancellation or breach while waiting for a cache lease is reported as
  `cache_acquire`, a breach during a commit as canceled; a breach after the last
  look at the context is an event only. A failing cache commit fails a build whose
  outputs are already published. The digest of the event log can fail after the
  event `complete` has been emitted.
- Artifacts. A file changed and changed back between two digests goes unnoticed.
  With two changes an extracted archive can differ from the expected one, and the
  layer the Publisher packs from the declared digest; `OutputsAreExact` therefore
  speaks of these two only up to one change. The blobs handed over for publication
  are compared one by one, and the copying committer digests its copy: both are
  immune, whatever the number of changes. directoryDigest does not see empty directories, the layer
  contains them.
- Logs. Of two secrets that overlap in a line the one replaced first is masked and
  the rest of the other stays visible; `LogsAreRedacted` speaks of whole secrets
  and whole lines of secrets.
- File stores. A failed directory sync is answered with an error, yet the state is
  visible: a later read may answer from it before a power failure takes it away.
  readState limits the size of the file, writeState does not look at it.
- Egress. readValidatedClientHello clears the client's read deadline, so the
  upstream's deadline alone ends a tunnel; bytes a client sends before the 200 are
  dropped; a failing A or AAAA query fails both.
- Residue. `CleanNodeIsClean` needs what ADR 006 line 30 assumes: the kubelet makes
  no new sandbox for a deleted Pod.

## Proofs

`BuildControlProofs` proves, for any sets of processes, builds, owners and
assignments and any limits on attempts and faults, from the named assumptions
`AssignmentAssumption`, `RunStoreAssumption` and `ControlAssumption`
(assignments are well-formed and named by their digest, NoOwner is no owner, the
limits are natural numbers and MaxAttempts is positive):

- `TypeCorrect`: every variable keeps its type; no run counts beyond MaxAttempts;
- `ExclusiveAttempts`: two processes are never inside the same numbered attempt;
- `TerminalStays`: no step changes a terminal record;
- `CancellationHonoured`: a durable cancellation is never followed by complete
  or failed;
- `OutcomeKept`: the cell implements `BuildOutcome`;
- `WatermarksRise`, `NoncesAreSingleUse`, `RecordsAreReserved`: a watermark
  changes only to a higher generation, no two builds stand under one nonce, and
  the replay store is never behind the run store;
- `AttemptsAreFresh`: an attempt never finds worker resources of its own number;
- `CompleteLeavesNothing`, `WorkersAreNeverStale`: for one process on the stores,
  a complete record leaves no worker behind and no scratch but what an executor
  that outlived an earlier run may write, and no attempt runs beside the worker of
  an earlier one.

The argument. A process that lost its lease goes on as if it owned the run, and
Finish does not look at whether the record is terminal: what protects the record
is that a heartbeat and Finish compare owners, and that an owner is drawn anew
at every claim. The inductive invariant `IndInv` therefore says: owners of two
runs of a build are distinct (`OwnersDistinct`); a run whose owner is the
recorded one finds the record active, with the attempt number it knows
(`OwnerRecorded`); nobody is ahead of the recorded number (`NotAhead`); runs and
records have their shapes (`RunsOK`, `RecsOK`). AttemptExclusive alone is not
inductive: a stale owner must be known to count strictly below whoever took
over. Each action is first shown to be of one of six kinds (`Quiet`, `Beat`,
`Claimed`, `Finished`, `Touched`, `Reset`), named by what it does to one record
and one run, and the invariant is shown to survive each kind.

The replay store. `ReplayInv` adds that a run about to claim stands under the
watermark of its build (`ReservedRuns`) and that the nonce of every watermark was
recorded (`NoncesRecorded`): the record and the watermark are in two stores,
written in two calls, so the order of the calls has to be carried by the run
between them. `AttemptsAreFresh` needs `WorkersCounted`, that no resources exist
for a number that is not durable yet; with it, the exclusion of two processes
from one attempt gives the result.

One process. `OneProcess` is a hypothesis of the last two theorems and not an
assumption of the model: the deployment has one buildcell-server per cell, and
with two the statements are false, since a process that lost its run may still
hold a worker. `CleanInv` says what a run knows of the workers and the scratch
of its build from its scrub to its result (`CleanRun`): nothing before it
allocates, at most its own attempt while it has a worker, nothing once a release
was confirmed. Crashes are covered: the successor claims, and scrubs before it
begins.

`BuildBrokerProofs` proves, for any requests, builds, generations, nonces, calls
and limits, from `BrokerStoreAssumption` and `BrokerAssumption` (there is a
request and requests are well-formed, NoNonce is no nonce, MaxAttempts is
positive), and from what the action `Sign` says of a random nonce: it repeats
none in use:

- `BrokerTypeCorrect`: every variable keeps its type; no run counts an attempt
  past the limit;
- `AssignmentSignedOnce`: what the cell holds for a generation is its
  checkpoint;
- `CompletedByCell`: a record is complete only when the cell completed the
  assignment of this generation;
- `GenerationsInTurn`: two generations of a build are never open together;
- `TerminalRunKept`: no step writes a terminal record again.

The argument. Every action is shown to be `Fine`: it changes at most one record
and only one that is open, or creates one when every other generation of the
build has ended (`RecStep`); it changes a checkpoint only from unsigned to signed
(`CkptStep`); the cell keeps what it holds, and takes up only an assignment that
is checkpointed (`CellStep`). The safety conjuncts survive every step of that
shape (`SafetyPreserved`). Three strengthenings make the invariant inductive. A
run past the signature carries the checkpointed nonce (`RunFine`), without which
a dispatch could hand the cell something else; the cell's assignment is signed
(`HeldSaved`), so that its checkpoint cannot change any more; an open record is
the latest of its build (`LatestOpen`), because Claim looks at the latest
generation only and would overlook an older one that is open.

`FileStoreProofs` proves `AcknowledgedKept` for any processes, records and faults,
from `FileStoreAssumption` ("free" names no process, the limits are natural
numbers): every acknowledged write is in the file the processes see and in the one
a power failure would leave, and both can be read. The property says nothing of an
operation under way, so it is not inductive. `FileInv` adds that whoever is between
the read and the directory sync holds the lock (`Locked`); that what it is about to
rename has every write of the visible file and one more, and is synced by then
(`Ahead`); and that both files are whole (`WholeFile`). Either file has every
acknowledged write, so it does not matter which of them a power failure leaves.

`SourcePlaneProofs` proves, for any uploads, fetches, archives, parts, handlers,
gateways and faults, `AnswersAreOne`, `ReceiptsAreBacked` and
`PartsOutliveFailures`, from `SourceAssumption` (uploads are not fetches, the
limits are positive, the normalization policy is one the gateway accepts, trees
are finite) and `RepackedAssumption` (the set of archives contains those the
gateway makes). Objects are written once (`Grows`), so what one handler has
verified and stored before it signs (`Verified`), and a receipt it has seen
(`Concluded`), stay true whatever the others do. For a fetch this includes that
the repacked archive lists exactly the files of the commit's tree
(`RepackedFiles`): from the definition of SetToSeq, without induction.

`RegistryProofs` proves `TokensAreLeased` and `CommitsStayComplete` for any
publications, leases and faults, from `RegistryAssumption` (evidence of one
digest belongs to one build; the tables have their domains). The first needs that
the one call that holds the mutex removes a lease only after its robot
(`OpOwned`, `LeaseKept`). The second needs what a Commit at each stage can still
find (`Published`): manifests go only under a journal record, and the signature
tag is written once, so a Commit that merges a stale referrers index can lose only
the entry of one that lost the race for the tag and fails by itself.

`RegistryProofs` also proves `AcceptedBundles` and `OnlyAcceptedIsSigned` for any
images, reports, policy, databases and key versions. A database only gets newer
under a scan (`ScanInOrder`: reported <= scanned <= present), so equal versions at
both looks mean that the scan used that version; what is collected is exactly the
first kinds under one version (`BundleSoFar`).

`EgressProofs` proves `EgressStaysAuthorized` for any connections, locks, gateways,
DNS answers and faults, from `EgressPolicyAssumption` and `EgressAssumption`
(addresses and times are numbers, "bad" is no host), and `ProviderEgressIsBounded`
for any tunnels. The policy in the certificate grants what the signed lock grants
and nothing else (`FromLock`, a fact about `NewPolicy` and `Validate`), so every
candidate left to dial is granted and audited (`Candidates`), and the deadline of
the upstream connection is never past the capability's end (`InTime`). The
provider proxy's counter equals the number of requests being served, finite by
induction over the steps (`ProviderInv`), whatever the set of tunnels.

`NodeProofs` proves `GuardKeepsOrder` and `CleanReportHolds` for any number of
faults. A readiness proof the guard waits for was written by this run's monitor
(`ProofIsFresh`), because the root was emptied before it was started; each
inspection of the residue agent that found nothing stays true, because nothing is
started without a sandbox and the inspections come in that order (`Inspected`).

It also proves `CompletionsAreProven` and `CachesAreServable` for any attempts,
outputs, exports and faults, from `WorkerAssumption` (the outputs of an attempt are
declared once each; "none" is no attempt). Neither property says anything of an
execution under way. `WorkerInv` adds that an execution without an error that is
past its loop has published every output (`Unfailed`, `OutputsDone`); that it holds
locks only until they are settled, and has staged nothing outside them unless it
failed (`Leases`); that the newest lease, while it is being settled, is for a
published output whose record, and then metadata, are in place. A pointer therefore
names a complete record at every instant (`Servable`), and a crash needs no case of
its own. That the outputs can be sorted, and that a set of leases has a newest one,
is proved by counting the elements below each (`SortedExists`, `GreatestExists`).

`OutputsStayExact` is proved there for any archives, directories, readers, commits
and any number of changes, from `LayoutAssumption` (a manifest is no metadata file,
its config and layers are neither) and the assumptions of `OutputCommit`. The
property compares the end of a series of reads with its beginning. `ArtifactInv`
says what the reader knows of the expected archive while nobody has changed it: what
its scans accepted and captured, that the archive is closed by the inspected manifest
(`ClosedBy`), and that the entries extracted so far are a prefix of it
(`ReaderKnows`). A file that changed once is another file (`ArchiveSeen`), so the
digest at the end rules that case out. `CommitInv` says that what a commit has read,
together with what it still lacks, is the exported content (`ReadSoFar`), as long as
the directory has the declared digest after at most one change (`Undisturbed`).

`LogProofs` proves `LogsStayRedacted` for any secrets, chunks and limits and streams
of any length, from `RedactorAssumption` (finitely many secrets, none empty and none
with a letter of the mask or the notice). It is an argument over data, so the lemmas
first state induction in a form the provers can use, for a set instead of an operator
(`InductionOnNat`, `InductionUpTo`, `InductionFromEnd`), and from it that the
equation of a recursive function has a solution (`RecursionExists`; only then does
the function satisfy it). Then:

- the lines of a text in two parts are the lines of the parts joined
  (`LinesConcat`), and one turn of Push's loop does to the state what the part does
  to the lines (`PushTurns`, `PushedPartsState`): buffer, flag and output are a
  function `StateOf` of the lines delivered, which is the invariant `LogInv`;
- ReplaceAll leaves no occurrence of its pattern, and an occurrence of any pattern
  in its result was one in its argument, since it has no letter of the mask
  (`MaskedPrefix`, `MaskedSuffix`, `MaskMakesNone`): after the last pattern none is
  left, in any order (`RedactLeavesNone`);
- with the longest first, nothing is replaced inside a line that is itself a pattern
  before its own turn (`MaskKeepsOthers`, `RedactMasksWhole`).

Every safety invariant and action property the passing runs check is thereby a
theorem as well. Model-checked only: the liveness properties, since fairness and
ENABLED are outside this prover's reach. The operators of `SourceArchive` and
`OCILayout` appear in the theorems through what their definitions say; no reference
definition of them is proved equal for inputs of every length.

## Not modelled, and the plan

1. `Deployment` and `BuildWorkflow` (control plane and workers): deployment,
   outbox, inbox, idempotency, the Temporal build workflow with Watch and the
   broker as its environment, build events applied in order. Abstract
   specification: a deployment is finalized once, with the broker's result.
2. Webhook deliveries and provider connections of the control plane, with the
   inbox they pass through.
3. Registry replication, and pure algorithms against reference definitions: meter,
   domain state, edge configuration compiler, target bundles.

Left out of the modelled parts: the encodings of a secret and the carriage returns
in it (further patterns of the same kind); manifests, certificate encodings,
provenance and SBOM texts; the HTTP details of clients.
The detector, the DSL and LLB compiler, command line, SDKs and generated code
are sequential translations of data and stay outside.
