---------------------------- MODULE BuildControl ----------------------------
(***************************************************************************)
(* A build cell: the gRPC server that accepts and cancels assignments      *)
(* (buildtransport/server.go), the controller that drives one assignment   *)
(* to a terminal result (buildcontrol/controller.go), the durable run and  *)
(* replay stores they share, the Kubernetes worker allocator and the       *)
(* OpenBao capability broker as the controller uses them.                  *)
(*                                                                         *)
(* Every call that reaches a store, Kubernetes, OpenBao or the worker is a *)
(* step of its own, so a crash, a cancellation or a lease expiry may come  *)
(* between any two of them.  The bounds on faults and attempts are the     *)
(* constants MaxFaults and MaxAttempts.                                    *)
(***************************************************************************)
EXTENDS ReplayStore, RunStore

CONSTANTS
  Servers,        \* buildcell-server processes sharing the stores
  NoAssignment,   \* the assignment of an idle slot
  MaxAttempts,    \* Options.MaxAttempts of the controller
  MaxRecords,     \* maxEntries of the run store
  MaxFaults       \* bound: crashes and store errors in one behaviour

ASSUME ControlAssumption ==
  /\ NoAssignment \notin Assignments
  /\ MaxAttempts \in Nat \ {0}
  /\ MaxFaults \in Nat

VARIABLES
  watermark,   \* replay store: build -> highest reserved assignment identity
  nonces,      \* replay store: nonces ever used
  rec,         \* run store: build -> durable record
  run,         \* per server and build: the active run and its local variables
  cancelReq,   \* per server: the CancelAssignment call between its two halves
  workers,     \* Kubernetes: build -> attempts whose resources still exist
  tokens,      \* OpenBao: build -> attempts whose token is still valid
  scratch,     \* per server: builds with scratch left by the executor
  leaked,      \* per server and build: whether an executor has outlived its
               \* run, and is still "running" or "gone"
  accepted,    \* cancellations answered "accepted" for a run not terminal
  expired,     \* assignments whose signed expiry has passed
  faults       \* crashes and store errors so far

stores   == <<watermark, nonces>>
outside  == <<workers, tokens, scratch, leaked>>
vars     == <<watermark, nonces, rec, run, cancelReq, workers, tokens, scratch,
              leaked, accepted, expired, faults>>

Attempts == 1 .. MaxAttempts

\* The controller is inside runAttempt for a numbered attempt.
AttemptPcs == {"acquire", "acquiring", "pending", "allocate", "connect", "dealloc",
               "executing", "stopping", "release", "revoke", "retry", "wait"}
OwnerPcs   == AttemptPcs \cup {"scrub", "begin", "resolve", "attempt", "finish"}
Pcs        == OwnerPcs \cup {"idle", "reserve", "claim", "done"}

Run == [pc : Pcs, asg : Assignments \cup {NoAssignment},
        owner : Owners \cup {NoOwner}, attempt : 0 .. MaxAttempts,
        cancel : BOOLEAN,     \* the cancellation channel is closed
        snap : BOOLEAN,       \* CancelRequested of the claimed record
        canceled : BOOLEAN, lost : BOOLEAN, forced : BOOLEAN,
        clean : BOOLEAN,      \* every cleanup report so far proves clean
        outcome : {"complete", "invalid", "failed", "worker_lost"},
        result : Terminal]

IdleRun == [pc |-> "idle", asg |-> NoAssignment, owner |-> NoOwner, attempt |-> 0,
            cancel |-> FALSE, snap |-> FALSE, canceled |-> FALSE, lost |-> FALSE,
            forced |-> FALSE, clean |-> TRUE, outcome |-> "failed",
            result |-> "failed"]

NoCancel  == [pending |-> FALSE, build |-> CHOOSE b \in Builds : TRUE, gen |-> 0,
              persisted |-> FALSE]
CancelReq == [pending : BOOLEAN, build : Builds, gen : Nat, persisted : BOOLEAN]

Init ==
  /\ watermark = [b \in Builds |-> NoWatermark]
  /\ nonces = {}
  /\ rec = [b \in Builds |-> NoRecord]
  /\ run = [s \in Servers |-> [b \in Builds |-> IdleRun]]
  /\ cancelReq = [s \in Servers |-> NoCancel]
  /\ workers = [b \in Builds |-> {}]
  /\ tokens = [b \in Builds |-> {}]
  /\ scratch = [s \in Servers |-> {}]
  /\ leaked = [s \in Servers |-> [b \in Builds |-> "none"]]
  /\ accepted = {}
  /\ expired = {}
  /\ faults = 0

-----------------------------------------------------------------------------
(* Steps of one run.                                                       *)

Become(s, b, r) == run' = [run EXCEPT ![s][b] = r]
Goto(s, b, l)   == Become(s, b, [run[s][b] EXCEPT !.pc = l])

\* The run with the locals of runAttempt out of scope.
OutsideAttempt(r, l) ==
  [IdleRun EXCEPT !.pc = l, !.asg = r.asg, !.owner = r.owner, !.attempt = r.attempt,
                  !.cancel = r.cancel]

\* The run has decided its terminal result; Finish writes it.
Conclude(s, b, phase) ==
  Become(s, b, [OutsideAttempt(run[s][b], "finish") EXCEPT !.result = phase])

\* Controller.Run returns; the server still holds the active entry.
Leave(s, b) == Become(s, b, [IdleRun EXCEPT !.pc = "done", !.asg = run[s][b].asg])

\* What a failing call means once the cancellation channel is looked at.
CanceledOr(r, phase) == IF r.cancel THEN "canceled" ELSE phase

FreshOwner(o) ==
  /\ \A b \in Builds : rec[b].owner # o
  /\ \A s \in Servers, b \in Builds : run[s][b].owner # o

\* ExecuteAssignment: a verified assignment becomes the active run of its
\* build; a second one is refused while it is there.
ExecuteAssignment(s, a) ==
  /\ a \notin expired
  /\ run[s][a.build].pc = "idle"
  /\ Become(s, a.build, [IdleRun EXCEPT !.pc = "reserve", !.asg = a])
  /\ UNCHANGED <<stores, rec, cancelReq, outside, accepted, expired, faults>>

\* Run returned: the active entry is deleted.
Return(s, b) ==
  /\ run[s][b].pc = "done"
  /\ Become(s, b, IdleRun)
  /\ UNCHANGED <<stores, rec, cancelReq, outside, accepted, expired, faults>>

Reserve(s, b) ==
  LET a     == run[s][b].asg
      known == Cardinality({c \in Builds : watermark[c].gen > 0})
      ans   == IF a \in expired THEN "expired"
               ELSE ReserveOutcome(a, watermark[b], nonces, known)
  IN  /\ run[s][b].pc = "reserve"
      /\ IF ans \in {"accepted", "replay"} THEN Goto(s, b, "claim") ELSE Leave(s, b)
      /\ IF ans = "accepted"
           THEN /\ watermark' = [watermark EXCEPT ![b] = replayEntry(a)]
                /\ nonces' = nonces \cup {a.nonce}
           ELSE UNCHANGED stores
      /\ UNCHANGED <<rec, cancelReq, outside, accepted, expired, faults>>

\* A new run or one taken over from an owner whose lease ran out.  A run that
\* is taken over scrubs stale workers first.
Claim(s, b) ==
  LET a == run[s][b].asg
      r == run[s][b]
  IN  /\ r.pc = "claim"
      /\ \E o \in Owners :
           /\ FreshOwner(o)
           /\ \/ /\ ClaimOutcome(rec[b], a, o) = "accepted"
                 /\ Cardinality({c \in Builds : rec[c].phase # "absent"}) < MaxRecords
                 /\ rec' = [rec EXCEPT ![b] = newRunRecord(a, o)]
                 /\ Become(s, b, [r EXCEPT !.pc = "begin", !.owner = o])
              \/ /\ ClaimOutcome(rec[b], a, o) = "resumed"
                 /\ rec' = [rec EXCEPT ![b] = resumedRecord(rec[b], o)]
                 /\ Become(s, b, [r EXCEPT !.pc = "scrub", !.owner = o,
                                  !.attempt = rec[b].attempt, !.snap = rec[b].cancel])
      /\ UNCHANGED <<stores, cancelReq, outside, accepted, expired, faults>>

\* A claim that yields a stored result, a live foreign run, a conflicting
\* identity or a full store ends the call.
ClaimRefused(s, b) ==
  LET ans == ClaimOutcome(rec[b], run[s][b].asg, NoOwner)
      full == Cardinality({c \in Builds : rec[c].phase # "absent"}) >= MaxRecords
  IN  /\ run[s][b].pc = "claim"
      /\ ans \in {"replay", "in_progress", "conflict"} \/ (ans = "accepted" /\ full)
      /\ Leave(s, b)
      /\ UNCHANGED <<stores, rec, cancelReq, outside, accepted, expired, faults>>

\* Mutant: a taken over run does not wait for the stale workers to be gone.
Scrub_Skipped(s, b) ==
  /\ run[s][b].pc = "scrub"
  /\ IF run[s][b].snap THEN Conclude(s, b, "canceled")
     ELSE Become(s, b, OutsideAttempt(run[s][b], "begin"))
  /\ UNCHANGED <<stores, rec, cancelReq, outside, accepted, expired, faults>>

\* CleanupBuild before a taken over run goes on: the stale workers are gone,
\* or the run is quarantined with some of them left.
Scrub(s, b) ==
  /\ run[s][b].pc = "scrub"
  /\ \/ /\ workers' = [workers EXCEPT ![b] = {}]
        /\ IF run[s][b].snap THEN Conclude(s, b, "canceled")
           ELSE Become(s, b, OutsideAttempt(run[s][b], "begin"))
     \/ /\ \E left \in SUBSET workers[b] : workers' = [workers EXCEPT ![b] = left]
        /\ Conclude(s, b, "quarantined")
  /\ UNCHANGED <<stores, rec, cancelReq, tokens, scratch, leaked, accepted, expired, faults>>

\* controller.update: a heartbeat the store accepts leads to pc next, a refused
\* one ends the run without a result.
Update(s, b, attempt, next) ==
  IF HeartbeatAllowed(rec[b], run[s][b].owner, attempt)
    THEN rec' = [rec EXCEPT ![b] = heartbeatRecord(rec[b], attempt)] /\ Goto(s, b, next)
    ELSE UNCHANGED rec /\ Leave(s, b)

Begin(s, b) ==
  /\ run[s][b].pc = "begin"
  /\ Update(s, b, run[s][b].attempt, "resolve")
  /\ UNCHANGED <<stores, cancelReq, outside, accepted, expired, faults>>

\* Mutant: one attempt too many.
Resolve_OffByOne(s, b) ==
  LET next == run[s][b].attempt + 1
  IN  /\ run[s][b].pc = "resolve"
      /\ Become(s, b, [run[s][b] EXCEPT !.pc = "attempt", !.attempt = next])
      /\ UNCHANGED <<stores, rec, cancelReq, outside, accepted, expired, faults>>

\* buildcell.Resolve.  The goroutine that cancels its context may lag behind
\* the channel, so an error after a cancellation may still count as a failure.
Resolve(s, b) ==
  LET next == run[s][b].attempt + 1
  IN  /\ run[s][b].pc = "resolve"
      /\ \/ IF next <= MaxAttempts
              THEN Become(s, b, [run[s][b] EXCEPT !.pc = "attempt", !.attempt = next])
              ELSE Conclude(s, b, "failed")
         \/ \E phase \in {"failed", CanceledOr(run[s][b], "failed")} : Conclude(s, b, phase)
      /\ UNCHANGED <<stores, rec, cancelReq, outside, accepted, expired, faults>>

\* The head of runAttempt: a canceled run stops here, any other records the
\* number of the attempt before it acquires anything for it.
StartAttempt(s, b) ==
  LET r == run[s][b]
  IN  /\ r.pc = "attempt"
      /\ IF r.cancel
           THEN /\ Become(s, b, [r EXCEPT !.pc = "finish", !.result = "canceled",
                                          !.attempt = r.attempt - 1])
                /\ UNCHANGED rec
           ELSE Update(s, b, r.attempt, "acquire")
      /\ UNCHANGED <<stores, cancelReq, outside, accepted, expired, faults>>

\* OpenBao login: a token is live until it is revoked.  When the login fails
\* there is no token, or one that nobody knows of.
AcquireLogin(s, b) ==
  /\ run[s][b].pc = "acquire"
  /\ \/ /\ tokens' = [tokens EXCEPT ![b] = @ \cup {run[s][b].attempt}]
        /\ Goto(s, b, "acquiring")
     \/ /\ tokens' \in {tokens, [tokens EXCEPT ![b] = @ \cup {run[s][b].attempt}]}
        /\ Conclude(s, b, CanceledOr(run[s][b], "failed"))
  /\ UNCHANGED <<stores, rec, cancelReq, workers, scratch, leaked, accepted, expired, faults>>

\* The rest of Acquire: secrets are read and the token is revoked before the
\* lease is returned.  A revocation that fails returns an error with a cleanup
\* lease.  A lease that validateCapabilityLease refuses, or that comes too
\* late, fails the attempt whether or not it was canceled.
AcquireReturn(s, b) ==
  LET r == run[s][b]
  IN  /\ r.pc = "acquiring"
      /\ \/ /\ tokens' = [tokens EXCEPT ![b] = @ \ {r.attempt}]
            /\ \/ r.asg \notin expired /\ Goto(s, b, "allocate")
               \/ \E phase \in {"failed", CanceledOr(r, "failed")} : Conclude(s, b, phase)
         \/ UNCHANGED tokens /\ Goto(s, b, "pending")
      /\ UNCHANGED <<stores, rec, cancelReq, workers, scratch, leaked, accepted, expired, faults>>

\* The controller retries the revocation of the cleanup lease.
RevokePending(s, b) ==
  /\ run[s][b].pc = "pending"
  /\ \/ /\ tokens' = [tokens EXCEPT ![b] = @ \ {run[s][b].attempt}]
        /\ Conclude(s, b, CanceledOr(run[s][b], "failed"))
     \/ UNCHANGED tokens /\ Conclude(s, b, "quarantined")
  /\ UNCHANGED <<stores, rec, cancelReq, workers, scratch, leaked, accepted, expired, faults>>

\* Allocate up to createResources: stale attempts are deleted, then the
\* resources named after this attempt are created.
Allocate(s, b) ==
  LET n == run[s][b].attempt
  IN  /\ run[s][b].pc = "allocate"
      /\ \/ /\ workers' = [workers EXCEPT ![b] = {n}]
            /\ Goto(s, b, IF n \in workers[b] THEN "dealloc" ELSE "connect")
         \/ /\ \E left \in SUBSET workers[b] : workers' = [workers EXCEPT ![b] = left]
            /\ Goto(s, b, "dealloc")
      /\ UNCHANGED <<stores, rec, cancelReq, tokens, scratch, leaked, accepted, expired, faults>>

\* createResources, waitReady and Connect.  When one of them fails the created
\* resources are deleted; whether that worked is not looked at.
Connect(s, b) ==
  /\ run[s][b].pc = "connect"
  /\ \/ /\ Goto(s, b, "executing")
        /\ scratch' = [scratch EXCEPT ![s] = @ \cup {b}]
        /\ UNCHANGED workers
     \/ /\ \E left \in SUBSET {run[s][b].attempt} :
             workers' = [workers EXCEPT ![b] = left]
        /\ Goto(s, b, "dealloc")
        /\ UNCHANGED scratch
  /\ UNCHANGED <<stores, rec, cancelReq, tokens, leaked, accepted, expired, faults>>

\* No worker could be allocated: the lease is revoked and the attempt ends
\* with the cleanup report of a run that never had resources.
Deallocate(s, b) ==
  /\ run[s][b].pc = "dealloc"
  /\ \E phase \in {"quarantined", CanceledOr(run[s][b], "failed")} : Conclude(s, b, phase)
  /\ UNCHANGED <<stores, rec, cancelReq, outside, accepted, expired, faults>>

\* worker.Execute returns.  The executor scrubs its scratch and reports whether
\* that is proven; only a clean execution can be complete.  The cancellation
\* channel is looked at once more before the result is classified.
WorkerDone(s, b) ==
  LET r == run[s][b]
  IN  /\ r.pc = "executing"
      /\ \E clean \in BOOLEAN, out \in {"complete", "invalid", "failed", "worker_lost"} :
           /\ out \in {"complete", "invalid"} => clean
           /\ Become(s, b, [r EXCEPT !.pc = "release", !.outcome = out, !.clean = clean,
                                     !.canceled = r.cancel])
           /\ scratch' = IF clean THEN [scratch EXCEPT ![s] = @ \ {b}] ELSE scratch
      /\ UNCHANGED <<stores, rec, cancelReq, workers, tokens, leaked, accepted, expired, faults>>

\* The heartbeat ticker while the worker executes.
HeartbeatTick(s, b) ==
  LET r == run[s][b]
  IN  /\ r.pc = "executing"
      /\ IF HeartbeatAllowed(rec[b], r.owner, r.attempt)
           THEN /\ rec' = [rec EXCEPT ![b] = heartbeatRecord(rec[b], r.attempt)]
                /\ UNCHANGED run
           ELSE /\ Become(s, b, [r EXCEPT !.pc = "stopping", !.lost = TRUE])
                /\ UNCHANGED rec
      /\ UNCHANGED <<stores, cancelReq, outside, accepted, expired, faults>>

\* The cancellation reaches the executing attempt, by the channel (which
\* records the phase in the store) or by the canceled context (which does not).
ObserveCancel(s, b) ==
  LET r  == run[s][b]
      ok == HeartbeatAllowed(rec[b], r.owner, r.attempt)
  IN  /\ r.pc = "executing" /\ r.cancel
      /\ \/ /\ Become(s, b, [r EXCEPT !.pc = "stopping", !.canceled = TRUE, !.lost = ~ok])
            /\ rec' = IF ok THEN [rec EXCEPT ![b] = heartbeatRecord(rec[b], r.attempt)]
                      ELSE rec
         \/ /\ Become(s, b, [r EXCEPT !.pc = "stopping", !.canceled = TRUE])
            /\ UNCHANGED rec
      /\ UNCHANGED <<stores, cancelReq, outside, accepted, expired, faults>>

\* awaitOrForce, the worker returns within the grace period.
StopCooperatively(s, b) ==
  LET r == run[s][b]
  IN  /\ r.pc = "stopping"
      /\ \E clean \in BOOLEAN :
           /\ Become(s, b, [r EXCEPT !.pc = "release", !.clean = clean,
                                     !.canceled = r.canceled \/ r.cancel])
           /\ scratch' = IF clean THEN [scratch EXCEPT ![s] = @ \ {b}] ELSE scratch
      /\ UNCHANGED <<stores, rec, cancelReq, workers, tokens, leaked, accepted, expired, faults>>

\* awaitOrForce, the worker is terminated by force.  Either Execute returns
\* now, or the run goes on without it and takes the report of the forced
\* termination for the report of the execution.
StopByForce(s, b) ==
  LET r == run[s][b]
  IN  /\ r.pc = "stopping"
      /\ \E killed \in BOOLEAN, left \in SUBSET {r.attempt} :
           /\ killed => left = {}
           /\ workers' = [workers EXCEPT ![b] = (@ \ {r.attempt}) \cup (@ \cap left)]
           /\ \/ \E clean \in BOOLEAN :
                   /\ Become(s, b, [r EXCEPT !.pc = "release", !.clean = clean /\ killed,
                                    !.forced = TRUE, !.canceled = r.canceled \/ r.cancel])
                   /\ scratch' = IF clean THEN [scratch EXCEPT ![s] = @ \ {b}] ELSE scratch
                   /\ UNCHANGED leaked
              \/ /\ Become(s, b, [r EXCEPT !.pc = "release", !.clean = killed,
                                  !.forced = TRUE, !.canceled = r.canceled \/ r.cancel])
                 /\ leaked' = [leaked EXCEPT ![s][b] = "running"]
                 /\ UNCHANGED scratch
      /\ UNCHANGED <<stores, rec, cancelReq, tokens, accepted, expired, faults>>

\* The executor that outlived its run returns at last.  It may have written
\* to its scratch once more, which another run of the build has scrubbed in
\* the meantime, and its own scrub may fail.
LeakedReturn(s, b) ==
  /\ leaked[s][b] = "running"
  /\ leaked' = [leaked EXCEPT ![s][b] = "gone"]
  /\ scratch' \in {scratch, [scratch EXCEPT ![s] = @ \cup {b}], [scratch EXCEPT ![s] = @ \ {b}]}
  /\ UNCHANGED <<stores, rec, run, cancelReq, workers, tokens, accepted, expired, faults>>

\* Mutant: an error of the release is dropped.
Release_ErrorDropped(s, b) ==
  LET r == run[s][b]
  IN  /\ r.pc = "release"
      /\ \E left \in SUBSET {r.attempt} :
           workers' = [workers EXCEPT ![b] = (@ \ {r.attempt}) \cup (@ \cap left)]
      /\ Goto(s, b, "revoke")
      /\ UNCHANGED <<stores, rec, cancelReq, tokens, scratch, leaked, accepted, expired, faults>>

\* worker.Release: deletes the worker's resources unless the forced
\* termination already tried (cleanupOnce).
Release(s, b) ==
  LET r == run[s][b]
  IN  /\ r.pc = "release"
      /\ \/ /\ r.forced
            /\ Goto(s, b, "revoke")
            /\ UNCHANGED workers
         \/ /\ ~r.forced
            /\ \E ok \in BOOLEAN, left \in SUBSET {r.attempt} :
                 /\ ok => left = {}
                 /\ workers' = [workers EXCEPT ![b] = (@ \ {r.attempt}) \cup (@ \cap left)]
                 /\ Become(s, b, [r EXCEPT !.pc = "revoke", !.clean = r.clean /\ ok])
      /\ UNCHANGED <<stores, rec, cancelReq, tokens, scratch, leaked, accepted, expired, faults>>

\* revokeLease, then the classification of the attempt: an unproven cleanup
\* before a lost lease, a lost lease before a cancellation, a cancellation
\* before a retry.
Classify(s, b) ==
  LET r == run[s][b]
  IN  /\ r.pc = "revoke"
      /\ \E revoked \in BOOLEAN :
           LET clean == r.clean /\ revoked
           IN  CASE ~clean -> Conclude(s, b, "quarantined")
                 [] clean /\ r.lost -> Leave(s, b)
                 [] clean /\ ~r.lost /\ r.canceled -> Conclude(s, b, "canceled")
                 [] clean /\ ~r.lost /\ ~r.canceled ->
                      IF r.outcome = "worker_lost" /\ r.attempt < MaxAttempts
                        THEN Become(s, b, OutsideAttempt(r, "retry"))
                        ELSE Conclude(s, b, IF r.outcome = "complete" THEN "complete"
                                            ELSE "failed")
      /\ UNCHANGED <<stores, rec, cancelReq, outside, accepted, expired, faults>>

Retry(s, b) ==
  /\ run[s][b].pc = "retry"
  /\ Update(s, b, run[s][b].attempt, "wait")
  /\ UNCHANGED <<stores, cancelReq, outside, accepted, expired, faults>>

\* waitForRetry: the delay passes, or the cancellation ends it.
WaitForRetry(s, b) ==
  LET r == run[s][b]
  IN  /\ r.pc = "wait"
      /\ \/ Become(s, b, [r EXCEPT !.pc = "attempt", !.attempt = r.attempt + 1])
         \/ r.cancel /\ Conclude(s, b, "canceled")
      /\ UNCHANGED <<stores, rec, cancelReq, outside, accepted, expired, faults>>

\* finishResult: a result the store refuses is dropped and the run ends
\* without one.
Finish(s, b) ==
  LET r == run[s][b]
  IN  /\ r.pc = "finish"
      /\ Leave(s, b)
      /\ rec' = IF FinishAllowed(rec[b], r.owner, r.result, r.attempt)
                THEN [rec EXCEPT ![b] = finishedRecord(rec[b], r.result, r.attempt)]
                ELSE rec
      /\ UNCHANGED <<stores, cancelReq, outside, accepted, expired, faults>>

-----------------------------------------------------------------------------
(* Cancellation, time and failures.                                        *)

\* CancelAssignment, first half: the request is made durable.
CancelPersist(s, b, gen) ==
  LET ok == CancelAllowed(rec[b], gen)
  IN  /\ ~cancelReq[s].pending
      /\ cancelReq' = [cancelReq EXCEPT ![s] =
           [pending |-> TRUE, build |-> b, gen |-> gen, persisted |-> ok]]
      /\ rec' = IF ok THEN [rec EXCEPT ![b].cancel = TRUE] ELSE rec
      /\ UNCHANGED <<stores, run, outside, accepted, expired, faults>>

\* CancelAssignment, second half: an active run of the same generation is
\* signalled, and either half is enough for the answer "accepted".
CancelSignal(s) ==
  LET q     == cancelReq[s]
      r     == run[s][q.build]
      match == r.pc # "idle" /\ r.asg.gen = q.gen
  IN  /\ q.pending
      /\ cancelReq' = [cancelReq EXCEPT ![s] = NoCancel]
      /\ run' = IF match THEN [run EXCEPT ![s][q.build].cancel = TRUE] ELSE run
      /\ accepted' = IF (q.persisted \/ match) /\ rec[q.build].phase \notin Terminal
                     THEN accepted \cup {[build |-> q.build, gen |-> q.gen]}
                     ELSE accepted
      /\ UNCHANGED <<stores, rec, outside, expired, faults>>

\* Time passes: the lease of a run runs out.  Nothing renews it while
\* artifacts are resolved, a worker is allocated or a retry is delayed, and a
\* process may be stalled at any time.
LeaseExpires(b) ==
  /\ rec[b].phase = "active" /\ rec[b].lease
  /\ rec' = [rec EXCEPT ![b].lease = FALSE]
  /\ UNCHANGED <<stores, run, cancelReq, outside, accepted, expired, faults>>

\* Time passes: a signed assignment expires.
AssignmentExpires(a) ==
  /\ a \notin expired
  /\ expired' = expired \cup {a}
  /\ UNCHANGED <<stores, rec, run, cancelReq, outside, accepted, faults>>

\* Time passes: an OpenBao token reaches the end of its lifetime.
TokenExpires(b) ==
  /\ tokens[b] # {}
  /\ tokens' = [tokens EXCEPT ![b] = {}]
  /\ UNCHANGED <<stores, rec, run, cancelReq, workers, scratch, leaked, accepted, expired, faults>>

\* A store call fails without effect.  A run that was about to reserve, claim,
\* update or finish ends; an executing attempt is stopped.
StoreError(s, b) ==
  LET r == run[s][b]
  IN  /\ faults < MaxFaults
      /\ faults' = faults + 1
      /\ \/ /\ r.pc \in {"reserve", "claim", "begin", "retry", "finish"}
               \/ (r.pc = "attempt" /\ ~r.cancel)
            /\ Leave(s, b)
         \/ /\ r.pc = "executing"
            /\ Become(s, b, [r EXCEPT !.pc = "stopping", !.lost = TRUE,
                                      !.canceled = r.cancel])
      /\ UNCHANGED <<stores, rec, cancelReq, outside, accepted, expired>>

\* The process dies and restarts: every run, pending call and executor is
\* gone; stores, Kubernetes, OpenBao and the scratch volume are not.
Crash(s) ==
  /\ faults < MaxFaults
  /\ faults' = faults + 1
  /\ \E b \in Builds : run[s][b].pc # "idle"
  /\ run' = [run EXCEPT ![s] = [b \in Builds |-> IdleRun]]
  /\ cancelReq' = [cancelReq EXCEPT ![s] = NoCancel]
  /\ leaked' = [leaked EXCEPT ![s] = [b \in Builds |-> IF @[b] = "running" THEN "gone" ELSE @[b]]]
  /\ UNCHANGED <<stores, rec, workers, tokens, scratch, accepted, expired>>

-----------------------------------------------------------------------------
\* The steps the controller takes by itself once a run is under way.
RunStep(s, b) ==
  \/ Reserve(s, b) \/ Claim(s, b) \/ ClaimRefused(s, b) \/ Scrub(s, b) \/ Begin(s, b)
  \/ Resolve(s, b) \/ StartAttempt(s, b) \/ AcquireLogin(s, b) \/ AcquireReturn(s, b)
  \/ RevokePending(s, b) \/ Allocate(s, b) \/ Connect(s, b) \/ Deallocate(s, b)
  \/ WorkerDone(s, b) \/ ObserveCancel(s, b) \/ StopCooperatively(s, b)
  \/ StopByForce(s, b) \/ Release(s, b) \/ Classify(s, b) \/ Retry(s, b)
  \/ WaitForRetry(s, b) \/ Finish(s, b) \/ Return(s, b)

Next ==
  \/ \E s \in Servers, a \in Assignments : ExecuteAssignment(s, a)
  \/ \E s \in Servers, b \in Builds :
       \/ RunStep(s, b) \/ HeartbeatTick(s, b) \/ LeakedReturn(s, b) \/ StoreError(s, b)
  \/ \E s \in Servers, a \in Assignments : CancelPersist(s, a.build, a.gen)
  \/ \E s \in Servers : CancelSignal(s) \/ Crash(s)
  \/ \E b \in Builds : LeaseExpires(b) \/ TokenExpires(b)
  \/ \E a \in Assignments : AssignmentExpires(a)

Spec == Init /\ [][Next]_vars

\* Every call the controller makes has a timeout and the second half of a
\* cancellation only takes a lock; nothing is assumed of the callers.
Fairness ==
  /\ \A s \in Servers, b \in Builds : WF_vars(RunStep(s, b))
  /\ \A s \in Servers : WF_vars(CancelSignal(s))

FairSpec == Spec /\ Fairness

-----------------------------------------------------------------------------
(* Properties.                                                             *)

TypeOK ==
  /\ watermark \in [Builds -> Watermark]
  /\ nonces \subseteq Nonces
  /\ rec \in [Builds -> RunRecord]
  /\ run \in [Servers -> [Builds -> Run]]
  /\ cancelReq \in [Servers -> CancelReq]
  /\ workers \in [Builds -> SUBSET Attempts]
  /\ tokens \in [Builds -> SUBSET Attempts]
  /\ scratch \in [Servers -> SUBSET Builds]
  /\ leaked \in [Servers -> [Builds -> {"none", "running", "gone"}]]
  /\ accepted \subseteq [build : Builds, gen : Nat]
  /\ expired \subseteq Assignments
  /\ faults \in 0 .. MaxFaults

\* A terminal record never changes again, although Finish does not ask whether
\* the record is terminal: no owner of a terminal record is left that could
\* still write (store_bolt.go Finish, Heartbeat, RequestCancel, Claim).
TerminalFinal ==
  [][\A b \in Builds : rec[b].phase \in Terminal => rec'[b] = rec[b]]_vars

\* A run whose cancellation is durable ends canceled or quarantined, whichever
\* of its own results was on the way to the store.
CancelHonoured ==
  \A b \in Builds : rec[b].cancel /\ rec[b].phase \in Terminal
                      => rec[b].phase \in {"canceled", "quarantined"}

\* Two processes never work on the same attempt of a build, so the Kubernetes
\* resources, which are named after build and attempt, are never shared: not
\* even when a run was taken over and its first owner does not know yet.
AttemptExclusive ==
  \A s, t \in Servers, b \in Builds :
    s # t /\ run[s][b].pc \in AttemptPcs /\ run[t][b].pc \in AttemptPcs
      => run[s][b].attempt # run[t][b].attempt

\* An attempt never finds resources of its own name when it allocates.
FreshAttempt ==
  \A s \in Servers, b \in Builds :
    run[s][b].pc \in {"acquire", "acquiring", "allocate"}
      => run[s][b].attempt \notin workers[b]

\* What runs in a cell was reserved in it: the replay store is never behind
\* the run store, and the two agree on the payload of a generation.
RecordUnderWatermark ==
  \A b \in Builds : rec[b].phase # "absent" =>
    /\ rec[b].gen <= watermark[b].gen
    /\ rec[b].gen = watermark[b].gen => rec[b].digest = watermark[b].digest

\* No two builds are admitted under one nonce.
NonceSingleUse ==
  \A b, c \in Builds : b # c /\ watermark[b].gen > 0 /\ watermark[c].gen > 0
                         => watermark[b].nonce # watermark[c].nonce

\* A watermark only rises, and its payload never changes within a generation.
WatermarkRises ==
  [][\A b \in Builds : watermark'[b] # watermark[b]
                         => watermark'[b].gen > watermark[b].gen]_vars

\* Scratch that only the run which wrote it has to account for.
Unscrubbed(s) == {b \in scratch[s] : leaked[s][b] = "none"}

\* Complete means clean: no worker resource of any attempt of the build and no
\* executor scratch is left, after every crash, retry and takeover (one
\* process, as deployed).  A build cannot vouch for what an executor that
\* outlived an earlier run of it writes after everything was scrubbed.
CompleteIsClean ==
  \A b \in Builds : rec[b].phase = "complete" =>
    workers[b] = {} /\ \A s \in Servers : b \notin Unscrubbed(s)

\* A run that is past its scrub meets no resources of an earlier attempt, and
\* while its worker exists it is the only one of the build (one process, as
\* deployed): a worker orphaned by a crash never runs beside its successor.
NoStaleWorker ==
  \A s \in Servers, b \in Builds :
    /\ run[s][b].pc \in {"begin", "resolve", "attempt", "acquire", "acquiring", "allocate"}
         => workers[b] = {}
    /\ run[s][b].pc \in {"connect", "executing", "stopping", "release"}
         => workers[b] \subseteq {run[s][b].attempt}

\* A run that nobody cancels and that meets no failure reaches a terminal
\* record by itself, whether or not its lease runs out on the way.
UndisturbedRunEnds ==
  \A b \in Builds :
    (rec[b].phase = "active") ~> (rec[b].phase \in Terminal \/ rec[b].cancel \/ faults > 0)

\* Its signed assignment is delivered again and again and its lease is not
\* for ever (the caller's and the clock's part).
Redelivered(a) ==
  /\ \A s \in Servers : SF_vars(ExecuteAssignment(s, a))
  /\ WF_vars(LeaseExpires(a.build))

\* Every claimed run reaches a terminal record, through crashes, store errors,
\* cancellations and lease expiry, as long as its signed assignment is
\* delivered again and does not expire.
RedeliveredRunEnds ==
  \A a \in Assignments : Redelivered(a) =>
    ((rec[a.build].phase = "active" /\ rec[a.build].digest = a.digest)
       ~> (rec[a.build].phase \in Terminal \/ a \in expired))

\* The abstract promise of the cell about the result of a build.
Outcome == INSTANCE BuildOutcome WITH
  outcome  <- [b \in Builds |-> rec[b].phase],
  canceled <- [b \in Builds |-> rec[b].cancel]

\* The cell keeps that promise.
KeepsOutcome == Outcome!Spec

-----------------------------------------------------------------------------
(* Statements of the documentation the code does not keep.                 *)

\* docs/adr/006: a cancellation "is persisted before signaling an active
\* process, survives controller restart [...] and prevents a canceled record
\* from later accepting false success": one that was answered with "accepted"
\* while the run had no result is not followed by a success.
AcceptedCancelSurvives ==
  \A c \in accepted : rec[c.build].gen = c.gen => rec[c.build].phase # "complete"

\* docs/adr/006: "Every path revokes capabilities, deletes Kubernetes resources
\* [...], scrubs controller scratch, and returns a cleanup condition", with
\* "quarantine on every unproven scrub": a build that ended without quarantine
\* has left no resources and no scratch behind.
EveryPathCleans ==
  \A b \in Builds : rec[b].phase \in Terminal \ {"quarantined"} =>
    workers[b] = {} /\ \A s \in Servers : b \notin Unscrubbed(s)
=============================================================================
