----------------------------- MODULE BuildBroker -----------------------------
(***************************************************************************)
(* The build broker (buildorchestrator): it accepts a build request,       *)
(* drives it to a terminal record (broker.go execute), with the pipeline   *)
(* that prepares, signs and dispatches one assignment (orchestrator.go     *)
(* Run, dispatcher_grpc.go), cancels it (broker.go Cancel and the two      *)
(* reconciliation goroutines) and takes it up again after a restart.       *)
(*                                                                         *)
(* The build cell appears as what BuildControl is shown to implement,      *)
(* BuildOutcome, together with the assignment its record holds, whether a  *)
(* controller still drives it and whether an attempt was counted.          *)
(***************************************************************************)
EXTENDS BrokerStore

CONSTANTS
  Calls,          \* bound: concurrent Submit and Cancel calls, with the
                  \* goroutines they leave behind
  MaxAttempts,    \* BrokerOptions.MaxAttempts
  MaxFaults       \* bound: restarts, full logs and lost cell runs

ASSUME BrokerAssumption ==
  MaxAttempts \in Nat \ {0} /\ MaxFaults \in Nat

VARIABLES
  rec,        \* run key -> durable record
  ckpt,       \* run key -> nonce of the checkpointed assignment
  run,        \* run key -> the active execute goroutine
  call,       \* Submit and Cancel calls and reconciliation goroutines
  late,       \* run keys whose request deadline has passed
  resuming,   \* run keys Resume has not reached yet after a restart
  closing,    \* Close was called
  outcome,    \* cell: build -> phase of its record
  canceled,   \* cell: build -> cancellation recorded
  held,       \* cell: build -> key and nonce of the assignment of its record
  driven,     \* cell: builds with an active run
  counted,    \* cell: builds whose result counts at least one attempt
  faults

broker == <<run, call, late, resuming, closing>>
cell   == <<outcome, canceled, held, driven, counted>>
vars   == <<rec, ckpt, run, call, late, resuming, closing, outcome, canceled, held,
            driven, counted, faults>>

Cell == INSTANCE BuildOutcome

CellTerminal == {"complete", "failed", "canceled", "quarantined"}

\* execute: outside Run, and inside Run.
LoopPcs == {"lookup", "setrunning", "decide", "conclude", "retry", "setretrying", "sleep"}
RunPcs  == {"load", "prepare", "sign", "assigned", "dispatch", "stream", "recover", "result"}

ActiveRun == [pc : {"idle"} \cup LoopPcs \cup RunPcs, attempt : 1 .. MaxAttempts,
              stopped : BOOLEAN,                 \* the context of the run is done
              nonce : Nonces \cup {NoNonce},     \* the envelope Run works with
              state : {"canceled", "failed"}]    \* the synthetic result decided on
NoRun == [pc |-> "idle", attempt |-> 1, stopped |-> FALSE, nonce |-> NoNonce,
          state |-> "failed"]

\* snap is what the call remembers of the record it read: whether it was
\* dispatched, and for a start whether its deadline is extended.
Call == [pc : {"idle", "starting", "cancel", "kill", "synthetic", "waitlocal",
               "waitprior", "reconcile", "probe", "tick"},
         key : Keys, snap : BOOLEAN]
NoCall == [pc |-> "idle", key |-> CHOOSE k \in Keys : TRUE, snap |-> FALSE]

NoAssignment == [key |-> CHOOSE k \in Keys : TRUE, nonce |-> NoNonce]
Assignment   == [key : Keys, nonce : Nonces \cup {NoNonce}]

Init ==
  /\ rec = [k \in Keys |-> AbsentRun]
  /\ ckpt = [k \in Keys |-> NoNonce]
  /\ run = [k \in Keys |-> NoRun]
  /\ call = [c \in Calls |-> NoCall]
  /\ late = {} /\ resuming = {} /\ closing = FALSE
  /\ Cell!Init
  /\ held = [b \in Builds |-> NoAssignment]
  /\ driven = {} /\ counted = {}
  /\ faults = 0

-----------------------------------------------------------------------------
(* The execute goroutine.                                                  *)

Goto(k, l)  == run' = [run EXCEPT ![k].pc = l]
Write(k, r) == rec' = [rec EXCEPT ![k] = r]

\* execute returns: the active entry is deleted and done is closed, which
\* releases the goroutines waiting for it.
Return(k) ==
  /\ run' = [run EXCEPT ![k] = NoRun]
  /\ call' = [c \in Calls |->
       CASE call[c].key = k /\ call[c].pc = "waitlocal" -> [call[c] EXCEPT !.pc = "reconcile"]
         [] call[c].key = k /\ call[c].pc = "waitprior" -> [call[c] EXCEPT !.pc = "probe"]
         [] OTHER -> call[c]]

\* broker.start for a record read as open; extended: it was canceling and
\* dispatched, and gets two minutes past its deadline.
Started(k, extended) ==
  IF run[k].pc = "idle"
    THEN [run EXCEPT ![k] = [NoRun EXCEPT !.pc = "lookup",
                             !.stopped = closing \/ (k \in late /\ ~extended)]]
    ELSE run

Lookup(k) ==
  /\ run[k].pc = "lookup"
  /\ IF rec[k].state \in BrokerTerminal THEN Return(k)
     ELSE /\ Goto(k, IF rec[k].state = "canceling" THEN "load" ELSE "setrunning")
          /\ UNCHANGED call
  /\ UNCHANGED <<rec, ckpt, late, resuming, closing, cell, faults>>

SetRunning(k) ==
  /\ run[k].pc = "setrunning"
  /\ IF SetStateAllowed(rec[k], "running")
       THEN Write(k, [rec[k] EXCEPT !.state = "running"]) /\ Goto(k, "load") /\ UNCHANGED call
       ELSE UNCHANGED rec /\ Return(k)
  /\ UNCHANGED <<ckpt, late, resuming, closing, cell, faults>>

\* Run returns an error without a result.
RunFails(k) == Goto(k, "decide") /\ UNCHANGED rec

\* Run emits a progress event and goes on, or fails with the event.
Emit(k, stage, next) ==
  IF AppendAllowed(rec[k])
    THEN Write(k, appended(rec[k], stage)) /\ Goto(k, next)
    ELSE RunFails(k)

\* The head of Run: a checkpoint that holds a signed assignment is resumed.
Load(k) ==
  /\ run[k].pc = "load"
  /\ IF run[k].stopped THEN RunFails(k)
     ELSE IF AppendAllowed(rec[k])
     THEN /\ Write(k, appended(rec[k], "accepted"))
          /\ run' = [run EXCEPT ![k].nonce = ckpt[k],
                                ![k].pc = IF ckpt[k] = NoNonce THEN "prepare" ELSE "dispatch"]
     ELSE RunFails(k)
  /\ UNCHANGED <<ckpt, call, late, resuming, closing, cell, faults>>

\* Run emits its terminal event, and execute returns once it is stored.
Terminate(k, state, cleanup) ==
  IF AppendAllowed(rec[k])
    THEN Write(k, ended(rec[k], state, cleanup)) /\ Return(k)
    ELSE RunFails(k) /\ UNCHANGED call

\* Materialize, detect, compile and store the inputs.  A failing step whose
\* context is done counts as canceled, one that is the build's own fault as
\* failed, a detection that needs confirmation as waiting; any other failure is
\* an error of Run.
Prepare(k) ==
  /\ run[k].pc = "prepare"
  /\ \/ ~run[k].stopped /\ Emit(k, "assigning", "sign") /\ UNCHANGED call
     \/ RunFails(k) /\ UNCHANGED call
     \/ run[k].stopped /\ Terminate(k, "canceled", "clean")
     \/ ~run[k].stopped /\ Terminate(k, "failed", "clean")
     \/ Terminate(k, "waiting", "clean")
  /\ UNCHANGED <<ckpt, late, resuming, closing, cell, faults>>

\* A random nonce repeats none that is in use.
FreshNonce(n) ==
  /\ \A j \in Keys : n # ckpt[j] /\ n # run[j].nonce
  /\ \A b \in Builds : n # held[b].nonce

\* Mutant: the signed assignment is not made durable before it is used.
Sign_NotSaved(k, n) ==
  /\ run[k].pc = "sign" /\ ~run[k].stopped
  /\ FreshNonce(n)
  /\ run' = [run EXCEPT ![k].pc = "assigned", ![k].nonce = n]
  /\ UNCHANGED <<rec, ckpt, call, late, resuming, closing, cell, faults>>

\* A random nonce is drawn, the payload is signed and saved as checkpoint.
Sign(k, n) ==
  /\ run[k].pc = "sign" /\ ~run[k].stopped
  /\ FreshNonce(n)
  /\ SaveAllowed(ckpt[k], n)
  /\ ckpt' = [ckpt EXCEPT ![k] = n]
  /\ run' = [run EXCEPT ![k].pc = "assigned", ![k].nonce = n]
  /\ UNCHANGED <<rec, call, late, resuming, closing, cell, faults>>

SignFails(k) ==
  /\ run[k].pc = "sign"
  /\ Goto(k, "decide")
  /\ UNCHANGED <<rec, ckpt, call, late, resuming, closing, cell, faults>>

\* The event "assigned" marks the record as dispatched.
Assigned(k) ==
  /\ run[k].pc = "assigned"
  /\ Emit(k, "assigned", "dispatch")
  /\ UNCHANGED <<ckpt, call, late, resuming, closing, cell, faults>>

\* ExecuteAssignment reaches the cell.  It is accepted, resumed after its run
\* was lost, answered with the stored result, or refused because it is active
\* or because the cell holds another assignment of the build.
Dispatch(k) ==
  LET b == k.build
      a == [key |-> k, nonce |-> run[k].nonce]
  IN  /\ run[k].pc = "dispatch" /\ ~run[k].stopped
      /\ \/ /\ outcome[b] = "absent"
            /\ Cell!Accept(b)
            /\ held' = [held EXCEPT ![b] = a]
            /\ driven' = driven \cup {b}
            /\ Goto(k, "stream")
         \/ /\ outcome[b] = "active" /\ held[b] = a /\ b \notin driven
            /\ driven' = driven \cup {b}
            /\ Goto(k, "stream")
            /\ UNCHANGED <<outcome, canceled, held>>
         \/ /\ outcome[b] \in CellTerminal /\ held[b] = a
            /\ Goto(k, "result")
            /\ UNCHANGED <<outcome, canceled, held, driven>>
         \/ /\ held[b] # a \/ b \in driven
            /\ outcome[b] # "absent"
            /\ Goto(k, "recover")
            /\ UNCHANGED <<outcome, canceled, held, driven>>
      /\ UNCHANGED <<rec, ckpt, call, late, resuming, closing, counted, faults>>

\* The call fails on the way, the assignment has expired, or the lease of the
\* cell's run has not run out yet.
DispatchFails(k) ==
  /\ run[k].pc = "dispatch"
  /\ Goto(k, "recover")
  /\ UNCHANGED <<rec, ckpt, call, late, resuming, closing, cell, faults>>

\* The event stream of the cell: the result arrives, the stream breaks, or an
\* event cannot be stored.
Stream(k) ==
  /\ run[k].pc = "stream"
  /\ \/ outcome[k.build] \in CellTerminal /\ Goto(k, "result")
     \/ Goto(k, "recover")
     \/ ~AppendAllowed(rec[k]) /\ Goto(k, "decide")
  /\ UNCHANGED <<rec, ckpt, call, late, resuming, closing, cell, faults>>

\* Mutant: recover does not look at its context.
Recover_ContextIgnored(k) ==
  /\ run[k].pc = "recover"
  /\ \/ outcome[k.build] \in CellTerminal /\ Goto(k, "result")
     \/ outcome[k.build] = "absent" /\ Goto(k, "decide")
  /\ UNCHANGED <<rec, ckpt, call, late, resuming, closing, cell, faults>>

\* recover: GetAssignment is polled, by build, until there is a result, the
\* cell has no record or the context is done.
Recover(k) ==
  /\ run[k].pc = "recover"
  /\ \/ outcome[k.build] \in CellTerminal /\ ~run[k].stopped /\ Goto(k, "result")
     \/ (outcome[k.build] = "absent" \/ run[k].stopped) /\ Goto(k, "decide")
  /\ UNCHANGED <<rec, ckpt, call, late, resuming, closing, cell, faults>>

\* Mutant: any result of the build is taken.
Mapped_ByBuild(a, phase, some) ==
  IF some THEN IF phase = "quarantined" THEN "failed" ELSE phase ELSE "invalid"

\* mapCellResult: the result must be of this assignment, terminal, and count an
\* attempt.
Mapped(a, phase, some) ==
  IF held[a.key.build] = a /\ some /\ phase \in CellTerminal
    THEN IF phase = "quarantined" THEN "failed" ELSE phase
    ELSE "invalid"

Result(k) ==
  LET b     == k.build
      state == Mapped([key |-> k, nonce |-> run[k].nonce], outcome[b], b \in counted)
  IN  /\ run[k].pc = "result"
      /\ IF state = "invalid" THEN RunFails(k) /\ UNCHANGED call
         ELSE Terminate(k, state, "reported")
      /\ UNCHANGED <<ckpt, late, resuming, closing, cell, faults>>

\* Mutant: the number of attempts is not limited.
Final_LimitIgnored(k) == run[k].stopped

\* No further attempt: the context is done or the attempts are used up.
Final(k) == run[k].stopped \/ run[k].attempt = MaxAttempts

\* What execute makes of an error of Run.
Decide(k) ==
  LET r     == rec[k]
      local == r.state = "canceling" /\ ~r.dispatched
  IN  /\ run[k].pc = "decide"
      /\ CASE r.state \in BrokerTerminal -> Return(k)
           [] r.state \notin BrokerTerminal /\ local ->
                /\ run' = [run EXCEPT ![k].pc = "conclude", ![k].state = "canceled"]
                /\ UNCHANGED call
           [] r.state \notin BrokerTerminal /\ ~local /\ Final(k) ->
                IF closing \/ r.state = "canceling" THEN Return(k)
                ELSE /\ run' = [run EXCEPT ![k].pc = "conclude", ![k].state = "failed"]
                     /\ UNCHANGED call
           [] r.state \notin BrokerTerminal /\ ~local /\ ~Final(k) ->
                Goto(k, "retry") /\ UNCHANGED call
      /\ UNCHANGED <<rec, ckpt, late, resuming, closing, cell, faults>>

\* appendSyntheticTerminal: a result of the broker's own; an error is dropped.
Synthetic(k, state, cleanup) ==
  rec' = IF AppendAllowed(rec[k]) THEN [rec EXCEPT ![k] = ended(rec[k], state, cleanup)]
         ELSE rec

Conclude(k) ==
  /\ run[k].pc = "conclude"
  /\ Synthetic(k, run[k].state, IF run[k].state = "canceled" THEN "clean" ELSE "unknown")
  /\ Return(k)
  /\ UNCHANGED <<ckpt, late, resuming, closing, cell, faults>>

Retry(k) ==
  /\ run[k].pc = "retry"
  /\ IF AppendAllowed(rec[k])
       THEN Write(k, appended(rec[k], "retrying")) /\ Goto(k, "setretrying") /\ UNCHANGED call
       ELSE UNCHANGED rec /\ Return(k)
  /\ UNCHANGED <<ckpt, late, resuming, closing, cell, faults>>

SetRetrying(k) ==
  /\ run[k].pc = "setretrying"
  /\ IF SetStateAllowed(rec[k], "retrying")
       THEN Write(k, [rec[k] EXCEPT !.state = "retrying"]) /\ Goto(k, "sleep") /\ UNCHANGED call
       ELSE UNCHANGED rec /\ Return(k)
  /\ UNCHANGED <<ckpt, late, resuming, closing, cell, faults>>

Sleep(k) ==
  /\ run[k].pc = "sleep"
  /\ run' = [run EXCEPT ![k].pc = "lookup", ![k].attempt = @ + 1, ![k].nonce = NoNonce]
  /\ UNCHANGED <<rec, ckpt, call, late, resuming, closing, cell, faults>>

-----------------------------------------------------------------------------
(* Submit, Cancel and the goroutines they leave behind.                    *)

Serving == ~closing /\ resuming = {}
Call_(c, l) == call' = [call EXCEPT ![c].pc = l]
Done(c)     == call' = [call EXCEPT ![c] = NoCall]

\* Submit: the request is claimed now and its run started later.
Submit(c, q) ==
  LET k      == Key(q)
      answer == Claim(rec, q)
  IN  /\ Serving /\ call[c].pc = "idle" /\ k \notin late
      /\ \/ answer = "created" /\ Write(k, acceptedRun(q))
         \/ answer = "attached" /\ rec[k].state \in BrokerOpen /\ UNCHANGED rec
      /\ call' = [call EXCEPT ![c] = [pc |-> "starting", key |-> k,
             snap |-> rec[k].state = "canceling" /\ rec[k].dispatched]]
      /\ UNCHANGED <<ckpt, run, late, resuming, closing, cell, faults>>

\* broker.start, of a Submit or of an accepted cancellation.
Start(c) ==
  /\ call[c].pc = "starting"
  /\ run' = Started(call[c].key, call[c].snap)
  /\ Done(c)
  /\ UNCHANGED <<rec, ckpt, late, resuming, closing, cell, faults>>

\* Cancel: the record becomes canceling, whatever its run is doing.
Cancel(c, k) ==
  /\ Serving /\ call[c].pc = "idle"
  /\ SetStateAllowed(rec[k], "canceling")
  /\ Write(k, [rec[k] EXCEPT !.state = "canceling"])
  /\ call' = [call EXCEPT ![c] = [pc |-> "cancel", key |-> k, snap |-> rec[k].dispatched]]
  /\ UNCHANGED <<ckpt, run, late, resuming, closing, cell, faults>>

\* cancelActive: the context of the active run is canceled and the caller waits
\* for it, or there is none.
CancelActive(c, wait, none) ==
  LET k == call[c].key
  IN  IF run[k].pc = "idle" THEN Call_(c, none) /\ UNCHANGED run
      ELSE Call_(c, wait) /\ run' = [run EXCEPT ![k].stopped = TRUE]

\* The record was not dispatched when it was read.
CancelLocal(c) ==
  /\ call[c].pc = "cancel" /\ ~call[c].snap
  /\ CancelActive(c, "waitlocal", "synthetic")
  /\ UNCHANGED <<rec, ckpt, late, resuming, closing, cell, faults>>

\* Where a call for CancelAssignment is made: in Cancel, and in
\* retryDispatchedCancellation while the record is open.
AsksCell(c) ==
  \/ call[c].pc = "cancel" /\ call[c].snap
  \/ call[c].pc = "probe" /\ rec[call[c].key].state \notin BrokerTerminal

NotAccepted(c) == Call_(c, IF call[c].pc = "probe" THEN "tick" ELSE "kill")

\* CancelAssignment reaches the cell.  It is accepted for a run that is active
\* or still in the server's hands, which the caller may not learn.
CancelCell(c) ==
  LET k        == call[c].key
      b        == k.build
      match    == outcome[b] # "absent" /\ held[b].key = k
      accepted == match /\ (outcome[b] = "active" \/ b \in driven)
  IN  /\ AsksCell(c) /\ (closing => call[c].pc = "cancel")
      /\ IF match /\ outcome[b] = "active" THEN Cell!Cancel(b) ELSE UNCHANGED <<outcome, canceled>>
      /\ \/ accepted /\ call' = [call EXCEPT ![c].pc = "starting", ![c].snap = TRUE]
         \/ NotAccepted(c)
      /\ UNCHANGED <<rec, ckpt, run, late, resuming, closing, held, driven, counted,
                     faults>>

\* The call fails before it reaches the cell.
CancelCellFails(c) ==
  /\ AsksCell(c)
  /\ NotAccepted(c)
  /\ UNCHANGED <<rec, ckpt, run, late, resuming, closing, cell, faults>>

\* The cell did not accept: the active run is stopped before it is asked again.
Kill(c) ==
  /\ call[c].pc = "kill"
  /\ CancelActive(c, "waitprior", "probe")
  /\ UNCHANGED <<rec, ckpt, late, resuming, closing, cell, faults>>

\* reconcileLocalCancellation, once the run it stopped has returned.
Reconcile(c) ==
  LET r == rec[call[c].key]
  IN  /\ call[c].pc = "reconcile"
      /\ IF r.state \in BrokerTerminal THEN Done(c)
         ELSE Call_(c, IF r.dispatched THEN "probe" ELSE "synthetic")
      /\ UNCHANGED <<rec, ckpt, run, late, resuming, closing, cell, faults>>

\* "Build was canceled before BuildCell dispatch".
CancelSynthetic(c) ==
  /\ call[c].pc = "synthetic"
  /\ Synthetic(call[c].key, "canceled", "clean")
  /\ Done(c)
  /\ UNCHANGED <<ckpt, run, late, resuming, closing, cell, faults>>

\* retryDispatchedCancellation finds the record terminal.
ProbeDone(c) ==
  /\ call[c].pc = "probe" /\ rec[call[c].key].state \in BrokerTerminal
  /\ Done(c)
  /\ UNCHANGED <<rec, ckpt, run, late, resuming, closing, cell, faults>>

\* It asks again, or two minutes have passed without an accepted cancellation.
Tick(c) ==
  /\ call[c].pc = "tick"
  /\ \/ Call_(c, "probe") /\ UNCHANGED rec
     \/ Synthetic(call[c].key, "failed", "unknown") /\ Done(c)
  /\ UNCHANGED <<ckpt, run, late, resuming, closing, cell, faults>>

\* A goroutine that waits gives up when the broker closes.
Abandon(c) ==
  /\ closing /\ call[c].pc \in {"waitlocal", "waitprior", "tick"}
  /\ Done(c)
  /\ UNCHANGED <<rec, ckpt, run, late, resuming, closing, cell, faults>>

-----------------------------------------------------------------------------
(* Time, restarts and the cell.                                            *)

\* The deadline of a run passes, or the extension of its context.
Deadline(k) ==
  /\ rec[k].state # "absent"
  /\ k \notin late \/ (run[k].pc # "idle" /\ ~run[k].stopped)
  /\ late' = late \cup {k}
  /\ run' = IF run[k].pc = "idle" THEN run ELSE [run EXCEPT ![k].stopped = TRUE]
  /\ UNCHANGED <<rec, ckpt, call, resuming, closing, cell, faults>>

\* The last slot of the event log is used.
LogFills(k) ==
  /\ faults < MaxFaults /\ faults' = faults + 1
  /\ run[k].pc = "stream" /\ AppendAllowed(rec[k])
  /\ Write(k, [rec[k] EXCEPT !.full = TRUE])
  /\ UNCHANGED <<ckpt, broker, cell>>

\* Close: the root context is canceled, and with it every run.  The server
\* is drained before, for thirty seconds: a call that waits for the cell may be
\* in flight still, one that only reads and writes the store is not.
Close ==
  /\ Serving /\ faults < MaxFaults /\ faults' = faults + 1
  /\ \A c \in Calls : call[c].pc \in {"starting", "cancel"} => call[c].snap
  /\ closing' = TRUE
  /\ run' = [k \in Keys |-> IF run[k].pc = "idle" THEN run[k]
                            ELSE [run[k] EXCEPT !.stopped = TRUE]]
  /\ UNCHANGED <<rec, ckpt, call, late, resuming, cell>>

\* The process ends, after Close or by a crash, and a new one starts.
Restart ==
  /\ IF closing THEN UNCHANGED faults ELSE faults < MaxFaults /\ faults' = faults + 1
  /\ run' = [k \in Keys |-> NoRun]
  /\ call' = [c \in Calls |-> NoCall]
  /\ resuming' = {k \in Keys : rec[k].state \in BrokerOpen}
  /\ closing' = FALSE
  /\ UNCHANGED <<rec, ckpt, late, cell>>

\* Resume, for one record that is not terminal.
Resume(k) ==
  LET r   == rec[k]
      ext == r.state = "canceling" /\ r.dispatched
  IN  /\ k \in resuming
      /\ resuming' = resuming \ {k}
      /\ IF r.state = "canceling" /\ ~r.dispatched
           THEN /\ AppendAllowed(r)
                /\ Synthetic(k, "canceled", "clean")
                /\ UNCHANGED <<run, call>>
           ELSE /\ run' = Started(k, ext)
                /\ IF ext THEN \E c \in Calls :
                               /\ call[c].pc = "idle"
                               /\ call' = [call EXCEPT ![c] = [pc |-> "probe", key |-> k,
                                                              snap |-> TRUE]]
                   ELSE UNCHANGED call
                /\ UNCHANGED rec
      /\ UNCHANGED <<ckpt, late, closing, cell, faults>>

\* The cell ends the run it drives; a result without attempts is possible for
\* any result but complete.
CellEnds(b) ==
  /\ b \in driven
  /\ Cell!End(b)
  /\ counted' \in IF outcome'[b] = "complete" THEN {counted \cup {b}}
                  ELSE {counted, counted \cup {b}}
  /\ UNCHANGED <<rec, ckpt, broker, held, driven, faults>>

\* The cell's call returns.  Without a result the run was lost: the controller
\* died, or dropped a result that came too late for a cancellation.
CellReturns(b) ==
  /\ b \in driven
  /\ driven' = driven \ {b}
  /\ IF outcome[b] = "active" /\ ~canceled[b]
       THEN faults < MaxFaults /\ faults' = faults + 1 ELSE UNCHANGED faults
  /\ UNCHANGED <<rec, ckpt, broker, outcome, canceled, held, counted>>

-----------------------------------------------------------------------------
Execute(k) ==
  \/ Lookup(k) \/ SetRunning(k) \/ Load(k) \/ Prepare(k) \/ SignFails(k) \/ Assigned(k)
  \/ Dispatch(k) \/ DispatchFails(k) \/ Stream(k) \/ Recover(k) \/ Result(k) \/ Decide(k)
  \/ Conclude(k) \/ Retry(k) \/ SetRetrying(k) \/ Sleep(k)
  \/ \E n \in Nonces : Sign(k, n)

CallStep(c) ==
  \/ Start(c) \/ CancelLocal(c) \/ CancelCell(c) \/ CancelCellFails(c) \/ Kill(c)
  \/ Reconcile(c) \/ CancelSynthetic(c) \/ ProbeDone(c) \/ Tick(c) \/ Abandon(c)

Next ==
  \/ \E k \in Keys : Execute(k) \/ Deadline(k) \/ LogFills(k) \/ Resume(k)
  \/ \E c \in Calls : CallStep(c)
  \/ \E c \in Calls, q \in Requests : Submit(c, q)
  \/ \E c \in Calls, k \in Keys : Cancel(c, k)
  \/ \E b \in Builds : CellEnds(b) \/ CellReturns(b)
  \/ Close \/ Restart

Spec == Init /\ [][Next]_vars

\* Every call has a timeout, deadlines pass, a closed process ends and a new
\* one resumes.  Nothing is assumed of the cell or of the callers.
Fairness ==
  /\ \A k \in Keys : WF_vars(Execute(k)) /\ WF_vars(Deadline(k)) /\ WF_vars(Resume(k))
  /\ \A c \in Calls : WF_vars(CallStep(c))
  /\ WF_vars(closing /\ Restart)

FairSpec == Spec /\ Fairness

-----------------------------------------------------------------------------
(* Properties.                                                             *)

TypeOK ==
  /\ rec \in [Keys -> BrokerRecord]
  /\ ckpt \in [Keys -> Nonces \cup {NoNonce}]
  /\ run \in [Keys -> ActiveRun]
  /\ call \in [Calls -> Call]
  /\ late \subseteq Keys /\ resuming \subseteq Keys /\ closing \in BOOLEAN
  /\ outcome \in [Builds -> CellTerminal \cup {"absent", "active"}]
  /\ canceled \in [Builds -> BOOLEAN]
  /\ held \in [Builds -> Assignment]
  /\ driven \subseteq Builds /\ counted \subseteq Builds
  /\ faults \in 0 .. MaxFaults

\* What the cell holds for a generation is the assignment its checkpoint names,
\* whatever retries, crashes and restarts lie between signing and delivery, so
\* a build is never signed twice for one generation (orchestrator.go Run, Save).
OneAssignment ==
  \A k \in Keys : outcome[k.build] # "absent" /\ held[k.build].key = k
                     => held[k.build].nonce = ckpt[k]

\* A complete build was completed by the cell, under the very assignment of
\* this generation: an older generation's result, which the cell returns by
\* build, is never taken for it.
CompleteIsCells ==
  \A k \in Keys : rec[k].state = "complete" =>
    /\ outcome[k.build] = "complete"
    /\ held[k.build] = [key |-> k, nonce |-> ckpt[k]]

\* Two generations of a build are never open together.
OneOpenGeneration ==
  \A j, k \in Keys : j.build = k.build /\ rec[j].state \in BrokerOpen
                       /\ rec[k].state \in BrokerOpen => j = k

\* A terminal record is never written again, although the run, the calls that
\* cancel it and their goroutines all append terminal events of their own.
TerminalRunStays ==
  [][\A k \in Keys : rec[k].state \in BrokerTerminal => rec'[k] = rec[k]]_vars

\* A run that nobody cancels becomes terminal, through restarts, lost streams
\* and a cell that never answers, unless its event log is full.
UncanceledRunEnds ==
  \A k \in Keys : (rec[k].state \in BrokerOpen) ~>
    (rec[k].state \in BrokerTerminal \cup {"canceling"} \/ rec[k].full)

-----------------------------------------------------------------------------
(* Statements of comments and documentation the code does not keep.        *)

\* broker.go: "Process shutdown is not a build failure.  Preserve the
\* nonterminal record so the replacement broker can recover the durable run":
\* a shutdown gives no result to a run that nobody cancels.
ShutdownPreservesRun ==
  [][\A k \in Keys :
       closing /\ rec[k].state \in BrokerOpen \ {"canceling"} /\ rec'[k].state \in BrokerTerminal
         => rec'[k].cleanup = "reported"]_vars

\* docs/adr/022: "The broker cancels detection or compilation locally, or calls
\* BuildCell CancelAssignment after dispatch": before its deadline, a build the
\* broker itself reports canceled and clean is not running in the cell.
LocalCancelIsLocal ==
  \A k \in Keys : rec[k].state = "canceled" /\ rec[k].cleanup = "clean" /\ k \notin late
                     => ~(held[k.build].key = k /\ outcome[k.build] = "active")
=============================================================================
