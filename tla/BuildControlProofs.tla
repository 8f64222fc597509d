------------------------- MODULE BuildControlProofs -------------------------
(***************************************************************************)
(* Theorems about the build cell, for any number of processes, builds,     *)
(* assignments, attempts and faults.                                       *)
(*                                                                         *)
(* The argument.  Every step of a run either keeps its owner and the       *)
(* number it counts attempts by, or gives up the owner (Quiet); a          *)
(* heartbeat makes the number durable (Beat); a claim takes a fresh owner  *)
(* (Claim); the last step of an owner writes the result and gives up the   *)
(* owner (Finish).  The invariant IndInv says that owners are never        *)
(* shared, that a run holding the owner of its record finds the record     *)
(* active and counts with it, and that every other run counts below it.    *)
(***************************************************************************)
EXTENDS BuildControl, Integers, TLAPS

\* The number of the last attempt a run knows to be durable.
Num(r) == IF r.pc = "attempt" THEN r.attempt - 1 ELSE r.attempt

\* What holds of the local state of every run.
RunOK(r) ==
  /\ r \in Run
  /\ r.pc \in OwnerPcs => r.owner \in Owners
  /\ r.pc \notin OwnerPcs => r.owner = NoOwner
  /\ r.pc # "idle" => r.asg \in Assignments
  /\ r.pc \in {"reserve", "claim"} => r.attempt = 0
  /\ r.pc \in AttemptPcs \cup {"attempt"} => r.attempt >= 1
  /\ r.pc \in {"retry", "wait"} => r.attempt < MaxAttempts

Keeps(r, q) ==
  /\ r.pc \in OwnerPcs /\ q.pc \in OwnerPcs
  /\ q.owner = r.owner
  /\ Num(q) = Num(r)
  /\ q.pc \in AttemptPcs => r.pc \in AttemptPcs /\ q.attempt = r.attempt

Ends(q) == q.pc \notin OwnerPcs

Local(s, b) ==
  \E q \in Run : Become(s, b, q) /\ RunOK(q) /\ (Keeps(run[s][b], q) \/ Ends(q))

Quiet(s, b) == Local(s, b) /\ rec' = rec

Beat(s, b) ==
  \E q \in Run :
    /\ Become(s, b, q) /\ RunOK(q)
    /\ run[s][b].pc \in OwnerPcs /\ q.pc \in OwnerPcs \ {"attempt"}
    /\ q.owner = run[s][b].owner
    /\ HeartbeatAllowed(rec[b], q.owner, q.attempt)
    /\ rec' = [rec EXCEPT ![b] = heartbeatRecord(rec[b], q.attempt)]
    /\ \/ q.attempt = Num(run[s][b]) + 1
       \/ /\ q.attempt = Num(run[s][b])
          /\ q.pc \in AttemptPcs => run[s][b].pc \in AttemptPcs

-----------------------------------------------------------------------------
(* The inductive invariant.                                                *)

RunsOK ==
  /\ run \in [Servers -> [Builds -> Run]]
  /\ \A s \in Servers, b \in Builds : RunOK(run[s][b])

RecsOK ==
  /\ rec \in [Builds -> RunRecord]
  /\ \A b \in Builds : rec[b].attempt \in 0 .. MaxAttempts
  /\ \A b \in Builds : rec[b].phase # "absent" => rec[b].owner \in Owners
  /\ \A b \in Builds : rec[b].phase = "absent" => rec[b].cancel = FALSE

\* No two runs of a build have the same owner.
OwnersDistinct ==
  \A b \in Builds : \A s, t \in Servers :
    run[s][b].owner = run[t][b].owner /\ run[s][b].owner # NoOwner => s = t

\* Whoever holds an owner was recorded, and whoever still is the recorded
\* owner finds the run active and knows the durable attempt.
OwnerRecorded ==
  \A b \in Builds : \A s \in Servers :
    run[s][b].pc \in OwnerPcs =>
      /\ rec[b].phase # "absent"
      /\ run[s][b].owner = rec[b].owner =>
           rec[b].phase = "active" /\ rec[b].attempt = Num(run[s][b])

\* No run is ahead of the durable attempt.
NotAhead ==
  \A b \in Builds : \A s \in Servers :
    run[s][b].pc \in AttemptPcs => run[s][b].attempt <= rec[b].attempt

Core == /\ RunsOK /\ RecsOK
        /\ OwnersDistinct /\ OwnerRecorded /\ NotAhead /\ AttemptExclusive

-----------------------------------------------------------------------------
(* The shapes of a run after a step.                                       *)

\* The record of an idle slot is a run that holds nothing.
LEMMA IdleOK == RunOK(IdleRun) /\ Ends(IdleRun)
BY ControlAssumption DEF RunOK, Ends, IdleRun, Run, Pcs, OwnerPcs, AttemptPcs, Terminal

\* A run that returns without a result holds no owner and keeps its assignment.
LEMMA LeaveOK ==
  ASSUME NEW r \in Run, RunOK(r), r.pc # "idle"
  PROVE  LET q == [IdleRun EXCEPT !.pc = "done", !.asg = r.asg]
         IN  q \in Run /\ RunOK(q) /\ Ends(q)
<1> DEFINE q == [IdleRun EXCEPT !.pc = "done", !.asg = r.asg]
<1>1. IdleRun \in Run BY IdleOK DEF RunOK
<1>2. r.asg \in Assignments BY DEF RunOK
<1>3. \A i \in Run : i.owner = NoOwner =>
        LET p == [i EXCEPT !.pc = "done", !.asg = r.asg]
        IN  p \in Run /\ p.pc = "done" /\ p.owner = NoOwner /\ p.asg = r.asg
  BY <1>2 DEF Run, Pcs
<1>4. IdleRun.owner = NoOwner BY DEF IdleRun
<1> QED BY <1>1, <1>2, <1>3, <1>4 DEF RunOK, Ends, OwnerPcs, AttemptPcs

\* OutsideAttempt keeps assignment, owner and attempt number.
LEMMA OutsideFields ==
  ASSUME NEW r \in Run, NEW l \in Pcs
  PROVE  LET q == OutsideAttempt(r, l)
         IN  /\ q \in Run
             /\ q.pc = l /\ q.asg = r.asg /\ q.owner = r.owner /\ q.attempt = r.attempt
<1>1. \A i \in Run :
        LET q == [i EXCEPT !.pc = l, !.asg = r.asg, !.owner = r.owner,
                           !.attempt = r.attempt, !.cancel = r.cancel]
        IN  /\ q \in Run
            /\ q.pc = l /\ q.asg = r.asg /\ q.owner = r.owner /\ q.attempt = r.attempt
  BY DEF Run
<1> QED BY <1>1, IdleOK DEF OutsideAttempt, RunOK

\* A decided result keeps owner and number until Finish.
LEMMA ConcludeOK ==
  ASSUME NEW r \in Run, RunOK(r), r.pc \in OwnerPcs \ {"attempt"}, NEW phase \in Terminal
  PROVE  LET q == [OutsideAttempt(r, "finish") EXCEPT !.result = phase]
         IN  q \in Run /\ RunOK(q) /\ Keeps(r, q)
<1>1. "finish" \in Pcs BY DEF Pcs, OwnerPcs
<1>2. \A i \in Run : LET q == [i EXCEPT !.result = phase]
                     IN  /\ q \in Run /\ q.pc = i.pc /\ q.asg = i.asg
                         /\ q.owner = i.owner /\ q.attempt = i.attempt
  BY DEF Run
<1> QED BY <1>1, <1>2, OutsideFields DEF RunOK, Keeps, Num, OwnerPcs, AttemptPcs

\* A step inside an attempt that leaves assignment, owner and number alone.
SameAttempt(r, q) ==
  /\ q \in Run
  /\ q.pc \in AttemptPcs \ {"retry", "wait"}
  /\ q.asg = r.asg /\ q.owner = r.owner /\ q.attempt = r.attempt

\* A step inside an attempt keeps the local invariant of the run.
LEMMA SameAttemptOK ==
  ASSUME NEW r \in Run, RunOK(r), r.pc \in AttemptPcs, NEW q, SameAttempt(r, q)
  PROVE  q \in Run /\ RunOK(q) /\ Keeps(r, q)
BY DEF SameAttempt, RunOK, Keeps, Num, OwnerPcs, AttemptPcs

-----------------------------------------------------------------------------
(* What the ways to leave a step do to the run they end.                   *)

\* A call that returns without a result is a local step.
LEMMA LeaveLocal ==
  ASSUME NEW s \in Servers, NEW b \in Builds, run[s][b] \in Run, RunOK(run[s][b]),
         run[s][b].pc # "idle", Leave(s, b)
  PROVE  Local(s, b)
BY LeaveOK DEF Leave, Local

\* A run that decides its result is a local step.
LEMMA ConcludeLocal ==
  ASSUME NEW s \in Servers, NEW b \in Builds, run[s][b] \in Run, RunOK(run[s][b]),
         run[s][b].pc \in OwnerPcs \ {"attempt"}, NEW phase \in Terminal,
         Conclude(s, b, phase)
  PROVE  Local(s, b)
BY ConcludeOK DEF Conclude, Local

\* A step within an attempt is a local step.
LEMMA InsideLocal ==
  ASSUME NEW s \in Servers, NEW b \in Builds, run[s][b] \in Run, RunOK(run[s][b]),
         run[s][b].pc \in AttemptPcs, NEW q, SameAttempt(run[s][b], q), Become(s, b, q)
  PROVE  Local(s, b)
BY SameAttemptOK DEF Local

\* Moving on to another pc of the attempt is a local step.
LEMMA GotoLocal ==
  ASSUME NEW s \in Servers, NEW b \in Builds, run[s][b] \in Run, RunOK(run[s][b]),
         run[s][b].pc \in AttemptPcs, NEW l \in AttemptPcs \ {"retry", "wait"}, Goto(s, b, l)
  PROVE  Local(s, b)
<1>1. SameAttempt(run[s][b], [run[s][b] EXCEPT !.pc = l])
  BY DEF SameAttempt, Run, Pcs, OwnerPcs
<1> QED BY <1>1, InsideLocal DEF Goto

\* The failure or the cancellation a call ends with is a terminal phase.
LEMMA CanceledOrTerminal ==
  ASSUME NEW r, NEW phase \in Terminal
  PROVE  CanceledOr(r, phase) \in Terminal
BY DEF CanceledOr, Terminal

\* The pcs of an attempt are owned and are not its head.
LEMMA AttemptPcsOwned == AttemptPcs \subseteq OwnerPcs \ {"attempt"}
BY DEF AttemptPcs, OwnerPcs

\* The phases a run decides on are terminal.
LEMMA TerminalPhases == {"failed", "canceled", "quarantined", "complete"} \subseteq Terminal
BY DEF Terminal

\* The steps before an attempt that touch no durable record.
LEMMA QuietOutside ==
  ASSUME NEW s \in Servers, NEW b \in Builds, run[s][b] \in Run, RunOK(run[s][b])
  PROVE  /\ Return(s, b) => Quiet(s, b)
         /\ Reserve(s, b) => Quiet(s, b)
         /\ ClaimRefused(s, b) => Quiet(s, b)
         /\ Scrub(s, b) => Quiet(s, b)
         /\ Resolve(s, b) => Quiet(s, b)
<1> DEFINE r == run[s][b]
<1>1. Return(s, b) => Quiet(s, b)
  BY IdleOK DEF Return, Quiet, Local, RunOK
<1>2. ASSUME Reserve(s, b) PROVE Quiet(s, b)
  <2>1. r.pc = "reserve" /\ rec' = rec /\ (Goto(s, b, "claim") \/ Leave(s, b))
    BY <1>2 DEF Reserve
  <2>2. CASE Goto(s, b, "claim")
    <3> DEFINE q == [r EXCEPT !.pc = "claim"]
    <3>1. q \in Run /\ q.pc = "claim" /\ q.asg = r.asg /\ q.owner = r.owner
          /\ q.attempt = r.attempt
      BY DEF Run, Pcs
    <3>2. RunOK(q) /\ Ends(q)
      BY <3>1, <2>1 DEF RunOK, Ends, OwnerPcs, AttemptPcs
    <3> QED BY <2>1, <2>2, <3>1, <3>2 DEF Goto, Quiet, Local
  <2> QED BY <2>1, <2>2, LeaveLocal DEF Quiet
<1>3. ASSUME ClaimRefused(s, b) PROVE Quiet(s, b)
  <2>1. r.pc = "claim" /\ rec' = rec /\ Leave(s, b)
    BY <1>3 DEF ClaimRefused
  <2> QED BY <2>1, LeaveLocal DEF Quiet
<1>4. ASSUME Scrub(s, b) PROVE Quiet(s, b)
  <2>1. r.pc = "scrub" /\ rec' = rec
        /\ (\/ Conclude(s, b, "canceled") \/ Conclude(s, b, "quarantined")
            \/ Become(s, b, OutsideAttempt(r, "begin")))
    BY <1>4 DEF Scrub
  <2>2. r.pc \in OwnerPcs \ {"attempt"} BY <2>1 DEF OwnerPcs
  <2>3. CASE Become(s, b, OutsideAttempt(r, "begin"))
    <3> DEFINE q == OutsideAttempt(r, "begin")
    <3>1. "begin" \in Pcs BY DEF Pcs, OwnerPcs
    <3>2. q \in Run /\ q.pc = "begin" /\ q.asg = r.asg /\ q.owner = r.owner
          /\ q.attempt = r.attempt
      BY <3>1, OutsideFields
    <3>3. RunOK(q) /\ Keeps(r, q)
      BY <3>2, <2>1 DEF RunOK, Keeps, Num, OwnerPcs, AttemptPcs
    <3> QED BY <2>1, <2>3, <3>2, <3>3 DEF Quiet, Local
  <2> QED BY <2>1, <2>2, <2>3, ConcludeLocal, TerminalPhases DEF Quiet
<1>5. ASSUME Resolve(s, b) PROVE Quiet(s, b)
  <2> DEFINE q == [r EXCEPT !.pc = "attempt", !.attempt = r.attempt + 1]
  <2>1. r.pc = "resolve" /\ rec' = rec
        /\ (\/ r.attempt + 1 <= MaxAttempts /\ Become(s, b, q)
            \/ \E phase \in {"failed", CanceledOr(r, "failed")} : Conclude(s, b, phase))
    BY <1>5 DEF Resolve
  <2>2. r.pc \in OwnerPcs \ {"attempt"} BY <2>1 DEF OwnerPcs
  <2>3. CASE r.attempt + 1 <= MaxAttempts /\ Become(s, b, q)
    <3>1. r.attempt \in Nat /\ r.attempt + 1 \in 0 .. MaxAttempts
      BY <2>3, ControlAssumption DEF Run
    <3>2. q \in Run /\ q.pc = "attempt" /\ q.asg = r.asg /\ q.owner = r.owner
          /\ q.attempt = r.attempt + 1
      BY <3>1 DEF Run, Pcs, OwnerPcs
    <3>3. RunOK(q) /\ Keeps(r, q)
      BY <3>1, <3>2, <2>1 DEF RunOK, Keeps, Num, OwnerPcs, AttemptPcs
    <3> QED BY <2>1, <2>3, <3>2, <3>3 DEF Quiet, Local
  <2>4. CanceledOr(r, "failed") \in Terminal BY CanceledOrTerminal, TerminalPhases
  <2> QED BY <2>1, <2>2, <2>3, <2>4, ConcludeLocal, TerminalPhases DEF Quiet
<1> QED BY <1>1, <1>2, <1>3, <1>4, <1>5

\* Acquiring, allocating and giving up an attempt.
LEMMA QuietAcquire ==
  ASSUME NEW s \in Servers, NEW b \in Builds, run[s][b] \in Run, RunOK(run[s][b])
  PROVE  /\ AcquireLogin(s, b) => Quiet(s, b)
         /\ AcquireReturn(s, b) => Quiet(s, b)
         /\ RevokePending(s, b) => Quiet(s, b)
         /\ Allocate(s, b) => Quiet(s, b)
         /\ Connect(s, b) => Quiet(s, b)
         /\ Deallocate(s, b) => Quiet(s, b)
<1> DEFINE r == run[s][b]
<1>0. ASSUME r.pc \in AttemptPcs, NEW l \in {"acquiring", "allocate", "pending", "connect",
                                             "dealloc", "executing"}, Goto(s, b, l)
      PROVE  Local(s, b)
  <2>1. l \in AttemptPcs \ {"retry", "wait"} BY DEF AttemptPcs
  <2> QED BY <1>0, <2>1, GotoLocal
<1>c. ASSUME r.pc \in AttemptPcs, NEW phase \in {"failed", "quarantined", CanceledOr(r, "failed")},
             Conclude(s, b, phase)
      PROVE  Local(s, b)
  <2>1. phase \in Terminal BY CanceledOrTerminal, TerminalPhases
  <2> QED BY <1>c, <2>1, ConcludeLocal, AttemptPcsOwned
<1>1. ASSUME AcquireLogin(s, b) PROVE Quiet(s, b)
  <2>1. r.pc = "acquire" /\ rec' = rec
        /\ (Goto(s, b, "acquiring") \/ Conclude(s, b, CanceledOr(r, "failed")))
    BY <1>1 DEF AcquireLogin
  <2>2. r.pc \in AttemptPcs BY <2>1 DEF AttemptPcs
  <2> QED BY <2>1, <2>2, <1>0, <1>c DEF Quiet
<1>2. ASSUME AcquireReturn(s, b) PROVE Quiet(s, b)
  <2>1. r.pc = "acquiring" /\ rec' = rec
        /\ (\/ Goto(s, b, "allocate") \/ Goto(s, b, "pending")
            \/ Conclude(s, b, "failed") \/ Conclude(s, b, CanceledOr(r, "failed")))
    BY <1>2 DEF AcquireReturn
  <2>2. r.pc \in AttemptPcs BY <2>1 DEF AttemptPcs
  <2> QED BY <2>1, <2>2, <1>0, <1>c DEF Quiet
<1>3. ASSUME RevokePending(s, b) PROVE Quiet(s, b)
  <2>1. r.pc = "pending" /\ rec' = rec
        /\ (Conclude(s, b, "quarantined") \/ Conclude(s, b, CanceledOr(r, "failed")))
    BY <1>3 DEF RevokePending
  <2>2. r.pc \in AttemptPcs BY <2>1 DEF AttemptPcs
  <2> QED BY <2>1, <2>2, <1>c DEF Quiet
<1>4. ASSUME Allocate(s, b) PROVE Quiet(s, b)
  <2>1. r.pc = "allocate" /\ rec' = rec /\ (Goto(s, b, "dealloc") \/ Goto(s, b, "connect"))
    BY <1>4 DEF Allocate
  <2>2. r.pc \in AttemptPcs BY <2>1 DEF AttemptPcs
  <2> QED BY <2>1, <2>2, <1>0 DEF Quiet
<1>5. ASSUME Connect(s, b) PROVE Quiet(s, b)
  <2>1. r.pc = "connect" /\ rec' = rec /\ (Goto(s, b, "dealloc") \/ Goto(s, b, "executing"))
    BY <1>5 DEF Connect
  <2>2. r.pc \in AttemptPcs BY <2>1 DEF AttemptPcs
  <2> QED BY <2>1, <2>2, <1>0 DEF Quiet
<1>6. ASSUME Deallocate(s, b) PROVE Quiet(s, b)
  <2>1. r.pc = "dealloc" /\ rec' = rec
        /\ \E phase \in {"quarantined", CanceledOr(r, "failed")} : Conclude(s, b, phase)
    BY <1>6 DEF Deallocate
  <2>2. r.pc \in AttemptPcs BY <2>1 DEF AttemptPcs
  <2> QED BY <2>1, <2>2, <1>c DEF Quiet
<1> QED BY <1>1, <1>2, <1>3, <1>4, <1>5, <1>6

\* The end of an execution: the run notes what it saw and releases the worker.
LEMMA QuietExecute ==
  ASSUME NEW s \in Servers, NEW b \in Builds, run[s][b] \in Run, RunOK(run[s][b])
  PROVE  /\ WorkerDone(s, b) => Quiet(s, b)
         /\ StopCooperatively(s, b) => Quiet(s, b)
         /\ StopByForce(s, b) => Quiet(s, b)
         /\ Release(s, b) => Quiet(s, b)
<1> DEFINE r == run[s][b]
<1>0. r.cancel \in BOOLEAN /\ r.canceled \in BOOLEAN /\ r.clean \in BOOLEAN
      /\ r.outcome \in {"complete", "invalid", "failed", "worker_lost"}
  BY DEF Run
<1>1. ASSUME WorkerDone(s, b) PROVE Quiet(s, b)
  <2>1. r.pc = "executing" /\ rec' = rec
        /\ \E clean \in BOOLEAN, out \in {"complete", "invalid", "failed", "worker_lost"} :
             Become(s, b, [r EXCEPT !.pc = "release", !.outcome = out, !.clean = clean,
                                    !.canceled = r.cancel])
    BY <1>1 DEF WorkerDone
  <2>2. PICK clean \in BOOLEAN, out \in {"complete", "invalid", "failed", "worker_lost"} :
          Become(s, b, [r EXCEPT !.pc = "release", !.outcome = out, !.clean = clean,
                                 !.canceled = r.cancel])
    BY <2>1
  <2>3. SameAttempt(r, [r EXCEPT !.pc = "release", !.outcome = out, !.clean = clean,
                                 !.canceled = r.cancel])
    BY <1>0, ZenonT(30) DEF SameAttempt, Run, Pcs, OwnerPcs, AttemptPcs
  <2>4. r.pc \in AttemptPcs BY <2>1 DEF AttemptPcs
  <2> QED BY <2>1, <2>2, <2>3, <2>4, InsideLocal DEF Quiet
<1>c. PICK c \in BOOLEAN : c = (r.canceled \/ r.cancel)
  OBVIOUS
<1>2. ASSUME StopCooperatively(s, b) PROVE Quiet(s, b)
  <2>1. r.pc = "stopping" /\ rec' = rec
        /\ \E clean \in BOOLEAN :
             Become(s, b, [r EXCEPT !.pc = "release", !.clean = clean,
                                    !.canceled = r.canceled \/ r.cancel])
    BY <1>2 DEF StopCooperatively
  <2>2. PICK clean \in BOOLEAN :
          Become(s, b, [r EXCEPT !.pc = "release", !.clean = clean, !.canceled = c])
    BY <2>1, <1>c, Zenon
  <2>3. SameAttempt(r, [r EXCEPT !.pc = "release", !.clean = clean, !.canceled = c])
    BY <1>0, ZenonT(30) DEF SameAttempt, Run, Pcs, OwnerPcs, AttemptPcs
  <2>4. r.pc \in AttemptPcs BY <2>1 DEF AttemptPcs
  <2> QED BY <2>1, <2>2, <2>3, <2>4, InsideLocal DEF Quiet
<1>3. ASSUME StopByForce(s, b) PROVE Quiet(s, b)
  <2>1. r.pc = "stopping" /\ rec' = rec
        /\ \E clean \in BOOLEAN :
             Become(s, b, [r EXCEPT !.pc = "release", !.clean = clean,
                                    !.forced = TRUE, !.canceled = r.canceled \/ r.cancel])
    BY <1>3 DEF StopByForce
  <2>2. PICK clean \in BOOLEAN :
          Become(s, b, [r EXCEPT !.pc = "release", !.clean = clean,
                                 !.forced = TRUE, !.canceled = c])
    BY <2>1, <1>c, Zenon
  <2>3. SameAttempt(r, [r EXCEPT !.pc = "release", !.clean = clean,
                                 !.forced = TRUE, !.canceled = c])
    BY <1>0, ZenonT(30) DEF SameAttempt, Run, Pcs, OwnerPcs, AttemptPcs
  <2>4. r.pc \in AttemptPcs BY <2>1 DEF AttemptPcs
  <2> QED BY <2>1, <2>2, <2>3, <2>4, InsideLocal DEF Quiet
<1>4. ASSUME Release(s, b) PROVE Quiet(s, b)
  <2>1. r.pc = "release" /\ rec' = rec
        /\ (\/ Goto(s, b, "revoke")
            \/ \E ok \in BOOLEAN :
                 Become(s, b, [r EXCEPT !.pc = "revoke", !.clean = r.clean /\ ok]))
    BY <1>4 DEF Release
  <2>2. r.pc \in AttemptPcs /\ "revoke" \in AttemptPcs \ {"retry", "wait"}
    BY <2>1 DEF AttemptPcs
  <2>3. ASSUME NEW ok \in BOOLEAN,
               Become(s, b, [r EXCEPT !.pc = "revoke", !.clean = r.clean /\ ok])
        PROVE  Local(s, b)
    <3>1. SameAttempt(r, [r EXCEPT !.pc = "revoke", !.clean = r.clean /\ ok])
      BY <1>0, <2>2 DEF SameAttempt, Run, Pcs, OwnerPcs
    <3> QED BY <2>2, <2>3, <3>1, InsideLocal
  <2> QED BY <2>1, <2>2, <2>3, GotoLocal DEF Quiet
<1> QED BY <1>1, <1>2, <1>3, <1>4

\* The classification of an attempt, the retry delay and a failing store.
LEMMA QuietClassify ==
  ASSUME NEW s \in Servers, NEW b \in Builds, run[s][b] \in Run, RunOK(run[s][b])
  PROVE  /\ Classify(s, b) => Quiet(s, b)
         /\ WaitForRetry(s, b) => Quiet(s, b)
         /\ StoreError(s, b) => Quiet(s, b)
<1> DEFINE r == run[s][b]
<1>1. ASSUME Classify(s, b) PROVE Quiet(s, b)
  <2>1. r.pc = "revoke" /\ rec' = rec
        /\ (\/ Leave(s, b)
            \/ \E phase \in {"quarantined", "canceled", "complete", "failed"} :
                 Conclude(s, b, phase)
            \/ r.attempt < MaxAttempts /\ Become(s, b, OutsideAttempt(r, "retry")))
    BY <1>1 DEF Classify
  <2>2. r.pc \in AttemptPcs /\ r.pc # "idle" BY <2>1 DEF AttemptPcs
  <2>3. CASE r.attempt < MaxAttempts /\ Become(s, b, OutsideAttempt(r, "retry"))
    <3> DEFINE q == OutsideAttempt(r, "retry")
    <3>1. "retry" \in Pcs BY DEF Pcs, OwnerPcs, AttemptPcs
    <3>2. q \in Run /\ q.pc = "retry" /\ q.asg = r.asg /\ q.owner = r.owner
          /\ q.attempt = r.attempt
      BY <3>1, OutsideFields
    <3>3. RunOK(q) /\ Keeps(r, q)
      BY <3>2, <2>1, <2>3 DEF RunOK, Keeps, Num, OwnerPcs, AttemptPcs
    <3> QED BY <2>1, <2>3, <3>2, <3>3 DEF Quiet, Local
  <2>4. ASSUME NEW phase \in {"quarantined", "canceled", "complete", "failed"},
               Conclude(s, b, phase)
        PROVE  Local(s, b)
    BY <2>2, <2>4, ConcludeLocal, TerminalPhases, AttemptPcsOwned
  <2> QED BY <2>1, <2>2, <2>3, <2>4, LeaveLocal DEF Quiet
<1>2. ASSUME WaitForRetry(s, b) PROVE Quiet(s, b)
  <2> DEFINE q == [r EXCEPT !.pc = "attempt", !.attempt = r.attempt + 1]
  <2>1. r.pc = "wait" /\ rec' = rec /\ (Become(s, b, q) \/ Conclude(s, b, "canceled"))
    BY <1>2 DEF WaitForRetry
  <2>2. r.pc \in OwnerPcs \ {"attempt"} BY <2>1 DEF OwnerPcs, AttemptPcs
  <2>3. CASE Become(s, b, q)
    <3>1. r.attempt \in Nat /\ r.attempt + 1 \in 0 .. MaxAttempts
      BY <2>1, ControlAssumption DEF Run, RunOK
    <3>2. q \in Run /\ q.pc = "attempt" /\ q.asg = r.asg /\ q.owner = r.owner
          /\ q.attempt = r.attempt + 1
      BY <3>1 DEF Run, Pcs, OwnerPcs
    <3>3. RunOK(q) /\ Keeps(r, q)
      BY <3>1, <3>2, <2>1 DEF RunOK, Keeps, Num, OwnerPcs, AttemptPcs
    <3> QED BY <2>1, <2>3, <3>2, <3>3 DEF Quiet, Local
  <2> QED BY <2>1, <2>2, <2>3, ConcludeLocal, TerminalPhases DEF Quiet
<1>3. ASSUME StoreError(s, b) PROVE Quiet(s, b)
  <2> DEFINE q == [r EXCEPT !.pc = "stopping", !.lost = TRUE, !.canceled = r.cancel]
  <2>1. rec' = rec /\ (\/ r.pc # "idle" /\ Leave(s, b)
                       \/ r.pc = "executing" /\ Become(s, b, q))
    BY <1>3 DEF StoreError
  <2>2. CASE r.pc = "executing" /\ Become(s, b, q)
    <3>1. r.cancel \in BOOLEAN BY DEF Run
    <3>2. SameAttempt(r, q)
      BY <3>1 DEF SameAttempt, Run, Pcs, OwnerPcs, AttemptPcs
    <3>3. r.pc \in AttemptPcs BY <2>2 DEF AttemptPcs
    <3> QED BY <2>1, <2>2, <3>2, <3>3, InsideLocal DEF Quiet
  <2> QED BY <2>1, <2>2, LeaveLocal DEF Quiet
<1> QED BY <1>1, <1>2, <1>3

-----------------------------------------------------------------------------
(* Heartbeats, claims, results and the surroundings of a run.              *)

\* controller.update: the store takes the heartbeat, or the run ends.
LEMMA UpdateStep ==
  ASSUME NEW s \in Servers, NEW b \in Builds, run[s][b] \in Run, RunOK(run[s][b]),
         NEW l, Update(s, b, run[s][b].attempt, l),
         <<run[s][b].pc, l>> \in {<<"begin", "resolve">>, <<"attempt", "acquire">>,
                                  <<"retry", "wait">>}
  PROVE  Beat(s, b) \/ Quiet(s, b)
<1> DEFINE r == run[s][b]
           q == [r EXCEPT !.pc = l]
<1>0. r.pc \in OwnerPcs /\ r.pc # "idle" /\ l \in OwnerPcs \ {"attempt"}
  BY DEF OwnerPcs, AttemptPcs
<1>1. CASE HeartbeatAllowed(rec[b], r.owner, r.attempt)
  <2>1. rec' = [rec EXCEPT ![b] = heartbeatRecord(rec[b], r.attempt)] /\ Become(s, b, q)
    BY <1>1 DEF Update, Goto
  <2>2. q \in Run /\ q.pc = l /\ q.asg = r.asg /\ q.owner = r.owner /\ q.attempt = r.attempt
    BY <1>0 DEF Run, Pcs
  <2>3. RunOK(q)
    BY <2>2, <1>0 DEF RunOK, OwnerPcs, AttemptPcs
  <2>4. r.attempt \in Nat BY ControlAssumption DEF Run
  <2>5. \/ q.attempt = Num(r) + 1
        \/ /\ q.attempt = Num(r)
           /\ q.pc \in AttemptPcs => r.pc \in AttemptPcs
    BY <2>2, <2>4 DEF Num, AttemptPcs
  <2>6. HeartbeatAllowed(rec[b], q.owner, q.attempt)
    BY <1>1, <2>2
  <2> QED BY <1>0, <2>1, <2>2, <2>3, <2>5, <2>6 DEF Beat
<1>2. CASE ~HeartbeatAllowed(rec[b], r.owner, r.attempt)
  BY <1>0, <1>2, LeaveLocal DEF Update, Quiet
<1> QED BY <1>1, <1>2

\* The steps that renew the lease, or lose it.
LEMMA BeatSteps ==
  ASSUME NEW s \in Servers, NEW b \in Builds,
         run \in [Servers -> [Builds -> Run]], RunOK(run[s][b])
  PROVE  /\ Begin(s, b) => Beat(s, b) \/ Quiet(s, b)
         /\ StartAttempt(s, b) => Beat(s, b) \/ Quiet(s, b)
         /\ Retry(s, b) => Beat(s, b) \/ Quiet(s, b)
         /\ HeartbeatTick(s, b) => Beat(s, b) \/ Quiet(s, b)
         /\ ObserveCancel(s, b) => Beat(s, b) \/ Quiet(s, b)
<1> DEFINE r == run[s][b]
<1>0. r \in Run OBVIOUS
<1>1. Begin(s, b) => Beat(s, b) \/ Quiet(s, b)
  BY <1>0, UpdateStep DEF Begin
<1>2. Retry(s, b) => Beat(s, b) \/ Quiet(s, b)
  BY <1>0, UpdateStep DEF Retry
<1>3. ASSUME StartAttempt(s, b) PROVE Beat(s, b) \/ Quiet(s, b)
  <2> DEFINE q == [r EXCEPT !.pc = "finish", !.result = "canceled", !.attempt = r.attempt - 1]
  <2>1. r.pc = "attempt" /\ ((Become(s, b, q) /\ rec' = rec) \/ Update(s, b, r.attempt, "acquire"))
    BY <1>3 DEF StartAttempt
  <2>2. CASE Become(s, b, q) /\ rec' = rec
    <3>1. r.attempt \in Nat /\ r.attempt - 1 \in 0 .. MaxAttempts
      BY <1>0, <2>1, ControlAssumption DEF Run, RunOK
    <3>2. q \in Run /\ q.pc = "finish" /\ q.asg = r.asg /\ q.owner = r.owner
          /\ q.attempt = r.attempt - 1
      BY <1>0, <3>1 DEF Run, Pcs, OwnerPcs, Terminal
    <3>3. RunOK(q) /\ Keeps(r, q)
      BY <3>1, <3>2, <2>1 DEF RunOK, Keeps, Num, OwnerPcs, AttemptPcs
    <3> QED BY <2>2, <3>2, <3>3 DEF Quiet, Local
  <2> QED BY <1>0, <2>1, <2>2, UpdateStep
<1>4. ASSUME HeartbeatTick(s, b) PROVE Beat(s, b) \/ Quiet(s, b)
  <2> DEFINE q == [r EXCEPT !.pc = "stopping", !.lost = TRUE]
  <2>1. r.pc = "executing"
        /\ (\/ /\ HeartbeatAllowed(rec[b], r.owner, r.attempt) /\ run' = run
               /\ rec' = [rec EXCEPT ![b] = heartbeatRecord(rec[b], r.attempt)]
            \/ Become(s, b, q) /\ rec' = rec)
    BY <1>4 DEF HeartbeatTick
  <2>2. r.pc \in AttemptPcs /\ r.pc \in OwnerPcs \ {"attempt"}
    BY <2>1 DEF AttemptPcs, OwnerPcs
  <2>3. CASE run' = run
    <3>1. Become(s, b, r) BY <2>3 DEF Become
    <3>2. Num(r) = r.attempt BY <2>1 DEF Num
    <3> QED BY <1>0, <2>1, <2>2, <3>1, <3>2, InsideLocal DEF Beat, Quiet, Local, Keeps
  <2>4. CASE Become(s, b, q) /\ rec' = rec
    <3>1. SameAttempt(r, q) BY <1>0 DEF SameAttempt, Run, Pcs, OwnerPcs, AttemptPcs
    <3> QED BY <1>0, <2>2, <2>4, <3>1, InsideLocal DEF Quiet
  <2> QED BY <2>1, <2>3, <2>4
<1>5. ASSUME ObserveCancel(s, b) PROVE Beat(s, b) \/ Quiet(s, b)
  <2>1. r.pc = "executing"
        /\ \E lost \in BOOLEAN :
             /\ Become(s, b, [r EXCEPT !.pc = "stopping", !.canceled = TRUE, !.lost = lost])
             /\ \/ rec' = rec
                \/ /\ HeartbeatAllowed(rec[b], r.owner, r.attempt)
                   /\ rec' = [rec EXCEPT ![b] = heartbeatRecord(rec[b], r.attempt)]
    <3>0. r.pc = "executing" BY <1>5 DEF ObserveCancel
    <3>1. PICK no \in BOOLEAN : no = ~HeartbeatAllowed(rec[b], r.owner, r.attempt)
      OBVIOUS
    <3>2. CASE /\ Become(s, b, [r EXCEPT !.pc = "stopping", !.canceled = TRUE, !.lost = no])
               /\ rec' = IF HeartbeatAllowed(rec[b], r.owner, r.attempt)
                         THEN [rec EXCEPT ![b] = heartbeatRecord(rec[b], r.attempt)] ELSE rec
      BY <3>0, <3>2
    <3>3. CASE Become(s, b, [r EXCEPT !.pc = "stopping", !.canceled = TRUE]) /\ rec' = rec
      <4>1. r.lost \in BOOLEAN
            /\ [r EXCEPT !.pc = "stopping", !.canceled = TRUE]
                 = [r EXCEPT !.pc = "stopping", !.canceled = TRUE, !.lost = r.lost]
        BY <1>0 DEF Run
      <4> QED BY <3>0, <3>3, <4>1
    <3> QED BY <1>5, <3>1, <3>2, <3>3, Zenon DEF ObserveCancel
  <2>2. PICK lost \in BOOLEAN :
             /\ Become(s, b, [r EXCEPT !.pc = "stopping", !.canceled = TRUE, !.lost = lost])
             /\ \/ rec' = rec
                \/ /\ HeartbeatAllowed(rec[b], r.owner, r.attempt)
                   /\ rec' = [rec EXCEPT ![b] = heartbeatRecord(rec[b], r.attempt)]
    BY <2>1
  <2> DEFINE q == [r EXCEPT !.pc = "stopping", !.canceled = TRUE, !.lost = lost]
  <2>3. r.pc \in AttemptPcs /\ r.pc \in OwnerPcs BY <2>1 DEF AttemptPcs, OwnerPcs
  <2>4. SameAttempt(r, q) /\ q.pc = "stopping"
    BY <1>0 DEF SameAttempt, Run, Pcs, OwnerPcs, AttemptPcs
  <2>5. q \in Run /\ RunOK(q) /\ Keeps(r, q)
    BY <1>0, <2>3, <2>4, SameAttemptOK
  <2>6. q.attempt = Num(r) /\ q.attempt = r.attempt /\ q.owner = r.owner
    BY <2>1, <2>4 DEF Num, SameAttempt
  <2>7. q.pc \in OwnerPcs \ {"attempt"} BY <2>4 DEF OwnerPcs, AttemptPcs
  <2> HIDE DEF q
  <2>8. Become(s, b, q) BY <2>2 DEF q
  <2>9. CASE rec' = rec BY <2>5, <2>8, <2>9 DEF Quiet, Local
  <2>10. CASE /\ HeartbeatAllowed(rec[b], r.owner, r.attempt)
              /\ rec' = [rec EXCEPT ![b] = heartbeatRecord(rec[b], r.attempt)]
    BY <2>3, <2>5, <2>6, <2>7, <2>8, <2>10 DEF Beat
  <2> QED BY <2>2, <2>9, <2>10
<1> QED BY <1>1, <1>2, <1>3, <1>4, <1>5

\* A claim: a fresh owner, and a record that is new or goes on where it was.
Claimed(s, b) ==
  \E q \in Run, p \in RunRecord :
    /\ Become(s, b, q) /\ RunOK(q)
    /\ rec' = [rec EXCEPT ![b] = p]
    /\ FreshOwner(q.owner)
    /\ q.pc \in {"begin", "scrub"}
    /\ p.phase = "active" /\ p.owner = q.owner /\ p.attempt = q.attempt
    /\ \/ rec[b].phase = "absent" /\ p.cancel = FALSE
       \/ rec[b].phase = "active" /\ p.attempt = rec[b].attempt /\ p.cancel = rec[b].cancel

\* Claim (store_bolt.go) installs a fresh owner on a new or an active record.
LEMMA ClaimStep ==
  ASSUME NEW s \in Servers, NEW b \in Builds, RunsOK, RecsOK, Claim(s, b)
  PROVE  Claimed(s, b)
<1> DEFINE r == run[s][b]
           a == r.asg
<1>0. r \in Run /\ RunOK(r) /\ rec[b] \in RunRecord /\ rec[b].attempt \in 0 .. MaxAttempts
  BY DEF RunsOK, RecsOK
<1>1. r.pc = "claim" /\ a \in Assignments /\ r.attempt = 0
  BY <1>0 DEF Claim, RunOK
<1>2. a.gen \in Nat /\ a.digest \in Digests
  BY <1>1, AssignmentAssumption DEF VerifiedAssignment
<1>3. PICK o \in Owners :
        /\ FreshOwner(o)
        /\ \/ /\ ClaimOutcome(rec[b], a, o) = "accepted"
              /\ rec' = [rec EXCEPT ![b] = newRunRecord(a, o)]
              /\ Become(s, b, [r EXCEPT !.pc = "begin", !.owner = o])
           \/ /\ ClaimOutcome(rec[b], a, o) = "resumed"
              /\ rec' = [rec EXCEPT ![b] = resumedRecord(rec[b], o)]
              /\ Become(s, b, [r EXCEPT !.pc = "scrub", !.owner = o,
                               !.attempt = rec[b].attempt, !.snap = rec[b].cancel])
  BY DEF Claim
<1>4. rec[b].phase \in Terminal \cup {"absent", "active"}
  BY <1>0 DEF RunRecord, Phases
<1>5. CASE /\ ClaimOutcome(rec[b], a, o) = "accepted"
           /\ rec' = [rec EXCEPT ![b] = newRunRecord(a, o)]
           /\ Become(s, b, [r EXCEPT !.pc = "begin", !.owner = o])
  <2> DEFINE q == [r EXCEPT !.pc = "begin", !.owner = o]
             p == newRunRecord(a, o)
  <2>1. rec[b].phase = "absent"
    BY <1>4, <1>5 DEF ClaimOutcome, Terminal
  <2>2. q \in Run /\ q.pc = "begin" /\ q.owner = o /\ q.asg = a /\ q.attempt = 0
    BY <1>0, <1>1 DEF Run, Pcs, OwnerPcs
  <2>3. RunOK(q)
    BY <2>2, <1>1 DEF RunOK, OwnerPcs, AttemptPcs
  <2>4. p \in RunRecord /\ p.phase = "active" /\ p.owner = o /\ p.attempt = 0
        /\ p.cancel = FALSE
    BY <1>2 DEF newRunRecord, RunRecord, Phases
  <2> HIDE DEF q, p
  <2>5. rec' = [rec EXCEPT ![b] = p] /\ Become(s, b, q)
    BY <1>5 DEF q, p
  <2> QED BY <1>3, <2>1, <2>2, <2>3, <2>4, <2>5 DEF Claimed
<1>6. CASE /\ ClaimOutcome(rec[b], a, o) = "resumed"
           /\ rec' = [rec EXCEPT ![b] = resumedRecord(rec[b], o)]
           /\ Become(s, b, [r EXCEPT !.pc = "scrub", !.owner = o,
                            !.attempt = rec[b].attempt, !.snap = rec[b].cancel])
  <2> DEFINE q == [r EXCEPT !.pc = "scrub", !.owner = o,
                            !.attempt = rec[b].attempt, !.snap = rec[b].cancel]
             p == resumedRecord(rec[b], o)
  <2>1. rec[b].phase = "active"
    BY <1>4, <1>6 DEF ClaimOutcome, Terminal
  <2>2. rec[b].cancel \in BOOLEAN BY <1>0 DEF RunRecord
  <2>3. q \in Run /\ q.pc = "scrub" /\ q.owner = o /\ q.asg = a /\ q.attempt = rec[b].attempt
    BY <1>0, <2>2 DEF Run, Pcs, OwnerPcs
  <2>4. RunOK(q)
    BY <2>3, <1>1 DEF RunOK, OwnerPcs, AttemptPcs
  <2>5. p \in RunRecord /\ p.phase = rec[b].phase /\ p.owner = o
        /\ p.attempt = rec[b].attempt /\ p.cancel = rec[b].cancel
    BY <1>0 DEF resumedRecord, RunRecord
  <2> HIDE DEF q, p
  <2>6. rec' = [rec EXCEPT ![b] = p] /\ Become(s, b, q)
    BY <1>6 DEF q, p
  <2> QED BY <1>3, <2>1, <2>3, <2>4, <2>5, <2>6 DEF Claimed
<1> QED BY <1>3, <1>5, <1>6

\* The result is written by the recorded owner, and the run is over.
Finished(s, b) ==
  \E q \in Run, p \in RunRecord :
    /\ Become(s, b, q) /\ RunOK(q) /\ Ends(q)
    /\ rec' = [rec EXCEPT ![b] = p]
    /\ run[s][b].pc = "finish" /\ run[s][b].owner = rec[b].owner
    /\ p.phase \in Terminal /\ p.owner = rec[b].owner /\ p.cancel = rec[b].cancel
    /\ p.attempt = run[s][b].attempt
    /\ terminalAllowedForRecord(rec[b], p.phase)

\* Finish (store_bolt.go) writes for the recorded owner or not at all.
LEMMA FinishStep ==
  ASSUME NEW s \in Servers, NEW b \in Builds, RunsOK, RecsOK, Finish(s, b)
  PROVE  Finished(s, b) \/ Quiet(s, b)
<1> DEFINE r == run[s][b]
           q == [IdleRun EXCEPT !.pc = "done", !.asg = r.asg]
           p == finishedRecord(rec[b], r.result, r.attempt)
<1>0. r \in Run /\ RunOK(r) /\ rec[b] \in RunRecord /\ r.result \in Terminal
      /\ r.attempt \in 0 .. MaxAttempts
  BY DEF RunsOK, RecsOK, Run
<1>1. r.pc = "finish" /\ Become(s, b, q)
  BY DEF Finish, Leave
<1>2. q \in Run /\ RunOK(q) /\ Ends(q)
  BY <1>0, <1>1, LeaveOK
<1>n. r.attempt \in Nat /\ r.result \in Phases
  BY <1>0, ControlAssumption DEF Phases
<1>3. p \in RunRecord /\ p.phase = r.result /\ p.owner = rec[b].owner
      /\ p.cancel = rec[b].cancel /\ p.attempt = r.attempt
  BY <1>0, <1>n DEF finishedRecord, RunRecord
<1> HIDE DEF q, p
<1>4. \/ rec' = rec
      \/ rec' = [rec EXCEPT ![b] = p] /\ FinishAllowed(rec[b], r.owner, r.result, r.attempt)
  BY DEF Finish, p
<1>5. CASE rec' = rec BY <1>1, <1>2, <1>5 DEF Quiet, Local
<1>6. CASE rec' = [rec EXCEPT ![b] = p] /\ FinishAllowed(rec[b], r.owner, r.result, r.attempt)
  <2>1. r.owner = rec[b].owner /\ terminalAllowedForRecord(rec[b], p.phase)
    BY <1>3, <1>6 DEF FinishAllowed
  <2> QED BY <1>0, <1>1, <1>2, <1>3, <1>6, <2>1 DEF Finished
<1> QED BY <1>4, <1>5, <1>6

\* The lease or the cancellation request of an active record changes.
Touched(b) ==
  /\ run' = run
  /\ rec[b].phase = "active"
  /\ \E p \in RunRecord :
       /\ rec' = [rec EXCEPT ![b] = p]
       /\ p.phase = "active" /\ p.owner = rec[b].owner /\ p.attempt = rec[b].attempt
       /\ rec[b].cancel => p.cancel

\* A process dies.
Reset(s) == run' = [run EXCEPT ![s] = [b \in Builds |-> IdleRun]] /\ rec' = rec

CoreStep ==
  \/ run' = run /\ rec' = rec
  \/ \E b \in Builds : Touched(b)
  \/ \E s \in Servers : Reset(s)
  \/ \E s \in Servers, b \in Builds :
       Quiet(s, b) \/ Beat(s, b) \/ Claimed(s, b) \/ Finished(s, b)

\* What calls, cancellations, time and crashes do to runs and records.
LEMMA SurroundingSteps ==
  ASSUME RunsOK, RecsOK, cancelReq \in [Servers -> CancelReq]
  PROVE  /\ \A s \in Servers, a \in Assignments :
              ExecuteAssignment(s, a) \/ CancelPersist(s, a.build, a.gen) => CoreStep
         /\ \A s \in Servers : CancelSignal(s) \/ Crash(s) => CoreStep
         /\ \A b \in Builds : LeaseExpires(b) => CoreStep
<1>1. ASSUME NEW s \in Servers, NEW a \in Assignments, ExecuteAssignment(s, a)
      PROVE  CoreStep
  <2> DEFINE b == a.build
             q == [IdleRun EXCEPT !.pc = "reserve", !.asg = a]
  <2>1. b \in Builds BY AssignmentAssumption DEF VerifiedAssignment
  <2>2. \A i \in Run : i.owner = NoOwner /\ i.attempt = 0 =>
          LET p == [i EXCEPT !.pc = "reserve", !.asg = a]
          IN  p \in Run /\ p.pc = "reserve" /\ p.owner = NoOwner /\ p.asg = a /\ p.attempt = 0
    BY DEF Run, Pcs
  <2>3. IdleRun \in Run /\ IdleRun.owner = NoOwner /\ IdleRun.attempt = 0
    BY IdleOK DEF IdleRun, RunOK
  <2>4. q \in Run /\ RunOK(q) /\ Ends(q)
    BY <2>2, <2>3 DEF RunOK, Ends, OwnerPcs, AttemptPcs
  <2> HIDE DEF b, q
  <2>5. Become(s, b, q) /\ rec' = rec BY <1>1 DEF ExecuteAssignment, b, q
  <2> QED BY <2>1, <2>4, <2>5 DEF Quiet, Local, CoreStep
<1>2. ASSUME NEW s \in Servers, NEW a \in Assignments, CancelPersist(s, a.build, a.gen)
      PROVE  CoreStep
  <2> DEFINE b == a.build
             p == [rec[b] EXCEPT !.cancel = TRUE]
  <2>1. b \in Builds BY AssignmentAssumption DEF VerifiedAssignment
  <2>2. rec[b] \in RunRecord /\ rec \in [Builds -> RunRecord] BY <2>1 DEF RecsOK
  <2>3. p \in RunRecord /\ p.phase = rec[b].phase /\ p.owner = rec[b].owner
        /\ p.attempt = rec[b].attempt /\ p.cancel = TRUE
    BY <2>2 DEF RunRecord
  <2>4. run' = run
        /\ (rec' = rec \/ (rec[b].phase = "active" /\ rec' = [rec EXCEPT ![b].cancel = TRUE]))
    BY <1>2 DEF CancelPersist, CancelAllowed
  <2>5. [rec EXCEPT ![b].cancel = TRUE] = [rec EXCEPT ![b] = p] OBVIOUS
  <2> HIDE DEF b, p
  <2> QED BY <2>1, <2>3, <2>4, <2>5 DEF Touched, CoreStep
<1>3. ASSUME NEW b \in Builds, LeaseExpires(b)
      PROVE  CoreStep
  <2> DEFINE p == [rec[b] EXCEPT !.lease = FALSE]
  <2>1. rec[b] \in RunRecord /\ rec \in [Builds -> RunRecord] BY DEF RecsOK
  <2>2. p \in RunRecord /\ p.phase = rec[b].phase /\ p.owner = rec[b].owner
        /\ p.attempt = rec[b].attempt /\ p.cancel = rec[b].cancel
    BY <2>1 DEF RunRecord
  <2>3. run' = run /\ rec[b].phase = "active" /\ rec' = [rec EXCEPT ![b].lease = FALSE]
    BY <1>3 DEF LeaseExpires
  <2>4. [rec EXCEPT ![b].lease = FALSE] = [rec EXCEPT ![b] = p] OBVIOUS
  <2> HIDE DEF p
  <2> QED BY <2>2, <2>3, <2>4 DEF Touched, CoreStep
<1>4. ASSUME NEW s \in Servers, CancelSignal(s)
      PROVE  CoreStep
  <2> DEFINE b == cancelReq[s].build
             r == run[s][b]
             q == [r EXCEPT !.cancel = TRUE]
  <2>1. b \in Builds BY DEF CancelReq
  <2>2. r \in Run /\ RunOK(r) /\ run \in [Servers -> [Builds -> Run]] BY <2>1 DEF RunsOK
  <2>3. rec' = rec /\ (run' = run \/ run' = [run EXCEPT ![s][b].cancel = TRUE])
    BY <1>4 DEF CancelSignal
  <2>4. q \in Run /\ q.pc = r.pc /\ q.asg = r.asg /\ q.owner = r.owner /\ q.attempt = r.attempt
    BY <2>2 DEF Run
  <2>5. RunOK(q) /\ (Keeps(r, q) \/ Ends(q))
    BY <2>2, <2>4 DEF RunOK, Keeps, Ends, Num
  <2>6. [run EXCEPT ![s][b].cancel = TRUE] = [run EXCEPT ![s][b] = q] OBVIOUS
  <2> HIDE DEF q
  <2>7. CASE run' = [run EXCEPT ![s][b] = q]
    BY <2>1, <2>3, <2>4, <2>5, <2>7 DEF Quiet, Local, Become, CoreStep
  <2> QED BY <2>3, <2>6, <2>7 DEF CoreStep
<1>5. ASSUME NEW s \in Servers, Crash(s)
      PROVE  CoreStep
  BY <1>5 DEF Crash, Reset, CoreStep
<1> QED BY <1>1, <1>2, <1>3, <1>4, <1>5

\* Every step of the cell is one of these as far as runs and records go.
LEMMA NextCore ==
  ASSUME RunsOK, RecsOK, cancelReq \in [Servers -> CancelReq], [Next]_vars
  PROVE  CoreStep
<1>1. ASSUME NEW s \in Servers, NEW b \in Builds, RunStep(s, b)
      PROVE  CoreStep
  <2>1. run \in [Servers -> [Builds -> Run]] /\ run[s][b] \in Run /\ RunOK(run[s][b])
    BY DEF RunsOK
  <2>2. Quiet(s, b) \/ Beat(s, b) \/ Claimed(s, b) \/ Finished(s, b)
    <3>1. CASE Return(s, b) \/ Reserve(s, b) \/ ClaimRefused(s, b) \/ Scrub(s, b)
               \/ Resolve(s, b)
      BY <2>1, <3>1, QuietOutside
    <3>2. CASE AcquireLogin(s, b) \/ AcquireReturn(s, b) \/ RevokePending(s, b)
               \/ Allocate(s, b) \/ Connect(s, b) \/ Deallocate(s, b)
      BY <2>1, <3>2, QuietAcquire
    <3>3. CASE WorkerDone(s, b) \/ StopCooperatively(s, b) \/ StopByForce(s, b) \/ Release(s, b)
      BY <2>1, <3>3, QuietExecute
    <3>4. CASE Classify(s, b) \/ WaitForRetry(s, b)
      BY <2>1, <3>4, QuietClassify
    <3>5. CASE Begin(s, b) \/ StartAttempt(s, b) \/ Retry(s, b) \/ ObserveCancel(s, b)
      BY <2>1, <3>5, BeatSteps
    <3>6. CASE Claim(s, b) BY <3>6, ClaimStep
    <3>7. CASE Finish(s, b) BY <3>7, FinishStep
    <3> QED BY <1>1, <3>1, <3>2, <3>3, <3>4, <3>5, <3>6, <3>7 DEF RunStep
  <2> QED BY <2>2 DEF CoreStep
<1>2. ASSUME NEW s \in Servers, NEW b \in Builds,
             HeartbeatTick(s, b) \/ LeakedReturn(s, b) \/ StoreError(s, b)
      PROVE  CoreStep
  <2>1. run \in [Servers -> [Builds -> Run]] /\ run[s][b] \in Run /\ RunOK(run[s][b])
    BY DEF RunsOK
  <2>2. CASE HeartbeatTick(s, b) BY <2>1, <2>2, BeatSteps DEF CoreStep
  <2>3. CASE StoreError(s, b) BY <2>1, <2>3, QuietClassify DEF CoreStep
  <2>4. CASE LeakedReturn(s, b) BY <2>4 DEF LeakedReturn, CoreStep
  <2> QED BY <1>2, <2>2, <2>3, <2>4
<1>3. ASSUME NEW b \in Builds, TokenExpires(b) PROVE CoreStep
  BY <1>3 DEF TokenExpires, CoreStep
<1>4. ASSUME NEW a \in Assignments, AssignmentExpires(a) PROVE CoreStep
  BY <1>4 DEF AssignmentExpires, CoreStep
<1>5. ASSUME UNCHANGED vars PROVE CoreStep
  BY <1>5 DEF vars, CoreStep
<1> QED BY <1>1, <1>2, <1>3, <1>4, <1>5, SurroundingSteps DEF Next

-----------------------------------------------------------------------------
(* The invariant is preserved.                                             *)

\* A step of one run leaves every other run alone.
LEMMA BecomePointwise ==
  ASSUME run \in [Servers -> [Builds -> Run]], NEW s \in Servers, NEW b \in Builds,
         NEW q \in Run, Become(s, b, q)
  PROVE  /\ run' \in [Servers -> [Builds -> Run]]
         /\ run'[s][b] = q
         /\ \A t \in Servers, c \in Builds : t # s \/ c # b => run'[t][c] = run[t][c]
BY DEF Become

\* A step on one record leaves every other record alone.
LEMMA RecordPointwise ==
  ASSUME rec \in [Builds -> RunRecord], NEW b \in Builds, NEW p \in RunRecord,
         rec' = [rec EXCEPT ![b] = p]
  PROVE  /\ rec' \in [Builds -> RunRecord]
         /\ rec'[b] = p
         /\ \A c \in Builds : c # b => rec'[c] = rec[c]
OBVIOUS

\* An owner is never the absence of one.
LEMMA OwnedOwner ==
  ASSUME NEW r \in Run, RunOK(r)
  PROVE  /\ r.pc \in OwnerPcs <=> r.owner \in Owners
         /\ r.owner # NoOwner <=> r.pc \in OwnerPcs
         /\ r.attempt \in Nat /\ Num(r) \in Int
         /\ r.pc \in AttemptPcs => r.pc \in OwnerPcs /\ Num(r) = r.attempt
BY RunStoreAssumption, ControlAssumption DEF RunOK, Run, Num, AttemptPcs, OwnerPcs

\* A step that touches no record preserves the invariant.
LEMMA QuietKeepsCore ==
  ASSUME Core, NEW s \in Servers, NEW b \in Builds, Quiet(s, b)
  PROVE  Core'
<1>1. PICK q \in Run : Become(s, b, q) /\ RunOK(q) /\ (Keeps(run[s][b], q) \/ Ends(q))
  BY DEF Quiet, Local
<1>2. rec' = rec /\ run \in [Servers -> [Builds -> Run]]
      /\ \A t \in Servers, c \in Builds : run[t][c] \in Run /\ RunOK(run[t][c])
  BY DEF Quiet, Core, RunsOK
<1>3. /\ run' \in [Servers -> [Builds -> Run]]
      /\ run'[s][b] = q
      /\ \A t \in Servers, c \in Builds : t # s \/ c # b => run'[t][c] = run[t][c]
  BY <1>1, <1>2, BecomePointwise
<1>4. RunsOK' BY <1>1, <1>2, <1>3 DEF RunsOK, RunOK
<1>5. RecsOK' BY <1>2 DEF Core, RecsOK
<1>6. q.owner = run[s][b].owner \/ q.owner = NoOwner
  BY <1>1 DEF Keeps, Ends, RunOK
<1>7. OwnersDistinct'
  BY <1>2, <1>3, <1>6 DEF Core, OwnersDistinct
<1>8. OwnerRecorded'
  BY <1>1, <1>2, <1>3 DEF Core, OwnerRecorded, Keeps, Ends
<1>9. q.pc \in AttemptPcs => run[s][b].pc \in AttemptPcs /\ q.attempt = run[s][b].attempt
  BY <1>1 DEF Keeps, Ends, OwnerPcs
<1>10. NotAhead'
  BY <1>2, <1>3, <1>9 DEF Core, NotAhead
<1>11. AttemptExclusive'
  BY <1>2, <1>3, <1>9 DEF Core, AttemptExclusive
<1> QED BY <1>4, <1>5, <1>7, <1>8, <1>10, <1>11 DEF Core

\* A heartbeat preserves the invariant: its sender is the recorded owner, so
\* the number it makes durable is above every number another run works on.
LEMMA BeatKeepsCore ==
  ASSUME Core, NEW s \in Servers, NEW b \in Builds, Beat(s, b)
  PROVE  Core'
<1> DEFINE r == run[s][b]
<1>1. PICK q \in Run :
        /\ Become(s, b, q) /\ RunOK(q)
        /\ r.pc \in OwnerPcs /\ q.pc \in OwnerPcs \ {"attempt"}
        /\ q.owner = r.owner
        /\ HeartbeatAllowed(rec[b], q.owner, q.attempt)
        /\ rec' = [rec EXCEPT ![b] = heartbeatRecord(rec[b], q.attempt)]
        /\ \/ q.attempt = Num(r) + 1
           \/ /\ q.attempt = Num(r)
              /\ q.pc \in AttemptPcs => r.pc \in AttemptPcs
  BY DEF Beat
<1>2. run \in [Servers -> [Builds -> Run]] /\ rec \in [Builds -> RunRecord]
      /\ rec[b].attempt \in 0 .. MaxAttempts
      /\ \A t \in Servers, c \in Builds : run[t][c] \in Run /\ RunOK(run[t][c])
  BY DEF Core, RunsOK, RecsOK
<1>3. /\ run' \in [Servers -> [Builds -> Run]]
      /\ run'[s][b] = q
      /\ \A t \in Servers, c \in Builds : t # s \/ c # b => run'[t][c] = run[t][c]
  BY <1>1, <1>2, BecomePointwise
<1>4. q.attempt \in 0 .. MaxAttempts /\ q.attempt \in Nat BY ControlAssumption DEF Run
<1> DEFINE p == heartbeatRecord(rec[b], q.attempt)
<1>5. p \in RunRecord /\ p.phase = rec[b].phase /\ p.owner = rec[b].owner
      /\ p.attempt = q.attempt /\ p.cancel = rec[b].cancel
  BY <1>2, <1>4 DEF heartbeatRecord, RunRecord
<1>6. rec[b].phase = "active" /\ rec[b].owner = q.owner
  BY <1>1 DEF HeartbeatAllowed
<1> HIDE DEF p
<1>7. /\ rec' \in [Builds -> RunRecord]
      /\ rec'[b] = p
      /\ \A c \in Builds : c # b => rec'[c] = rec[c]
  BY <1>1, <1>2, <1>5, RecordPointwise DEF p
<1>8. Num(r) = rec[b].attempt BY <1>1, <1>6 DEF Core, OwnerRecorded
<1>9. Num(q) = q.attempt BY <1>1 DEF Num
<1>10. RunsOK' BY <1>1, <1>2, <1>3 DEF RunsOK, RunOK
<1>11. RecsOK' BY <1>4, <1>5, <1>6, <1>7 DEF Core, RecsOK
<1>12. OwnersDistinct'
  BY <1>1, <1>2, <1>3 DEF Core, OwnersDistinct
<1>13. OwnerRecorded'
  <2>1. r.owner # NoOwner BY <1>1, <1>2, OwnedOwner
  <2>2. \A t \in Servers : t # s => run[t][b].owner # rec[b].owner
    BY <1>1, <1>6, <2>1 DEF Core, OwnersDistinct
  <2> QED BY <1>1, <1>3, <1>5, <1>6, <1>7, <1>9, <2>2 DEF Core, OwnerRecorded
<1>14. rec[b].attempt <= q.attempt /\ rec[b].attempt \in Nat
  BY <1>1, <1>2, <1>4, <1>8, ControlAssumption
<1>15. \A t \in Servers, c \in Builds : run[t][c].attempt \in Nat
  BY <1>2, OwnedOwner
<1>16. NotAhead'
  BY <1>1, <1>3, <1>4, <1>5, <1>7, <1>14, <1>15 DEF Core, NotAhead
<1>17. AttemptExclusive'
  <2>1. ASSUME NEW t \in Servers, t # s, run[t][b].pc \in AttemptPcs, q.pc \in AttemptPcs
        PROVE  run[t][b].attempt # q.attempt
    <3>1. run[t][b].attempt <= rec[b].attempt BY <2>1 DEF Core, NotAhead
    <3>2. CASE q.attempt = Num(r) + 1
      BY <3>1, <3>2, <1>8, <1>14, <1>15, <2>1
    <3>3. CASE q.attempt = Num(r) /\ r.pc \in AttemptPcs
      <4>1. q.attempt = r.attempt BY <1>2, <3>3, OwnedOwner
      <4> QED BY <2>1, <3>3, <4>1 DEF Core, AttemptExclusive
    <3> QED BY <1>1, <2>1, <3>2, <3>3
  <2> QED BY <1>3, <2>1 DEF Core, AttemptExclusive
<1> QED BY <1>10, <1>11, <1>12, <1>13, <1>16, <1>17 DEF Core

\* A claim preserves the invariant: the owner it installs is held by no run.
LEMMA ClaimKeepsCore ==
  ASSUME Core, NEW s \in Servers, NEW b \in Builds, Claimed(s, b)
  PROVE  Core'
<1>1. PICK q \in Run, p \in RunRecord :
        /\ Become(s, b, q) /\ RunOK(q)
        /\ rec' = [rec EXCEPT ![b] = p]
        /\ FreshOwner(q.owner)
        /\ q.pc \in {"begin", "scrub"}
        /\ p.phase = "active" /\ p.owner = q.owner /\ p.attempt = q.attempt
        /\ \/ rec[b].phase = "absent"
           \/ rec[b].phase = "active" /\ p.attempt = rec[b].attempt
  BY DEF Claimed
<1>2. run \in [Servers -> [Builds -> Run]] /\ rec \in [Builds -> RunRecord]
      /\ \A t \in Servers, c \in Builds : run[t][c] \in Run /\ RunOK(run[t][c])
  BY DEF Core, RunsOK, RecsOK
<1>3. /\ run' \in [Servers -> [Builds -> Run]]
      /\ run'[s][b] = q
      /\ \A t \in Servers, c \in Builds : t # s \/ c # b => run'[t][c] = run[t][c]
  BY <1>1, <1>2, BecomePointwise
<1>4. /\ rec' \in [Builds -> RunRecord]
      /\ rec'[b] = p
      /\ \A c \in Builds : c # b => rec'[c] = rec[c]
  BY <1>1, <1>2, RecordPointwise
<1>5. q.pc \in OwnerPcs /\ q.pc \notin AttemptPcs /\ Num(q) = q.attempt
  BY <1>1 DEF OwnerPcs, AttemptPcs, Num
<1>6. q.owner \in Owners /\ q.attempt \in 0 .. MaxAttempts
  BY <1>1, <1>5 DEF RunOK, Run
<1>7. \A t \in Servers, c \in Builds : run[t][c].owner # q.owner
  BY <1>1 DEF FreshOwner
<1>8. RunsOK' BY <1>1, <1>2, <1>3 DEF RunsOK, RunOK
<1>9. RecsOK' BY <1>1, <1>4, <1>6 DEF Core, RecsOK
<1>10. OwnersDistinct'
  BY <1>3, <1>7 DEF Core, OwnersDistinct
<1>11. OwnerRecorded'
  BY <1>1, <1>3, <1>4, <1>5, <1>7 DEF Core, OwnerRecorded
<1>12. NotAhead'
  <2>1. \A t \in Servers : run[t][b].pc \in AttemptPcs => rec[b].phase # "absent"
    BY DEF Core, OwnerRecorded, OwnerPcs
  <2> QED BY <1>1, <1>3, <1>4, <1>5, <2>1 DEF Core, NotAhead
<1>13. AttemptExclusive'
  BY <1>3, <1>5 DEF Core, AttemptExclusive
<1> QED BY <1>8, <1>9, <1>10, <1>11, <1>12, <1>13 DEF Core

\* Writing a result preserves the invariant and only happens to an active record.
LEMMA FinishKeepsCore ==
  ASSUME Core, NEW s \in Servers, NEW b \in Builds, Finished(s, b)
  PROVE  Core' /\ rec[b].phase = "active"
<1> DEFINE r == run[s][b]
<1>1. PICK q \in Run, p \in RunRecord :
        /\ Become(s, b, q) /\ RunOK(q) /\ Ends(q)
        /\ rec' = [rec EXCEPT ![b] = p]
        /\ r.pc = "finish" /\ r.owner = rec[b].owner
        /\ p.phase \in Terminal /\ p.owner = rec[b].owner
        /\ p.attempt = r.attempt
  BY DEF Finished
<1>2. run \in [Servers -> [Builds -> Run]] /\ rec \in [Builds -> RunRecord]
      /\ \A t \in Servers, c \in Builds : run[t][c] \in Run /\ RunOK(run[t][c])
  BY DEF Core, RunsOK, RecsOK
<1>3. /\ run' \in [Servers -> [Builds -> Run]]
      /\ run'[s][b] = q
      /\ \A t \in Servers, c \in Builds : t # s \/ c # b => run'[t][c] = run[t][c]
  BY <1>1, <1>2, BecomePointwise
<1>4. /\ rec' \in [Builds -> RunRecord]
      /\ rec'[b] = p
      /\ \A c \in Builds : c # b => rec'[c] = rec[c]
  BY <1>1, <1>2, RecordPointwise
<1>5. r.pc \in OwnerPcs /\ Num(r) = r.attempt BY <1>1 DEF OwnerPcs, Num
<1>6. rec[b].phase = "active" /\ p.attempt = rec[b].attempt
  BY <1>1, <1>5 DEF Core, OwnerRecorded
<1>7. q.owner = NoOwner /\ q.pc \notin OwnerPcs /\ q.pc \notin AttemptPcs
  BY <1>1 DEF RunOK, Ends, OwnerPcs
<1>8. \A t \in Servers : t # s => run[t][b].owner # rec[b].owner
  <2>1. r.owner # NoOwner BY <1>2, <1>5, OwnedOwner
  <2> QED BY <1>1, <2>1 DEF Core, OwnersDistinct
<1>9. RunsOK' BY <1>1, <1>2, <1>3 DEF RunsOK, RunOK
<1>10. p.phase # "absent" BY <1>1 DEF Terminal
<1>11. RecsOK' BY <1>1, <1>4, <1>6, <1>10 DEF Core, RecsOK
<1>12. OwnersDistinct' BY <1>3, <1>7 DEF Core, OwnersDistinct
<1>13. OwnerRecorded'
  BY <1>1, <1>3, <1>4, <1>7, <1>8, <1>10 DEF Core, OwnerRecorded
<1>14. NotAhead' BY <1>3, <1>4, <1>6, <1>7 DEF Core, NotAhead
<1>15. AttemptExclusive' BY <1>3, <1>7 DEF Core, AttemptExclusive
<1> QED BY <1>6, <1>9, <1>11, <1>12, <1>13, <1>14, <1>15 DEF Core

\* Every step preserves the invariant on runs and records.
LEMMA CorePreserved ==
  ASSUME Core, CoreStep
  PROVE  Core'
<1>1. CASE run' = run /\ rec' = rec
  BY <1>1 DEF Core, RunsOK, RunOK, RecsOK, OwnersDistinct, OwnerRecorded, NotAhead,
              AttemptExclusive, Num
<1>2. ASSUME NEW b \in Builds, Touched(b) PROVE Core'
  <2>1. PICK p \in RunRecord :
          /\ rec' = [rec EXCEPT ![b] = p]
          /\ p.phase = "active" /\ p.owner = rec[b].owner /\ p.attempt = rec[b].attempt
    BY <1>2 DEF Touched
  <2>2. run' = run /\ rec[b].phase = "active" /\ rec \in [Builds -> RunRecord]
    BY <1>2 DEF Touched, Core, RecsOK
  <2>3. /\ rec' \in [Builds -> RunRecord]
        /\ rec'[b] = p
        /\ \A c \in Builds : c # b => rec'[c] = rec[c]
    BY <2>1, <2>2, RecordPointwise
  <2>4. RunsOK' /\ OwnersDistinct' /\ AttemptExclusive'
    BY <2>2 DEF Core, RunsOK, RunOK, OwnersDistinct, AttemptExclusive
  <2>5. RecsOK' BY <2>1, <2>2, <2>3 DEF Core, RecsOK
  <2>6. OwnerRecorded' BY <2>1, <2>2, <2>3 DEF Core, OwnerRecorded, Num
  <2>7. NotAhead' BY <2>1, <2>2, <2>3 DEF Core, NotAhead
  <2> QED BY <2>4, <2>5, <2>6, <2>7 DEF Core
<1>3. ASSUME NEW s \in Servers, Reset(s) PROVE Core'
  <2>1. run \in [Servers -> [Builds -> Run]] /\ rec' = rec
        /\ run' = [run EXCEPT ![s] = [b \in Builds |-> IdleRun]]
    BY <1>3 DEF Core, RunsOK, Reset
  <2>2. IdleRun \in Run /\ RunOK(IdleRun) /\ IdleRun.pc \notin OwnerPcs
        /\ IdleRun.pc \notin AttemptPcs /\ IdleRun.owner = NoOwner
    BY IdleOK DEF RunOK, Ends, OwnerPcs
  <2>3. /\ run' \in [Servers -> [Builds -> Run]]
        /\ \A c \in Builds : run'[s][c] = IdleRun
        /\ \A t \in Servers, c \in Builds : t # s => run'[t][c] = run[t][c]
    BY <2>1, <2>2
  <2>4. RunsOK' BY <2>2, <2>3 DEF Core, RunsOK, RunOK
  <2>5. RecsOK' BY <2>1 DEF Core, RecsOK
  <2>6. OwnersDistinct' BY <2>2, <2>3 DEF Core, OwnersDistinct
  <2>7. OwnerRecorded' BY <2>1, <2>2, <2>3 DEF Core, OwnerRecorded
  <2>8. NotAhead' BY <2>1, <2>2, <2>3 DEF Core, NotAhead
  <2>9. AttemptExclusive' BY <2>2, <2>3 DEF Core, AttemptExclusive
  <2> QED BY <2>4, <2>5, <2>6, <2>7, <2>8, <2>9 DEF Core
<1> QED BY <1>1, <1>2, <1>3, QuietKeepsCore, BeatKeepsCore, ClaimKeepsCore, FinishKeepsCore
        DEF CoreStep

-----------------------------------------------------------------------------
(* Type correctness of the rest of the state.                              *)

\* What is known of an executor that outlived its run.
Leaks == {"none", "running", "gone"}

TypeRest ==
  /\ watermark \in [Builds -> Watermark]
  /\ nonces \subseteq Nonces
  /\ cancelReq \in [Servers -> CancelReq]
  /\ workers \in [Builds -> SUBSET Attempts]
  /\ tokens \in [Builds -> SUBSET Attempts]
  /\ scratch \in [Servers -> SUBSET Builds]
  /\ leaked \in [Servers -> [Builds -> Leaks]]
  /\ accepted \subseteq [build : Builds, gen : Nat]
  /\ expired \subseteq Assignments
  /\ faults \in 0 .. MaxFaults

\* What a step changes besides runs and records, stated once for all actions.
Rest(s, b) ==
  /\ UNCHANGED <<cancelReq, accepted, expired>>
  /\ workers' = workers \/ \E w \in SUBSET Attempts : workers' = [workers EXCEPT ![b] = w]
  /\ tokens' = tokens \/ \E k \in SUBSET Attempts : tokens' = [tokens EXCEPT ![b] = k]
  /\ scratch' = scratch \/ \E c \in SUBSET Builds : scratch' = [scratch EXCEPT ![s] = c]
  /\ leaked' = leaked \/ \E k \in Leaks : leaked' = [leaked EXCEPT ![s][b] = k]
  /\ faults' = faults \/ (faults < MaxFaults /\ faults' = faults + 1)
  /\ \/ UNCHANGED stores
     \/ \E a \in Assignments : /\ watermark' = [watermark EXCEPT ![b] = replayEntry(a)]
                               /\ nonces' = nonces \cup {a.nonce}

\* Such a change keeps the types.
LEMMA RestOK ==
  ASSUME TypeRest, NEW s \in Servers, NEW b \in Builds, Rest(s, b)
  PROVE  TypeRest'
<1>1. cancelReq' \in [Servers -> CancelReq] /\ accepted' \subseteq [build : Builds, gen : Nat]
      /\ expired' \subseteq Assignments
  BY DEF TypeRest, Rest
<1>2. workers' \in [Builds -> SUBSET Attempts] /\ tokens' \in [Builds -> SUBSET Attempts]
  <2>1. /\ workers \in [Builds -> SUBSET Attempts] /\ tokens \in [Builds -> SUBSET Attempts]
        /\ workers' = workers \/ \E w \in SUBSET Attempts : workers' = [workers EXCEPT ![b] = w]
        /\ tokens' = tokens \/ \E k \in SUBSET Attempts : tokens' = [tokens EXCEPT ![b] = k]
    BY DEF TypeRest, Rest
  <2> QED BY <2>1
<1>3. scratch' \in [Servers -> SUBSET Builds] /\ leaked' \in [Servers -> [Builds -> Leaks]]
  <2>1. /\ scratch \in [Servers -> SUBSET Builds]
        /\ scratch' = scratch \/ \E c \in SUBSET Builds : scratch' = [scratch EXCEPT ![s] = c]
    BY DEF TypeRest, Rest
  <2>2. /\ leaked \in [Servers -> [Builds -> Leaks]]
        /\ leaked' = leaked \/ \E k \in Leaks : leaked' = [leaked EXCEPT ![s][b] = k]
    BY DEF TypeRest, Rest
  <2>3. scratch' \in [Servers -> SUBSET Builds] BY <2>1
  <2>4. leaked' \in [Servers -> [Builds -> Leaks]] BY <2>2
  <2> QED BY <2>3, <2>4
<1>4. faults' \in 0 .. MaxFaults BY ControlAssumption DEF TypeRest, Rest
<1>5. watermark' \in [Builds -> Watermark] /\ nonces' \subseteq Nonces
  <2>1. CASE UNCHANGED stores BY <2>1 DEF TypeRest, stores
  <2>2. ASSUME NEW a \in Assignments, watermark' = [watermark EXCEPT ![b] = replayEntry(a)],
               nonces' = nonces \cup {a.nonce}
        PROVE  watermark' \in [Builds -> Watermark] /\ nonces' \subseteq Nonces
    <3>1. a.gen \in Nat /\ a.nonce \in Nonces /\ a.digest \in Digests
      BY AssignmentAssumption DEF VerifiedAssignment
    <3>2. replayEntry(a) \in Watermark BY <3>1 DEF replayEntry, Watermark
    <3> QED BY <2>2, <3>1, <3>2 DEF TypeRest
  <2> QED BY <2>1, <2>2 DEF Rest
<1> QED BY <1>1, <1>2, <1>3, <1>4, <1>5 DEF TypeRest

\* The steps of a run change the rest of the state in that way.
LEMMA RunStepRest ==
  ASSUME TypeRest, RunsOK, NEW s \in Servers, NEW b \in Builds,
         RunStep(s, b) \/ HeartbeatTick(s, b) \/ LeakedReturn(s, b) \/ StoreError(s, b)
  PROVE  Rest(s, b)
<1> DEFINE r == run[s][b]
<1>0. RunOK(r) BY DEF RunsOK
<1>1. r.pc \in AttemptPcs => r.attempt \in Attempts
  BY <1>0, ControlAssumption DEF RunOK, Run, Attempts
<1>2. workers[b] \subseteq Attempts /\ tokens[b] \subseteq Attempts
      /\ scratch[s] \subseteq Builds /\ {"running", "gone"} \subseteq Leaks
  BY DEF TypeRest, Leaks
<1>u. ASSUME UNCHANGED <<stores, cancelReq, outside, accepted, expired, faults>>
      PROVE  Rest(s, b)
  BY <1>u DEF Rest, stores, outside
<1>3. CASE Reserve(s, b)
  <2>1. r.asg \in Assignments BY <1>0, <1>3 DEF Reserve, RunOK
  <2> QED BY <1>3, <2>1 DEF Reserve, Rest, outside, stores
<1>4. CASE Claim(s, b) \/ ClaimRefused(s, b) BY <1>4, <1>u DEF Claim, ClaimRefused
<1>5. CASE Begin(s, b) \/ Retry(s, b) BY <1>5, <1>u DEF Begin, Retry
<1>6. CASE Resolve(s, b) \/ StartAttempt(s, b) \/ Deallocate(s, b)
  BY <1>6, <1>u DEF Resolve, StartAttempt, Deallocate
<1>7. CASE ObserveCancel(s, b) \/ Classify(s, b) BY <1>7, <1>u DEF ObserveCancel, Classify
<1>8. CASE WaitForRetry(s, b) \/ Finish(s, b) \/ Return(s, b)
  BY <1>8, <1>u DEF WaitForRetry, Finish, Return
<1>9. CASE HeartbeatTick(s, b) BY <1>9, <1>u DEF HeartbeatTick
<1>10. CASE Scrub(s, b) BY <1>2, <1>10 DEF Scrub, Rest, stores
<1>11. CASE AcquireLogin(s, b)
  <2>1. r.attempt \in Attempts BY <1>1, <1>11 DEF AcquireLogin, AttemptPcs
  <2> QED BY <1>2, <1>11, <2>1 DEF AcquireLogin, Rest, stores
<1>12. CASE AcquireReturn(s, b) BY <1>2, <1>12 DEF AcquireReturn, Rest, stores
<1>13. CASE RevokePending(s, b) BY <1>2, <1>13 DEF RevokePending, Rest, stores
<1>14. CASE Allocate(s, b)
  <2>1. r.attempt \in Attempts BY <1>1, <1>14 DEF Allocate, AttemptPcs
  <2> QED BY <1>2, <1>14, <2>1 DEF Allocate, Rest, stores
<1>15. CASE Connect(s, b)
  <2>1. r.attempt \in Attempts BY <1>1, <1>15 DEF Connect, AttemptPcs
  <2> QED BY <1>2, <1>15, <2>1 DEF Connect, Rest, stores
<1>16. CASE WorkerDone(s, b) BY <1>2, <1>16 DEF WorkerDone, Rest, stores
<1>17. CASE StopCooperatively(s, b) BY <1>2, <1>17 DEF StopCooperatively, Rest, stores
<1>18. CASE StopByForce(s, b)
  <2>1. UNCHANGED <<stores, cancelReq, tokens, accepted, expired, faults>>
        /\ (\E left \in SUBSET {r.attempt} :
              workers' = [workers EXCEPT ![b] = (@ \ {r.attempt}) \cup (@ \cap left)])
        /\ (scratch' = scratch \/ scratch' = [scratch EXCEPT ![s] = @ \ {b}])
        /\ (leaked' = leaked \/ leaked' = [leaked EXCEPT ![s][b] = "running"])
    BY <1>18 DEF StopByForce
  <2> QED BY <1>2, <2>1 DEF Rest, stores
<1>19. CASE Release(s, b)
  <2>1. UNCHANGED <<stores, cancelReq, tokens, scratch, leaked, accepted, expired, faults>>
        /\ (\/ workers' = workers
            \/ \E left \in SUBSET {r.attempt} :
                 workers' = [workers EXCEPT ![b] = (@ \ {r.attempt}) \cup (@ \cap left)])
    BY <1>19 DEF Release
  <2> QED BY <1>2, <2>1 DEF Rest, stores
<1>20. CASE LeakedReturn(s, b) BY <1>2, <1>20 DEF LeakedReturn, Rest, stores
<1>21. CASE StoreError(s, b) BY <1>21 DEF StoreError, Rest, stores, outside
<1> QED
  BY <1>3, <1>4, <1>5, <1>6, <1>7, <1>8, <1>9, <1>10, <1>11, <1>12, <1>13, <1>14, <1>15,
     <1>16, <1>17, <1>18, <1>19, <1>20, <1>21 DEF RunStep

\* Every step keeps the types of the rest of the state.
LEMMA TypeRestPreserved ==
  ASSUME TypeRest, RunsOK, [Next]_vars
  PROVE  TypeRest'
<1>n. NoCancel \in CancelReq
  BY AssignmentAssumption DEF VerifiedAssignment, NoCancel, CancelReq
<1>1. ASSUME NEW s \in Servers, NEW b \in Builds,
             RunStep(s, b) \/ HeartbeatTick(s, b) \/ LeakedReturn(s, b) \/ StoreError(s, b)
      PROVE  TypeRest'
  BY <1>1, RunStepRest, RestOK
<1>2. ASSUME NEW s \in Servers, NEW a \in Assignments, ExecuteAssignment(s, a)
      PROVE  TypeRest'
  BY <1>2 DEF ExecuteAssignment, TypeRest, stores, outside
<1>3. ASSUME NEW s \in Servers, NEW a \in Assignments, CancelPersist(s, a.build, a.gen)
      PROVE  TypeRest'
  <2>1. a.build \in Builds /\ a.gen \in Nat BY AssignmentAssumption DEF VerifiedAssignment
  <2>2. CancelAllowed(rec[a.build], a.gen) \in BOOLEAN BY DEF CancelAllowed
  <2>3. [pending |-> TRUE, build |-> a.build, gen |-> a.gen,
         persisted |-> CancelAllowed(rec[a.build], a.gen)] \in CancelReq
    BY <2>1, <2>2 DEF CancelReq
  <2>4. cancelReq' \in [Servers -> CancelReq]
    BY <1>3, <2>3, Zenon DEF CancelPersist, TypeRest
  <2> QED BY <1>3, <2>4 DEF CancelPersist, TypeRest, stores, outside
<1>4. ASSUME NEW s \in Servers, CancelSignal(s) PROVE TypeRest'
  <2>1. cancelReq[s].build \in Builds /\ cancelReq[s].gen \in Nat
    BY DEF TypeRest, CancelReq
  <2>2. accepted' \subseteq [build : Builds, gen : Nat]
    BY <1>4, <2>1 DEF CancelSignal, TypeRest
  <2>3. cancelReq' \in [Servers -> CancelReq]
    BY <1>4, <1>n DEF CancelSignal, TypeRest
  <2> QED BY <1>4, <2>2, <2>3 DEF CancelSignal, TypeRest, stores, outside
<1>5. ASSUME NEW s \in Servers, Crash(s) PROVE TypeRest'
  <2>1. cancelReq' \in [Servers -> CancelReq] /\ leaked' \in [Servers -> [Builds -> Leaks]]
    BY <1>5, <1>n DEF Crash, TypeRest, Leaks
  <2>2. faults' \in 0 .. MaxFaults BY <1>5, ControlAssumption DEF Crash, TypeRest
  <2> QED BY <1>5, <2>1, <2>2 DEF Crash, TypeRest, stores
<1>6. ASSUME NEW b \in Builds, LeaseExpires(b) PROVE TypeRest'
  BY <1>6 DEF LeaseExpires, TypeRest, stores, outside
<1>7. ASSUME NEW b \in Builds, TokenExpires(b) PROVE TypeRest'
  BY <1>7 DEF TokenExpires, TypeRest, stores
<1>8. ASSUME NEW a \in Assignments, AssignmentExpires(a) PROVE TypeRest'
  BY <1>8 DEF AssignmentExpires, TypeRest, stores, outside
<1>9. ASSUME UNCHANGED vars PROVE TypeRest'
  BY <1>9 DEF vars, TypeRest
<1> QED BY <1>1, <1>2, <1>3, <1>4, <1>5, <1>6, <1>7, <1>8, <1>9 DEF Next

-----------------------------------------------------------------------------
(* The theorems.                                                           *)

IndInv == Core /\ TypeRest

\* The invariant holds of a cell that has just been set up.
LEMMA InitInv == Init => IndInv
<1> SUFFICES ASSUME Init PROVE IndInv OBVIOUS
<1>1. /\ run \in [Servers -> [Builds -> Run]]
      /\ \A s \in Servers, b \in Builds : run[s][b] = IdleRun
      /\ IdleRun \in Run /\ RunOK(IdleRun)
  BY IdleOK DEF Init, RunOK
<1>2. IdleRun.owner = NoOwner /\ IdleRun.pc \notin OwnerPcs /\ IdleRun.pc \notin AttemptPcs
  BY DEF IdleRun, OwnerPcs, AttemptPcs
<1>3. RunsOK BY <1>1 DEF RunsOK
<1>4. NoRecord \in RunRecord /\ NoRecord.attempt = 0 /\ NoRecord.phase = "absent"
      /\ NoRecord.cancel = FALSE
  BY AssignmentAssumption DEF VerifiedAssignment, NoRecord, RunRecord, Phases
<1>5. RecsOK BY <1>4, ControlAssumption DEF Init, RecsOK
<1>6. OwnersDistinct /\ OwnerRecorded /\ NotAhead /\ AttemptExclusive
  BY <1>1, <1>2 DEF OwnersDistinct, OwnerRecorded, NotAhead, AttemptExclusive
<1>7. NoWatermark \in Watermark /\ NoCancel \in CancelReq
  BY AssignmentAssumption DEF VerifiedAssignment, NoWatermark, Watermark, NoCancel, CancelReq
<1>8. TypeRest BY <1>7, ControlAssumption DEF Init, TypeRest, Leaks
<1> QED BY <1>3, <1>5, <1>6, <1>8 DEF IndInv, Core

\* The invariant is preserved by every step of the cell.
LEMMA NextInv == IndInv /\ [Next]_vars => IndInv' /\ CoreStep
<1> SUFFICES ASSUME IndInv, [Next]_vars PROVE IndInv' /\ CoreStep OBVIOUS
<1>1. CoreStep BY NextCore DEF IndInv, Core, TypeRest
<1>2. Core' BY <1>1, CorePreserved DEF IndInv
<1>3. TypeRest' BY TypeRestPreserved DEF IndInv, Core
<1> QED BY <1>1, <1>2, <1>3 DEF IndInv

\* The inductive invariant holds in every reachable state.
THEOREM Invariance == Spec => []IndInv
BY InitInv, NextInv, PTL DEF Spec

\* Every variable of the cell keeps its type; in particular no run ever counts
\* an attempt beyond Options.MaxAttempts, through retries, crashes and takeovers.
THEOREM TypeCorrect == Spec => []TypeOK
<1>1. IndInv => TypeOK
  BY DEF IndInv, Core, RunsOK, RecsOK, TypeRest, TypeOK, Leaks
<1> QED BY <1>1, Invariance, PTL

\* No two processes are ever inside the same numbered attempt of a build, so
\* they never share the Kubernetes resources that are named after it.
THEOREM ExclusiveAttempts == Spec => []AttemptExclusive
<1>1. IndInv => AttemptExclusive
  BY DEF IndInv, Core
<1> QED BY <1>1, Invariance, PTL

\* What a step does to the records: nothing to a terminal one, and at most one
\* build is accepted, canceled or ended.
RecordStep(b) ==
  /\ \A c \in Builds : c # b => rec'[c] = rec[c]
  /\ rec[b].phase \notin Terminal
  /\ \/ rec[b].phase = "absent" /\ rec'[b].phase = "active" /\ rec'[b].cancel = rec[b].cancel
     \/ /\ rec[b].phase = "active" /\ rec'[b].phase = "active"
        /\ rec'[b].cancel = rec[b].cancel \/ rec'[b].cancel = TRUE
     \/ /\ rec[b].phase = "active" /\ rec'[b].phase \in Terminal
        /\ rec'[b].cancel = rec[b].cancel
        /\ terminalAllowedForRecord(rec[b], rec'[b].phase)

\* Every step of the cell changes records in that way only.
LEMMA RecordSteps ==
  ASSUME Core, CoreStep
  PROVE  rec' = rec \/ \E b \in Builds : RecordStep(b)
<1>0. rec \in [Builds -> RunRecord] /\ \A b \in Builds : rec[b].cancel \in BOOLEAN
  BY DEF Core, RecsOK, RunRecord
<1>1. ASSUME NEW b \in Builds, Touched(b) PROVE RecordStep(b)
  <2>1. PICK p \in RunRecord :
          /\ rec' = [rec EXCEPT ![b] = p] /\ p.phase = "active"
          /\ rec[b].cancel => p.cancel
    BY <1>1 DEF Touched
  <2>2. rec[b].phase = "active" BY <1>1 DEF Touched
  <2>3. p.cancel \in BOOLEAN BY DEF RunRecord
  <2>4. p.cancel = rec[b].cancel \/ p.cancel = TRUE BY <1>0, <2>1, <2>3
  <2>5. rec'[b] = p /\ \A c \in Builds : c # b => rec'[c] = rec[c]
    BY <1>0, <2>1, RecordPointwise
  <2> QED BY <2>1, <2>2, <2>4, <2>5 DEF RecordStep, Terminal
<1>2. ASSUME NEW s \in Servers, NEW b \in Builds, Beat(s, b) PROVE RecordStep(b)
  <2>1. PICK q \in Run :
          /\ HeartbeatAllowed(rec[b], q.owner, q.attempt)
          /\ rec' = [rec EXCEPT ![b] = heartbeatRecord(rec[b], q.attempt)]
    BY <1>2 DEF Beat
  <2> DEFINE p == heartbeatRecord(rec[b], q.attempt)
  <2>2. q.attempt \in Nat BY ControlAssumption DEF Run
  <2>3. rec[b] \in RunRecord BY <1>0
  <2>4. p \in RunRecord /\ p.phase = rec[b].phase /\ p.cancel = rec[b].cancel
    BY <2>2, <2>3 DEF heartbeatRecord, RunRecord
  <2> HIDE DEF p
  <2>5. rec'[b] = p /\ \A c \in Builds : c # b => rec'[c] = rec[c]
    BY <1>0, <2>1, <2>4, RecordPointwise DEF p
  <2>6. rec[b].phase = "active" BY <2>1 DEF HeartbeatAllowed
  <2> QED BY <2>4, <2>5, <2>6 DEF RecordStep, Terminal
<1>3. ASSUME NEW s \in Servers, NEW b \in Builds, Claimed(s, b) PROVE RecordStep(b)
  <2>1. PICK p \in RunRecord :
          /\ rec' = [rec EXCEPT ![b] = p] /\ p.phase = "active"
          /\ \/ rec[b].phase = "absent" /\ p.cancel = FALSE
             \/ rec[b].phase = "active" /\ p.cancel = rec[b].cancel
    BY <1>3 DEF Claimed
  <2>2. rec'[b] = p /\ \A c \in Builds : c # b => rec'[c] = rec[c]
    BY <1>0, <2>1, RecordPointwise
  <2>3. rec[b].phase = "absent" => rec[b].cancel = FALSE BY DEF Core, RecsOK
  <2> QED BY <2>1, <2>2, <2>3 DEF RecordStep, Terminal
<1>4. ASSUME NEW s \in Servers, NEW b \in Builds, Finished(s, b) PROVE RecordStep(b)
  <2>1. PICK p \in RunRecord :
          /\ rec' = [rec EXCEPT ![b] = p]
          /\ p.phase \in Terminal /\ p.cancel = rec[b].cancel
          /\ terminalAllowedForRecord(rec[b], p.phase)
    BY <1>4 DEF Finished
  <2>2. rec[b].phase = "active" BY <1>4, FinishKeepsCore
  <2>3. rec'[b] = p /\ \A c \in Builds : c # b => rec'[c] = rec[c]
    BY <1>0, <2>1, RecordPointwise
  <2>4. rec[b].phase \notin Terminal BY <2>2 DEF Terminal
  <2> QED BY <2>1, <2>2, <2>3, <2>4 DEF RecordStep
<1> QED BY <1>1, <1>2, <1>3, <1>4 DEF CoreStep, Reset, Quiet

\* A terminal record is never written again, although Finish itself does not
\* ask: only the recorded owner may finish, and it finds the record active.
THEOREM TerminalStays == Spec => TerminalFinal
<1>1. IndInv /\ [Next]_vars =>
        [\A b \in Builds : rec[b].phase \in Terminal => rec'[b] = rec[b]]_vars
  BY NextInv, RecordSteps DEF IndInv, RecordStep
<1> QED BY <1>1, Invariance, PTL DEF Spec, TerminalFinal

\* A cancellation that is durable is never followed by a success or a failure.
THEOREM CancellationHonoured == Spec => []CancelHonoured
<1>1. Init => CancelHonoured
  BY DEF Init, CancelHonoured, NoRecord
<1>2. IndInv /\ CancelHonoured /\ [Next]_vars => CancelHonoured'
  <2> SUFFICES ASSUME IndInv, CancelHonoured, [Next]_vars PROVE CancelHonoured'
    OBVIOUS
  <2>1. rec' = rec \/ \E b \in Builds : RecordStep(b)
    BY NextInv, RecordSteps DEF IndInv
  <2>2. CASE rec' = rec BY <2>2 DEF CancelHonoured
  <2>3. ASSUME NEW b \in Builds, RecordStep(b) PROVE CancelHonoured'
    <3>1. rec'[b].cancel /\ rec'[b].phase \in Terminal
            => rec'[b].phase \in {"canceled", "quarantined"}
      BY <2>3 DEF RecordStep, terminalAllowedForRecord, Terminal
    <3> QED BY <2>3, <3>1 DEF RecordStep, CancelHonoured
  <2> QED BY <2>1, <2>2, <2>3
<1> QED BY <1>1, <1>2, Invariance, PTL DEF Spec

\* The cell keeps its promise about the result of a build.
THEOREM OutcomeKept == Spec => KeepsOutcome
<1>1. Init => Outcome!Init
  BY DEF Init, Outcome!Init, NoRecord
<1>2. IndInv /\ [Next]_vars =>
        [Outcome!Next]_<<[b \in Builds |-> rec[b].phase], [b \in Builds |-> rec[b].cancel]>>
  <2> SUFFICES ASSUME IndInv, [Next]_vars
               PROVE  [Outcome!Next]_<<[b \in Builds |-> rec[b].phase],
                                       [b \in Builds |-> rec[b].cancel]>>
    OBVIOUS
  <2>1. rec' = rec \/ \E b \in Builds : RecordStep(b)
    BY NextInv, RecordSteps DEF IndInv
  <2>2. CASE rec' = rec BY <2>2
  <2>3. ASSUME NEW b \in Builds, RecordStep(b)
        PROVE  [Outcome!Next]_<<[c \in Builds |-> rec[c].phase],
                                [c \in Builds |-> rec[c].cancel]>>
    <3> DEFINE o == [c \in Builds |-> rec[c].phase]
               k == [c \in Builds |-> rec[c].cancel]
    <3>1. \A c \in Builds : c # b => rec'[c] = rec[c]
      BY <2>3 DEF RecordStep
    <3>2. o' = [o EXCEPT ![b] = rec'[b].phase] /\ k' = [k EXCEPT ![b] = rec'[b].cancel]
      BY <3>1
    <3>3. CASE /\ rec[b].phase = "absent" /\ rec'[b].phase = "active"
               /\ rec'[b].cancel = rec[b].cancel
      <4>1. Outcome!Accept(b) BY <3>2, <3>3 DEF Outcome!Accept
      <4> QED BY <4>1 DEF Outcome!Next
    <3>4. CASE /\ rec[b].phase = "active" /\ rec'[b].phase = "active"
               /\ rec'[b].cancel = rec[b].cancel
      <4>1. o' = o /\ k' = k BY <3>2, <3>4
      <4> QED BY <4>1
    <3>5. CASE rec[b].phase = "active" /\ rec'[b].phase = "active" /\ rec'[b].cancel = TRUE
      <4>1. Outcome!Cancel(b) BY <3>2, <3>5 DEF Outcome!Cancel
      <4> QED BY <4>1 DEF Outcome!Next
    <3>6. CASE /\ rec[b].phase = "active" /\ rec'[b].phase \in Terminal
               /\ rec'[b].cancel = rec[b].cancel
               /\ terminalAllowedForRecord(rec[b], rec'[b].phase)
      <4>1. k' = k BY <3>2, <3>6
      <4>2. rec[b].cancel => rec'[b].phase \in {"canceled", "quarantined"}
        BY <3>6 DEF terminalAllowedForRecord
      <4>3. Outcome!End(b) BY <3>2, <3>6, <4>1, <4>2 DEF Outcome!End, Terminal
      <4> QED BY <4>3 DEF Outcome!Next
    <3> QED BY <2>3, <3>3, <3>4, <3>5, <3>6 DEF RecordStep
  <2> QED BY <2>1, <2>2, <2>3
<1> QED BY <1>1, <1>2, Invariance, PTL DEF Spec, KeepsOutcome, Outcome!Spec

-----------------------------------------------------------------------------
(* The local state of a run after a step, in full.                         *)

\* Nothing is known of an execution.
Blank(q) == q.outcome = "failed" /\ q.forced = FALSE

\* Only between an execution and its classification is anything known of it.
BlankRuns ==
  \A s \in Servers, b \in Builds : run[s][b].pc \notin {"release", "revoke"} => Blank(run[s][b])

OthersStay(s, b) ==
  \A t \in Servers, c \in Builds : t # s \/ c # b => run'[t][c] = run[t][c]

LEMMA IdleBlank == IdleRun \in Run /\ Blank(IdleRun)
BY IdleOK DEF IdleRun, RunOK, Blank

\* Controller.Run has returned.
LEMMA LeaveShape ==
  ASSUME RunsOK, NEW s \in Servers, NEW b \in Builds, run[s][b].pc # "idle", Leave(s, b)
  PROVE  OthersStay(s, b) /\ run'[s][b].pc = "done" /\ Blank(run'[s][b])
<1> DEFINE q == [IdleRun EXCEPT !.pc = "done", !.asg = run[s][b].asg]
<1>1. q \in Run /\ q.pc = "done" /\ Blank(q)
  <2>1. run[s][b].asg \in Assignments BY DEF RunsOK, RunOK
  <2>2. \A i \in Run : LET p == [i EXCEPT !.pc = "done", !.asg = run[s][b].asg]
                       IN  /\ p \in Run /\ p.pc = "done"
                           /\ p.outcome = i.outcome /\ p.forced = i.forced
    BY <2>1 DEF Run, Pcs
  <2> QED BY <2>2, IdleBlank DEF Blank
<1> HIDE DEF q
<1>2. Become(s, b, q) BY DEF Leave, q
<1> QED BY <1>1, <1>2, BecomePointwise DEF RunsOK, OthersStay

\* The locals of runAttempt are out of scope.
LEMMA OutsideShape ==
  ASSUME NEW r \in Run, NEW l \in Pcs
  PROVE  LET q == OutsideAttempt(r, l)
         IN  /\ q \in Run /\ q.pc = l /\ q.owner = r.owner /\ q.attempt = r.attempt
             /\ Blank(q)
<1>1. \A i \in Run : i.outcome = "failed" /\ i.forced = FALSE =>
        LET q == [i EXCEPT !.pc = l, !.asg = r.asg, !.owner = r.owner,
                           !.attempt = r.attempt, !.cancel = r.cancel]
        IN  /\ q \in Run /\ q.pc = l /\ q.owner = r.owner /\ q.attempt = r.attempt
            /\ q.outcome = "failed" /\ q.forced = FALSE
  BY DEF Run
<1> QED BY <1>1, IdleBlank DEF OutsideAttempt, Blank

LEMMA OutsideBecomes ==
  ASSUME RunsOK, NEW s \in Servers, NEW b \in Builds, NEW l \in Pcs,
         Become(s, b, OutsideAttempt(run[s][b], l))
  PROVE  /\ OthersStay(s, b)
         /\ run'[s][b].pc = l /\ run'[s][b].owner = run[s][b].owner
         /\ run'[s][b].attempt = run[s][b].attempt /\ Blank(run'[s][b])
<1> DEFINE q == OutsideAttempt(run[s][b], l)
<1>1. /\ q \in Run /\ q.pc = l /\ q.owner = run[s][b].owner
      /\ q.attempt = run[s][b].attempt /\ Blank(q)
  BY OutsideShape DEF RunsOK
<1> HIDE DEF q
<1>2. Become(s, b, q) BY DEF q
<1> QED BY <1>1, <1>2, BecomePointwise DEF RunsOK, OthersStay

\* The run has decided its result.
LEMMA ConcludeShape ==
  ASSUME RunsOK, NEW s \in Servers, NEW b \in Builds, NEW phase \in Terminal,
         Conclude(s, b, phase)
  PROVE  /\ OthersStay(s, b)
         /\ run'[s][b].pc = "finish" /\ run'[s][b].result = phase
         /\ run'[s][b].owner = run[s][b].owner /\ Blank(run'[s][b])
<1> DEFINE o == OutsideAttempt(run[s][b], "finish")
           q == [o EXCEPT !.result = phase]
<1>1. o \in Run /\ o.pc = "finish" /\ o.owner = run[s][b].owner /\ Blank(o)
  BY OutsideShape DEF RunsOK, Pcs, OwnerPcs
<1>2. \A i \in Run : LET p == [i EXCEPT !.result = phase]
                     IN  /\ p \in Run /\ p.pc = i.pc /\ p.owner = i.owner
                         /\ p.outcome = i.outcome /\ p.forced = i.forced /\ p.result = phase
  BY DEF Run
<1>3. /\ q \in Run /\ q.pc = "finish" /\ q.owner = run[s][b].owner
      /\ Blank(q) /\ q.result = phase
  BY <1>1, <1>2 DEF Blank
<1> HIDE DEF q
<1>4. Become(s, b, q) BY DEF Conclude, q
<1> QED BY <1>3, <1>4, BecomePointwise DEF RunsOK, OthersStay

\* The run goes on; only its place changes.
LEMMA GotoShape ==
  ASSUME RunsOK, NEW s \in Servers, NEW b \in Builds, NEW l \in Pcs, Goto(s, b, l)
  PROVE  /\ OthersStay(s, b)
         /\ LET r == run[s][b]
                q == run'[s][b]
            IN  /\ q.pc = l /\ q.owner = r.owner /\ q.attempt = r.attempt /\ q.asg = r.asg
                /\ q.outcome = r.outcome /\ q.clean = r.clean /\ q.forced = r.forced
<1> DEFINE r == run[s][b]
           q == [r EXCEPT !.pc = l]
<1>1. r \in Run BY DEF RunsOK
<1>2. /\ q \in Run /\ q.pc = l /\ q.owner = r.owner /\ q.attempt = r.attempt /\ q.asg = r.asg
      /\ q.outcome = r.outcome /\ q.clean = r.clean /\ q.forced = r.forced
  BY <1>1 DEF Run
<1>3. Become(s, b, q) BY DEF Goto
<1> HIDE DEF q
<1> QED BY <1>2, <1>3, BecomePointwise DEF RunsOK, OthersStay

\* A run that becomes a record of the right type.
LEMMA BecomeShape ==
  ASSUME RunsOK, NEW s \in Servers, NEW b \in Builds, NEW q \in Run, Become(s, b, q)
  PROVE  OthersStay(s, b) /\ run'[s][b] = q
BY BecomePointwise DEF RunsOK, OthersStay

-----------------------------------------------------------------------------
(* What each step of a run that is under way leads to.                     *)

\* Places at which a run has no worker, and those at which it may have the
\* one of its attempt.
BeforeWorker == {"begin", "resolve", "attempt", "acquire", "acquiring", "pending", "allocate",
                 "retry", "wait"}
WithWorker   == {"connect", "executing", "stopping", "release"}

\* The call is over.
Done(q) == q.pc = "done" /\ Blank(q)

\* The run ends with a result that is not "complete".
Short(r, q) == q.pc = "finish" /\ q.result # "complete" /\ q.owner = r.owner /\ Blank(q)

\* The run goes on in the same attempt.
On(r, q, place) ==
  q.pc = place /\ q.owner = r.owner /\ q.attempt = r.attempt /\ Blank(q)

\* The run goes on with the next attempt.
Head(r, q) == q.pc = "attempt" /\ q.owner = r.owner /\ Blank(q)

LEMMA ConcludeShort ==
  ASSUME RunsOK, NEW s \in Servers, NEW b \in Builds,
         NEW phase \in {"failed", "canceled", "quarantined", CanceledOr(run[s][b], "failed")},
         Conclude(s, b, phase)
  PROVE  OthersStay(s, b) /\ Short(run[s][b], run'[s][b])
<1>1. phase \in Terminal /\ phase # "complete" BY DEF CanceledOr, Terminal
<1> QED BY <1>1, ConcludeShape DEF Short

LEMMA GotoOn ==
  ASSUME RunsOK, NEW s \in Servers, NEW b \in Builds, NEW l \in Pcs, Goto(s, b, l),
         Blank(run[s][b])
  PROVE  OthersStay(s, b) /\ On(run[s][b], run'[s][b], l)
BY GotoShape DEF On, Blank

\* Before a worker exists.
LEMMA EarlyShapes ==
  ASSUME RunsOK, BlankRuns, NEW s \in Servers, NEW b \in Builds
  PROVE  LET r == run[s][b]
             q == run'[s][b]
         IN  /\ Reserve(s, b) => OthersStay(s, b) /\ Blank(q)
                                 /\ (q.pc = "done" \/ (q.pc = "claim" /\ q.asg = r.asg))
             /\ ClaimRefused(s, b) => OthersStay(s, b) /\ Done(q)
             /\ Scrub(s, b) => OthersStay(s, b) /\ (Short(r, q) \/ On(r, q, "begin"))
             /\ Begin(s, b) => OthersStay(s, b) /\ (Done(q) \/ On(r, q, "resolve"))
             /\ Resolve(s, b) => OthersStay(s, b) /\ (Short(r, q) \/ Head(r, q))
             /\ StartAttempt(s, b) =>
                  OthersStay(s, b) /\ (Done(q) \/ Short(r, q) \/ On(r, q, "acquire"))
             /\ AcquireLogin(s, b) => OthersStay(s, b) /\ (Short(r, q) \/ On(r, q, "acquiring"))
             /\ AcquireReturn(s, b) =>
                  OthersStay(s, b) /\ (\/ Short(r, q) \/ On(r, q, "allocate") \/ On(r, q, "pending"))
             /\ RevokePending(s, b) => OthersStay(s, b) /\ Short(r, q)
<1> DEFINE r == run[s][b]
           q == run'[s][b]
<1>0. r \in Run /\ (r.pc \notin {"release", "revoke"} => Blank(r)) BY DEF RunsOK, BlankRuns
<1>p. {"claim", "begin", "resolve", "attempt", "acquire", "acquiring", "allocate", "pending"} \subseteq Pcs
  BY DEF Pcs, OwnerPcs, AttemptPcs
<1>1. ASSUME Reserve(s, b)
      PROVE  OthersStay(s, b) /\ Blank(q) /\ (q.pc = "done" \/ (q.pc = "claim" /\ q.asg = r.asg))
  <2>1. r.pc = "reserve" /\ (Goto(s, b, "claim") \/ Leave(s, b)) BY <1>1 DEF Reserve
  <2>2. CASE Goto(s, b, "claim")
    <3>1. OthersStay(s, b) /\ q.pc = "claim" /\ q.asg = r.asg /\ q.outcome = r.outcome
          /\ q.forced = r.forced
      BY <1>p, <2>2, GotoShape
    <3> QED BY <1>0, <2>1, <3>1 DEF Blank
  <2>3. CASE Leave(s, b) BY <2>1, <2>3, LeaveShape
  <2> QED BY <2>1, <2>2, <2>3
<1>2. ASSUME ClaimRefused(s, b) PROVE OthersStay(s, b) /\ Done(q)
  BY <1>2, LeaveShape DEF ClaimRefused, Done
<1>3. ASSUME Scrub(s, b) PROVE OthersStay(s, b) /\ (Short(r, q) \/ On(r, q, "begin"))
  <2>1. \/ Conclude(s, b, "canceled") \/ Conclude(s, b, "quarantined")
        \/ Become(s, b, OutsideAttempt(r, "begin"))
    BY <1>3 DEF Scrub
  <2> QED BY <1>p, <2>1, ConcludeShort, OutsideBecomes DEF On
<1>4. ASSUME Begin(s, b) PROVE OthersStay(s, b) /\ (Done(q) \/ On(r, q, "resolve"))
  <2>1. r.pc = "begin" /\ (Goto(s, b, "resolve") \/ Leave(s, b)) BY <1>4 DEF Begin, Update
  <2> QED BY <1>0, <1>p, <2>1, GotoOn, LeaveShape DEF Done
<1>5. ASSUME Resolve(s, b) PROVE OthersStay(s, b) /\ (Short(r, q) \/ Head(r, q))
  <2> DEFINE h == [r EXCEPT !.pc = "attempt", !.attempt = r.attempt + 1]
  <2>1. r.pc = "resolve"
        /\ (\/ r.attempt + 1 <= MaxAttempts /\ Become(s, b, h)
            \/ \E phase \in {"failed", CanceledOr(r, "failed")} : Conclude(s, b, phase))
    BY <1>5 DEF Resolve
  <2>2. CASE r.attempt + 1 <= MaxAttempts /\ Become(s, b, h)
    <3>1. r.attempt + 1 \in 0 .. MaxAttempts BY <1>0, <2>2, ControlAssumption DEF Run
    <3>2. h \in Run /\ h.pc = "attempt" /\ h.owner = r.owner /\ h.outcome = r.outcome
          /\ h.forced = r.forced
      BY <1>0, <1>p, <3>1 DEF Run
    <3> HIDE DEF h
    <3> QED BY <1>0, <2>1, <2>2, <3>2, BecomeShape DEF Head, Blank
  <2> QED BY <2>1, <2>2, ConcludeShort
<1>6. ASSUME StartAttempt(s, b)
      PROVE  OthersStay(s, b) /\ (Done(q) \/ Short(r, q) \/ On(r, q, "acquire"))
  <2> DEFINE h == [r EXCEPT !.pc = "finish", !.result = "canceled", !.attempt = r.attempt - 1]
  <2>1. r.pc = "attempt" /\ (Become(s, b, h) \/ Goto(s, b, "acquire") \/ Leave(s, b))
    BY <1>6 DEF StartAttempt, Update
  <2>2. CASE Become(s, b, h)
    <3>1. r.attempt - 1 \in 0 .. MaxAttempts
      BY <1>0, <2>1, ControlAssumption DEF RunsOK, RunOK, Run
    <3>2. h \in Run /\ h.pc = "finish" /\ h.result = "canceled" /\ h.owner = r.owner
          /\ h.outcome = r.outcome /\ h.forced = r.forced
      BY <1>0, <3>1 DEF Run, Pcs, OwnerPcs, Terminal
    <3> HIDE DEF h
    <3> QED BY <1>0, <2>1, <2>2, <3>2, BecomeShape DEF Short, Blank
  <2> QED BY <1>0, <1>p, <2>1, <2>2, GotoOn, LeaveShape DEF Done
<1>7. ASSUME AcquireLogin(s, b) PROVE OthersStay(s, b) /\ (Short(r, q) \/ On(r, q, "acquiring"))
  <2>1. r.pc = "acquire" /\ (Goto(s, b, "acquiring") \/ Conclude(s, b, CanceledOr(r, "failed")))
    BY <1>7 DEF AcquireLogin
  <2> QED BY <1>0, <1>p, <2>1, GotoOn, ConcludeShort
<1>8. ASSUME AcquireReturn(s, b)
      PROVE  OthersStay(s, b) /\ (\/ Short(r, q) \/ On(r, q, "allocate") \/ On(r, q, "pending"))
  <2>1. r.pc = "acquiring"
        /\ (\/ Goto(s, b, "allocate") \/ Goto(s, b, "pending")
            \/ Conclude(s, b, "failed") \/ Conclude(s, b, CanceledOr(r, "failed")))
    BY <1>8 DEF AcquireReturn
  <2> QED BY <1>0, <1>p, <2>1, GotoOn, ConcludeShort
<1>9. ASSUME RevokePending(s, b) PROVE OthersStay(s, b) /\ Short(r, q)
  <2>1. Conclude(s, b, "quarantined") \/ Conclude(s, b, CanceledOr(r, "failed"))
    BY <1>9 DEF RevokePending
  <2> QED BY <2>1, ConcludeShort
<1> QED BY <1>1, <1>2, <1>3, <1>4, <1>5, <1>6, <1>7, <1>8, <1>9

\* While a worker may exist.
LEMMA WorkerShapes ==
  ASSUME RunsOK, BlankRuns, NEW s \in Servers, NEW b \in Builds
  PROVE  LET r == run[s][b]
             q == run'[s][b]
         IN  /\ Allocate(s, b) => OthersStay(s, b) /\ (On(r, q, "connect") \/ On(r, q, "dealloc"))
             /\ Connect(s, b) => OthersStay(s, b) /\ (On(r, q, "executing") \/ On(r, q, "dealloc"))
             /\ Deallocate(s, b) => OthersStay(s, b) /\ Short(r, q)
             /\ ObserveCancel(s, b) => OthersStay(s, b) /\ On(r, q, "stopping")
             /\ HeartbeatTick(s, b) => run' = run \/ (OthersStay(s, b) /\ On(r, q, "stopping"))
             /\ StoreError(s, b) => OthersStay(s, b) /\ (Done(q) \/ On(r, q, "stopping"))
             /\ Retry(s, b) => OthersStay(s, b) /\ (Done(q) \/ On(r, q, "wait"))
             /\ WaitForRetry(s, b) => OthersStay(s, b) /\ (Short(r, q) \/ Head(r, q))
             /\ Finish(s, b) => OthersStay(s, b) /\ Done(q)
             /\ Return(s, b) => OthersStay(s, b) /\ q.pc = "idle" /\ Blank(q)
<1> DEFINE r == run[s][b]
           q == run'[s][b]
<1>0. r \in Run /\ (r.pc \notin {"release", "revoke"} => Blank(r)) BY DEF RunsOK, BlankRuns
<1>p. {"connect", "dealloc", "executing", "stopping", "wait", "attempt"} \subseteq Pcs
  BY DEF Pcs, OwnerPcs, AttemptPcs
<1>1. ASSUME Allocate(s, b) PROVE OthersStay(s, b) /\ (On(r, q, "connect") \/ On(r, q, "dealloc"))
  <2>1. r.pc = "allocate" /\ (Goto(s, b, "dealloc") \/ Goto(s, b, "connect"))
    BY <1>1 DEF Allocate
  <2> QED BY <1>0, <1>p, <2>1, GotoOn
<1>2. ASSUME Connect(s, b) PROVE OthersStay(s, b) /\ (On(r, q, "executing") \/ On(r, q, "dealloc"))
  <2>1. r.pc = "connect" /\ (Goto(s, b, "dealloc") \/ Goto(s, b, "executing"))
    BY <1>2 DEF Connect
  <2> QED BY <1>0, <1>p, <2>1, GotoOn
<1>3. ASSUME Deallocate(s, b) PROVE OthersStay(s, b) /\ Short(r, q)
  <2>1. Conclude(s, b, "quarantined") \/ Conclude(s, b, CanceledOr(r, "failed"))
    BY <1>3 DEF Deallocate
  <2> QED BY <2>1, ConcludeShort
<1>s. ASSUME NEW x \in BOOLEAN, NEW y \in BOOLEAN, r.pc = "executing",
             Become(s, b, [r EXCEPT !.pc = "stopping", !.canceled = x, !.lost = y])
      PROVE  OthersStay(s, b) /\ On(r, q, "stopping")
  <2> DEFINE h == [r EXCEPT !.pc = "stopping", !.canceled = x, !.lost = y]
  <2>1. h \in Run /\ h.pc = "stopping" /\ h.owner = r.owner /\ h.attempt = r.attempt
        /\ h.outcome = r.outcome /\ h.forced = r.forced
    BY <1>0, <1>p DEF Run
  <2> HIDE DEF h
  <2>2. Become(s, b, h) BY <1>s DEF h
  <2> QED BY <1>0, <1>s, <2>1, <2>2, BecomeShape DEF On, Blank
<1>t. r.lost \in BOOLEAN /\ r.canceled \in BOOLEAN /\ r.cancel \in BOOLEAN BY <1>0 DEF Run
<1>4. ASSUME ObserveCancel(s, b) PROVE OthersStay(s, b) /\ On(r, q, "stopping")
  <2>1. r.pc = "executing"
        /\ \E y \in BOOLEAN :
             Become(s, b, [r EXCEPT !.pc = "stopping", !.canceled = TRUE, !.lost = y])
    <3>1. CASE Become(s, b, [r EXCEPT !.pc = "stopping", !.canceled = TRUE])
      <4>1. [r EXCEPT !.pc = "stopping", !.canceled = TRUE]
              = [r EXCEPT !.pc = "stopping", !.canceled = TRUE, !.lost = r.lost]
        BY <1>0 DEF Run
      <4> QED BY <1>4, <1>t, <3>1, <4>1 DEF ObserveCancel
    <3>2. CASE \E y \in BOOLEAN :
                 Become(s, b, [r EXCEPT !.pc = "stopping", !.canceled = TRUE, !.lost = y])
      BY <1>4, <3>2 DEF ObserveCancel
    <3>3. (~ HeartbeatAllowed(rec[b], r.owner, r.attempt)) \in BOOLEAN
      BY DEF HeartbeatAllowed
    <3> QED BY <1>4, <3>1, <3>2, <3>3, Zenon DEF ObserveCancel
  <2> QED BY <2>1, <1>s
<1>5. ASSUME HeartbeatTick(s, b) PROVE run' = run \/ (OthersStay(s, b) /\ On(r, q, "stopping"))
  <2>1. r.pc = "executing"
        /\ (run' = run \/ Become(s, b, [r EXCEPT !.pc = "stopping", !.lost = TRUE]))
    BY <1>5 DEF HeartbeatTick
  <2>2. [r EXCEPT !.pc = "stopping", !.lost = TRUE]
          = [r EXCEPT !.pc = "stopping", !.canceled = r.canceled, !.lost = TRUE]
    BY <1>0 DEF Run
  <2> QED BY <1>s, <1>t, <2>1, <2>2
<1>6. ASSUME StoreError(s, b) PROVE OthersStay(s, b) /\ (Done(q) \/ On(r, q, "stopping"))
  <2>1. \/ r.pc # "idle" /\ Leave(s, b)
        \/ /\ r.pc = "executing"
           /\ Become(s, b, [r EXCEPT !.pc = "stopping", !.lost = TRUE, !.canceled = r.cancel])
    BY <1>6 DEF StoreError
  <2>2. [r EXCEPT !.pc = "stopping", !.lost = TRUE, !.canceled = r.cancel]
          = [r EXCEPT !.pc = "stopping", !.canceled = r.cancel, !.lost = TRUE]
    BY <1>0 DEF Run
  <2> QED BY <1>s, <1>t, <2>1, <2>2, LeaveShape DEF Done
<1>7. ASSUME Retry(s, b) PROVE OthersStay(s, b) /\ (Done(q) \/ On(r, q, "wait"))
  <2>1. r.pc = "retry" /\ (Goto(s, b, "wait") \/ Leave(s, b)) BY <1>7 DEF Retry, Update
  <2> QED BY <1>0, <1>p, <2>1, GotoOn, LeaveShape DEF Done
<1>8. ASSUME WaitForRetry(s, b) PROVE OthersStay(s, b) /\ (Short(r, q) \/ Head(r, q))
  <2> DEFINE h == [r EXCEPT !.pc = "attempt", !.attempt = r.attempt + 1]
  <2>1. r.pc = "wait" /\ (Become(s, b, h) \/ Conclude(s, b, "canceled"))
    BY <1>8 DEF WaitForRetry
  <2>2. CASE Become(s, b, h)
    <3>1. r.attempt + 1 \in 0 .. MaxAttempts
      BY <1>0, <2>1, ControlAssumption DEF RunsOK, RunOK, Run
    <3>2. h \in Run /\ h.pc = "attempt" /\ h.owner = r.owner /\ h.outcome = r.outcome
          /\ h.forced = r.forced
      BY <1>0, <1>p, <3>1 DEF Run
    <3> HIDE DEF h
    <3> QED BY <1>0, <2>1, <2>2, <3>2, BecomeShape DEF Head, Blank
  <2> QED BY <2>1, <2>2, ConcludeShort
<1>9. ASSUME Finish(s, b) PROVE OthersStay(s, b) /\ Done(q)
  BY <1>9, LeaveShape DEF Finish, Done
<1>10. ASSUME Return(s, b) PROVE OthersStay(s, b) /\ q.pc = "idle" /\ Blank(q)
  <2>1. IdleRun.pc = "idle" BY DEF IdleRun
  <2> QED BY <1>10, <2>1, IdleBlank, BecomeShape DEF Return
<1> QED BY <1>1, <1>2, <1>3, <1>4, <1>5, <1>6, <1>7, <1>8, <1>9, <1>10

\* A claim starts a run of a build that has no record, or takes one over.
LEMMA ClaimShape ==
  ASSUME RunsOK, RecsOK, BlankRuns, NEW s \in Servers, NEW b \in Builds, Claim(s, b)
  PROVE  LET r == run[s][b]
             q == run'[s][b]
         IN  /\ OthersStay(s, b) /\ Blank(q) /\ q.owner = rec'[b].owner
             /\ r.pc = "claim" /\ rec'[b].phase = "active"
             /\ \A c \in Builds : c # b => rec'[c] = rec[c]
             /\ \/ /\ rec[b].phase = "absent" /\ q.pc = "begin"
                   /\ rec'[b].gen = r.asg.gen /\ rec'[b].digest = r.asg.digest
                \/ /\ rec[b].phase = "active" /\ q.pc = "scrub"
                   /\ rec'[b].gen = rec[b].gen /\ rec'[b].digest = rec[b].digest
                   /\ rec'[b].attempt = rec[b].attempt
<1> DEFINE r == run[s][b]
           a == r.asg
<1>0. r \in Run /\ RunOK(r) /\ rec[b] \in RunRecord /\ rec[b].attempt \in 0 .. MaxAttempts
      /\ rec \in [Builds -> RunRecord]
  BY DEF RunsOK, RecsOK
<1>1. r.pc = "claim" /\ Blank(r) BY DEF Claim, BlankRuns
<1>2. PICK o \in Owners :
        \/ /\ ClaimOutcome(rec[b], a, o) = "accepted"
           /\ rec' = [rec EXCEPT ![b] = newRunRecord(a, o)]
           /\ Become(s, b, [r EXCEPT !.pc = "begin", !.owner = o])
        \/ /\ ClaimOutcome(rec[b], a, o) = "resumed"
           /\ rec' = [rec EXCEPT ![b] = resumedRecord(rec[b], o)]
           /\ Become(s, b, [r EXCEPT !.pc = "scrub", !.owner = o,
                            !.attempt = rec[b].attempt, !.snap = rec[b].cancel])
  BY DEF Claim
<1>3. rec[b].phase \in Terminal \cup {"absent", "active"}
  BY <1>0 DEF RunRecord, Phases
<1>4. CASE /\ ClaimOutcome(rec[b], a, o) = "accepted"
           /\ rec' = [rec EXCEPT ![b] = newRunRecord(a, o)]
           /\ Become(s, b, [r EXCEPT !.pc = "begin", !.owner = o])
  <2> DEFINE q == [r EXCEPT !.pc = "begin", !.owner = o]
             p == newRunRecord(a, o)
  <2>1. rec[b].phase = "absent"
    BY <1>3, <1>4 DEF ClaimOutcome, Terminal
  <2>2. q \in Run /\ q.pc = "begin" /\ q.owner = o /\ q.outcome = r.outcome /\ q.forced = r.forced
    BY <1>0 DEF Run, Pcs, OwnerPcs
  <2>3. p.phase = "active" /\ p.owner = o /\ p.gen = a.gen /\ p.digest = a.digest
    BY DEF newRunRecord
  <2> HIDE DEF q, p
  <2>4. rec' = [rec EXCEPT ![b] = p] /\ Become(s, b, q) BY <1>4 DEF q, p
  <2>5. rec'[b] = p /\ \A c \in Builds : c # b => rec'[c] = rec[c] BY <1>0, <2>4
  <2>6. OthersStay(s, b) /\ run'[s][b] = q BY <2>2, <2>4, BecomeShape
  <2> QED BY <1>1, <2>1, <2>2, <2>3, <2>5, <2>6 DEF Blank
<1>5. CASE /\ ClaimOutcome(rec[b], a, o) = "resumed"
           /\ rec' = [rec EXCEPT ![b] = resumedRecord(rec[b], o)]
           /\ Become(s, b, [r EXCEPT !.pc = "scrub", !.owner = o,
                            !.attempt = rec[b].attempt, !.snap = rec[b].cancel])
  <2> DEFINE q == [r EXCEPT !.pc = "scrub", !.owner = o,
                            !.attempt = rec[b].attempt, !.snap = rec[b].cancel]
             p == resumedRecord(rec[b], o)
  <2>1. rec[b].phase = "active"
    BY <1>3, <1>5 DEF ClaimOutcome, Terminal
  <2>2. rec[b].cancel \in BOOLEAN BY <1>0 DEF RunRecord
  <2>3. q \in Run /\ q.pc = "scrub" /\ q.owner = o /\ q.outcome = r.outcome /\ q.forced = r.forced
    BY <1>0, <2>2 DEF Run, Pcs, OwnerPcs
  <2>4. /\ p.phase = rec[b].phase /\ p.owner = o /\ p.gen = rec[b].gen
        /\ p.digest = rec[b].digest /\ p.attempt = rec[b].attempt
    BY <1>0 DEF resumedRecord, RunRecord
  <2> HIDE DEF q, p
  <2>5. rec' = [rec EXCEPT ![b] = p] /\ Become(s, b, q) BY <1>5 DEF q, p
  <2>6. rec'[b] = p /\ \A c \in Builds : c # b => rec'[c] = rec[c] BY <1>0, <2>5
  <2>7. OthersStay(s, b) /\ run'[s][b] = q BY <2>3, <2>5, BecomeShape
  <2> QED BY <1>1, <2>1, <2>3, <2>4, <2>6, <2>7 DEF Blank
<1> QED BY <1>2, <1>4, <1>5

\* The worker has returned, or was terminated; its resources are released and
\* the attempt is classified.
LEMMA ExecutionShapes ==
  ASSUME RunsOK, BlankRuns, TypeRest, NEW s \in Servers, NEW b \in Builds
  PROVE  LET r == run[s][b]
             q == run'[s][b]
             same == q.owner = r.owner /\ q.attempt = r.attempt
         IN  /\ WorkerDone(s, b) =>
                  /\ OthersStay(s, b) /\ same /\ q.pc = "release" /\ q.forced = FALSE
                  /\ q.outcome = "complete" => b \notin scratch'[s]
             /\ StopCooperatively(s, b) =>
                  OthersStay(s, b) /\ same /\ q.pc = "release" /\ Blank(q)
             /\ StopByForce(s, b) =>
                  /\ OthersStay(s, b) /\ same /\ q.pc = "release" /\ q.outcome = "failed"
                  /\ q.clean => workers'[b] = workers[b] \ {r.attempt}
             /\ Release(s, b) =>
                  /\ OthersStay(s, b) /\ same /\ q.pc = "revoke" /\ q.outcome = r.outcome
                  /\ IF r.forced THEN q.clean = r.clean /\ workers' = workers
                     ELSE q.clean => workers'[b] = workers[b] \ {r.attempt}
             /\ Classify(s, b) =>
                  /\ OthersStay(s, b)
                  /\ \/ Short(r, q) \/ Done(q)
                     \/ r.clean /\ On(r, q, "retry")
                     \/ /\ r.clean /\ r.outcome = "complete"
                        /\ q.pc = "finish" /\ q.owner = r.owner /\ Blank(q)
<1> DEFINE r == run[s][b]
           q == run'[s][b]
           same == q.owner = r.owner /\ q.attempt = r.attempt
<1>0. r \in Run /\ (r.pc \notin {"release", "revoke"} => Blank(r)) BY DEF RunsOK, BlankRuns
<1>t. /\ r.lost \in BOOLEAN /\ r.canceled \in BOOLEAN /\ r.cancel \in BOOLEAN
      /\ r.clean \in BOOLEAN /\ r.forced \in BOOLEAN
      /\ r.outcome \in {"complete", "invalid", "failed", "worker_lost"}
  BY <1>0 DEF Run
<1>p. {"release", "revoke", "retry"} \subseteq Pcs BY DEF Pcs, OwnerPcs, AttemptPcs
<1>w. workers[b] \in SUBSET Attempts /\ workers \in [Builds -> SUBSET Attempts]
      /\ scratch \in [Servers -> SUBSET Builds]
  BY DEF TypeRest
\* The run after an execution that ended in any way.
<1>r. ASSUME NEW out \in {"complete", "invalid", "failed", "worker_lost"}, NEW clean \in BOOLEAN,
             NEW canceled \in BOOLEAN, NEW forced \in BOOLEAN,
             Become(s, b, [r EXCEPT !.pc = "release", !.outcome = out, !.clean = clean,
                                    !.canceled = canceled, !.forced = forced])
      PROVE  /\ OthersStay(s, b) /\ same /\ q.pc = "release"
             /\ q.outcome = out /\ q.clean = clean /\ q.forced = forced
  <2> DEFINE h == [r EXCEPT !.pc = "release", !.outcome = out, !.clean = clean,
                            !.canceled = canceled, !.forced = forced]
  <2>1. /\ h \in Run /\ h.pc = "release" /\ h.owner = r.owner /\ h.attempt = r.attempt
        /\ h.outcome = out /\ h.clean = clean /\ h.forced = forced
    BY <1>0, <1>p, ZenonT(30) DEF Run
  <2> HIDE DEF h
  <2>2. Become(s, b, h) BY <1>r DEF h
  <2> QED BY <2>1, <2>2, BecomeShape
<1>1. ASSUME WorkerDone(s, b)
      PROVE  /\ OthersStay(s, b) /\ same /\ q.pc = "release" /\ q.forced = FALSE
             /\ q.outcome = "complete" => b \notin scratch'[s]
  <2>1. r.pc = "executing" BY <1>1 DEF WorkerDone
  <2>2. PICK clean \in BOOLEAN, out \in {"complete", "invalid", "failed", "worker_lost"} :
          /\ out \in {"complete", "invalid"} => clean
          /\ Become(s, b, [r EXCEPT !.pc = "release", !.outcome = out, !.clean = clean,
                                    !.canceled = r.cancel])
          /\ scratch' = IF clean THEN [scratch EXCEPT ![s] = @ \ {b}] ELSE scratch
    BY <1>1, Zenon DEF WorkerDone
  <2>3. [r EXCEPT !.pc = "release", !.outcome = out, !.clean = clean, !.canceled = r.cancel]
          = [r EXCEPT !.pc = "release", !.outcome = out, !.clean = clean, !.canceled = r.cancel,
                      !.forced = r.forced]
    BY <1>0 DEF Run
  <2>4. /\ OthersStay(s, b) /\ same /\ q.pc = "release" /\ q.outcome = out /\ q.forced = r.forced
    <3>1. Become(s, b, [r EXCEPT !.pc = "release", !.outcome = out, !.clean = clean,
                                 !.canceled = r.cancel, !.forced = r.forced])
      BY <2>2, <2>3, Zenon
    <3> HIDE DEF same, q, r
    <3> QED BY <1>r, <1>t, <3>1, ZenonT(30)
  <2>5. clean => b \notin scratch'[s] BY <1>w, <2>2
  <2> QED BY <1>0, <2>1, <2>2, <2>4, <2>5 DEF Blank
<1>2. ASSUME StopCooperatively(s, b)
      PROVE  OthersStay(s, b) /\ same /\ q.pc = "release" /\ Blank(q)
  <2>1. r.pc = "stopping" BY <1>2 DEF StopCooperatively
  <2>2. PICK clean \in BOOLEAN :
          Become(s, b, [r EXCEPT !.pc = "release", !.clean = clean,
                                 !.canceled = r.canceled \/ r.cancel])
    BY <1>2, Zenon DEF StopCooperatively
  <2> DEFINE either == r.canceled \/ r.cancel
  <2>c. either \in BOOLEAN OBVIOUS
  <2> HIDE DEF either
  <2>3. [r EXCEPT !.pc = "release", !.clean = clean, !.canceled = either]
          = [r EXCEPT !.pc = "release", !.outcome = r.outcome, !.clean = clean,
                      !.canceled = either, !.forced = r.forced]
    BY <1>0 DEF Run
  <2>4. /\ OthersStay(s, b) /\ same /\ q.pc = "release" /\ q.outcome = r.outcome
        /\ q.forced = r.forced
    <3>1. Become(s, b, [r EXCEPT !.pc = "release", !.outcome = r.outcome, !.clean = clean,
                                 !.canceled = either, !.forced = r.forced])
      BY <2>2, <2>3, Zenon DEF either
    <3> HIDE DEF same, q, r
    <3> QED BY <1>r, <1>t, <2>c, <3>1
  <2> QED BY <1>0, <2>1, <2>4 DEF Blank
<1>3. ASSUME StopByForce(s, b)
      PROVE  /\ OthersStay(s, b) /\ same /\ q.pc = "release" /\ q.outcome = "failed"
             /\ q.clean => workers'[b] = workers[b] \ {r.attempt}
  <2>1. r.pc = "stopping" /\ r.outcome = "failed" BY <1>0, <1>3 DEF StopByForce, Blank
  <2>2. PICK killed \in BOOLEAN, left \in SUBSET {r.attempt} :
          /\ killed => left = {}
          /\ workers' = [workers EXCEPT ![b] = (@ \ {r.attempt}) \cup (@ \cap left)]
          /\ \/ \E clean \in BOOLEAN :
                  Become(s, b, [r EXCEPT !.pc = "release", !.clean = clean /\ killed,
                                !.forced = TRUE, !.canceled = r.canceled \/ r.cancel])
             \/ Become(s, b, [r EXCEPT !.pc = "release", !.clean = killed,
                              !.forced = TRUE, !.canceled = r.canceled \/ r.cancel])
    BY <1>3, Zenon DEF StopByForce
  <2> DEFINE either == r.canceled \/ r.cancel
  <2>c. either \in BOOLEAN OBVIOUS
  <2>3. PICK ok \in BOOLEAN :
          /\ ok => killed
          /\ Become(s, b, [r EXCEPT !.pc = "release", !.clean = ok,
                           !.forced = TRUE, !.canceled = either])
    <3>1. \A x, y \in BOOLEAN : (x /\ y) \in BOOLEAN /\ ((x /\ y) => y) OBVIOUS
    <3> QED BY <2>2, <3>1, Zenon
  <2> HIDE DEF either
  <2>4. [r EXCEPT !.pc = "release", !.clean = ok, !.forced = TRUE, !.canceled = either]
          = [r EXCEPT !.pc = "release", !.outcome = r.outcome, !.clean = ok,
                      !.canceled = either, !.forced = TRUE]
    BY <1>0 DEF Run
  <2>5. OthersStay(s, b) /\ same /\ q.pc = "release" /\ q.outcome = r.outcome /\ q.clean = ok
    <3>1. Become(s, b, [r EXCEPT !.pc = "release", !.outcome = r.outcome, !.clean = ok,
                                 !.canceled = either, !.forced = TRUE])
      BY <2>3, <2>4, Zenon
    <3> HIDE DEF same, q, r
    <3> QED BY <1>r, <1>t, <2>c, <3>1
  <2>6. killed => workers'[b] = workers[b] \ {r.attempt} BY <1>w, <2>2
  <2> QED BY <2>1, <2>3, <2>5, <2>6
<1>4. ASSUME Release(s, b)
      PROVE  /\ OthersStay(s, b) /\ same /\ q.pc = "revoke" /\ q.outcome = r.outcome
             /\ IF r.forced THEN q.clean = r.clean /\ workers' = workers
                ELSE q.clean => workers'[b] = workers[b] \ {r.attempt}
  <2>1. CASE r.forced /\ Goto(s, b, "revoke") /\ workers' = workers
    BY <1>p, <2>1, GotoShape
  <2>2. ASSUME ~ r.forced, NEW ok \in BOOLEAN, NEW left \in SUBSET {r.attempt},
               ok => left = {},
               workers' = [workers EXCEPT ![b] = (@ \ {r.attempt}) \cup (@ \cap left)],
               Become(s, b, [r EXCEPT !.pc = "revoke", !.clean = r.clean /\ ok])
        PROVE  /\ OthersStay(s, b) /\ same /\ q.pc = "revoke" /\ q.outcome = r.outcome
               /\ q.clean => workers'[b] = workers[b] \ {r.attempt}
    <3> DEFINE c == r.clean /\ ok
               h == [r EXCEPT !.pc = "revoke", !.clean = c]
    <3>1. c \in BOOLEAN /\ (c => ok) BY <1>t
    <3> HIDE DEF c
    <3>2. /\ h \in Run /\ h.pc = "revoke" /\ h.owner = r.owner /\ h.attempt = r.attempt
          /\ h.outcome = r.outcome /\ h.clean = c
      BY <1>0, <1>p, <3>1 DEF Run
    <3> HIDE DEF h
    <3>3. Become(s, b, h) BY <2>2 DEF h, c
    <3>4. OthersStay(s, b) /\ q = h BY <3>2, <3>3, BecomeShape
    <3>5. ok => workers'[b] = workers[b] \ {r.attempt} BY <1>w, <2>2
    <3> QED BY <3>1, <3>2, <3>4, <3>5
  <2> QED BY <1>4, <2>1, <2>2 DEF Release
<1>5. ASSUME Classify(s, b)
      PROVE  /\ OthersStay(s, b)
             /\ \/ Short(r, q) \/ Done(q)
                \/ r.clean /\ On(r, q, "retry")
                \/ /\ r.clean /\ r.outcome = "complete"
                   /\ q.pc = "finish" /\ q.owner = r.owner /\ Blank(q)
  <2>1. r.pc = "revoke" BY <1>5 DEF Classify
  <2>2. \/ Conclude(s, b, "quarantined") \/ Leave(s, b)
        \/ Conclude(s, b, "canceled") \/ Conclude(s, b, "failed")
        \/ r.clean /\ Become(s, b, OutsideAttempt(r, "retry"))
        \/ r.clean /\ r.outcome = "complete" /\ Conclude(s, b, "complete")
    BY <1>5, <1>t DEF Classify
  <2>3. CASE Leave(s, b) BY <2>1, <2>3, LeaveShape DEF Done
  <2>4. CASE Conclude(s, b, "quarantined") \/ Conclude(s, b, "canceled") \/ Conclude(s, b, "failed")
    BY <2>4, ConcludeShort
  <2>5. CASE r.clean /\ Become(s, b, OutsideAttempt(r, "retry"))
    BY <1>p, <2>5, OutsideBecomes DEF On
  <2>6. CASE r.clean /\ r.outcome = "complete" /\ Conclude(s, b, "complete")
    BY <2>6, ConcludeShape DEF Terminal
  <2> QED BY <2>2, <2>3, <2>4, <2>5, <2>6
<1> QED BY <1>1, <1>2, <1>3, <1>4, <1>5

-----------------------------------------------------------------------------
(* What a step leaves alone.                                               *)

\* The identity and the owner of a record stay, and its attempts only rise.
RecordStays(b) ==
  LET p == rec[b]
      n == rec'[b]
  IN  /\ n.gen = p.gen /\ n.digest = p.digest /\ n.owner = p.owner
      /\ n.phase = "absent" <=> p.phase = "absent"
      /\ n.attempt >= p.attempt

\* Only a claim gives a record its identity or another owner, and only Finish
\* makes it complete.
LEMMA RecordsStay ==
  ASSUME Core, NEW s \in Servers, NEW b \in Builds,
         RunStep(s, b) \/ HeartbeatTick(s, b) \/ StoreError(s, b), ~ Claim(s, b)
  PROVE  /\ \A c \in Builds : RecordStays(c) /\ (c # b => rec'[c] = rec[c])
         /\ rec'[b].phase = "complete" /\ rec[b].phase # "complete"
              => Finish(s, b) /\ run[s][b].result = "complete"
<1> DEFINE r == run[s][b]
<1>0. /\ rec \in [Builds -> RunRecord] /\ rec[b] \in RunRecord /\ rec[b].attempt \in Nat
      /\ \A c \in Builds : rec[c].attempt \in Nat
      /\ r \in Run /\ RunOK(r) /\ r.attempt \in Nat /\ r.result \in Terminal
  BY ControlAssumption DEF Core, RecsOK, RunsOK, Run, RunRecord
<1>1. ASSUME rec' = rec
      PROVE  /\ \A c \in Builds : RecordStays(c) /\ (c # b => rec'[c] = rec[c])
             /\ rec'[b].phase = rec[b].phase
  BY <1>0, <1>1 DEF RecordStays
<1>2. ASSUME HeartbeatAllowed(rec[b], r.owner, r.attempt), r.pc \in OwnerPcs,
             rec' = [rec EXCEPT ![b] = heartbeatRecord(rec[b], r.attempt)]
      PROVE  /\ \A c \in Builds : RecordStays(c) /\ (c # b => rec'[c] = rec[c])
             /\ rec'[b].phase = rec[b].phase
  <2> DEFINE p == heartbeatRecord(rec[b], r.attempt)
  <2>1. /\ p \in RunRecord /\ p.phase = rec[b].phase /\ p.gen = rec[b].gen
        /\ p.digest = rec[b].digest /\ p.owner = rec[b].owner /\ p.attempt = r.attempt
    BY <1>0 DEF heartbeatRecord, RunRecord
  <2>2. rec[b].attempt = Num(r)
    BY <1>2 DEF HeartbeatAllowed, Core, OwnerRecorded
  <2>3. r.attempt >= rec[b].attempt BY <1>0, <2>2 DEF Num
  <2> HIDE DEF p
  <2>4. rec'[b] = p /\ \A c \in Builds : c # b => rec'[c] = rec[c]
    BY <1>0, <1>2, <2>1, RecordPointwise DEF p
  <2>5. ASSUME NEW c \in Builds PROVE RecordStays(c)
    <3>1. CASE c = b BY <2>1, <2>3, <2>4, <3>1 DEF RecordStays
    <3>2. CASE c # b BY <1>0, <2>4, <3>2 DEF RecordStays
    <3> QED BY <3>1, <3>2
  <2> QED BY <2>1, <2>4, <2>5
<1>3. ASSUME Finish(s, b), FinishAllowed(rec[b], r.owner, r.result, r.attempt),
             rec' = [rec EXCEPT ![b] = finishedRecord(rec[b], r.result, r.attempt)]
      PROVE  /\ \A c \in Builds : RecordStays(c) /\ (c # b => rec'[c] = rec[c])
             /\ rec'[b].phase = r.result
  <2> DEFINE p == finishedRecord(rec[b], r.result, r.attempt)
  <2>0. r.result \in Phases BY <1>0 DEF Phases
  <2>1. /\ p \in RunRecord /\ p.phase = r.result /\ p.gen = rec[b].gen
        /\ p.digest = rec[b].digest /\ p.owner = rec[b].owner /\ p.attempt = r.attempt
    BY <1>0, <2>0 DEF finishedRecord, RunRecord
  <2>2. r.pc = "finish" BY <1>3 DEF Finish
  <2>3. rec[b].attempt = Num(r) /\ rec[b].phase # "absent"
    BY <1>3, <2>2 DEF FinishAllowed, Core, OwnerRecorded, OwnerPcs
  <2>4. r.attempt >= rec[b].attempt BY <1>0, <2>2, <2>3 DEF Num
  <2>5. p.phase # "absent" BY <1>0, <2>1 DEF Terminal
  <2> HIDE DEF p
  <2>6. rec'[b] = p /\ \A c \in Builds : c # b => rec'[c] = rec[c]
    BY <1>0, <1>3, <2>1, RecordPointwise DEF p
  <2>7. ASSUME NEW c \in Builds PROVE RecordStays(c)
    <3>1. CASE c = b BY <2>1, <2>3, <2>4, <2>5, <2>6, <3>1 DEF RecordStays
    <3>2. CASE c # b BY <1>0, <2>6, <3>2 DEF RecordStays
    <3> QED BY <3>1, <3>2
  <2> QED BY <2>1, <2>6, <2>7
<1>4. \/ rec' = rec
      \/ /\ HeartbeatAllowed(rec[b], r.owner, r.attempt) /\ r.pc \in OwnerPcs
         /\ rec' = [rec EXCEPT ![b] = heartbeatRecord(rec[b], r.attempt)]
      \/ /\ Finish(s, b) /\ FinishAllowed(rec[b], r.owner, r.result, r.attempt)
         /\ rec' = [rec EXCEPT ![b] = finishedRecord(rec[b], r.result, r.attempt)]
  <2>1. CASE Begin(s, b) \/ Retry(s, b) \/ StartAttempt(s, b)
    BY <2>1 DEF Begin, Retry, StartAttempt, Update, OwnerPcs, AttemptPcs
  <2>2. CASE HeartbeatTick(s, b) \/ ObserveCancel(s, b)
    BY <2>2 DEF HeartbeatTick, ObserveCancel, OwnerPcs, AttemptPcs
  <2>3. CASE Finish(s, b) BY <2>3 DEF Finish
  <2>4. CASE \/ Reserve(s, b) \/ ClaimRefused(s, b) \/ Scrub(s, b) \/ Resolve(s, b)
             \/ AcquireLogin(s, b) \/ AcquireReturn(s, b) \/ RevokePending(s, b)
             \/ Allocate(s, b)
    BY <2>4 DEF Reserve, ClaimRefused, Scrub, Resolve, AcquireLogin, AcquireReturn,
                RevokePending, Allocate
  <2>5. CASE \/ Connect(s, b) \/ Deallocate(s, b) \/ WorkerDone(s, b)
             \/ StopCooperatively(s, b) \/ StopByForce(s, b) \/ Release(s, b)
    BY <2>5 DEF Connect, Deallocate, WorkerDone, StopCooperatively, StopByForce, Release
  <2>6. CASE Classify(s, b) \/ WaitForRetry(s, b) \/ Return(s, b) \/ StoreError(s, b)
    BY <2>6 DEF Classify, WaitForRetry, Return, StoreError
  <2> QED BY <2>1, <2>2, <2>3, <2>4, <2>5, <2>6 DEF RunStep
<1> QED BY <1>1, <1>2, <1>3, <1>4

\* A run that no step of its own has moved: the same but for its cancellation
\* channel, or back at its beginning.
Follows(r, q) ==
  \/ /\ q.pc = r.pc /\ q.asg = r.asg /\ q.owner = r.owner /\ q.attempt = r.attempt
     /\ q.outcome = r.outcome /\ q.forced = r.forced /\ q.clean = r.clean /\ q.result = r.result
  \/ q.pc \in {"idle", "reserve"} /\ Blank(q)

\* A step of the callers, of time or of a dying process.
Elsewhere ==
  /\ UNCHANGED <<watermark, nonces, workers>>
  /\ \A c \in Builds : RecordStays(c) /\ rec'[c].phase = rec[c].phase
  /\ \A t \in Servers, c \in Builds : Follows(run[t][c], run'[t][c])
  /\ \A t \in Servers : Unscrubbed(t)' \subseteq Unscrubbed(t)

\* Every step is one of a run or happens elsewhere.
LEMMA StepKinds ==
  ASSUME IndInv, [Next]_vars
  PROVE  \/ Elsewhere
         \/ \E s \in Servers, b \in Builds :
              RunStep(s, b) \/ HeartbeatTick(s, b) \/ StoreError(s, b)
<1>0. /\ rec \in [Builds -> RunRecord] /\ \A c \in Builds : rec[c].attempt \in Nat
      /\ scratch \in [Servers -> SUBSET Builds] /\ cancelReq \in [Servers -> CancelReq]
      /\ leaked \in [Servers -> [Builds -> Leaks]]
  BY DEF IndInv, Core, RecsOK, RunRecord, TypeRest
<1>1. RunsOK BY DEF IndInv, Core
<1>r. rec' = rec => \A c \in Builds : RecordStays(c) /\ rec'[c].phase = rec[c].phase
  BY <1>0 DEF RecordStays
<1>s. scratch' = scratch /\ leaked' = leaked
        => \A t \in Servers : Unscrubbed(t)' \subseteq Unscrubbed(t)
  BY DEF Unscrubbed
<1>f. run' = run => \A t \in Servers, c \in Builds : Follows(run[t][c], run'[t][c])
  BY DEF Follows
<1>2. ASSUME NEW s \in Servers, NEW a \in Assignments, ExecuteAssignment(s, a) PROVE Elsewhere
  <2> DEFINE b == a.build
             q == [IdleRun EXCEPT !.pc = "reserve", !.asg = a]
  <2>1. b \in Builds BY AssignmentAssumption DEF VerifiedAssignment
  <2>2. \A i \in Run : LET p == [i EXCEPT !.pc = "reserve", !.asg = a]
                       IN  /\ p \in Run /\ p.pc = "reserve"
                           /\ p.outcome = i.outcome /\ p.forced = i.forced
    BY DEF Run, Pcs
  <2>3. q \in Run /\ q.pc = "reserve" /\ Blank(q) BY <2>2, IdleBlank DEF Blank
  <2> HIDE DEF b, q
  <2>4. Become(s, b, q) BY <1>2 DEF ExecuteAssignment, b, q
  <2>5. OthersStay(s, b) /\ run'[s][b] = q BY <1>1, <2>1, <2>3, <2>4, BecomeShape
  <2>6. UNCHANGED <<watermark, nonces, workers, rec, scratch, leaked>>
    BY <1>2 DEF ExecuteAssignment, stores, outside
  <2>7. ASSUME NEW t \in Servers, NEW c \in Builds PROVE Follows(run[t][c], run'[t][c])
    BY <2>3, <2>5 DEF Follows, OthersStay
  <2> QED BY <1>r, <1>s, <2>6, <2>7 DEF Elsewhere
<1>3. ASSUME NEW s \in Servers, NEW a \in Assignments, CancelPersist(s, a.build, a.gen)
      PROVE  Elsewhere
  <2> DEFINE b == a.build
             p == [rec[b] EXCEPT !.cancel = TRUE]
  <2>1. b \in Builds BY AssignmentAssumption DEF VerifiedAssignment
  <2>2. rec[b] \in RunRecord BY <1>0, <2>1
  <2>3. /\ p \in RunRecord /\ p.phase = rec[b].phase /\ p.gen = rec[b].gen
        /\ p.digest = rec[b].digest /\ p.owner = rec[b].owner /\ p.attempt = rec[b].attempt
    BY <2>2 DEF RunRecord
  <2>4. UNCHANGED <<watermark, nonces, workers, run, scratch, leaked>>
        /\ (rec' = rec \/ rec' = [rec EXCEPT ![b].cancel = TRUE])
    BY <1>3 DEF CancelPersist, stores, outside
  <2>5. [rec EXCEPT ![b].cancel = TRUE] = [rec EXCEPT ![b] = p] OBVIOUS
  <2> HIDE DEF b, p
  <2>6. ASSUME rec' = [rec EXCEPT ![b] = p], NEW c \in Builds
        PROVE  RecordStays(c) /\ rec'[c].phase = rec[c].phase
    <3>1. rec'[b] = p /\ \A d \in Builds : d # b => rec'[d] = rec[d]
      BY <1>0, <2>1, <2>3, <2>6, RecordPointwise
    <3>2. CASE c = b BY <1>0, <2>3, <3>1, <3>2 DEF RecordStays
    <3>3. CASE c # b BY <1>0, <3>1, <3>3 DEF RecordStays
    <3> QED BY <3>2, <3>3
  <2> QED BY <1>r, <1>f, <1>s, <2>4, <2>5, <2>6 DEF Elsewhere
<1>4. ASSUME NEW b \in Builds, LeaseExpires(b) PROVE Elsewhere
  <2> DEFINE p == [rec[b] EXCEPT !.lease = FALSE]
  <2>1. rec[b] \in RunRecord BY <1>0
  <2>2. /\ p \in RunRecord /\ p.phase = rec[b].phase /\ p.gen = rec[b].gen
        /\ p.digest = rec[b].digest /\ p.owner = rec[b].owner /\ p.attempt = rec[b].attempt
    BY <2>1 DEF RunRecord
  <2>3. UNCHANGED <<watermark, nonces, workers, run, scratch, leaked>>
        /\ rec' = [rec EXCEPT ![b].lease = FALSE]
    BY <1>4 DEF LeaseExpires, stores, outside
  <2>4. [rec EXCEPT ![b].lease = FALSE] = [rec EXCEPT ![b] = p] OBVIOUS
  <2> HIDE DEF p
  <2>5. ASSUME NEW c \in Builds PROVE RecordStays(c) /\ rec'[c].phase = rec[c].phase
    <3>1. rec'[b] = p /\ \A d \in Builds : d # b => rec'[d] = rec[d]
      BY <1>0, <2>2, <2>3, <2>4, RecordPointwise
    <3>2. CASE c = b BY <1>0, <2>2, <3>1, <3>2 DEF RecordStays
    <3>3. CASE c # b BY <1>0, <3>1, <3>3 DEF RecordStays
    <3> QED BY <3>2, <3>3
  <2> QED BY <1>f, <1>s, <2>3, <2>5 DEF Elsewhere
<1>5. ASSUME NEW s \in Servers, CancelSignal(s) PROVE Elsewhere
  <2> DEFINE b == cancelReq[s].build
             r == run[s][b]
             q == [r EXCEPT !.cancel = TRUE]
  <2>1. b \in Builds BY <1>0 DEF CancelReq
  <2>2. r \in Run BY <1>1, <2>1 DEF RunsOK
  <2>3. UNCHANGED <<watermark, nonces, workers, rec, scratch, leaked>>
        /\ (run' = run \/ run' = [run EXCEPT ![s][b].cancel = TRUE])
    BY <1>5 DEF CancelSignal, stores, outside
  <2>4. q \in Run /\ Follows(r, q) BY <2>2 DEF Run, Follows
  <2>5. [run EXCEPT ![s][b].cancel = TRUE] = [run EXCEPT ![s][b] = q] OBVIOUS
  <2> HIDE DEF b, q
  <2>6. ASSUME run' = [run EXCEPT ![s][b] = q], NEW t \in Servers, NEW c \in Builds
        PROVE  Follows(run[t][c], run'[t][c])
    <3>1. OthersStay(s, b) /\ run'[s][b] = q
      BY <1>1, <2>1, <2>4, <2>6, BecomeShape DEF Become
    <3>2. CASE t = s /\ c = b BY <2>4, <3>1, <3>2
    <3>3. CASE t # s \/ c # b BY <3>1, <3>3 DEF Follows, OthersStay
    <3> QED BY <3>2, <3>3
  <2> QED BY <1>r, <1>f, <1>s, <2>3, <2>5, <2>6 DEF Elsewhere
<1>6. ASSUME NEW s \in Servers, Crash(s) PROVE Elsewhere
  <2>1. UNCHANGED <<watermark, nonces, workers, rec, scratch>>
        /\ run' = [run EXCEPT ![s] = [b \in Builds |-> IdleRun]]
    BY <1>6 DEF Crash, stores
  <2>4. \A t \in Servers : Unscrubbed(t)' \subseteq Unscrubbed(t)
    <3>1. leaked' = [leaked EXCEPT
                       ![s] = [b \in Builds |-> IF @[b] = "running" THEN "gone" ELSE @[b]]]
      BY <1>6 DEF Crash
    <3>2. \A t \in Servers, b \in Builds : leaked'[t][b] = "none" => leaked[t][b] = "none"
      BY <1>0, <3>1
    <3> QED BY <1>0, <2>1, <3>2 DEF Unscrubbed
  <2>2. IdleRun.pc = "idle" BY DEF IdleRun
  <2>3. ASSUME NEW t \in Servers, NEW c \in Builds PROVE Follows(run[t][c], run'[t][c])
    <3>1. run \in [Servers -> [Builds -> Run]] BY <1>1 DEF RunsOK
    <3>2. run'[t][c] = IdleRun \/ run'[t][c] = run[t][c] BY <2>1, <3>1
    <3> QED BY <2>2, <3>2, IdleBlank DEF Follows
  <2> QED BY <1>r, <2>1, <2>3, <2>4 DEF Elsewhere
<1>7. ASSUME NEW s \in Servers, NEW b \in Builds, LeakedReturn(s, b) PROVE Elsewhere
  <2>1. UNCHANGED <<watermark, nonces, workers, rec, run>>
        /\ leaked[s][b] = "running" /\ leaked' = [leaked EXCEPT ![s][b] = "gone"]
        /\ scratch' \in {scratch, [scratch EXCEPT ![s] = @ \cup {b}],
                           [scratch EXCEPT ![s] = @ \ {b}]}
    BY <1>7 DEF LeakedReturn, stores
  <2>2. \A t \in Servers : Unscrubbed(t)' \subseteq Unscrubbed(t)
    <3>1. \A t \in Servers, c \in Builds :
            leaked'[t][c] = "none" => leaked[t][c] = "none" /\ (t # s \/ c # b)
      BY <1>0, <2>1
    <3>2. \A t \in Servers, c \in Builds :
            c \in scratch'[t] /\ (t # s \/ c # b) => c \in scratch[t]
      BY <1>0, <2>1
    <3>3. \A t \in Servers : scratch'[t] \subseteq Builds BY <1>0, <2>1
    <3> QED BY <3>1, <3>2, <3>3 DEF Unscrubbed
  <2> QED BY <1>r, <1>f, <2>1, <2>2 DEF Elsewhere
<1>8. ASSUME NEW b \in Builds, TokenExpires(b) PROVE Elsewhere
  <2>1. UNCHANGED <<watermark, nonces, workers, rec, run, scratch, leaked>> BY <1>8 DEF TokenExpires, stores
  <2> QED BY <1>r, <1>f, <1>s, <2>1 DEF Elsewhere
<1>9. ASSUME NEW a \in Assignments, AssignmentExpires(a) PROVE Elsewhere
  <2>1. UNCHANGED <<watermark, nonces, workers, rec, run, scratch, leaked>>
    BY <1>9 DEF AssignmentExpires, stores, outside
  <2> QED BY <1>r, <1>f, <1>s, <2>1 DEF Elsewhere
<1>10. ASSUME UNCHANGED vars PROVE Elsewhere
  <2>1. UNCHANGED <<watermark, nonces, workers, rec, run, scratch, leaked>> BY <1>10 DEF vars
  <2> QED BY <1>r, <1>f, <1>s, <2>1 DEF Elsewhere
<1> QED BY <1>2, <1>3, <1>4, <1>5, <1>6, <1>7, <1>8, <1>9, <1>10 DEF Next

\* A step of a run moves no other run; it reaches Claim only through Reserve,
\* and the locals of an execution are set only while its worker is released.
LEMMA StepMoves ==
  ASSUME IndInv, BlankRuns, NEW s \in Servers, NEW b \in Builds,
         RunStep(s, b) \/ HeartbeatTick(s, b) \/ StoreError(s, b)
  PROVE  LET r == run[s][b]
             q == run'[s][b]
         IN  /\ OthersStay(s, b)
             /\ q.pc \notin {"release", "revoke"} => Blank(q)
             /\ q.pc = "claim" => Reserve(s, b) /\ q.asg = r.asg
<1> DEFINE r == run[s][b]
           q == run'[s][b]
           Goal == /\ OthersStay(s, b)
                   /\ q.pc \notin {"release", "revoke"} => Blank(q)
                   /\ q.pc = "claim" => Reserve(s, b) /\ q.asg = r.asg
<1>0. RunsOK /\ RecsOK /\ TypeRest BY DEF IndInv, Core
<1>1. CASE Reserve(s, b) BY <1>0, <1>1, EarlyShapes
<1>2. CASE \/ ClaimRefused(s, b) \/ Scrub(s, b) \/ Begin(s, b) \/ Resolve(s, b)
           \/ StartAttempt(s, b) \/ AcquireLogin(s, b) \/ AcquireReturn(s, b)
           \/ RevokePending(s, b)
  <2>1. /\ OthersStay(s, b) /\ Blank(q)
        /\ q.pc \in {"done", "finish", "begin", "resolve", "attempt", "acquire", "acquiring",
                     "allocate", "pending"}
    BY <1>0, <1>2, EarlyShapes DEF Done, Short, On, Head
  <2> QED BY <2>1
<1>3. CASE Claim(s, b)
  <2>1. OthersStay(s, b) /\ Blank(q) /\ q.pc \in {"begin", "scrub"} BY <1>0, <1>3, ClaimShape
  <2> QED BY <2>1
<1>4. CASE \/ Allocate(s, b) \/ Connect(s, b) \/ Deallocate(s, b) \/ ObserveCancel(s, b)
           \/ StoreError(s, b) \/ Retry(s, b) \/ WaitForRetry(s, b) \/ Finish(s, b)
           \/ Return(s, b)
  <2>1. /\ OthersStay(s, b) /\ Blank(q)
        /\ q.pc \in {"done", "finish", "connect", "dealloc", "executing", "stopping", "wait",
                     "attempt", "idle"}
    BY <1>0, <1>4, WorkerShapes DEF Done, Short, On, Head
  <2> QED BY <2>1
<1>5. CASE HeartbeatTick(s, b)
  <2>1. run' = run \/ (OthersStay(s, b) /\ On(r, q, "stopping")) BY <1>0, <1>5, WorkerShapes
  <2>2. r.pc = "executing" BY <1>5 DEF HeartbeatTick
  <2>3. CASE run' = run
    <3>1. Blank(q) /\ q.pc = "executing" BY <2>2, <2>3 DEF BlankRuns
    <3>2. OthersStay(s, b) BY <2>3 DEF OthersStay
    <3> QED BY <3>1, <3>2
  <2> QED BY <2>1, <2>3 DEF On
<1>6. CASE \/ WorkerDone(s, b) \/ StopCooperatively(s, b) \/ StopByForce(s, b) \/ Release(s, b)
  <2>1. OthersStay(s, b) /\ q.pc \in {"release", "revoke"} BY <1>0, <1>6, ExecutionShapes
  <2> QED BY <2>1
<1>7. CASE Classify(s, b)
  <2>1. OthersStay(s, b) /\ Blank(q) /\ q.pc \in {"done", "finish", "retry"}
    BY <1>0, <1>7, ExecutionShapes DEF Done, Short, On
  <2> QED BY <2>1
<1> QED BY <1>1, <1>2, <1>3, <1>4, <1>5, <1>6, <1>7 DEF RunStep

\* The locals of an execution have their initial values outside of it.
LEMMA BlankKept ==
  ASSUME IndInv, BlankRuns, [Next]_vars
  PROVE  BlankRuns'
<1>1. CASE Elsewhere BY <1>1 DEF Elsewhere, Follows, BlankRuns, Blank
<1>2. ASSUME NEW s \in Servers, NEW b \in Builds,
             RunStep(s, b) \/ HeartbeatTick(s, b) \/ StoreError(s, b)
      PROVE  BlankRuns'
  <2>1. OthersStay(s, b) /\ (run'[s][b].pc \notin {"release", "revoke"} => Blank(run'[s][b]))
    BY <1>2, StepMoves
  <2>2. ASSUME NEW t \in Servers, NEW c \in Builds, run'[t][c].pc \notin {"release", "revoke"}
        PROVE  Blank(run'[t][c])
    BY <2>1, <2>2 DEF OthersStay, BlankRuns
  <2> QED BY <2>2 DEF BlankRuns, Blank
<1> QED BY <1>1, <1>2, StepKinds

-----------------------------------------------------------------------------
(* What runs in a cell was reserved in it.                                 *)

Under(gen, digest, w) == gen <= w.gen /\ (gen = w.gen => digest = w.digest)

\* A run that may claim has its assignment in the replay store.
ReservedRuns ==
  \A s \in Servers, b \in Builds :
    run[s][b].pc = "claim" => Under(run[s][b].asg.gen, run[s][b].asg.digest, watermark[b])

\* The nonce of every watermark was used.
NoncesRecorded ==
  \A b \in Builds : watermark[b].gen > 0 => watermark[b].nonce \in nonces

ReplayInv == /\ IndInv /\ BlankRuns
             /\ ReservedRuns /\ NoncesRecorded /\ NonceSingleUse /\ RecordUnderWatermark

\* Reserve lets a run claim only under a watermark that covers it, and a
\* watermark rises with a nonce that was never used.
LEMMA ReserveShape ==
  ASSUME IndInv, NEW s \in Servers, NEW b \in Builds, Reserve(s, b)
  PROVE  LET a == run[s][b].asg
         IN  /\ a \in Assignments
             /\ \/ /\ watermark' = watermark /\ nonces' = nonces
                   /\ run'[s][b].pc = "claim" => Under(a.gen, a.digest, watermark[b])
                \/ /\ watermark' = [watermark EXCEPT ![b] = replayEntry(a)]
                   /\ nonces' = nonces \cup {a.nonce}
                   /\ a.gen > watermark[b].gen /\ a.nonce \notin nonces
<1> DEFINE a == run[s][b].asg
           known == Cardinality({c \in Builds : watermark[c].gen > 0})
           out == ReserveOutcome(a, watermark[b], nonces, known)
<1>1. RunsOK /\ run[s][b].pc = "reserve" /\ RunOK(run[s][b]) BY DEF IndInv, Core, RunsOK, Reserve
<1>2. a \in Assignments BY <1>1 DEF RunOK
<1>3. a.gen \in Nat /\ watermark[b].gen \in Nat
  BY <1>2, AssignmentAssumption DEF VerifiedAssignment, IndInv, TypeRest, Watermark
<1>4. \/ /\ out = "replay" /\ watermark' = watermark /\ nonces' = nonces
      \/ /\ Leave(s, b) /\ watermark' = watermark /\ nonces' = nonces
      \/ /\ out = "accepted" /\ watermark' = [watermark EXCEPT ![b] = replayEntry(a)]
         /\ nonces' = nonces \cup {a.nonce}
  BY DEF Reserve, stores
<1>5. CASE out = "replay" /\ watermark' = watermark /\ nonces' = nonces
  <2>1. replayEntry(a) = watermark[b] /\ a.gen = watermark[b].gen
    BY <1>3, <1>5 DEF ReserveOutcome
  <2>2. a.digest = watermark[b].digest BY <2>1 DEF replayEntry
  <2> QED BY <1>2, <1>3, <1>5, <2>1, <2>2 DEF Under
<1>6. CASE Leave(s, b) /\ watermark' = watermark /\ nonces' = nonces
  <2>1. run'[s][b].pc = "done" BY <1>1, <1>6, LeaveShape
  <2> QED BY <1>2, <1>6, <2>1
<1>7. CASE /\ out = "accepted" /\ watermark' = [watermark EXCEPT ![b] = replayEntry(a)]
           /\ nonces' = nonces \cup {a.nonce}
  <2>1. a.gen > watermark[b].gen /\ a.nonce \notin nonces
    BY <1>3, <1>7 DEF ReserveOutcome
  <2> QED BY <1>2, <1>7, <2>1
<1> QED BY <1>4, <1>5, <1>6, <1>7

\* No other step of a run reaches the replay store.
LEMMA StoresStay ==
  ASSUME NEW s \in Servers, NEW b \in Builds,
         RunStep(s, b) \/ HeartbeatTick(s, b) \/ StoreError(s, b), ~ Reserve(s, b)
  PROVE  watermark' = watermark /\ nonces' = nonces
<1>1. CASE \/ Claim(s, b) \/ ClaimRefused(s, b) \/ Scrub(s, b) \/ Begin(s, b) \/ Resolve(s, b)
           \/ StartAttempt(s, b) \/ AcquireLogin(s, b) \/ AcquireReturn(s, b)
  BY <1>1 DEF Claim, ClaimRefused, Scrub, Begin, Resolve, StartAttempt, AcquireLogin,
              AcquireReturn, stores
<1>2. CASE \/ RevokePending(s, b) \/ Allocate(s, b) \/ Connect(s, b) \/ Deallocate(s, b)
           \/ WorkerDone(s, b) \/ ObserveCancel(s, b) \/ StopCooperatively(s, b)
  BY <1>2 DEF RevokePending, Allocate, Connect, Deallocate, WorkerDone, ObserveCancel,
              StopCooperatively, stores
<1>3. CASE \/ StopByForce(s, b) \/ Release(s, b) \/ Classify(s, b) \/ Retry(s, b)
           \/ WaitForRetry(s, b)
  BY <1>3 DEF StopByForce, Release, Classify, Retry, WaitForRetry, stores
<1>4. CASE Finish(s, b) \/ Return(s, b) \/ HeartbeatTick(s, b) \/ StoreError(s, b)
  BY <1>4 DEF Finish, Return, HeartbeatTick, StoreError, stores
<1> QED BY <1>1, <1>2, <1>3, <1>4 DEF RunStep

\* A watermark never falls and keeps its payload within a generation.
Risen(w, v) == v.gen >= w.gen /\ (v.gen = w.gen => v = w)

\* Whatever lay under a watermark lies under the one that replaces it.
LEMMA UnderRisen ==
  ASSUME NEW w \in Watermark, NEW v \in Watermark, Risen(w, v),
         NEW g \in Nat, NEW d, Under(g, d, w)
  PROVE  Under(g, d, v)
BY DEF Under, Risen, Watermark

\* Every step lets every watermark rise or stay.
LEMMA WatermarksRisen ==
  ASSUME IndInv, [Next]_vars
  PROVE  \A b \in Builds : Risen(watermark[b], watermark'[b])
<1>0. watermark \in [Builds -> Watermark] /\ \A b \in Builds : watermark[b].gen \in Nat
  BY DEF IndInv, TypeRest, Watermark
<1>1. ASSUME watermark' = watermark, NEW b \in Builds PROVE Risen(watermark[b], watermark'[b])
  BY <1>0, <1>1 DEF Risen
<1>2. ASSUME NEW s \in Servers, NEW b \in Builds, Reserve(s, b), NEW c \in Builds
      PROVE  Risen(watermark[c], watermark'[c])
  <2> DEFINE a == run[s][b].asg
  <2>1. CASE watermark' = watermark BY <1>1, <2>1
  <2>2. CASE watermark' = [watermark EXCEPT ![b] = replayEntry(a)] /\ a.gen > watermark[b].gen
             /\ a \in Assignments
    <3>1. a.gen \in Nat BY <2>2, AssignmentAssumption DEF VerifiedAssignment
    <3>2. replayEntry(a).gen = a.gen BY DEF replayEntry
    <3>3. CASE c = b BY <1>0, <2>2, <3>1, <3>2, <3>3 DEF Risen
    <3>4. CASE c # b BY <1>0, <2>2, <3>4 DEF Risen
    <3> QED BY <3>3, <3>4
  <2> QED BY <1>2, <2>1, <2>2, ReserveShape
<1>3. CASE Elsewhere BY <1>1, <1>3 DEF Elsewhere
<1> QED BY <1>1, <1>2, <1>3, StepKinds, StoresStay

\* A watermark only rises, and its payload never changes within a generation:
\* no later call of the replay store can let an older assignment in again.
THEOREM WatermarksRise == Spec => WatermarkRises
<1>1. IndInv /\ [Next]_vars =>
        [\A b \in Builds : watermark'[b] # watermark[b]
                             => watermark'[b].gen > watermark[b].gen]_vars
  <2> SUFFICES ASSUME IndInv, [Next]_vars, NEW b \in Builds, watermark'[b] # watermark[b]
               PROVE  watermark'[b].gen > watermark[b].gen
    OBVIOUS
  <2>1. Risen(watermark[b], watermark'[b]) BY WatermarksRisen
  <2>2. IndInv' BY NextInv
  <2>3. watermark[b].gen \in Nat /\ watermark'[b].gen \in Nat
    BY <2>2 DEF IndInv, TypeRest, Watermark
  <2> QED BY <2>1, <2>3 DEF Risen
<1> QED BY <1>1, Invariance, PTL DEF Spec, WatermarkRises

\* What a nonce is recorded for, and that it is recorded once.
LEMMA NoncesKept ==
  ASSUME IndInv, NoncesRecorded, NonceSingleUse, [Next]_vars
  PROVE  NoncesRecorded' /\ NonceSingleUse'
<1>0. watermark \in [Builds -> Watermark] BY DEF IndInv, TypeRest
<1>1. ASSUME watermark' = watermark, nonces' = nonces PROVE NoncesRecorded' /\ NonceSingleUse'
  BY <1>1 DEF NoncesRecorded, NonceSingleUse
<1>2. ASSUME NEW s \in Servers, NEW b \in Builds, Reserve(s, b)
      PROVE  NoncesRecorded' /\ NonceSingleUse'
  <2> DEFINE a == run[s][b].asg
  <2>1. CASE /\ watermark' = [watermark EXCEPT ![b] = replayEntry(a)]
             /\ nonces' = nonces \cup {a.nonce} /\ a.nonce \notin nonces
    <3>1. watermark'[b].nonce = a.nonce /\ \A c \in Builds : c # b => watermark'[c] = watermark[c]
      BY <1>0, <2>1 DEF replayEntry
    <3>2. NoncesRecorded' BY <2>1, <3>1 DEF NoncesRecorded
    <3>3. \A c \in Builds : c # b /\ watermark'[c].gen > 0 => watermark'[c].nonce # a.nonce
      BY <2>1, <3>1 DEF NoncesRecorded
    <3>4. ASSUME NEW c \in Builds, NEW d \in Builds, c # d,
                 watermark'[c].gen > 0, watermark'[d].gen > 0
          PROVE  watermark'[c].nonce # watermark'[d].nonce
      <4>1. CASE c = b BY <3>1, <3>3, <3>4, <4>1
      <4>2. CASE d = b BY <3>1, <3>3, <3>4, <4>2
      <4>3. CASE c # b /\ d # b BY <3>1, <3>4, <4>3 DEF NonceSingleUse
      <4> QED BY <4>1, <4>2, <4>3
    <3> QED BY <3>2, <3>4 DEF NonceSingleUse
  <2> QED BY <1>1, <1>2, <2>1, ReserveShape
<1>3. CASE Elsewhere BY <1>1, <1>3 DEF Elsewhere
<1> QED BY <1>1, <1>2, <1>3, StepKinds, StoresStay

\* A run that may claim stays under its watermark.
LEMMA ReservedKept ==
  ASSUME IndInv, BlankRuns, ReservedRuns, [Next]_vars
  PROVE  ReservedRuns'
<1>1. \A b \in Builds : Risen(watermark[b], watermark'[b]) BY WatermarksRisen
<1>2. IndInv' BY NextInv
<1>3. /\ watermark \in [Builds -> Watermark] /\ watermark' \in [Builds -> Watermark]
  BY <1>2 DEF IndInv, TypeRest
<1>4. ASSUME NEW t \in Servers, NEW c \in Builds, run[t][c].pc = "claim",
             run'[t][c].asg = run[t][c].asg
      PROVE  Under(run'[t][c].asg.gen, run'[t][c].asg.digest, watermark'[c])
  <2>1. RunOK(run[t][c]) BY DEF IndInv, Core, RunsOK
  <2>2. run[t][c].asg \in Assignments BY <1>4, <2>1 DEF RunOK
  <2>3. run[t][c].asg.gen \in Nat BY <2>2, AssignmentAssumption DEF VerifiedAssignment
  <2>4. Under(run[t][c].asg.gen, run[t][c].asg.digest, watermark[c])
    BY <1>4 DEF ReservedRuns
  <2> QED BY <1>1, <1>3, <1>4, <2>3, <2>4, UnderRisen
<1>5. ASSUME NEW t \in Servers, NEW c \in Builds, run'[t][c].pc = "claim", Elsewhere
      PROVE  Under(run'[t][c].asg.gen, run'[t][c].asg.digest, watermark'[c])
  <2>1. Follows(run[t][c], run'[t][c]) BY <1>5 DEF Elsewhere
  <2>2. run[t][c].pc = "claim" /\ run'[t][c].asg = run[t][c].asg BY <1>5, <2>1 DEF Follows
  <2> QED BY <1>4, <2>2
<1>6. ASSUME NEW t \in Servers, NEW c \in Builds, run'[t][c].pc = "claim",
             NEW s \in Servers, NEW b \in Builds,
             RunStep(s, b) \/ HeartbeatTick(s, b) \/ StoreError(s, b)
      PROVE  Under(run'[t][c].asg.gen, run'[t][c].asg.digest, watermark'[c])
  <2>1. OthersStay(s, b)
        /\ (run'[s][b].pc = "claim" => Reserve(s, b) /\ run'[s][b].asg = run[s][b].asg)
    BY <1>6, StepMoves
  <2>2. CASE t # s \/ c # b
    <3>1. run'[t][c] = run[t][c] BY <2>1, <2>2 DEF OthersStay
    <3> QED BY <1>4, <1>6, <3>1
  <2>3. CASE t = s /\ c = b
    <3> DEFINE a == run[s][b].asg
    <3>1. Reserve(s, b) /\ run'[s][b].asg = a BY <1>6, <2>1, <2>3
    <3>2. /\ a \in Assignments
          /\ \/ /\ watermark' = watermark
                /\ run'[s][b].pc = "claim" => Under(a.gen, a.digest, watermark[b])
             \/ watermark' = [watermark EXCEPT ![b] = replayEntry(a)]
      BY <3>1, ReserveShape
    <3>3. CASE watermark' = [watermark EXCEPT ![b] = replayEntry(a)]
      <4>1. a.gen \in Nat BY <3>2, AssignmentAssumption DEF VerifiedAssignment
      <4>2. watermark'[b] = replayEntry(a) BY <1>3, <3>3
      <4>3. watermark'[b].gen = a.gen /\ watermark'[b].digest = a.digest
        BY <4>2 DEF replayEntry
      <4>4. Under(a.gen, a.digest, watermark'[b]) BY <4>1, <4>3 DEF Under
      <4> QED BY <2>3, <3>1, <4>4
    <3>4. CASE watermark' = watermark /\ Under(a.gen, a.digest, watermark[b])
      <4>1. Under(a.gen, a.digest, watermark'[b]) BY <3>4
      <4> QED BY <2>3, <3>1, <4>1
    <3> QED BY <1>6, <2>3, <3>2, <3>3, <3>4
  <2> QED BY <2>2, <2>3
<1>7. ASSUME NEW t \in Servers, NEW c \in Builds, run'[t][c].pc = "claim"
      PROVE  Under(run'[t][c].asg.gen, run'[t][c].asg.digest, watermark'[c])
  BY <1>5, <1>6, <1>7, StepKinds
<1> QED BY <1>7 DEF ReservedRuns, Under

\* A record stays under its watermark.
LEMMA RecordsReserved ==
  ASSUME IndInv, BlankRuns, ReservedRuns, RecordUnderWatermark, [Next]_vars
  PROVE  RecordUnderWatermark'
<1>1. \A b \in Builds : Risen(watermark[b], watermark'[b]) BY WatermarksRisen
<1>2. IndInv' BY NextInv
<1>3. /\ watermark \in [Builds -> Watermark] /\ watermark' \in [Builds -> Watermark]
      /\ \A b \in Builds : rec[b].gen \in Nat
      /\ RunsOK /\ RecsOK /\ Core
  BY <1>2 DEF IndInv, TypeRest, Core, RecsOK, RunRecord
<1>4. ASSUME NEW c \in Builds, rec[c].phase # "absent",
             rec'[c].gen = rec[c].gen, rec'[c].digest = rec[c].digest
      PROVE  Under(rec'[c].gen, rec'[c].digest, watermark'[c])
  <2>1. Under(rec[c].gen, rec[c].digest, watermark[c])
    BY <1>4 DEF RecordUnderWatermark, Under
  <2> QED BY <1>1, <1>3, <1>4, <2>1, UnderRisen
<1>5. ASSUME NEW c \in Builds, rec'[c].phase # "absent", RecordStays(c)
      PROVE  Under(rec'[c].gen, rec'[c].digest, watermark'[c])
  BY <1>4, <1>5 DEF RecordStays
<1>6. ASSUME NEW s \in Servers, NEW b \in Builds, Claim(s, b), NEW c \in Builds,
             rec'[c].phase # "absent"
      PROVE  Under(rec'[c].gen, rec'[c].digest, watermark'[c])
  <2> DEFINE a == run[s][b].asg
  <2>1. /\ run[s][b].pc = "claim"
        /\ \A d \in Builds : d # b => rec'[d] = rec[d]
        /\ \/ rec'[b].gen = a.gen /\ rec'[b].digest = a.digest
           \/ /\ rec[b].phase = "active"
              /\ rec'[b].gen = rec[b].gen /\ rec'[b].digest = rec[b].digest
    BY <1>3, <1>6, ClaimShape
  <2>2. CASE c # b BY <1>4, <1>6, <2>1, <2>2
  <2>3. CASE c = b /\ rec[b].phase = "active" /\ rec'[b].gen = rec[b].gen
             /\ rec'[b].digest = rec[b].digest
    BY <1>4, <2>3
  <2>4. CASE c = b /\ rec'[b].gen = a.gen /\ rec'[b].digest = a.digest
    <3>1. RunOK(run[s][b]) BY <1>3 DEF RunsOK
    <3>2. a \in Assignments BY <2>1, <3>1 DEF RunOK
    <3>3. a.gen \in Nat BY <3>2, AssignmentAssumption DEF VerifiedAssignment
    <3>4. Under(a.gen, a.digest, watermark[b]) BY <2>1 DEF ReservedRuns
    <3>5. Under(a.gen, a.digest, watermark'[b]) BY <1>1, <1>3, <3>3, <3>4, UnderRisen
    <3> QED BY <2>4, <3>5
  <2> QED BY <2>1, <2>2, <2>3, <2>4
<1>7. ASSUME NEW c \in Builds, rec'[c].phase # "absent"
      PROVE  Under(rec'[c].gen, rec'[c].digest, watermark'[c])
  <2>1. CASE Elsewhere BY <1>5, <1>7, <2>1 DEF Elsewhere
  <2>2. ASSUME NEW s \in Servers, NEW b \in Builds,
               RunStep(s, b) \/ HeartbeatTick(s, b) \/ StoreError(s, b)
        PROVE  Under(rec'[c].gen, rec'[c].digest, watermark'[c])
    <3>1. CASE Claim(s, b) BY <1>6, <1>7, <3>1
    <3>2. CASE ~ Claim(s, b)
      <4>1. RecordStays(c) BY <1>3, <2>2, <3>2, RecordsStay
      <4> QED BY <1>5, <1>7, <4>1
    <3> QED BY <3>1, <3>2
  <2> QED BY <2>1, <2>2, StepKinds
<1> QED BY <1>7 DEF RecordUnderWatermark, Under

\* The replay store covers the run store in every reachable state.
LEMMA ReplayInvariance == Spec => []ReplayInv
<1>1. Init => ReplayInv
  <2> SUFFICES ASSUME Init PROVE ReplayInv OBVIOUS
  <2>1. /\ \A s \in Servers, b \in Builds : run[s][b] = IdleRun
        /\ \A b \in Builds : watermark[b] = NoWatermark /\ rec[b] = NoRecord
    BY DEF Init
  <2>2. NoWatermark.gen = 0 /\ NoRecord.phase = "absent" /\ IdleRun.pc = "idle"
    BY DEF NoWatermark, NoRecord, IdleRun
  <2>3. BlankRuns BY <2>1, IdleBlank DEF BlankRuns
  <2>4. ReservedRuns /\ NoncesRecorded /\ NonceSingleUse /\ RecordUnderWatermark
    BY <2>1, <2>2 DEF ReservedRuns, NoncesRecorded, NonceSingleUse, RecordUnderWatermark
  <2> QED BY <2>3, <2>4, InitInv DEF ReplayInv
<1>2. ReplayInv /\ [Next]_vars => ReplayInv'
  BY NextInv, BlankKept, ReservedKept, NoncesKept, RecordsReserved DEF ReplayInv
<1> QED BY <1>1, <1>2, PTL DEF Spec

\* No two builds are ever admitted under one nonce.
THEOREM NoncesAreSingleUse == Spec => []NonceSingleUse
<1>1. ReplayInv => NonceSingleUse BY DEF ReplayInv
<1> QED BY <1>1, ReplayInvariance, PTL

\* What runs in a cell was reserved in it: the replay store is never behind
\* the run store and agrees with it on the payload of a generation.
THEOREM RecordsAreReserved == Spec => []RecordUnderWatermark
<1>1. ReplayInv => RecordUnderWatermark BY DEF ReplayInv
<1> QED BY <1>1, ReplayInvariance, PTL

-----------------------------------------------------------------------------
(* The Kubernetes resources of an attempt.                                 *)

\* No resources exist for an attempt that is not durable yet.
WorkersCounted ==
  \A b \in Builds : /\ \A n \in workers[b] : n <= rec[b].attempt
                    /\ rec[b].phase = "absent" => workers[b] = {}

\* Only Allocate and Connect add resources, and those of their own attempt.
LEMMA WorkersChange ==
  ASSUME TypeRest, NEW s \in Servers, NEW b \in Builds,
         RunStep(s, b) \/ HeartbeatTick(s, b) \/ StoreError(s, b)
  PROVE  LET r == run[s][b]
         IN  /\ \A c \in Builds : c # b => workers'[c] = workers[c]
             /\ \/ workers'[b] \subseteq workers[b]
                \/ r.pc \in {"allocate", "connect"} /\ workers'[b] \subseteq {r.attempt}
             /\ r.pc \notin {"scrub", "allocate", "connect", "stopping", "release"}
                  => workers' = workers
<1> DEFINE r == run[s][b]
<1>0. workers \in [Builds -> SUBSET Attempts] BY DEF TypeRest
<1>1. CASE workers' = workers BY <1>1
<1>2. CASE Scrub(s, b) BY <1>0, <1>2 DEF Scrub
<1>3. CASE Allocate(s, b) BY <1>0, <1>3 DEF Allocate
<1>4. CASE Connect(s, b)
  <2>1. r.pc = "connect" BY <1>4 DEF Connect
  <2>2. CASE workers' = workers BY <2>2
  <2>3. ASSUME NEW left \in SUBSET {r.attempt}, workers' = [workers EXCEPT ![b] = left]
        PROVE  /\ workers'[b] \subseteq {r.attempt}
               /\ \A c \in Builds : c # b => workers'[c] = workers[c]
    BY <1>0, <2>3
  <2> QED BY <1>4, <2>1, <2>2, <2>3 DEF Connect
<1>5. CASE StopByForce(s, b)
  <2>1. r.pc = "stopping"
        /\ \E left \in SUBSET {r.attempt} :
             workers' = [workers EXCEPT ![b] = (@ \ {r.attempt}) \cup (@ \cap left)]
    BY <1>5 DEF StopByForce
  <2> QED BY <1>0, <2>1
<1>6. CASE Release(s, b)
  <2>1. r.pc = "release"
        /\ (\/ workers' = workers
            \/ \E left \in SUBSET {r.attempt} :
                 workers' = [workers EXCEPT ![b] = (@ \ {r.attempt}) \cup (@ \cap left)])
    BY <1>6 DEF Release
  <2> QED BY <1>0, <2>1
<1>7. CASE \/ Reserve(s, b) \/ Claim(s, b) \/ ClaimRefused(s, b) \/ Begin(s, b) \/ Resolve(s, b)
           \/ StartAttempt(s, b) \/ AcquireLogin(s, b) \/ AcquireReturn(s, b)
  BY <1>1, <1>7 DEF Reserve, Claim, ClaimRefused, Begin, Resolve, StartAttempt, AcquireLogin,
                    AcquireReturn, outside
<1>8. CASE \/ RevokePending(s, b) \/ Deallocate(s, b) \/ WorkerDone(s, b)
           \/ ObserveCancel(s, b) \/ StopCooperatively(s, b) \/ Classify(s, b)
  BY <1>1, <1>8 DEF RevokePending, Deallocate, WorkerDone, ObserveCancel, StopCooperatively,
                    Classify, outside
<1>9. CASE \/ Retry(s, b) \/ WaitForRetry(s, b) \/ Finish(s, b) \/ Return(s, b)
           \/ HeartbeatTick(s, b) \/ StoreError(s, b)
  BY <1>1, <1>9 DEF Retry, WaitForRetry, Finish, Return, HeartbeatTick, StoreError, outside
<1> QED BY <1>2, <1>3, <1>4, <1>5, <1>6, <1>7, <1>8, <1>9 DEF RunStep

\* No resources exist for an attempt that is not durable yet, after any step.
LEMMA WorkersCountedKept ==
  ASSUME IndInv, BlankRuns, WorkersCounted, [Next]_vars
  PROVE  WorkersCounted'
<1>0. Core /\ RunsOK /\ RecsOK /\ TypeRest BY DEF IndInv, Core
<1>t. /\ \A c \in Builds : rec[c].attempt \in Nat /\ rec'[c].attempt \in Nat
      /\ \A c \in Builds : workers[c] \subseteq Nat /\ workers'[c] \subseteq Nat
  <2>1. IndInv' BY NextInv
  <2> QED BY <2>1 DEF IndInv, Core, RecsOK, RunRecord, TypeRest, Attempts
<1>1. ASSUME NEW c \in Builds, RecordStays(c), workers'[c] \subseteq workers[c]
      PROVE  /\ \A n \in workers'[c] : n <= rec'[c].attempt
             /\ rec'[c].phase = "absent" => workers'[c] = {}
  BY <1>t, <1>1 DEF RecordStays, WorkersCounted
<1>2. CASE Elsewhere BY <1>1, <1>2 DEF Elsewhere, WorkersCounted
<1>3. ASSUME NEW s \in Servers, NEW b \in Builds,
             RunStep(s, b) \/ HeartbeatTick(s, b) \/ StoreError(s, b), NEW c \in Builds
      PROVE  /\ \A n \in workers'[c] : n <= rec'[c].attempt
             /\ rec'[c].phase = "absent" => workers'[c] = {}
  <2> DEFINE r == run[s][b]
  <2>1. CASE Claim(s, b)
    <3>1. workers' = workers BY <2>1 DEF Claim, outside
    <3>2. /\ rec'[b].phase = "active"
          /\ \A d \in Builds : d # b => rec'[d] = rec[d]
          /\ rec[b].phase = "absent" \/ rec'[b].attempt = rec[b].attempt
      BY <1>0, <2>1, ClaimShape
    <3>3. CASE c = b BY <3>1, <3>2, <3>3 DEF WorkersCounted
    <3>4. CASE c # b BY <3>1, <3>2, <3>4 DEF WorkersCounted
    <3> QED BY <3>3, <3>4
  <2>2. CASE ~ Claim(s, b)
    <3>1. RecordStays(c) BY <1>0, <1>3, <2>2, RecordsStay
    <3>2. CASE c # b BY <1>0, <1>1, <1>3, <3>1, <3>2, WorkersChange
    <3>3. CASE c = b /\ workers'[b] \subseteq workers[b] BY <1>1, <3>1, <3>3
    <3>4. CASE c = b /\ r.pc \in {"allocate", "connect"} /\ workers'[b] \subseteq {r.attempt}
      <4>1. r.attempt <= rec[b].attempt /\ rec[b].phase # "absent"
        BY <1>0, <3>4 DEF Core, NotAhead, OwnerRecorded, AttemptPcs, OwnerPcs
      <4>2. r.attempt \in Nat BY <1>0, ControlAssumption DEF RunsOK, Run
      <4>3. rec'[b].attempt >= rec[b].attempt /\ rec'[b].phase # "absent"
        BY <3>1, <3>4, <4>1 DEF RecordStays
      <4>4. r.attempt <= rec'[b].attempt BY <1>t, <4>1, <4>2, <4>3
      <4> QED BY <3>4, <4>3, <4>4
    <3> QED BY <1>0, <1>3, <3>2, <3>3, <3>4, WorkersChange
  <2> QED BY <2>1, <2>2
<1> QED BY <1>2, <1>3, StepKinds DEF WorkersCounted

\* The places at which an attempt has a number and nothing that bears it.
Unallocated == {"acquire", "acquiring", "allocate"}

\* How a run gets there.
LEMMA UnallocatedMoves ==
  ASSUME IndInv, BlankRuns, NEW s \in Servers, NEW b \in Builds,
         RunStep(s, b) \/ HeartbeatTick(s, b) \/ StoreError(s, b),
         run'[s][b].pc \in Unallocated
  PROVE  LET r == run[s][b]
         IN  /\ workers' = workers /\ run'[s][b].attempt = r.attempt
             /\ \/ r.pc \in Unallocated
                \/ r.pc = "attempt" /\ HeartbeatAllowed(rec[b], r.owner, r.attempt)
<1> DEFINE r == run[s][b]
           q == run'[s][b]
<1>0. RunsOK /\ RecsOK /\ TypeRest BY DEF IndInv, Core
<1>u. "idle" \notin Unallocated /\ "done" \notin Unallocated /\ "finish" \notin Unallocated
      /\ "begin" \notin Unallocated
  BY DEF Unallocated
<1>1. CASE StartAttempt(s, b)
  <2>1. r.pc = "attempt" /\ workers' = workers BY <1>1 DEF StartAttempt, outside
  <2>2. Done(q) \/ Short(r, q) \/ On(r, q, "acquire") BY <1>0, <1>1, EarlyShapes
  <2>3. q.attempt = r.attempt BY <1>u, <2>2 DEF Done, Short, On
  <2>4. HeartbeatAllowed(rec[b], r.owner, r.attempt)
    <3>1. CASE r.cancel
      <4> DEFINE h == [r EXCEPT !.pc = "finish", !.result = "canceled", !.attempt = r.attempt - 1]
      <4>1. r \in Run /\ run \in [Servers -> [Builds -> Run]] BY <1>0 DEF RunsOK
      <4>2. h.pc = "finish" BY <4>1 DEF Run
      <4>3. run' = [run EXCEPT ![s][b] = h] BY <1>1, <3>1 DEF StartAttempt, Become
      <4> HIDE DEF h
      <4>4. q = h BY <4>1, <4>3
      <4> QED BY <1>u, <4>2, <4>4
    <3>2. CASE ~ r.cancel /\ ~ HeartbeatAllowed(rec[b], r.owner, r.attempt)
      <4>1. Leave(s, b) BY <1>1, <3>2 DEF StartAttempt, Update
      <4>2. q.pc = "done" BY <1>0, <2>1, <4>1, LeaveShape
      <4> QED BY <1>u, <4>2
    <3> QED BY <3>1, <3>2
  <2> QED BY <2>1, <2>3, <2>4
<1>2. CASE AcquireLogin(s, b)
  <2>1. r.pc = "acquire" /\ workers' = workers BY <1>2 DEF AcquireLogin
  <2>2. Short(r, q) \/ On(r, q, "acquiring") BY <1>0, <1>2, EarlyShapes
  <2> QED BY <1>u, <2>1, <2>2 DEF Short, On, Unallocated
<1>3. CASE AcquireReturn(s, b)
  <2>1. r.pc = "acquiring" /\ workers' = workers BY <1>3 DEF AcquireReturn
  <2>2. \/ Short(r, q) \/ On(r, q, "allocate") \/ On(r, q, "pending")
    BY <1>0, <1>3, EarlyShapes
  <2> QED BY <1>u, <2>1, <2>2 DEF Short, On, Unallocated
<1>4. CASE Reserve(s, b) \/ Claim(s, b)
  <2>1. q.pc \in {"done", "claim", "begin", "scrub"} BY <1>0, <1>4, EarlyShapes, ClaimShape
  <2> QED BY <2>1 DEF Unallocated
<1>5. CASE \/ ClaimRefused(s, b) \/ Scrub(s, b) \/ Begin(s, b) \/ Resolve(s, b)
           \/ RevokePending(s, b)
  <2>1. q.pc \in {"done", "finish", "begin", "resolve", "attempt"}
    BY <1>0, <1>5, EarlyShapes DEF Done, Short, On, Head
  <2> QED BY <2>1 DEF Unallocated
<1>6. CASE \/ Allocate(s, b) \/ Connect(s, b) \/ Deallocate(s, b) \/ ObserveCancel(s, b)
           \/ StoreError(s, b) \/ Retry(s, b) \/ WaitForRetry(s, b) \/ Finish(s, b)
           \/ Return(s, b)
  <2>1. q.pc \in {"done", "finish", "connect", "dealloc", "executing", "stopping", "wait",
                  "attempt", "idle"}
    BY <1>0, <1>6, WorkerShapes DEF Done, Short, On, Head
  <2> QED BY <2>1 DEF Unallocated
<1>7. CASE HeartbeatTick(s, b)
  <2>1. run' = run \/ On(r, q, "stopping") BY <1>0, <1>7, WorkerShapes
  <2>2. r.pc = "executing" BY <1>7 DEF HeartbeatTick
  <2>3. q.pc \in {"executing", "stopping"} BY <2>1, <2>2 DEF On
  <2> QED BY <2>3 DEF Unallocated
<1>8. CASE \/ WorkerDone(s, b) \/ StopCooperatively(s, b) \/ StopByForce(s, b) \/ Release(s, b)
           \/ Classify(s, b)
  <2>1. q.pc \in {"release", "revoke", "done", "finish", "retry"}
    BY <1>0, <1>8, ExecutionShapes DEF Done, Short, On
  <2> QED BY <2>1 DEF Unallocated
<1> QED BY <1>1, <1>2, <1>3, <1>4, <1>5, <1>6, <1>7, <1>8 DEF RunStep

\* An attempt that has allocated nothing finds nothing under its name, whoever
\* else is at work on the build.
LEMMA FreshKept ==
  ASSUME IndInv, BlankRuns, WorkersCounted, FreshAttempt, [Next]_vars
  PROVE  FreshAttempt'
<1>0. Core /\ RunsOK /\ RecsOK /\ TypeRest BY DEF IndInv, Core
<1>1. ASSUME NEW t \in Servers, NEW c \in Builds, run'[t][c].pc \in Unallocated, Elsewhere
      PROVE  run'[t][c].attempt \notin workers'[c]
  <2>1. Follows(run[t][c], run'[t][c]) /\ workers' = workers BY <1>1 DEF Elsewhere
  <2>2. run[t][c].pc \in Unallocated /\ run'[t][c].attempt = run[t][c].attempt
    BY <1>1, <2>1 DEF Follows, Unallocated
  <2> QED BY <2>1, <2>2 DEF FreshAttempt, Unallocated
<1>2. ASSUME NEW t \in Servers, NEW c \in Builds, run'[t][c].pc \in Unallocated,
             NEW s \in Servers, NEW b \in Builds,
             RunStep(s, b) \/ HeartbeatTick(s, b) \/ StoreError(s, b)
      PROVE  run'[t][c].attempt \notin workers'[c]
  <2> DEFINE r == run[s][b]
  <2>0. OthersStay(s, b) BY <1>2, StepMoves
  <2>1. CASE t = s /\ c = b
    <3>1. /\ workers' = workers /\ run'[s][b].attempt = r.attempt
          /\ \/ r.pc \in Unallocated
             \/ r.pc = "attempt" /\ HeartbeatAllowed(rec[b], r.owner, r.attempt)
      BY <1>2, <2>1, UnallocatedMoves
    <3>2. CASE r.pc \in Unallocated BY <2>1, <3>1, <3>2 DEF FreshAttempt, Unallocated
    <3>3. CASE r.pc = "attempt" /\ HeartbeatAllowed(rec[b], r.owner, r.attempt)
      <4>1. rec[b].attempt = r.attempt - 1
        BY <1>0, <3>3 DEF HeartbeatAllowed, Core, OwnerRecorded, OwnerPcs, Num
      <4>2. r.attempt \in Nat BY <1>0, ControlAssumption DEF RunsOK, Run
      <4>3. \A n \in workers[b] : n <= rec[b].attempt BY DEF WorkersCounted
      <4>4. r.attempt \notin workers[b] BY <4>1, <4>2, <4>3
      <4> QED BY <2>1, <3>1, <4>4
    <3> QED BY <3>1, <3>2, <3>3
  <2>2. CASE t # s \/ c # b
    <3>1. run'[t][c] = run[t][c] BY <2>0, <2>2 DEF OthersStay
    <3>2. run[t][c].attempt \notin workers[c] BY <1>2, <3>1 DEF FreshAttempt, Unallocated
    <3>3. CASE c # b BY <1>0, <1>2, <3>1, <3>2, <3>3, WorkersChange
    <3>4. CASE c = b /\ workers'[b] \subseteq workers[b] BY <3>1, <3>2, <3>4
    <3>5. CASE c = b /\ r.pc \in {"allocate", "connect"} /\ workers'[b] \subseteq {r.attempt}
      <4>1. r.pc \in AttemptPcs /\ run[t][b].pc \in AttemptPcs
        BY <1>2, <3>1, <3>5 DEF AttemptPcs, Unallocated
      <4>2. run[t][b].attempt # r.attempt
        BY <1>0, <2>2, <3>5, <4>1 DEF Core, AttemptExclusive
      <4> QED BY <3>1, <3>5, <4>2
    <3> QED BY <1>0, <1>2, <3>3, <3>4, <3>5, WorkersChange
  <2> QED BY <2>1, <2>2
<1>3. ASSUME NEW t \in Servers, NEW c \in Builds, run'[t][c].pc \in Unallocated
      PROVE  run'[t][c].attempt \notin workers'[c]
  BY <1>1, <1>2, <1>3, StepKinds
<1> QED BY <1>3 DEF FreshAttempt, Unallocated

\* An attempt never finds resources of its own name when it allocates, however
\* many processes work on the build and whatever they have left behind.
THEOREM AttemptsAreFresh == Spec => []FreshAttempt
<1>1. Init => WorkersCounted /\ FreshAttempt
  BY DEF Init, WorkersCounted, FreshAttempt
<1>2. ReplayInv /\ WorkersCounted /\ FreshAttempt /\ [Next]_vars
        => WorkersCounted' /\ FreshAttempt'
  BY WorkersCountedKept, FreshKept DEF ReplayInv
<1> QED BY <1>1, <1>2, ReplayInvariance, PTL DEF Spec

-----------------------------------------------------------------------------
(* One process.                                                            *)

\* What a run of build b knows of its owner o in the record, of the resources
\* w of the build and of the scratch directories c in its process's care.
CleanRun(r, b, o, w, c) ==
  /\ r.pc \in OwnerPcs => r.owner = o
  /\ r.pc \in BeforeWorker => w = {}
  /\ r.pc \in WithWorker => w \subseteq {r.attempt}
  /\ r.pc = "release" /\ r.forced /\ r.clean => w = {}
  /\ r.pc = "revoke" /\ r.clean => w = {}
  /\ r.pc \in {"release", "revoke"} /\ r.outcome = "complete" => b \notin c
  /\ r.pc = "finish" /\ r.result = "complete" => w = {} /\ b \notin c

CleanRuns ==
  \A s \in Servers, b \in Builds :
    CleanRun(run[s][b], b, rec[b].owner, workers[b], Unscrubbed(s))

CleanRecords ==
  \A s \in Servers, b \in Builds :
    rec[b].phase \in {"absent", "complete"} => workers[b] = {} /\ b \notin Unscrubbed(s)

\* Scratch and executors that a step leaves alone.
LEMMA UnscrubbedStays ==
  ASSUME scratch' = scratch, leaked' = leaked, NEW s \in Servers
  PROVE  Unscrubbed(s)' = Unscrubbed(s)
BY DEF Unscrubbed

\* The shapes of a run that is clean after its step.
LEMMA CleanShapes ==
  ASSUME NEW r, NEW q, NEW b, NEW o, NEW w, NEW c
  PROVE  /\ q.pc \notin OwnerPcs => CleanRun(q, b, o, w, c)
         /\ Short(r, q) /\ r.owner = o => CleanRun(q, b, o, w, c)
         /\ Head(r, q) /\ r.owner = o /\ w = {} => CleanRun(q, b, o, w, c)
         /\ \A p \in BeforeWorker : On(r, q, p) /\ r.owner = o /\ w = {}
              => CleanRun(q, b, o, w, c)
         /\ \A p \in WithWorker \ {"release"} :
              On(r, q, p) /\ r.owner = o /\ w \subseteq {r.attempt} => CleanRun(q, b, o, w, c)
         /\ On(r, q, "dealloc") /\ r.owner = o => CleanRun(q, b, o, w, c)
BY DEF CleanRun, Short, Head, On, OwnerPcs, AttemptPcs, BeforeWorker, WithWorker

\* A step of a run that is no claim keeps the owner of its record.
LEMMA OwnerStays ==
  ASSUME IndInv, CleanRuns, NEW s \in Servers, NEW b \in Builds,
         RunStep(s, b) \/ HeartbeatTick(s, b) \/ StoreError(s, b), ~ Claim(s, b)
  PROVE  /\ rec'[b].owner = rec[b].owner
         /\ run[s][b].pc \in OwnerPcs => run[s][b].owner = rec'[b].owner
<1>1. Core BY DEF IndInv
<1>2. RecordStays(b) BY <1>1, RecordsStay
<1> QED BY <1>2 DEF RecordStays, CleanRuns, CleanRun

\* Before a worker exists.
LEMMA CleanEarly ==
  ASSUME IndInv, BlankRuns, CleanRuns, NEW s \in Servers, NEW b \in Builds,
         \/ Reserve(s, b) \/ ClaimRefused(s, b) \/ Scrub(s, b) \/ Begin(s, b) \/ Resolve(s, b)
         \/ StartAttempt(s, b) \/ AcquireLogin(s, b) \/ AcquireReturn(s, b)
         \/ RevokePending(s, b)
  PROVE  CleanRun(run'[s][b], b, rec'[b].owner, workers'[b], Unscrubbed(s)')
<1> DEFINE r == run[s][b]
           q == run'[s][b]
           o == rec'[b].owner
           w == workers'[b]
           c == Unscrubbed(s)'
<1>0. RunsOK /\ RecsOK /\ TypeRest BY DEF IndInv, Core
<1>p. /\ "done" \notin OwnerPcs /\ "claim" \notin OwnerPcs
      /\ {"scrub", "begin", "resolve", "attempt", "acquire", "acquiring", "pending"}
           \subseteq OwnerPcs
      /\ {"begin", "resolve", "attempt", "acquire", "acquiring", "pending", "allocate"}
           \subseteq BeforeWorker
  BY DEF OwnerPcs, AttemptPcs, BeforeWorker
<1>k. ~ Claim(s, b) /\ r.pc \in OwnerPcs => r.owner = o
  BY OwnerStays DEF RunStep
<1>b. r.pc \in BeforeWorker => workers[b] = {} BY DEF CleanRuns, CleanRun
<1>1. CASE Reserve(s, b) \/ ClaimRefused(s, b)
  <2>1. q.pc \notin OwnerPcs BY <1>0, <1>p, <1>1, EarlyShapes DEF Done
  <2> HIDE DEF q, o, w, c
  <2> QED BY <2>1, CleanShapes DEF q, o, w, c
<1>2. CASE Scrub(s, b)
  <2>1. r.pc = "scrub" /\ ~ Claim(s, b) BY <1>2 DEF Scrub, Claim
  <2>2. r.owner = o BY <1>k, <1>p, <2>1
  <2>3. workers'[b] = {} \/ Conclude(s, b, "quarantined")
    BY <1>0, <1>2 DEF Scrub, TypeRest
  <2>4. CASE workers'[b] = {}
    <3>1. Short(r, q) \/ On(r, q, "begin") BY <1>0, <1>2, EarlyShapes
    <3>2. w = {} BY <2>4
    <3> HIDE DEF q, o, w, c
    <3>3. CleanRun(q, b, o, w, c) BY <1>p, <2>2, <3>1, <3>2, CleanShapes
    <3> QED BY <3>3 DEF q, o, w, c
  <2>5. CASE Conclude(s, b, "quarantined")
    <3>1. Short(r, q) BY <1>0, <2>5, ConcludeShort
    <3> HIDE DEF q, o, w, c
    <3>2. CleanRun(q, b, o, w, c) BY <2>2, <3>1, CleanShapes
    <3> QED BY <3>2 DEF q, o, w, c
  <2> QED BY <2>3, <2>4, <2>5
<1>3. CASE \/ Begin(s, b) \/ Resolve(s, b) \/ StartAttempt(s, b) \/ AcquireLogin(s, b)
           \/ AcquireReturn(s, b) \/ RevokePending(s, b)
  <2>1. /\ r.pc \in {"begin", "resolve", "attempt", "acquire", "acquiring", "pending"}
        /\ workers' = workers /\ ~ Claim(s, b)
    BY <1>3 DEF Begin, Resolve, StartAttempt, AcquireLogin, AcquireReturn, RevokePending, Claim,
                outside
  <2>2. r.owner = o /\ w = {} BY <1>k, <1>b, <1>p, <2>1
  <2>3. \/ Done(q) \/ Short(r, q) \/ Head(r, q)
        \/ \E p \in {"resolve", "acquire", "acquiring", "allocate", "pending"} : On(r, q, p)
    BY <1>0, <1>3, EarlyShapes
  <2> HIDE DEF q, o, w, c
  <2>4. CleanRun(q, b, o, w, c) BY <1>p, <2>2, <2>3, CleanShapes DEF Done
  <2> QED BY <2>4 DEF q, o, w, c
<1> QED BY <1>1, <1>2, <1>3

\* While a worker may exist, and after its attempt is classified.
LEMMA CleanWorker ==
  ASSUME IndInv, BlankRuns, CleanRuns, NEW s \in Servers, NEW b \in Builds,
         \/ Allocate(s, b) \/ Connect(s, b) \/ Deallocate(s, b) \/ ObserveCancel(s, b)
         \/ HeartbeatTick(s, b) \/ StoreError(s, b) \/ Retry(s, b) \/ WaitForRetry(s, b)
         \/ Finish(s, b) \/ Return(s, b)
  PROVE  CleanRun(run'[s][b], b, rec'[b].owner, workers'[b], Unscrubbed(s)')
<1> DEFINE r == run[s][b]
           q == run'[s][b]
           o == rec'[b].owner
           w == workers'[b]
           c == Unscrubbed(s)'
<1>0. RunsOK /\ RecsOK /\ TypeRest BY DEF IndInv, Core
<1>p. /\ "done" \notin OwnerPcs /\ "idle" \notin OwnerPcs
      /\ {"allocate", "connect", "dealloc", "executing", "retry", "wait"} \subseteq OwnerPcs
      /\ {"allocate", "retry", "wait"} \subseteq BeforeWorker
      /\ {"connect", "executing", "stopping"} \subseteq WithWorker \ {"release"}
  BY DEF OwnerPcs, AttemptPcs, BeforeWorker, WithWorker
<1>k. ~ Claim(s, b) /\ r.pc \in OwnerPcs => r.owner = o
  BY OwnerStays DEF RunStep
<1>b. r.pc \in BeforeWorker => workers[b] = {} BY DEF CleanRuns, CleanRun
<1>w. r.pc \in WithWorker => workers[b] \subseteq {r.attempt} BY DEF CleanRuns, CleanRun
<1>1. CASE Allocate(s, b)
  <2>1. r.pc = "allocate" /\ ~ Claim(s, b) BY <1>1 DEF Allocate, Claim
  <2>2. r.owner = o BY <1>k, <1>p, <2>1
  <2>3. On(r, q, "connect") \/ On(r, q, "dealloc") BY <1>0, <1>1, WorkerShapes
  <2>4. w \subseteq {r.attempt}
    <3>1. workers[b] = {} BY <1>b, <1>p, <2>1
    <3> QED BY <1>0, <1>1, <3>1 DEF Allocate, TypeRest
  <2> HIDE DEF q, o, w, c
  <2>5. CleanRun(q, b, o, w, c) BY <1>p, <2>2, <2>3, <2>4, CleanShapes
  <2> QED BY <2>5 DEF q, o, w, c
<1>2. CASE Connect(s, b)
  <2>1. r.pc = "connect" /\ ~ Claim(s, b) BY <1>2 DEF Connect, Claim
  <2>2. r.owner = o BY <1>k, <1>p, <2>1
  <2>3. On(r, q, "executing") \/ On(r, q, "dealloc") BY <1>0, <1>2, WorkerShapes
  <2>4. w \subseteq {r.attempt}
    <3>1. workers[b] \subseteq {r.attempt} BY <1>w, <1>p, <2>1
    <3>2. \/ workers' = workers
          \/ \E left \in SUBSET {r.attempt} : workers' = [workers EXCEPT ![b] = left]
      BY <1>2 DEF Connect
    <3> QED BY <1>0, <3>1, <3>2 DEF TypeRest
  <2> HIDE DEF q, o, w, c
  <2>5. CleanRun(q, b, o, w, c) BY <1>p, <2>2, <2>3, <2>4, CleanShapes
  <2> QED BY <2>5 DEF q, o, w, c
<1>3. CASE Deallocate(s, b)
  <2>1. r.pc = "dealloc" /\ ~ Claim(s, b) BY <1>3 DEF Deallocate, Claim
  <2>2. r.owner = o BY <1>k, <1>p, <2>1
  <2>3. Short(r, q) BY <1>0, <1>3, WorkerShapes
  <2> HIDE DEF q, o, w, c
  <2>4. CleanRun(q, b, o, w, c) BY <2>2, <2>3, CleanShapes
  <2> QED BY <2>4 DEF q, o, w, c
<1>4. CASE ObserveCancel(s, b) \/ HeartbeatTick(s, b)
  <2>1. r.pc = "executing" /\ workers' = workers /\ scratch' = scratch /\ ~ Claim(s, b)
    BY <1>4 DEF ObserveCancel, HeartbeatTick, Claim, outside
  <2>2. r.owner = o /\ w \subseteq {r.attempt} BY <1>k, <1>p, <1>w, <2>1
  <2>3. run' = run \/ On(r, q, "stopping") BY <1>0, <1>4, WorkerShapes
  <2>4. CASE run' = run
    <3>1. On(r, q, "executing") BY <2>1, <2>4 DEF On, BlankRuns
    <3> HIDE DEF q, o, w, c
    <3>2. CleanRun(q, b, o, w, c) BY <1>p, <2>2, <3>1, CleanShapes
    <3> QED BY <3>2 DEF q, o, w, c
  <2>5. CASE On(r, q, "stopping")
    <3> HIDE DEF q, o, w, c
    <3>1. CleanRun(q, b, o, w, c) BY <1>p, <2>2, <2>5, CleanShapes
    <3> QED BY <3>1 DEF q, o, w, c
  <2> QED BY <2>3, <2>4, <2>5
<1>5. CASE StoreError(s, b)
  <2>1. Done(q) \/ On(r, q, "stopping") BY <1>0, <1>5, WorkerShapes
  <2>2. CASE Done(q)
    <3> HIDE DEF q, o, w, c
    <3>1. CleanRun(q, b, o, w, c) BY <1>p, <2>2, CleanShapes DEF Done
    <3> QED BY <3>1 DEF q, o, w, c
  <2>3. CASE On(r, q, "stopping")
    <3>1. r.pc = "executing"
      <4>1. \/ r.pc = "executing"
            \/ r.pc # "idle" /\ Leave(s, b)
        BY <1>5 DEF StoreError
      <4>2. q.pc # "done" BY <2>3 DEF On
      <4> QED BY <1>0, <4>1, <4>2, LeaveShape
    <3>2. workers' = workers /\ rec' = rec BY <1>5 DEF StoreError, outside
    <3>3. r.owner = o /\ w \subseteq {r.attempt}
      BY <1>p, <1>w, <3>1, <3>2 DEF CleanRuns, CleanRun
    <3> HIDE DEF q, o, w, c
    <3>4. CleanRun(q, b, o, w, c) BY <1>p, <2>3, <3>3, CleanShapes
    <3> QED BY <3>4 DEF q, o, w, c
  <2> QED BY <2>1, <2>2, <2>3
<1>6. CASE Retry(s, b) \/ WaitForRetry(s, b)
  <2>1. r.pc \in {"retry", "wait"} /\ workers' = workers /\ ~ Claim(s, b)
    BY <1>6 DEF Retry, WaitForRetry, Claim, outside
  <2>2. r.owner = o /\ w = {} BY <1>k, <1>p, <1>b, <2>1
  <2>3. Done(q) \/ Short(r, q) \/ Head(r, q) \/ On(r, q, "wait") BY <1>0, <1>6, WorkerShapes
  <2> HIDE DEF q, o, w, c
  <2>4. CleanRun(q, b, o, w, c) BY <1>p, <2>2, <2>3, CleanShapes DEF Done
  <2> QED BY <2>4 DEF q, o, w, c
<1>7. CASE Finish(s, b) \/ Return(s, b)
  <2>1. q.pc \notin OwnerPcs BY <1>0, <1>7, <1>p, WorkerShapes DEF Done
  <2> HIDE DEF q, o, w, c
  <2>2. CleanRun(q, b, o, w, c) BY <2>1, CleanShapes
  <2> QED BY <2>2 DEF q, o, w, c
<1> QED BY <1>1, <1>2, <1>3, <1>4, <1>5, <1>6, <1>7

\* Between an execution and the classification of its attempt: what the run
\* takes for clean is gone.
LEMMA CleanExecution ==
  ASSUME IndInv, BlankRuns, CleanRuns, NEW s \in Servers, NEW b \in Builds,
         \/ WorkerDone(s, b) \/ StopCooperatively(s, b) \/ StopByForce(s, b) \/ Release(s, b)
         \/ Classify(s, b)
  PROVE  CleanRun(run'[s][b], b, rec'[b].owner, workers'[b], Unscrubbed(s)')
<1> DEFINE r == run[s][b]
           q == run'[s][b]
           o == rec'[b].owner
           w == workers'[b]
           c == Unscrubbed(s)'
<1>0. RunsOK /\ RecsOK /\ TypeRest BY DEF IndInv, Core
<1>p. /\ {"executing", "stopping", "release", "revoke"} \subseteq OwnerPcs
      /\ {"executing", "stopping", "release"} \subseteq WithWorker
      /\ "revoke" \notin WithWorker /\ "revoke" \notin BeforeWorker
      /\ "release" \notin BeforeWorker /\ "retry" \in BeforeWorker /\ "done" \notin OwnerPcs
      /\ "finish" \notin BeforeWorker /\ "finish" \notin WithWorker
  BY DEF OwnerPcs, AttemptPcs, BeforeWorker, WithWorker
<1>1. /\ r.pc \in {"executing", "stopping", "release", "revoke"} /\ rec' = rec
  BY DEF WorkerDone, StopCooperatively, StopByForce, Release, Classify
<1>2. /\ r.owner = o
      /\ r.pc \in WithWorker => workers[b] \subseteq {r.attempt}
      /\ r.pc = "release" /\ r.forced /\ r.clean => workers[b] = {}
      /\ r.pc = "revoke" /\ r.clean => workers[b] = {}
      /\ r.pc \in {"release", "revoke"} /\ r.outcome = "complete" => b \notin Unscrubbed(s)
  BY <1>p, <1>1 DEF CleanRuns, CleanRun
<1>3. CASE WorkerDone(s, b)
  <2>1. r.pc = "executing" /\ workers' = workers BY <1>3 DEF WorkerDone
  <2>2. /\ q.owner = r.owner /\ q.attempt = r.attempt /\ q.pc = "release" /\ q.forced = FALSE
        /\ q.outcome = "complete" => b \notin scratch'[s]
    BY <1>0, <1>3, ExecutionShapes
  <2>3. q.outcome = "complete" => b \notin c BY <2>2 DEF Unscrubbed
  <2> QED BY <1>2, <1>p, <2>1, <2>2, <2>3 DEF CleanRun
<1>4. CASE StopCooperatively(s, b)
  <2>1. r.pc = "stopping" /\ workers' = workers BY <1>4 DEF StopCooperatively
  <2>2. q.owner = r.owner /\ q.attempt = r.attempt /\ q.pc = "release" /\ Blank(q)
    BY <1>0, <1>4, ExecutionShapes
  <2> QED BY <1>2, <1>p, <2>1, <2>2 DEF CleanRun, Blank
<1>5. CASE StopByForce(s, b)
  <2>1. r.pc = "stopping" BY <1>5 DEF StopByForce
  <2>2. /\ q.owner = r.owner /\ q.attempt = r.attempt /\ q.pc = "release" /\ q.outcome = "failed"
        /\ q.clean => w = workers[b] \ {r.attempt}
    BY <1>0, <1>5, ExecutionShapes
  <2>3. workers[b] \subseteq {r.attempt} BY <1>2, <1>p, <2>1
  <2>4. w \subseteq workers[b]
    <3>1. \/ workers'[b] \subseteq workers[b]
          \/ r.pc \in {"allocate", "connect"}
      BY <1>0, <1>5, WorkersChange DEF RunStep
    <3> QED BY <2>1, <3>1
  <2>5. w \subseteq {q.attempt} /\ (q.clean => w = {}) BY <2>2, <2>3, <2>4
  <2> QED BY <1>2, <1>p, <2>2, <2>5 DEF CleanRun
<1>6. CASE Release(s, b)
  <2>1. r.pc = "release" /\ c = Unscrubbed(s) BY <1>6, UnscrubbedStays DEF Release
  <2>2. /\ q.owner = r.owner /\ q.pc = "revoke" /\ q.outcome = r.outcome
        /\ IF r.forced THEN q.clean = r.clean /\ workers' = workers
           ELSE q.clean => workers'[b] = workers[b] \ {r.attempt}
    BY <1>0, <1>6, ExecutionShapes
  <2>3. workers[b] \subseteq {r.attempt} BY <1>2, <1>p, <2>1
  <2>4. q.clean => w = {}
    <3>1. CASE r.forced BY <1>2, <2>1, <2>2, <3>1
    <3>2. CASE ~ r.forced BY <2>2, <2>3, <3>2
    <3> QED BY <3>1, <3>2
  <2> QED BY <1>2, <1>p, <2>1, <2>2, <2>4 DEF CleanRun
<1>7. CASE Classify(s, b)
  <2>1. r.pc = "revoke" /\ workers' = workers /\ c = Unscrubbed(s)
    BY <1>7, UnscrubbedStays DEF Classify, outside
  <2>2. \/ Short(r, q) \/ Done(q)
        \/ r.clean /\ On(r, q, "retry")
        \/ /\ r.clean /\ r.outcome = "complete"
           /\ q.pc = "finish" /\ q.owner = r.owner /\ Blank(q)
    BY <1>0, <1>7, ExecutionShapes
  <2>3. CASE /\ r.clean /\ r.outcome = "complete"
             /\ q.pc = "finish" /\ q.owner = r.owner /\ Blank(q)
    BY <1>2, <1>p, <2>1, <2>3 DEF CleanRun
  <2>4. r.clean => w = {} BY <1>2, <2>1
  <2> HIDE DEF q, o, w, c
  <2>5. CASE Short(r, q) \/ Done(q) \/ (r.clean /\ On(r, q, "retry"))
    BY <1>2, <1>p, <2>4, <2>5, CleanShapes DEF Done, q, o, w, c
  <2> QED BY <2>2, <2>3, <2>5 DEF q, o, w, c
<1> QED BY <1>3, <1>4, <1>5, <1>6, <1>7

\* A claim starts on a build without resources, or scrubs first.
LEMMA CleanClaim ==
  ASSUME IndInv, BlankRuns, CleanRecords, NEW s \in Servers, NEW b \in Builds, Claim(s, b)
  PROVE  CleanRun(run'[s][b], b, rec'[b].owner, workers'[b], Unscrubbed(s)')
<1> DEFINE q == run'[s][b]
<1>0. RunsOK /\ RecsOK BY DEF IndInv, Core
<1>1. workers' = workers BY DEF Claim, outside
<1>2. /\ q.owner = rec'[b].owner
      /\ \/ rec[b].phase = "absent" /\ q.pc = "begin"
         \/ q.pc = "scrub"
  BY <1>0, ClaimShape
<1>3. rec[b].phase = "absent" => workers[b] = {} BY DEF CleanRecords
<1> QED BY <1>1, <1>2, <1>3 DEF CleanRun, BeforeWorker, WithWorker

\* Only Connect leaves scratch behind, and only that of its own build; an
\* executor that has outlived its run is never forgotten.
LEMMA ScratchChange ==
  ASSUME TypeRest, NEW s \in Servers, NEW b \in Builds,
         RunStep(s, b) \/ HeartbeatTick(s, b) \/ StoreError(s, b)
  PROVE  /\ \A c \in Builds : c # b /\ c \in Unscrubbed(s)' => c \in Unscrubbed(s)
         /\ run[s][b].pc # "connect" => Unscrubbed(s)' \subseteq Unscrubbed(s)
<1>0. scratch \in [Servers -> SUBSET Builds] /\ leaked \in [Servers -> [Builds -> Leaks]]
  BY DEF TypeRest
<1> DEFINE less == scratch' = scratch \/ scratch' = [scratch EXCEPT ![s] = @ \ {b}]
           outlived == leaked' = leaked \/ leaked' = [leaked EXCEPT ![s][b] = "running"]
<1>1. ASSUME less, outlived PROVE Unscrubbed(s)' \subseteq Unscrubbed(s)
  <2>1. scratch'[s] \subseteq scratch[s] /\ scratch[s] \subseteq Builds BY <1>0, <1>1
  <2>2. \A c \in Builds : leaked'[s][c] = "none" => leaked[s][c] = "none" BY <1>0, <1>1
  <2> QED BY <2>1, <2>2 DEF Unscrubbed
<1>3. CASE Connect(s, b)
  <2>1. /\ run[s][b].pc = "connect" /\ leaked' = leaked
        /\ scratch' = scratch \/ scratch' = [scratch EXCEPT ![s] = @ \cup {b}]
    BY <1>3 DEF Connect
  <2>2. \A c \in Builds : c # b /\ c \in scratch'[s] => c \in scratch[s] BY <1>0, <2>1
  <2> QED BY <2>1, <2>2 DEF Unscrubbed
<1>4. CASE WorkerDone(s, b) \/ StopCooperatively(s, b) \/ StopByForce(s, b)
  <2>1. less /\ outlived BY <1>4 DEF WorkerDone, StopCooperatively, StopByForce
  <2> QED BY <1>1, <2>1
<1>5. CASE \/ Reserve(s, b) \/ Claim(s, b) \/ ClaimRefused(s, b) \/ Scrub(s, b) \/ Begin(s, b)
           \/ Resolve(s, b) \/ StartAttempt(s, b) \/ AcquireLogin(s, b) \/ AcquireReturn(s, b)
  <2>1. less /\ outlived
    BY <1>5 DEF Reserve, Claim, ClaimRefused, Scrub, Begin, Resolve, StartAttempt,
                AcquireLogin, AcquireReturn, outside
  <2> QED BY <1>1, <2>1
<1>6. CASE \/ RevokePending(s, b) \/ Allocate(s, b) \/ Deallocate(s, b)
           \/ ObserveCancel(s, b) \/ Release(s, b) \/ Classify(s, b)
  <2>1. less /\ outlived
    BY <1>6 DEF RevokePending, Allocate, Deallocate, ObserveCancel, Release, Classify, outside
  <2> QED BY <1>1, <2>1
<1>7. CASE \/ Retry(s, b) \/ WaitForRetry(s, b) \/ Finish(s, b) \/ Return(s, b)
           \/ HeartbeatTick(s, b) \/ StoreError(s, b)
  <2>1. less /\ outlived
    BY <1>7 DEF Retry, WaitForRetry, Finish, Return, HeartbeatTick, StoreError, outside
  <2> QED BY <1>1, <2>1
<1> QED BY <1>3, <1>4, <1>5, <1>6, <1>7 DEF RunStep

\* A step of the only process keeps the record of the build clean.
LEMMA CleanRecordStep ==
  ASSUME IndInv, BlankRuns, CleanRuns, CleanRecords, NEW s \in Servers, NEW b \in Builds,
         RunStep(s, b) \/ HeartbeatTick(s, b) \/ StoreError(s, b),
         rec'[b].phase \in {"absent", "complete"}
  PROVE  workers'[b] = {} /\ b \notin Unscrubbed(s)'
<1> DEFINE r == run[s][b]
<1>0. Core /\ RunsOK /\ RecsOK /\ TypeRest BY DEF IndInv, Core
<1>1. ~ Claim(s, b) BY <1>0, ClaimShape
<1>2. /\ RecordStays(b)
      /\ rec'[b].phase = "complete" /\ rec[b].phase # "complete"
           => Finish(s, b) /\ r.result = "complete"
  BY <1>0, <1>1, RecordsStay
<1>3. CASE r.pc \in OwnerPcs
  <2>1. r.owner = rec[b].owner BY <1>3 DEF CleanRuns, CleanRun
  <2>2. rec[b].phase = "active" BY <1>0, <1>3, <2>1 DEF Core, OwnerRecorded
  <2>3. Finish(s, b) /\ r.result = "complete" BY <1>2, <2>2 DEF RecordStays
  <2>4. r.pc = "finish" /\ workers' = workers /\ Unscrubbed(s)' = Unscrubbed(s)
    BY <2>3, UnscrubbedStays DEF Finish, outside
  <2> QED BY <2>3, <2>4 DEF CleanRuns, CleanRun
<1>4. CASE r.pc \notin OwnerPcs
  <2>1. ~ Finish(s, b) BY <1>4 DEF Finish, OwnerPcs
  <2>2. rec[b].phase \in {"absent", "complete"} BY <1>2, <2>1 DEF RecordStays
  <2>3. workers[b] = {} /\ b \notin Unscrubbed(s) BY <2>2 DEF CleanRecords
  <2>4. r.pc \notin {"scrub", "allocate", "connect", "stopping", "release"}
    BY <1>4 DEF OwnerPcs, AttemptPcs
  <2>5. workers' = workers /\ Unscrubbed(s)' \subseteq Unscrubbed(s)
    BY <1>0, <2>4, WorkersChange, ScratchChange
  <2> QED BY <2>3, <2>5
<1> QED BY <1>3, <1>4

\* The deployment has one buildcell-server process per cell.
OneProcess == \E p \in Servers : \A s \in Servers : s = p

CleanInv == CleanRuns /\ CleanRecords

\* With one process, what a run knows of the resources and the scratch of its
\* build stays true.
LEMMA CleanKept ==
  ASSUME OneProcess, IndInv, BlankRuns, CleanInv, [Next]_vars
  PROVE  CleanInv'
<1>0. Core /\ RunsOK /\ RecsOK /\ TypeRest BY DEF IndInv, Core
<1>1. ASSUME Elsewhere, NEW t \in Servers, NEW c \in Builds
      PROVE  /\ CleanRun(run'[t][c], c, rec'[c].owner, workers'[c], Unscrubbed(t)')
             /\ rec'[c].phase \in {"absent", "complete"} => workers'[c] = {} /\ c \notin Unscrubbed(t)'
  <2>1. /\ workers' = workers /\ rec'[c].owner = rec[c].owner /\ rec'[c].phase = rec[c].phase
        /\ Unscrubbed(t)' \subseteq Unscrubbed(t) /\ Follows(run[t][c], run'[t][c])
    BY <1>1 DEF Elsewhere, RecordStays
  <2>2. CleanRun(run[t][c], c, rec[c].owner, workers[c], Unscrubbed(t))
    BY DEF CleanInv, CleanRuns
  <2>3. CleanRun(run'[t][c], c, rec'[c].owner, workers'[c], Unscrubbed(t)')
    BY <2>1, <2>2 DEF Follows, CleanRun, OwnerPcs, AttemptPcs, BeforeWorker, WithWorker
  <2> QED BY <2>1, <2>3 DEF CleanInv, CleanRecords
<1>2. ASSUME NEW s \in Servers, NEW b \in Builds,
             RunStep(s, b) \/ HeartbeatTick(s, b) \/ StoreError(s, b),
             NEW t \in Servers, NEW c \in Builds
      PROVE  /\ CleanRun(run'[t][c], c, rec'[c].owner, workers'[c], Unscrubbed(t)')
             /\ rec'[c].phase \in {"absent", "complete"} => workers'[c] = {} /\ c \notin Unscrubbed(t)'
  <2>1. t = s BY DEF OneProcess
  <2>2. CASE c = b
    <3>1. CleanRun(run'[s][b], b, rec'[b].owner, workers'[b], Unscrubbed(s)')
      <4>1. CASE Claim(s, b) BY <4>1, CleanClaim DEF CleanInv
      <4>2. CASE ~ Claim(s, b)
        BY <1>2, <4>2, CleanEarly, CleanWorker, CleanExecution DEF CleanInv, RunStep
      <4> QED BY <4>1, <4>2
    <3>2. rec'[b].phase \in {"absent", "complete"} => workers'[b] = {} /\ b \notin Unscrubbed(s)'
      BY <1>2, CleanRecordStep DEF CleanInv
    <3> QED BY <2>1, <2>2, <3>1, <3>2
  <2>3. CASE c # b
    <3>1. run'[s][c] = run[s][c] BY <1>2, <2>3, StepMoves DEF OthersStay
    <3>2. workers'[c] = workers[c] BY <1>0, <1>2, <2>3, WorkersChange
    <3>3. c \in Unscrubbed(s)' => c \in Unscrubbed(s) BY <1>0, <1>2, <2>3, ScratchChange
    <3>4. rec'[c] = rec[c]
      <4>1. CASE Claim(s, b) BY <1>0, <2>3, <4>1, ClaimShape
      <4>2. CASE ~ Claim(s, b) BY <1>0, <1>2, <2>3, <4>2, RecordsStay
      <4> QED BY <4>1, <4>2
    <3>5. CleanRun(run[s][c], c, rec[c].owner, workers[c], Unscrubbed(s))
      BY DEF CleanInv, CleanRuns
    <3>6. CleanRun(run'[s][c], c, rec'[c].owner, workers'[c], Unscrubbed(s)')
      BY <3>1, <3>2, <3>3, <3>4, <3>5 DEF CleanRun
    <3>7. rec'[c].phase \in {"absent", "complete"} => workers'[c] = {} /\ c \notin Unscrubbed(s)'
      BY <3>2, <3>3, <3>4 DEF CleanInv, CleanRecords
    <3> QED BY <2>1, <3>6, <3>7
  <2> QED BY <2>2, <2>3
<1>3. ASSUME NEW t \in Servers, NEW c \in Builds
      PROVE  /\ CleanRun(run'[t][c], c, rec'[c].owner, workers'[c], Unscrubbed(t)')
             /\ rec'[c].phase \in {"absent", "complete"} => workers'[c] = {} /\ c \notin Unscrubbed(t)'
  BY <1>1, <1>2, StepKinds
<1>4. CleanRuns' BY <1>3 DEF CleanRuns, CleanRun
<1>5. CleanRecords' BY <1>3 DEF CleanRecords
<1> QED BY <1>4, <1>5 DEF CleanInv

\* The invariant of a cell with one process holds in every reachable state.
LEMMA CleanInvariance ==
  ASSUME OneProcess
  PROVE  Spec => []CleanInv
<1>1. Init => CleanInv
  <2> SUFFICES ASSUME Init PROVE CleanInv OBVIOUS
  <2>1. IdleRun.pc \notin OwnerPcs BY DEF IdleRun, OwnerPcs, AttemptPcs
  <2>2. \A s \in Servers, b \in Builds : run[s][b] = IdleRun BY DEF Init
  <2>3. CleanRuns BY <2>1, <2>2, CleanShapes DEF CleanRuns
  <2>4. CleanRecords BY DEF Init, CleanRecords, Unscrubbed
  <2> QED BY <2>3, <2>4 DEF CleanInv
<1>2. ReplayInv /\ CleanInv /\ [Next]_vars => CleanInv'
  BY CleanKept DEF ReplayInv
<1> QED BY <1>1, <1>2, ReplayInvariance, PTL DEF Spec

\* Complete means clean: as deployed, with one process per cell, a complete
\* build has left no worker resource of any attempt and no executor scratch,
\* but for what an executor that outlived an earlier run of it has written,
\* through any number of crashes, retries and takeovers.
THEOREM CompleteLeavesNothing ==
  ASSUME OneProcess
  PROVE  Spec => []CompleteIsClean
<1>1. CleanInv => CompleteIsClean
  BY DEF OneProcess, CleanInv, CleanRecords, CompleteIsClean
<1> QED BY <1>1, CleanInvariance, PTL

\* As deployed, a run past its scrub meets no resources of an earlier attempt,
\* and while its worker exists it is the only one of the build.
THEOREM WorkersAreNeverStale ==
  ASSUME OneProcess
  PROVE  Spec => []NoStaleWorker
<1>1. CleanInv => NoStaleWorker
  BY DEF CleanInv, CleanRuns, CleanRun, NoStaleWorker, BeforeWorker, WithWorker
<1> QED BY <1>1, CleanInvariance, PTL
=============================================================================
