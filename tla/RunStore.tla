------------------------------ MODULE RunStore ------------------------------
(***************************************************************************)
(* The durable run store of a build cell (buildcontrol/store_memory.go,    *)
(* store_file.go, store_bolt.go): one record per build.  Every operation   *)
(* is one store transaction, so each is given here as a guard on a record  *)
(* and the record it leaves.                                               *)
(*                                                                         *)
(* The nine non-terminal phases are one phase, "active": the store treats  *)
(* them alike.  LeaseUntil is abstracted to whether it lies after now.     *)
(***************************************************************************)
EXTENDS Assignment

CONSTANTS
  Owners,              \* random run owners
  NoOwner,             \* no owner at all
  DefaultMaxAttempts   \* the attempt number the store refuses to exceed

ASSUME RunStoreAssumption ==
  NoOwner \notin Owners /\ DefaultMaxAttempts \in Nat

Terminal == {"complete", "failed", "canceled", "quarantined"}
Phases   == Terminal \cup {"absent", "active"}

RunRecord == [phase : Phases, gen : Nat, digest : Digests, owner : Owners \cup {NoOwner},
              lease : BOOLEAN, attempt : Nat, cancel : BOOLEAN]

\* What Lookup finds for a build that was never claimed.
NoRecord == [phase |-> "absent", gen |-> 0, digest |-> CHOOSE d \in Digests : TRUE,
             owner |-> NoOwner, lease |-> FALSE, attempt |-> 0, cancel |-> FALSE]

\* newRunRecord: the record of the first claim of assignment a by owner o.
newRunRecord(a, o) ==
  [phase |-> "active", gen |-> a.gen, digest |-> a.digest, owner |-> o,
   lease |-> TRUE, attempt |-> 0, cancel |-> FALSE]

\* Mutant: an active run is in progress whether its lease ran out or not.
ClaimOutcome_LeaseIgnored(r, a, o) ==
  CASE r.phase = "absent"                        -> "accepted"
    [] r.phase # "absent"
       /\ (r.gen # a.gen \/ r.digest # a.digest) -> "conflict"
    [] r.phase \in Terminal
       /\ r.gen = a.gen /\ r.digest = a.digest   -> "replay"
    [] r.phase = "active"
       /\ r.gen = a.gen /\ r.digest = a.digest   -> "in_progress"

\* applyClaim: what a claim of a by o answers on record r.
ClaimOutcome(r, a, o) ==
  CASE r.phase = "absent"                        -> "accepted"
    [] r.phase # "absent"
       /\ (r.gen # a.gen \/ r.digest # a.digest) -> "conflict"
    [] r.phase \in Terminal
       /\ r.gen = a.gen /\ r.digest = a.digest   -> "replay"
    [] r.phase = "active"
       /\ r.gen = a.gen /\ r.digest = a.digest   ->
         IF r.lease /\ r.owner # o THEN "in_progress" ELSE "resumed"

\* The record of a resumed run: a new owner and a new lease; the attempt and
\* the cancellation request are kept.
resumedRecord(r, o) == [r EXCEPT !.owner = o, !.lease = TRUE]

\* Mutant: a lease that ran out cannot be renewed.
HeartbeatAllowed_LeaseNeeded(r, o, attempt) ==
  r.owner = o /\ r.phase = "active" /\ attempt <= DefaultMaxAttempts /\ r.lease

\* Heartbeat: only the owner of a run that is not terminal renews its lease.
HeartbeatAllowed(r, o, attempt) ==
  r.owner = o /\ r.phase = "active" /\ attempt <= DefaultMaxAttempts

\* Mutant: the attempt number is not made durable.
heartbeatRecord_AttemptForgotten(r, attempt) == [r EXCEPT !.lease = TRUE]

heartbeatRecord(r, attempt) == [r EXCEPT !.attempt = attempt, !.lease = TRUE]

\* Mutant: a result is not compared with the cancellation request.
terminalAllowedForRecord_CancelIgnored(r, phase) == TRUE

\* terminalAllowedForRecord
terminalAllowedForRecord(r, phase) ==
  r.cancel => phase \in {"canceled", "quarantined"}

\* Mutant: anybody may finish a run.
FinishAllowed_OwnerIgnored(r, o, phase, attempts) ==
  /\ r.phase # "absent"
  /\ attempts <= DefaultMaxAttempts
  /\ phase = "complete" => attempts > 0
  /\ terminalAllowedForRecord(r, phase)

\* Finish: the owner writes a terminal result.  Nothing here looks at whether
\* the record is terminal already.
FinishAllowed(r, o, phase, attempts) ==
  /\ r.phase # "absent"
  /\ r.owner = o
  /\ attempts <= DefaultMaxAttempts
  /\ phase = "complete" => attempts > 0
  /\ terminalAllowedForRecord(r, phase)

finishedRecord(r, phase, attempts) ==
  [r EXCEPT !.phase = phase, !.attempt = attempts, !.lease = FALSE]

\* Mutant: a terminal run can be canceled.
CancelAllowed_TerminalIgnored(r, gen) == r.phase # "absent" /\ r.gen = gen

\* RequestCancel: generation bound, refused once the run is terminal.
CancelAllowed(r, gen) == r.phase = "active" /\ r.gen = gen
=============================================================================
