----------------------------- MODULE BrokerStore -----------------------------
(***************************************************************************)
(* The durable store of the build broker                                   *)
(* (buildorchestrator/broker_store.go): one run record, one event log and  *)
(* one checkpoint per build and generation.  Every operation is one Bolt   *)
(* transaction, given here as a guard on a record and the record it leaves.*)
(*                                                                         *)
(* The event log is abstracted to whether it is full: its entries are      *)
(* numbered by the transaction that adds them, so nothing else of it is    *)
(* read by the broker.                                                     *)
(***************************************************************************)
EXTENDS Naturals, FiniteSets

CONSTANTS
  Builds,         \* build identities
  Digests,        \* request digests
  Requests,       \* the requests the control plane submits
  Nonces,         \* assignment nonces
  NoNonce,        \* no assignment is signed yet
  MaxRuns         \* capacity of the run bucket

ASSUME BrokerStoreAssumption ==
  /\ Requests \subseteq [build : Builds, gen : Nat \ {0}, digest : Digests]
  /\ Requests # {} /\ Digests # {}
  /\ NoNonce \notin Nonces

\* brokerRunKey
Key(q) == [build |-> q.build, gen |-> q.gen]
Keys   == {Key(q) : q \in Requests}

\* RunRecord.Terminal
BrokerTerminal == {"complete", "failed", "canceled", "waiting"}
BrokerOpen     == {"accepted", "running", "retrying", "canceling"}

\* Cleanup is the status the terminal result carries; "reported" stands for the
\* report of the cell.
BrokerRecord == [state : BrokerTerminal \cup BrokerOpen \cup {"absent"},
                 digest : Digests, dispatched : BOOLEAN, full : BOOLEAN,
                 cleanup : {"none", "clean", "unknown", "reported"}]

AbsentRun == [state |-> "absent", digest |-> CHOOSE d \in Digests : TRUE,
              dispatched |-> FALSE, full |-> FALSE, cleanup |-> "none"]

acceptedRun(q) == [AbsentRun EXCEPT !.state = "accepted", !.digest = q.digest]

\* Mutant: the latest generation may be open still.
Claim_OpenIgnored(recs, q) ==
  LET k     == Key(q)
      known == {j \in Keys : recs[j].state # "absent"}
      older == {j \in known : j.build = q.build}
  IN  IF k \in known THEN IF recs[k].digest = q.digest THEN "attached" ELSE "conflict"
      ELSE IF Cardinality(known) >= MaxRuns THEN "full"
      ELSE IF \E j \in older : j.gen >= q.gen THEN "stale" ELSE "created"

\* Claim on the records recs: the run of the same request is attached to, a new
\* generation is created after the latest one has ended.
Claim(recs, q) ==
  LET k     == Key(q)
      known == {j \in Keys : recs[j].state # "absent"}
      older == {j \in known : j.build = q.build}
  IN  CASE k \in known -> IF recs[k].digest = q.digest THEN "attached" ELSE "conflict"
        [] k \notin known ->
             IF Cardinality(known) >= MaxRuns THEN "full"
             ELSE IF \E j \in older : j.gen >= q.gen THEN "stale"
             ELSE IF \E j \in older : /\ recs[j].state \in BrokerOpen
                                      /\ \A i \in older : i.gen <= j.gen
             THEN "active" ELSE "created"

\* validBrokerTransition, and SetState's refusal of a terminal record.
SetStateAllowed(r, to) ==
  /\ r.state \in BrokerOpen
  /\ \/ to = r.state
     \/ to \in CASE r.state = "accepted"  -> {"running", "canceling"}
                 [] r.state = "running"   -> {"retrying", "canceling"}
                 [] r.state = "retrying"  -> {"running", "canceling"}
                 [] r.state = "canceling" -> {}

\* Mutant: a terminal record is not refused.
AppendAllowed_TerminalIgnored(r) == r.state # "absent" /\ ~r.full

\* Append: refused on a terminal record and, the terminal event too, on a log
\* that is full.
AppendAllowed(r) == r.state \in BrokerOpen /\ ~r.full

\* Append of an event of the run that is under way.
appended(r, stage) ==
  [r EXCEPT !.dispatched = @ \/ stage = "assigned",
            !.state = IF @ = "canceling" THEN @ ELSE "running"]

\* Append of the terminal event.
ended(r, state, cleanup) == [r EXCEPT !.state = state, !.cleanup = cleanup]

\* Save: a signed checkpoint is immutable.
SaveAllowed(saved, nonce) == saved \in {NoNonce, nonce}
=============================================================================
