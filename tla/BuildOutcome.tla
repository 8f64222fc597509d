---------------------------- MODULE BuildOutcome ----------------------------
(***************************************************************************)
(* What a build cell promises the orchestrator about a build: it is        *)
(* accepted once, it ends at most once, its result never changes, and a    *)
(* cancellation that was recorded while it ran is never followed by a      *)
(* success or a failure.                                                   *)
(***************************************************************************)
CONSTANT Builds

VARIABLES
  outcome,    \* build -> "absent", "active" or its terminal phase
  canceled    \* build -> a cancellation is recorded

Init ==
  /\ outcome = [b \in Builds |-> "absent"]
  /\ canceled = [b \in Builds |-> FALSE]

Accept(b) ==
  /\ outcome[b] = "absent"
  /\ outcome' = [outcome EXCEPT ![b] = "active"]
  /\ UNCHANGED canceled

Cancel(b) ==
  /\ outcome[b] = "active"
  /\ canceled' = [canceled EXCEPT ![b] = TRUE]
  /\ UNCHANGED outcome

End(b) ==
  /\ outcome[b] = "active"
  /\ \E phase \in {"complete", "failed", "canceled", "quarantined"} :
       /\ canceled[b] => phase \in {"canceled", "quarantined"}
       /\ outcome' = [outcome EXCEPT ![b] = phase]
  /\ UNCHANGED canceled

Next == \E b \in Builds : Accept(b) \/ Cancel(b) \/ End(b)

Spec == Init /\ [][Next]_<<outcome, canceled>>
=============================================================================
