----------------------------- MODULE Assignment -----------------------------
(***************************************************************************)
(* The signed build assignment a cell is asked to execute                  *)
(* (buildcell/assignment.go).  Its payload digest covers the build, the    *)
(* generation and the nonce, so a digest names one assignment.             *)
(***************************************************************************)
EXTENDS Naturals

CONSTANTS
  Builds,        \* build identities
  Nonces,        \* assignment nonces
  Digests,       \* payload digests
  Assignments    \* the assignments signed for this cell

\* What Verify and validatePayload let through, as far as the stores tell
\* assignments apart: a positive generation, a nonce and the payload digest.
VerifiedAssignment ==
  [build : Builds, gen : Nat \ {0}, nonce : Nonces, digest : Digests]

\* The digest is injective.
ASSUME AssignmentAssumption ==
  /\ Assignments \subseteq VerifiedAssignment
  /\ \A a1, a2 \in Assignments : a1.digest = a2.digest => a1 = a2
  /\ Builds # {} /\ Nonces # {} /\ Digests # {}
=============================================================================
