--------------------------- MODULE MCBuildControl ---------------------------
(* Small instances of a build cell.                                        *)
EXTENDS BuildControl, TLC

CONSTANTS b1, b2, n1, n2, d1, d2, d3, o1, o2, o3, s1, s2

\* One build, one assignment.
OneAssignment == {[build |-> b1, gen |-> 1, nonce |-> n1, digest |-> d1]}

\* A build dispatched again under a higher generation.
TwoGenerations == OneAssignment \cup {[build |-> b1, gen |-> 2, nonce |-> n2, digest |-> d2]}

\* Another build signed with a nonce that is taken, and a second payload of
\* the same generation.
Colliding == OneAssignment \cup {[build |-> b2, gen |-> 1, nonce |-> n1, digest |-> d2],
                                 [build |-> b2, gen |-> 1, nonce |-> n2, digest |-> d3]}

\* Owners are random names and processes are alike.
OwnerSymmetry  == Permutations(Owners)
SharedSymmetry == OwnerSymmetry \cup Permutations(Servers)

\* Bound: behaviours in which no assignment expires.
NoExpiry == expired = {}

\* Bound for two processes: and no executor outlives its run.
SharedBound == NoExpiry /\ \A s \in Servers : leaked[s] = [b \in Builds |-> "none"]
=============================================================================
