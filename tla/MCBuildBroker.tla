---------------------------- MODULE MCBuildBroker ----------------------------
(* Small instances of the build broker.                                    *)
EXTENDS BuildBroker, TLC

CONSTANTS b1, n1, n2, n3, d1, d2, c1, c2

\* One build.
OneRequest == {[build |-> b1, gen |-> 1, digest |-> d1]}

\* Two generations of it, and another request under the first one.
TwoGenerations == OneRequest \cup {[build |-> b1, gen |-> 2, digest |-> d2],
                                   [build |-> b1, gen |-> 1, digest |-> d2]}

\* Nonces are random and calls are alike.
BrokerSymmetry == Permutations(Nonces) \cup Permutations(Calls)
=============================================================================
