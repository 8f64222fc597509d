---------------------------- MODULE ReplayStore ----------------------------
(***************************************************************************)
(* The replay store of a build cell (buildcell/replay.go and its Bolt      *)
(* variant): per build the highest generation ever reserved together with  *)
(* the nonce and the payload digest it was reserved with, and the set of   *)
(* all nonces ever used in the cell.  A reservation runs in one database   *)
(* transaction, so it is a function of the two maps.                       *)
(***************************************************************************)
EXTENDS Assignment, FiniteSets

CONSTANT MaxReservations   \* maxEntries of the replay store

\* The replay entry of a build the store has never seen (generation 0).
NoWatermark == [gen |-> 0, nonce |-> CHOOSE n \in Nonces : TRUE,
                digest |-> CHOOSE d \in Digests : TRUE]

Watermark == [gen : Nat, nonce : Nonces, digest : Digests]

\* The entry a reservation of assignment a leaves behind.
replayEntry(a) == [gen |-> a.gen, nonce |-> a.nonce, digest |-> a.digest]

\* Mutant: any payload of the reserved generation is a replay.
ReserveOutcome_PayloadIgnored(a, e, used, entries) ==
  CASE a.gen < e.gen -> "stale"
    [] a.gen = e.gen -> "replay"
    [] OTHER -> IF a.nonce \in used THEN "conflict" ELSE "accepted"

\* Mutant: a nonce another build has used is accepted.
ReserveOutcome_NonceIgnored(a, e, used, entries) ==
  CASE a.gen < e.gen -> "stale"
    [] a.gen = e.gen -> IF replayEntry(a) = e THEN "replay" ELSE "conflict"
    [] OTHER -> "accepted"

\* Mutant: a different payload of the same generation is reserved anew.
ReserveOutcome_GenerationReused(a, e, used, entries) ==
  CASE a.gen < e.gen -> "stale"
    [] a.gen = e.gen /\ replayEntry(a) = e -> "replay"
    [] OTHER -> IF a.nonce \in used THEN "conflict" ELSE "accepted"

\* reserveReplayState: what a reservation of a answers when the entry of its
\* build is e, the used nonces are used and entries builds are known.
ReserveOutcome(a, e, used, entries) ==
  CASE a.gen < e.gen -> "stale"
    [] a.gen = e.gen -> IF replayEntry(a) = e THEN "replay" ELSE "conflict"
    [] OTHER -> IF a.nonce \in used THEN "conflict"
                ELSE IF entries >= MaxReservations
                        \/ Cardinality(used) >= MaxReservations THEN "full"
                ELSE "accepted"
=============================================================================
