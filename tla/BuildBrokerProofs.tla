-------------------------- MODULE BuildBrokerProofs --------------------------
(***************************************************************************)
(* Theorems about the build broker, for any requests, builds, generations, *)
(* calls, attempts and faults.                                             *)
(*                                                                         *)
(* The argument.  A step changes at most one durable record, and only one  *)
(* that is open or absent (Moved, Born); it changes a checkpoint only from *)
(* unsigned to signed (Signed); and the cell takes an assignment only from *)
(* a run whose envelope is the one of the checkpoint (CellStep).  So what  *)
(* a cell holds for a generation is its checkpoint for ever, and a record  *)
(* that took the result of the cell agrees with both.                      *)
(***************************************************************************)
EXTENDS BuildBroker, Integers, TLAPS

SavedPcs   == {"assigned", "dispatch", "stream", "recover", "result"}
CountedPcs == {"retry", "setretrying", "sleep"}
RunPc      == {"idle"} \cup LoopPcs \cup RunPcs

-----------------------------------------------------------------------------
(* The inductive invariant.                                                *)

\* A run past the signature works with the checkpointed assignment, and one
\* that is about to try again has an attempt left.
RunFine(r, saved) ==
  /\ r.pc \in SavedPcs => r.nonce = saved /\ saved # NoNonce
  /\ r.pc \in CountedPcs => r.attempt < MaxAttempts

RunsFine ==
  /\ run \in [Keys -> ActiveRun]
  /\ \A k \in Keys : RunFine(run[k], ckpt[k])

CkptOK == ckpt \in [Keys -> Nonces \cup {NoNonce}]
RecOK  == rec \in [Keys -> BrokerRecord]
CallOK == call \in [Calls -> Call]
CellOK ==
  /\ outcome \in [Builds -> CellTerminal \cup {"absent", "active"}]
  /\ canceled \in [Builds -> BOOLEAN]
  /\ held \in [Builds -> Assignment]
RestOK ==
  /\ late \subseteq Keys /\ resuming \subseteq Keys /\ closing \in BOOLEAN
  /\ driven \subseteq Builds /\ counted \subseteq Builds
  /\ faults \in 0 .. MaxFaults

\* The cell holds signed and checkpointed assignments only.
HeldSaved ==
  \A k \in Keys : outcome[k.build] # "absent" /\ held[k.build].key = k
                     => held[k.build].nonce = ckpt[k] /\ ckpt[k] # NoNonce

\* An open record is the latest of its build.
LatestOpen ==
  \A j, k \in Keys : j.build = k.build /\ rec[j].state \in BrokerOpen
                       /\ rec[k].state # "absent" => k.gen <= j.gen

IndInv == /\ RunsFine /\ CkptOK /\ RecOK /\ CallOK /\ CellOK /\ RestOK
          /\ HeldSaved /\ CompleteIsCells /\ LatestOpen

-----------------------------------------------------------------------------
(* What a step may do to the durable state and to the cell.                *)

FromCell(k) ==
  /\ outcome[k.build] = "complete"
  /\ held[k.build] = [key |-> k, nonce |-> ckpt[k]]

Moved(k) ==
  \E r \in BrokerRecord :
    /\ rec[k].state \in BrokerOpen
    /\ rec' = [rec EXCEPT ![k] = r]
    /\ r.state # "absent"
    /\ r.state = "complete" => FromCell(k)

Born(q) ==
  /\ rec[Key(q)].state = "absent"
  /\ rec' = [rec EXCEPT ![Key(q)] = acceptedRun(q)]
  /\ \A j \in Keys : j.build = q.build /\ rec[j].state # "absent"
                       => j.gen < q.gen /\ rec[j].state \notin BrokerOpen

RecStep == rec' = rec \/ (\E k \in Keys : Moved(k)) \/ (\E q \in Requests : Born(q))

Signed(k) ==
  \E n \in Nonces : ckpt[k] = NoNonce /\ ckpt' = [ckpt EXCEPT ![k] = n]

CkptStep == ckpt' = ckpt \/ \E k \in Keys : Signed(k)

CellStep ==
  /\ CellOK'
  /\ \A b \in Builds : outcome[b] # "absent" =>
       /\ outcome'[b] # "absent" /\ held'[b] = held[b]
       /\ outcome[b] = "complete" => outcome'[b] = "complete"
  /\ \A b \in Builds : outcome[b] = "absent" /\ outcome'[b] # "absent" =>
       LET k == held'[b].key
       IN  /\ k \in Keys /\ k.build = b
           /\ held'[b].nonce = ckpt'[k] /\ ckpt'[k] # NoNonce

Step == RecStep /\ CkptStep /\ CellStep

\* A request key is a build and a generation.
LEMMA KeyFacts ==
  /\ \A q \in Requests : Key(q) \in Keys /\ Key(q).build = q.build /\ Key(q).gen = q.gen
  /\ \A k \in Keys : k.build \in Builds /\ k.gen \in Nat
  /\ \A j, k \in Keys : j.build = k.build /\ j.gen = k.gen => j = k
BY BrokerStoreAssumption DEF Key, Keys

\* There is a key, so the idle slots have one.
LEMMA SomeKey == (CHOOSE k \in Keys : TRUE) \in Keys
<1>1. PICK q \in Requests : TRUE BY BrokerStoreAssumption
<1> QED BY <1>1, KeyFacts

\* The record nobody has claimed.
LEMMA AbsentFine == AbsentRun \in BrokerRecord
<1>1. (CHOOSE d \in Digests : TRUE) \in Digests BY BrokerStoreAssumption
<1> QED BY <1>1 DEF AbsentRun, BrokerRecord

\* The record a claim creates.
LEMMA BornFine == \A q \in Requests : acceptedRun(q) \in BrokerRecord /\ acceptedRun(q).state = "accepted"
<1> SUFFICES ASSUME NEW q \in Requests
             PROVE  acceptedRun(q) \in BrokerRecord /\ acceptedRun(q).state = "accepted"
  OBVIOUS
<1>1. q.digest \in Digests BY BrokerStoreAssumption
<1>2. \A r \in BrokerRecord : LET p == [r EXCEPT !.state = "accepted", !.digest = q.digest]
                              IN  p \in BrokerRecord /\ p.state = "accepted"
  BY <1>1 DEF BrokerRecord, BrokerOpen
<1> QED BY <1>2, AbsentFine DEF acceptedRun

\* A key without a run satisfies the invariant whatever its checkpoint.
LEMMA IdleFine == NoRun \in ActiveRun /\ \A n : RunFine(NoRun, n)
BY BrokerAssumption DEF NoRun, ActiveRun, RunFine, SavedPcs, CountedPcs

-----------------------------------------------------------------------------
(* The safety part of the invariant survives every step of that shape.     *)

\* The safety conjuncts follow from the shape of the step alone.
LEMMA SafetyPreserved ==
  ASSUME IndInv, Step
  PROVE  RecOK' /\ CkptOK' /\ CellOK' /\ HeldSaved' /\ CompleteIsCells' /\ LatestOpen'
<1> USE DEF IndInv
<1>1. CellOK' BY DEF Step, CellStep
<1>2. CkptOK' BY DEF Step, CkptStep, Signed, CkptOK
<1>3. \A k \in Keys : ckpt[k] # NoNonce => ckpt'[k] = ckpt[k]
  BY DEF Step, CkptStep, Signed, CkptOK
<1>4. HeldSaved'
  <2> SUFFICES ASSUME NEW k \in Keys, outcome'[k.build] # "absent", held'[k.build].key = k
               PROVE  held'[k.build].nonce = ckpt'[k] /\ ckpt'[k] # NoNonce
    BY DEF HeldSaved
  <2>1. k.build \in Builds BY KeyFacts
  <2>2. CASE outcome[k.build] = "absent" BY <2>1, <2>2 DEF Step, CellStep
  <2>3. CASE outcome[k.build] # "absent"
    BY <1>3, <2>1, <2>3 DEF Step, CellStep, HeldSaved
  <2> QED BY <2>2, <2>3
<1>5. \A k \in Keys : FromCell(k) => FromCell(k)'
  <2> SUFFICES ASSUME NEW k \in Keys, FromCell(k) PROVE FromCell(k)' OBVIOUS
  <2>1. k.build \in Builds BY KeyFacts
  <2>2. outcome'[k.build] = "complete" /\ held'[k.build] = held[k.build]
    BY <2>1 DEF FromCell, Step, CellStep
  <2>3. ckpt[k] # NoNonce BY DEF FromCell, HeldSaved
  <2> QED BY <1>3, <2>2, <2>3 DEF FromCell
<1>6. RecOK' BY BornFine, KeyFacts DEF Step, RecStep, Moved, Born, RecOK
<1>7. CompleteIsCells'
  <2> SUFFICES ASSUME NEW k \in Keys, rec'[k].state = "complete" PROVE FromCell(k)'
    BY DEF CompleteIsCells, FromCell
  <2>1. CASE rec[k].state = "complete" BY <1>5, <2>1 DEF CompleteIsCells, FromCell
  <2>2. CASE rec[k].state # "complete"
    <3>1. CASE rec' = rec BY <2>2, <3>1
    <3>2. CASE \E j \in Keys : Moved(j)
      BY <1>5, <2>2, <3>2 DEF Moved, RecOK
    <3>3. CASE \E q \in Requests : Born(q)
      BY <2>2, <3>3, BornFine, KeyFacts DEF Born, RecOK
    <3> QED BY <3>1, <3>2, <3>3 DEF Step, RecStep
  <2> QED BY <2>1, <2>2
<1>8. LatestOpen'
  <2>1. CASE rec' = rec BY <2>1 DEF LatestOpen
  <2>2. ASSUME NEW i \in Keys, Moved(i) PROVE LatestOpen'
    <3>1. \A k \in Keys : /\ rec'[k].state # "absent" => rec[k].state # "absent"
                          /\ rec'[k].state \in BrokerOpen => rec[k].state \in BrokerOpen
      BY <2>2 DEF Moved, RecOK, BrokerOpen
    <3> QED BY <3>1 DEF LatestOpen
  <2>3. ASSUME NEW q \in Requests, Born(q) PROVE LatestOpen'
    <3> DEFINE i == Key(q)
    <3>1. i \in Keys /\ i.build = q.build /\ i.gen = q.gen BY KeyFacts
    <3>2. \A k \in Keys : k # i => rec'[k] = rec[k] BY <2>3 DEF Born, RecOK
    <3>3. SUFFICES ASSUME NEW j \in Keys, NEW k \in Keys, j.build = k.build,
                          rec'[j].state \in BrokerOpen, rec'[k].state # "absent"
                   PROVE  k.gen <= j.gen
      BY DEF LatestOpen
    <3>4. j.gen \in Nat /\ k.gen \in Nat BY KeyFacts
    <3>5. CASE j = i /\ k = i BY <3>4, <3>5
    <3>6. CASE j = i /\ k # i BY <2>3, <3>1, <3>2, <3>3, <3>4, <3>6 DEF Born
    <3>7. CASE j # i /\ k = i BY <2>3, <3>1, <3>2, <3>3, <3>7 DEF Born, BrokerOpen
    <3>8. CASE j # i /\ k # i BY <3>2, <3>3, <3>8 DEF LatestOpen
    <3> QED BY <3>5, <3>6, <3>7, <3>8
  <2> QED BY <2>1, <2>2, <2>3 DEF Step, RecStep
<1> QED BY <1>1, <1>2, <1>4, <1>6, <1>7, <1>8

-----------------------------------------------------------------------------
(* The pieces steps are made of.                                           *)

\* What every action is shown to do.
Fine == Step /\ RunsFine' /\ CallOK' /\ RestOK'

\* A step that leaves the records of the cell alone.
LEMMA CellSame ==
  ASSUME IndInv, UNCHANGED <<outcome, canceled, held>>
  PROVE  CellStep
BY DEF IndInv, CellOK, CellStep

\* One run changes.
LEMMA RunAt ==
  ASSUME IndInv, NEW k \in Keys, NEW r \in ActiveRun, RunFine(r, ckpt[k]),
         run' = [run EXCEPT ![k] = r], ckpt' = ckpt
  PROVE  RunsFine'
<1>1. run' \in [Keys -> ActiveRun] BY DEF IndInv, RunsFine
<1>2. \A j \in Keys : run'[j] = IF j = k THEN r ELSE run[j] BY DEF IndInv, RunsFine
<1>3. \A j \in Keys : RunFine(run'[j], ckpt'[j]) BY <1>2 DEF IndInv, RunsFine
<1> QED BY <1>1, <1>3 DEF RunsFine

\* Where the program counter of a run may go.
MayGo(r, l) ==
  /\ l \in RunPc
  /\ l \in SavedPcs => r.pc \in SavedPcs
  /\ l \in CountedPcs => r.attempt < MaxAttempts

\* A move of the program counter to where it may go keeps RunsFine.
LEMMA GotoFine ==
  ASSUME IndInv, NEW k \in Keys, NEW l, MayGo(run[k], l), Goto(k, l), ckpt' = ckpt
  PROVE  RunsFine'
<1>1. run[k] \in ActiveRun /\ RunFine(run[k], ckpt[k]) BY DEF IndInv, RunsFine
<1>2. \A r \in ActiveRun : LET q == [r EXCEPT !.pc = l]
        IN  q \in ActiveRun /\ q.pc = l /\ q.nonce = r.nonce /\ q.attempt = r.attempt
  BY DEF ActiveRun, MayGo, RunPc
<1> DEFINE q == [run[k] EXCEPT !.pc = l]
<1>3. q \in ActiveRun BY <1>1, <1>2
<1>4. RunFine(q, ckpt[k]) BY <1>1, <1>2 DEF RunFine, MayGo
<1>5. run' = [run EXCEPT ![k] = q] BY DEF Goto
<1> QED BY <1>3, <1>4, <1>5, RunAt

\* execute returns, and the goroutines that waited for it go on.
LEMMA ReturnFine ==
  ASSUME IndInv, NEW k \in Keys, Return(k), ckpt' = ckpt
  PROVE  RunsFine' /\ CallOK'
<1>1. RunsFine' BY RunAt, IdleFine DEF Return
<1>2. \A c \in Call, l \in {"reconcile", "probe"} : [c EXCEPT !.pc = l] \in Call BY DEF Call
<1>3. CallOK' BY <1>2 DEF IndInv, CallOK, Return
<1> QED BY <1>1, <1>3

\* A call moves on.
LEMMA CallGoto ==
  ASSUME IndInv, NEW c \in Calls, NEW l, Call_(c, l),
         l \in {"kill", "synthetic", "waitlocal", "waitprior", "probe", "tick"}
  PROVE  CallOK'
<1>1. \A d \in Call : [d EXCEPT !.pc = l] \in Call BY DEF Call
<1> QED BY <1>1 DEF IndInv, CallOK, Call_

\* A call or a reconciliation goroutine ends.
LEMMA CallDone ==
  ASSUME IndInv, NEW c \in Calls, Done(c)
  PROVE  CallOK'
<1>1. NoCall \in Call BY SomeKey DEF NoCall, Call
<1> QED BY <1>1 DEF IndInv, CallOK, Done

\* The records the store leaves.
LEMMA AppendedFine ==
  ASSUME NEW r \in BrokerRecord, NEW stage
  PROVE  /\ appended(r, stage) \in BrokerRecord
         /\ appended(r, stage).state \in {"running", "canceling"}
<1>1. \A d \in BOOLEAN, st \in {"running", "canceling"} :
        LET q == [r EXCEPT !.dispatched = d, !.state = st]
        IN  q \in BrokerRecord /\ q.state = st
  BY DEF BrokerRecord, BrokerOpen
<1>2. r.dispatched \in BOOLEAN BY DEF BrokerRecord
<1>3. PICK d \in BOOLEAN : d = (r.dispatched \/ stage = "assigned") OBVIOUS
<1>4. appended(r, stage) = [r EXCEPT !.dispatched = d,
                            !.state = IF r.state = "canceling" THEN r.state ELSE "running"]
  BY <1>3, Zenon DEF appended
<1>5. PICK st \in {"running", "canceling"} :
        st = IF r.state = "canceling" THEN r.state ELSE "running"
  OBVIOUS
<1>6. appended(r, stage) = [r EXCEPT !.dispatched = d, !.state = st]
  BY <1>4, <1>5, Zenon
<1> QED BY <1>1, <1>6

\* The record a terminal event leaves.
LEMMA EndedFine ==
  ASSUME NEW r \in BrokerRecord, NEW st \in BrokerTerminal,
         NEW cl \in {"clean", "unknown", "reported"}
  PROVE  ended(r, st, cl) \in BrokerRecord /\ ended(r, st, cl).state = st
BY DEF ended, BrokerRecord

\* The record SetState leaves.
LEMMA StateFine ==
  ASSUME NEW r \in BrokerRecord, NEW st \in BrokerOpen
  PROVE  [r EXCEPT !.state = st] \in BrokerRecord /\ [r EXCEPT !.state = st].state = st
BY DEF BrokerRecord

\* A write of an open record that does not claim completeness.
LEMMA WriteMoves ==
  ASSUME IndInv, NEW k \in Keys, rec[k].state \in BrokerOpen, NEW r \in BrokerRecord,
         r.state \notin {"absent", "complete"}, Write(k, r)
  PROVE  RecStep
BY DEF RecStep, Moved, Write

\* Every record is one.
LEMMA RecordIn == ASSUME IndInv, NEW k \in Keys PROVE rec[k] \in BrokerRecord
BY DEF IndInv, RecOK

\* A result of the broker's own ends an open record, and never as complete.
LEMMA SyntheticFine ==
  ASSUME IndInv, NEW k \in Keys, NEW st \in {"canceled", "failed"},
         NEW cl \in {"clean", "unknown"}, Synthetic(k, st, cl)
  PROVE  RecStep
<1>1. rec[k] \in BrokerRecord BY RecordIn
<1>2. st \in BrokerTerminal BY DEF BrokerTerminal
<1>3. ended(rec[k], st, cl) \in BrokerRecord /\ ended(rec[k], st, cl).state = st
  BY <1>1, <1>2, EndedFine
<1>4. CASE AppendAllowed(rec[k])
  BY <1>3, <1>4, WriteMoves DEF Synthetic, AppendAllowed, Write
<1>5. CASE ~AppendAllowed(rec[k]) BY <1>5 DEF Synthetic, RecStep
<1> QED BY <1>4, <1>5

\* Run fails with an error, or goes on after an event that was stored.
LEMMA RunFailsFine ==
  ASSUME IndInv, NEW k \in Keys, RunFails(k), ckpt' = ckpt
  PROVE  RecStep /\ RunsFine'
<1>1. MayGo(run[k], "decide") BY DEF MayGo, RunPc, LoopPcs, SavedPcs, CountedPcs
<1> QED BY <1>1, GotoFine DEF RunFails, RecStep

\* An event of the run is appended to an open record only.
LEMMA AppendMoves ==
  ASSUME IndInv, NEW k \in Keys, NEW stage, AppendAllowed(rec[k]),
         Write(k, appended(rec[k], stage))
  PROVE  RecStep
BY RecordIn, AppendedFine, WriteMoves DEF AppendAllowed

\* Run emits an event and goes on, or fails.
LEMMA EmitFine ==
  ASSUME IndInv, NEW k \in Keys, NEW stage, NEW l, MayGo(run[k], l),
         Emit(k, stage, l), ckpt' = ckpt
  PROVE  RecStep /\ RunsFine'
BY AppendMoves, GotoFine, RunFailsFine DEF Emit

\* Run ends the record; as complete only with what the cell completed.
LEMMA TerminateFine ==
  ASSUME IndInv, NEW k \in Keys, NEW st \in BrokerTerminal,
         NEW cl \in {"clean", "unknown", "reported"},
         st = "complete" => FromCell(k), Terminate(k, st, cl), ckpt' = ckpt
  PROVE  RecStep /\ RunsFine' /\ CallOK'
<1>1. CASE AppendAllowed(rec[k])
  <2>1. ended(rec[k], st, cl) \in BrokerRecord /\ ended(rec[k], st, cl).state = st
    BY RecordIn, EndedFine
  <2>2. st # "absent" BY DEF BrokerTerminal
  <2>3. RecStep BY <1>1, <2>1, <2>2 DEF Terminate, AppendAllowed, Write, RecStep, Moved
  <2> QED BY <1>1, <2>3, ReturnFine DEF Terminate
<1>2. CASE ~AppendAllowed(rec[k])
  BY <1>2, RunFailsFine DEF Terminate, IndInv, CallOK
<1> QED BY <1>1, <1>2

-----------------------------------------------------------------------------
(* The execute goroutine.                                                  *)

\* Only the records, the runs and the calls of the broker change.
Inside == UNCHANGED <<ckpt, late, resuming, closing, cell, faults>>

\* For a step inside the broker the records, the runs and the calls are enough.
LEMMA InsideFine ==
  ASSUME IndInv, Inside, RecStep, RunsFine', CallOK'
  PROVE  Fine
<1>1. CellStep BY CellSame DEF Inside, cell
<1>2. RestOK' BY DEF IndInv, RestOK, Inside, cell
<1> QED BY <1>1, <1>2 DEF Fine, Step, CkptStep, Inside

\* The steps of execute outside Run.
LEMMA ExecuteLoop ==
  ASSUME IndInv, NEW k \in Keys,
         Lookup(k) \/ SetRunning(k) \/ Decide(k) \/ Conclude(k) \/ Retry(k)
           \/ SetRetrying(k) \/ Sleep(k)
  PROVE  Fine
<1>0. run[k] \in ActiveRun /\ RunFine(run[k], ckpt[k]) /\ rec[k] \in BrokerRecord
  BY RecordIn DEF IndInv, RunsFine
<1>c. UNCHANGED call => CallOK' BY DEF IndInv, CallOK
<1>g. \A l \in RunPc \ (SavedPcs \cup CountedPcs) : MayGo(run[k], l) BY DEF MayGo
<1>p. {"load", "setrunning", "conclude", "lookup"} \subseteq RunPc \ (SavedPcs \cup CountedPcs)
  BY DEF RunPc, LoopPcs, RunPcs, SavedPcs, CountedPcs
<1>1. ASSUME Lookup(k) PROVE Fine
  <2>1. Inside /\ rec' = rec BY <1>1 DEF Lookup, Inside
  <2>2. RunsFine' /\ CallOK'
    <3>1. CASE rec[k].state \in BrokerTerminal
      BY <1>1, <2>1, <3>1, ReturnFine DEF Lookup, Inside
    <3>2. CASE rec[k].state \notin BrokerTerminal
      <4>1. \E l \in {"load", "setrunning"} : Goto(k, l) BY <1>1, <3>2 DEF Lookup
      <4> QED BY <1>1, <2>1, <1>c, <1>g, <1>p, <3>2, <4>1, GotoFine DEF Lookup, Inside
    <3> QED BY <3>1, <3>2
  <2> QED BY <2>1, <2>2, InsideFine DEF RecStep
<1>2. ASSUME SetRunning(k) PROVE Fine
  <2>1. Inside BY <1>2 DEF SetRunning, Inside
  <2>2. CASE SetStateAllowed(rec[k], "running")
    <3>1. RecStep
      BY <1>0, <1>2, <2>2, StateFine, WriteMoves DEF SetRunning, SetStateAllowed, BrokerOpen
    <3>2. RunsFine' BY <1>2, <2>1, <2>2, <1>g, <1>p, GotoFine DEF SetRunning, Inside
    <3> QED BY <1>2, <1>c, <2>1, <2>2, <3>1, <3>2, InsideFine DEF SetRunning
  <2>3. CASE ~SetStateAllowed(rec[k], "running")
    BY <1>2, <2>1, <2>3, ReturnFine, InsideFine DEF SetRunning, Inside, RecStep
  <2> QED BY <2>2, <2>3
<1>3. ASSUME Decide(k) PROVE Fine
  <2>1. Inside /\ rec' = rec BY <1>3 DEF Decide, Inside
  <2>2. \/ Return(k)
        \/ UNCHANGED call /\ \E st \in {"canceled", "failed"} :
             run' = [run EXCEPT ![k].pc = "conclude", ![k].state = st]
        \/ UNCHANGED call /\ ~Final(k) /\ Goto(k, "retry")
    BY <1>3, <1>0 DEF Decide
  <2>3. CASE Return(k) BY <2>1, <2>3, ReturnFine, InsideFine DEF Inside, RecStep
  <2>4. ASSUME UNCHANGED call, NEW st \in {"canceled", "failed"},
               run' = [run EXCEPT ![k].pc = "conclude", ![k].state = st]
        PROVE  Fine
    <3> DEFINE q == [run[k] EXCEPT !.pc = "conclude", !.state = st]
    <3>1. q \in ActiveRun /\ q.pc = "conclude"
      BY <1>0, <1>p DEF ActiveRun, RunPc
    <3>2. RunFine(q, ckpt[k]) BY <3>1 DEF RunFine, SavedPcs, CountedPcs
    <3>3. run' = [run EXCEPT ![k] = q] BY <2>4
    <3>4. RunsFine' BY <2>1, <3>1, <3>2, <3>3, RunAt DEF Inside
    <3> QED BY <2>1, <2>4, <1>c, <3>4, InsideFine DEF RecStep
  <2>5. CASE UNCHANGED call /\ ~Final(k) /\ Goto(k, "retry")
    <3>1. run[k].attempt < MaxAttempts
      BY <1>0, <2>5, BrokerAssumption DEF Final, ActiveRun
    <3>2. MayGo(run[k], "retry") BY <3>1 DEF MayGo, RunPc, LoopPcs, SavedPcs
    <3> QED BY <2>1, <2>5, <1>c, <3>2, GotoFine, InsideFine DEF Inside, RecStep
  <2> QED BY <2>2, <2>3, <2>4, <2>5
<1>4. ASSUME Conclude(k) PROVE Fine
  <2>1. Inside BY <1>4 DEF Conclude, Inside
  <2>2. PICK cl \in {"clean", "unknown"} : Synthetic(k, run[k].state, cl)
    BY <1>4 DEF Conclude
  <2>3. run[k].state \in {"canceled", "failed"} BY <1>0 DEF ActiveRun
  <2>4. RecStep BY <2>2, <2>3, SyntheticFine
  <2> QED BY <1>4, <2>1, <2>4, ReturnFine, InsideFine DEF Conclude, Inside
<1>5. ASSUME Retry(k) PROVE Fine
  <2>1. Inside BY <1>5 DEF Retry, Inside
  <2>2. CASE AppendAllowed(rec[k])
    <3>1. MayGo(run[k], "setretrying")
      BY <1>0, <1>5 DEF Retry, RunFine, MayGo, RunPc, LoopPcs, SavedPcs, CountedPcs
    <3>2. Write(k, appended(rec[k], "retrying")) /\ Goto(k, "setretrying") /\ UNCHANGED call
      BY <1>5, <2>2 DEF Retry
    <3>3. RecStep BY <2>2, <3>2, AppendMoves
    <3>4. RunsFine' BY <2>1, <3>1, <3>2, GotoFine DEF Inside
    <3> QED BY <1>c, <2>1, <3>2, <3>3, <3>4, InsideFine
  <2>3. CASE ~AppendAllowed(rec[k])
    BY <1>5, <2>1, <2>3, ReturnFine, InsideFine DEF Retry, Inside, RecStep
  <2> QED BY <2>2, <2>3
<1>6. ASSUME SetRetrying(k) PROVE Fine
  <2>1. Inside BY <1>6 DEF SetRetrying, Inside
  <2>2. CASE SetStateAllowed(rec[k], "retrying")
    <3>1. RecStep
      BY <1>0, <1>6, <2>2, StateFine, WriteMoves DEF SetRetrying, SetStateAllowed, BrokerOpen
    <3>2. MayGo(run[k], "sleep")
      BY <1>0, <1>6 DEF SetRetrying, RunFine, MayGo, RunPc, LoopPcs, SavedPcs, CountedPcs
    <3>3. RunsFine' BY <1>6, <2>1, <2>2, <3>2, GotoFine DEF SetRetrying, Inside
    <3> QED BY <1>6, <1>c, <2>1, <2>2, <3>1, <3>3, InsideFine DEF SetRetrying
  <2>3. CASE ~SetStateAllowed(rec[k], "retrying")
    BY <1>6, <2>1, <2>3, ReturnFine, InsideFine DEF SetRetrying, Inside, RecStep
  <2> QED BY <2>2, <2>3
<1>7. ASSUME Sleep(k) PROVE Fine
  <2>1. Inside /\ rec' = rec /\ UNCHANGED call BY <1>7 DEF Sleep, Inside
  <2>2. run[k].attempt < MaxAttempts BY <1>0, <1>7 DEF Sleep, RunFine, CountedPcs
  <2> DEFINE q == [run[k] EXCEPT !.pc = "lookup", !.attempt = run[k].attempt + 1, !.nonce = NoNonce]
  <2>3. \A r \in ActiveRun, i \in 1 .. MaxAttempts :
          LET p == [r EXCEPT !.pc = "lookup", !.attempt = i, !.nonce = NoNonce]
          IN  p \in ActiveRun /\ p.pc = "lookup"
    BY DEF ActiveRun, LoopPcs
  <2>8. run[k].attempt + 1 \in 1 .. MaxAttempts
    <3>1. run[k].attempt \in 1 .. MaxAttempts BY <1>0 DEF ActiveRun
    <3> QED BY <2>2, <3>1, BrokerAssumption
  <2>4. q \in ActiveRun /\ q.pc = "lookup" BY <1>0, <2>3, <2>8
  <2>5. RunFine(q, ckpt[k]) BY <2>4 DEF RunFine, SavedPcs, CountedPcs
  <2>6. run' = [run EXCEPT ![k] = q] BY <1>7, Zenon DEF Sleep
  <2>7. RunsFine' BY <2>1, <2>4, <2>5, <2>6, RunAt DEF Inside
  <2> QED BY <2>1, <1>c, <2>7, InsideFine DEF RecStep
<1> QED BY <1>1, <1>2, <1>3, <1>4, <1>5, <1>6, <1>7

-----------------------------------------------------------------------------
(* Orchestrator.Run.                                                       *)

\* The steps of Run that sign and dispatch nothing.
LEMMA RunSteps ==
  ASSUME IndInv, NEW k \in Keys,
         Load(k) \/ Prepare(k) \/ SignFails(k) \/ Assigned(k) \/ DispatchFails(k)
           \/ Stream(k) \/ Recover(k) \/ Result(k)
  PROVE  Fine
<1>0. run[k] \in ActiveRun /\ RunFine(run[k], ckpt[k]) /\ rec[k] \in BrokerRecord
  BY RecordIn DEF IndInv, RunsFine
<1>c. UNCHANGED call => CallOK' BY DEF IndInv, CallOK
<1>g. \A l \in RunPc \ (SavedPcs \cup CountedPcs) : MayGo(run[k], l) BY DEF MayGo
<1>p. {"decide", "sign", "prepare"} \subseteq RunPc \ (SavedPcs \cup CountedPcs)
  BY DEF RunPc, LoopPcs, RunPcs, SavedPcs, CountedPcs
<1>s. run[k].pc \in SavedPcs => \A l \in SavedPcs : MayGo(run[k], l)
  BY DEF MayGo, SavedPcs, CountedPcs, RunPc, RunPcs
<1>1. ASSUME Load(k) PROVE Fine
  <2>1. Inside /\ UNCHANGED call BY <1>1 DEF Load, Inside
  <2>2. CASE RunFails(k) BY <2>1, <1>c, <2>2, RunFailsFine, InsideFine DEF Inside
  <2>3. CASE ~RunFails(k)
    <3>1. /\ AppendAllowed(rec[k]) /\ Write(k, appended(rec[k], "accepted"))
          /\ run' = [run EXCEPT ![k].nonce = ckpt[k],
                                ![k].pc = IF ckpt[k] = NoNonce THEN "prepare" ELSE "dispatch"]
      BY <1>1, <2>3 DEF Load
    <3>2. RecStep BY <3>1, AppendMoves
    <3>3. PICK l \in {"prepare", "dispatch"} :
            l = IF ckpt[k] = NoNonce THEN "prepare" ELSE "dispatch"
      OBVIOUS
    <3>4. ckpt[k] \in Nonces \cup {NoNonce} BY DEF IndInv, CkptOK
    <3> DEFINE q == [run[k] EXCEPT !.nonce = ckpt[k], !.pc = l]
    <3>5. q \in ActiveRun /\ q.pc = l /\ q.nonce = ckpt[k]
      BY <1>0, <3>4 DEF ActiveRun, RunPcs
    <3>6. RunFine(q, ckpt[k]) BY <3>3, <3>5 DEF RunFine, SavedPcs, CountedPcs
    <3>7. run' = [run EXCEPT ![k] = q] BY <3>1, <3>3
    <3>8. RunsFine' BY <2>1, <3>5, <3>6, <3>7, RunAt DEF Inside
    <3> QED BY <2>1, <1>c, <3>2, <3>8, InsideFine
  <2> QED BY <2>2, <2>3
<1>2. ASSUME Prepare(k) PROVE Fine
  <2>1. Inside BY <1>2 DEF Prepare, Inside
  <2>2. \/ Emit(k, "assigning", "sign") /\ UNCHANGED call
        \/ RunFails(k) /\ UNCHANGED call
        \/ \E st \in {"canceled", "failed", "waiting"} : Terminate(k, st, "clean")
    BY <1>2 DEF Prepare
  <2>3. CASE Emit(k, "assigning", "sign") /\ UNCHANGED call
    BY <2>1, <2>3, <1>c, <1>g, <1>p, EmitFine, InsideFine DEF Inside
  <2>4. CASE RunFails(k) /\ UNCHANGED call
    BY <2>1, <2>4, <1>c, RunFailsFine, InsideFine DEF Inside
  <2>5. ASSUME NEW st \in {"canceled", "failed", "waiting"}, Terminate(k, st, "clean")
        PROVE  Fine
    <3>1. st \in BrokerTerminal /\ st # "complete" BY DEF BrokerTerminal
    <3> QED BY <2>1, <2>5, <3>1, TerminateFine, InsideFine DEF Inside
  <2> QED BY <2>2, <2>3, <2>4, <2>5
<1>3. ASSUME SignFails(k) PROVE Fine
  BY <1>3, <1>c, <1>g, <1>p, GotoFine, InsideFine DEF SignFails, Inside, RecStep
<1>4. ASSUME Assigned(k) PROVE Fine
  <2>1. Inside /\ UNCHANGED call BY <1>4 DEF Assigned, Inside
  <2>2. MayGo(run[k], "dispatch") BY <1>4, <1>s DEF Assigned, SavedPcs
  <2>3. RecStep /\ RunsFine' BY <1>4, <2>1, <2>2, EmitFine DEF Assigned, Inside
  <2> QED BY <2>1, <2>3, <1>c, InsideFine
<1>5. ASSUME DispatchFails(k) \/ Stream(k) \/ Recover(k) PROVE Fine
  <2>1. Inside /\ UNCHANGED call /\ rec' = rec
    BY <1>5 DEF DispatchFails, Stream, Recover, Inside
  <2>2. run[k].pc \in SavedPcs BY <1>5 DEF DispatchFails, Stream, Recover, SavedPcs
  <2>3. PICK l \in {"recover", "result", "decide"} : Goto(k, l)
    BY <1>5 DEF DispatchFails, Stream, Recover
  <2>4. MayGo(run[k], l)
    <3>1. CASE l = "decide" BY <3>1, <1>g, <1>p
    <3>2. CASE l # "decide" BY <3>2, <1>s, <2>2 DEF SavedPcs
    <3> QED BY <3>1, <3>2
  <2>5. RunsFine' BY <2>1, <2>3, <2>4, GotoFine DEF Inside
  <2> QED BY <2>1, <2>5, <1>c, InsideFine DEF RecStep
<1>6. ASSUME Result(k) PROVE Fine
  <2>1. Inside BY <1>6 DEF Result, Inside
  <2> DEFINE a  == [key |-> k, nonce |-> run[k].nonce]
             st == Mapped(a, outcome[k.build], k.build \in counted)
  <2>2. CASE st = "invalid"
    BY <1>6, <1>c, <2>1, <2>2, RunFailsFine, InsideFine DEF Result, Inside
  <2>3. CASE st # "invalid"
    <3>1. Terminate(k, st, "reported") BY <1>6, <2>3 DEF Result
    <3>2. k.build \in Builds BY KeyFacts
    <3>3. outcome[k.build] \in CellTerminal \cup {"absent", "active"}
      BY <3>2 DEF IndInv, CellOK
    <3>4. a.key = k /\ a.nonce = run[k].nonce OBVIOUS
    <3>5. held[k.build] = a /\ (st = outcome[k.build] \/ st = "failed")
      BY <2>3, <3>4 DEF Mapped
    <3>6. run[k].nonce = ckpt[k] /\ ckpt[k] # NoNonce
      BY <1>0, <1>6 DEF Result, RunFine, SavedPcs
    <3>7. outcome[k.build] \in CellTerminal BY <2>3 DEF Mapped
    <3>8. st \in BrokerTerminal
      BY <2>3, <3>4, <3>7 DEF Mapped, CellTerminal, BrokerTerminal
    <3>9. st = "complete" => FromCell(k) BY <3>5, <3>6 DEF FromCell
    <3> HIDE DEF st
    <3>10. RecStep /\ RunsFine' /\ CallOK' BY <2>1, <3>1, <3>8, <3>9, TerminateFine DEF Inside
    <3> QED BY <2>1, <3>10, InsideFine
  <2> QED BY <2>2, <2>3
<1> QED BY <1>1, <1>2, <1>3, <1>4, <1>5, <1>6

\* The assignment is signed at most once, and the run goes on with it.
LEMMA SignFine ==
  ASSUME IndInv, NEW k \in Keys, NEW n \in Nonces, Sign(k, n)
  PROVE  Fine
<1>1. run[k] \in ActiveRun BY DEF IndInv, RunsFine
<1>2. n # ckpt[k] BY DEF Sign, FreshNonce
<1>3. ckpt[k] = NoNonce BY <1>2 DEF Sign, SaveAllowed
<1>4. CkptStep BY <1>3 DEF Sign, CkptStep, Signed
<1>5. n # NoNonce BY BrokerStoreAssumption
<1> DEFINE q == [run[k] EXCEPT !.pc = "assigned", !.nonce = n]
<1>6. q \in ActiveRun /\ q.pc = "assigned" /\ q.nonce = n BY <1>1 DEF ActiveRun, RunPcs
<1>7. run' = [run EXCEPT ![k] = q] BY DEF Sign
<1>8. ckpt' = [ckpt EXCEPT ![k] = n] BY DEF Sign
<1>9. ckpt'[k] = n BY <1>8 DEF IndInv, CkptOK
<1>10. RunFine(q, ckpt'[k]) BY <1>5, <1>6, <1>9 DEF RunFine, CountedPcs
<1> HIDE DEF q
<1>11. run' \in [Keys -> ActiveRun] BY <1>6, <1>7 DEF IndInv, RunsFine
<1>12. \A j \in Keys : RunFine(run'[j], ckpt'[j])
  <2> SUFFICES ASSUME NEW j \in Keys PROVE RunFine(run'[j], ckpt'[j]) OBVIOUS
  <2>1. CASE j = k
    <3>1. run'[k] = q BY <1>7 DEF IndInv, RunsFine
    <3> QED BY <1>10, <2>1, <3>1
  <2>2. CASE j # k
    <3>1. run'[j] = run[j] /\ ckpt'[j] = ckpt[j]
      BY <1>7, <1>8, <2>2 DEF IndInv, RunsFine, CkptOK
    <3> QED BY <3>1 DEF IndInv, RunsFine
  <2> QED BY <2>1, <2>2
<1>13. CellStep BY CellSame DEF Sign, cell
<1>14. RestOK' /\ CallOK' /\ rec' = rec BY DEF IndInv, RestOK, CallOK, Sign, cell
<1> QED BY <1>4, <1>11, <1>12, <1>13, <1>14 DEF Fine, Step, RecStep, RunsFine

\* The cell takes the checkpointed assignment or none.
LEMMA DispatchFine ==
  ASSUME IndInv, NEW k \in Keys, Dispatch(k)
  PROVE  Fine
<1> DEFINE b == k.build
           a == [key |-> k, nonce |-> run[k].nonce]
<1>1. b \in Builds BY KeyFacts
<1>2. run[k].pc = "dispatch" /\ run[k].nonce = ckpt[k] /\ ckpt[k] # NoNonce
  BY DEF Dispatch, IndInv, RunsFine, RunFine, SavedPcs
<1>3. UNCHANGED <<rec, ckpt, call, late, resuming, closing, counted, faults>> BY DEF Dispatch
<1>4. PICK l \in {"stream", "result", "recover"} : Goto(k, l) BY DEF Dispatch
<1>5. MayGo(run[k], l)
  BY <1>2 DEF MayGo, SavedPcs, CountedPcs, RunPc, RunPcs
<1>6. RunsFine' BY <1>3, <1>4, <1>5, GotoFine
<1>7. driven' \subseteq Builds BY <1>1 DEF Dispatch, IndInv, RestOK
<1>8. CallOK' /\ RestOK' BY <1>3, <1>7 DEF IndInv, CallOK, RestOK
<1>9. a \in Assignment
  <2>1. run[k].nonce \in Nonces \cup {NoNonce} BY <1>2 DEF IndInv, CkptOK
  <2> QED BY <2>1 DEF Assignment
<1>10. CellStep
  <2>1. CASE UNCHANGED <<outcome, canceled, held>> BY <2>1, CellSame
  <2>2. CASE ~UNCHANGED <<outcome, canceled, held>>
    <3>1. /\ outcome[b] = "absent" /\ outcome' = [outcome EXCEPT ![b] = "active"]
          /\ canceled' = canceled /\ held' = [held EXCEPT ![b] = a]
      BY <2>2 DEF Dispatch, Cell!Accept
    <3>2. CellOK' BY <1>1, <1>9, <3>1 DEF IndInv, CellOK
    <3>3. \A d \in Builds \ {b} : outcome'[d] = outcome[d] /\ held'[d] = held[d]
      BY <3>1 DEF IndInv, CellOK
    <3>4. held'[b] = a BY <1>1, <3>1 DEF IndInv, CellOK
    <3>5. a.key = k /\ a.nonce = ckpt[k] BY <1>2
    <3>6. ckpt' = ckpt BY <1>3
    <3> HIDE DEF a, b
    <3>7. k.build = b BY DEF b
    <3> QED BY <1>2, <3>1, <3>2, <3>3, <3>4, <3>5, <3>6, <3>7 DEF CellStep
  <2> QED BY <2>1, <2>2
<1> QED BY <1>3, <1>6, <1>8, <1>10 DEF Fine, Step, RecStep, CkptStep

-----------------------------------------------------------------------------
(* Calls and the goroutines they leave behind.                             *)

\* The context of one run is done.
LEMMA StopFine ==
  ASSUME IndInv, NEW k \in Keys, run' = [run EXCEPT ![k].stopped = TRUE], ckpt' = ckpt
  PROVE  RunsFine'
<1>1. run[k] \in ActiveRun /\ RunFine(run[k], ckpt[k]) BY DEF IndInv, RunsFine
<1>2. \A r \in ActiveRun : LET q == [r EXCEPT !.stopped = TRUE]
        IN  q \in ActiveRun /\ q.pc = r.pc /\ q.nonce = r.nonce /\ q.attempt = r.attempt
  BY DEF ActiveRun
<1> DEFINE q == [run[k] EXCEPT !.stopped = TRUE]
<1>3. q \in ActiveRun /\ RunFine(q, ckpt[k]) BY <1>1, <1>2 DEF RunFine
<1>4. run' = [run EXCEPT ![k] = q] OBVIOUS
<1> HIDE DEF q
<1> QED BY <1>3, <1>4, RunAt

\* A run is started for a key that has none.
LEMMA StartedFine ==
  ASSUME IndInv, NEW k \in Keys, NEW ext \in BOOLEAN, run' = Started(k, ext), ckpt' = ckpt
  PROVE  RunsFine'
<1>1. CASE run[k].pc # "idle"
  <2>1. run' = run BY <1>1 DEF Started
  <2> QED BY <2>1 DEF IndInv, RunsFine
<1>2. CASE run[k].pc = "idle"
  <2>1. PICK d \in BOOLEAN : d = (closing \/ (k \in late /\ ~ext)) OBVIOUS
  <2> DEFINE q == [NoRun EXCEPT !.pc = "lookup", !.stopped = d]
  <2>2. run' = [run EXCEPT ![k] = q] BY <1>2, <2>1, Zenon DEF Started
  <2>3. \A r \in ActiveRun : LET p == [r EXCEPT !.pc = "lookup", !.stopped = d]
                             IN  p \in ActiveRun /\ p.pc = "lookup"
    BY DEF ActiveRun, LoopPcs
  <2>4. q \in ActiveRun /\ q.pc = "lookup" BY <2>3, IdleFine
  <2>5. RunFine(q, ckpt[k]) BY <2>4 DEF RunFine, SavedPcs, CountedPcs
  <2> HIDE DEF q
  <2> QED BY <2>2, <2>4, <2>5, RunAt
<1> QED BY <1>1, <1>2

\* Every step of a call or of a reconciliation goroutine.
LEMMA CallSteps ==
  ASSUME IndInv, NEW c \in Calls, CallStep(c)
  PROVE  Fine
<1> DEFINE k == call[c].key
<1>0. call[c] \in Call /\ k \in Keys /\ call[c].snap \in BOOLEAN BY DEF IndInv, CallOK, Call
<1>r. UNCHANGED run /\ ckpt' = ckpt => RunsFine' BY DEF IndInv, RunsFine
<1>u. rec' = rec => RecStep BY DEF RecStep
<1>1. ASSUME Start(c) PROVE Fine
  <2>1. Inside /\ rec' = rec BY <1>1 DEF Start, Inside
  <2>2. RunsFine' BY <1>0, <1>1, <2>1, StartedFine DEF Start, Inside
  <2>3. CallOK' BY <1>1, CallDone DEF Start
  <2> QED BY <1>u, <2>1, <2>2, <2>3, InsideFine
<1>2. ASSUME CancelLocal(c) \/ Kill(c) PROVE Fine
  <2>1. Inside /\ rec' = rec BY <1>2 DEF CancelLocal, Kill, Inside
  <2>2. /\ \E l \in {"waitlocal", "synthetic", "waitprior", "probe"} : Call_(c, l)
        /\ UNCHANGED run \/ run' = [run EXCEPT ![k].stopped = TRUE]
    BY <1>2 DEF CancelLocal, Kill, CancelActive
  <2>3. CallOK' BY <2>2, CallGoto
  <2>4. RunsFine' BY <1>0, <1>r, <2>1, <2>2, StopFine DEF Inside
  <2> QED BY <1>u, <2>1, <2>3, <2>4, InsideFine
<1>3. ASSUME CancelCellFails(c) \/ Reconcile(c) \/ ProbeDone(c) \/ Abandon(c) PROVE Fine
  <2>1. Inside /\ rec' = rec /\ UNCHANGED run
    BY <1>3 DEF CancelCellFails, Reconcile, ProbeDone, Abandon, Inside
  <2>2. Done(c) \/ \E l \in {"tick", "kill", "probe", "synthetic"} : Call_(c, l)
    BY <1>3 DEF CancelCellFails, NotAccepted, Reconcile, ProbeDone, Abandon
  <2>3. CallOK' BY <2>2, CallGoto, CallDone
  <2> QED BY <1>r, <1>u, <2>1, <2>3, InsideFine DEF Inside
<1>4. ASSUME CancelSynthetic(c) \/ Tick(c) PROVE Fine
  <2>1. Inside /\ UNCHANGED run BY <1>4 DEF CancelSynthetic, Tick, Inside
  <2>2. CallOK' BY <1>4, CallGoto, CallDone DEF CancelSynthetic, Tick
  <2>3. \/ rec' = rec
        \/ \E st \in {"canceled", "failed"}, cl \in {"clean", "unknown"} : Synthetic(k, st, cl)
    BY <1>4 DEF CancelSynthetic, Tick
  <2>4. RecStep BY <1>0, <1>u, <2>3, SyntheticFine
  <2> QED BY <1>r, <2>1, <2>2, <2>4, InsideFine DEF Inside
<1>5. ASSUME CancelCell(c) PROVE Fine
  <2>1. UNCHANGED <<rec, ckpt, run, late, resuming, closing, held, driven, counted, faults>>
    BY <1>5 DEF CancelCell
  <2>2. outcome' = outcome /\ (canceled' = canceled \/ canceled' = [canceled EXCEPT ![k.build] = TRUE])
    BY <1>5 DEF CancelCell, Cell!Cancel
  <2>3. CellStep BY <2>1, <2>2 DEF IndInv, CellOK, CellStep
  <2>4. \A d \in Call : [d EXCEPT !.pc = "starting", !.snap = TRUE] \in Call BY DEF Call
  <2>5. \/ call' = [call EXCEPT ![c] = [call[c] EXCEPT !.pc = "starting", !.snap = TRUE]]
        \/ \E l \in {"tick", "kill"} : Call_(c, l)
    BY <1>5 DEF CancelCell, NotAccepted
  <2>6. CallOK' BY <1>0, <2>4, <2>5, CallGoto DEF IndInv, CallOK
  <2>7. RestOK' BY <2>1 DEF IndInv, RestOK
  <2> QED BY <1>r, <1>u, <2>1, <2>3, <2>6, <2>7 DEF Fine, Step, CkptStep
<1> QED BY <1>1, <1>2, <1>3, <1>4, <1>5 DEF CallStep

\* A call is made.
LEMMA CallMade ==
  ASSUME IndInv, NEW c \in Calls, NEW k \in Keys, NEW snap \in BOOLEAN,
         NEW l \in {"starting", "cancel", "probe"},
         call' = [call EXCEPT ![c] = [pc |-> l, key |-> k, snap |-> snap]]
  PROVE  CallOK'
<1>1. [pc |-> l, key |-> k, snap |-> snap] \in Call BY DEF Call
<1> QED BY <1>1 DEF IndInv, CallOK

\* Claim creates a generation only after every other of the build has ended.
LEMMA ClaimCreates ==
  ASSUME IndInv, NEW q \in Requests, Claim(rec, q) = "created", Write(Key(q), acceptedRun(q))
  PROVE  Born(q)
<1> DEFINE k     == Key(q)
           known == {j \in Keys : rec[j].state # "absent"}
           older == {j \in known : j.build = q.build}
<1>1. k \notin known
  <2> SUFFICES ASSUME k \in known PROVE FALSE OBVIOUS
  <2>1. Claim(rec, q) = IF rec[k].digest = q.digest THEN "attached" ELSE "conflict"
    BY DEF Claim
  <2> QED BY <2>1
<1>2. Claim(rec, q) = IF Cardinality(known) >= MaxRuns THEN "full"
                      ELSE IF \E j \in older : j.gen >= q.gen THEN "stale"
                      ELSE IF \E j \in older : /\ rec[j].state \in BrokerOpen
                                               /\ \A i \in older : i.gen <= j.gen
                      THEN "active" ELSE "created"
  BY <1>1 DEF Claim
<1>3. ~\E j \in older : j.gen >= q.gen BY <1>2
<1>4. ~\E j \in older : /\ rec[j].state \in BrokerOpen
                        /\ \A i \in older : i.gen <= j.gen
  BY <1>2
<1>5. \A j \in older : rec[j].state \notin BrokerOpen
  <2> SUFFICES ASSUME NEW j \in older, rec[j].state \in BrokerOpen PROVE FALSE OBVIOUS
  <2>1. \A i \in older : i.gen <= j.gen BY DEF IndInv, LatestOpen
  <2> QED BY <1>4, <2>1
<1>6. \A j \in older : j.gen < q.gen
  <2> SUFFICES ASSUME NEW j \in older PROVE j.gen < q.gen OBVIOUS
  <2>1. j.gen \in Nat /\ q.gen \in Nat BY KeyFacts
  <2> QED BY <1>3, <2>1
<1>7. rec[k].state = "absent" BY <1>1, KeyFacts
<1> QED BY <1>5, <1>6, <1>7 DEF Born, Write

\* Submit and Cancel.
LEMMA CallsBegin ==
  ASSUME IndInv, NEW c \in Calls,
         (\E q \in Requests : Submit(c, q)) \/ (\E k \in Keys : Cancel(c, k))
  PROVE  Fine
<1>r. UNCHANGED run /\ ckpt' = ckpt => RunsFine' BY DEF IndInv, RunsFine
<1>1. ASSUME NEW q \in Requests, Submit(c, q) PROVE Fine
  <2> DEFINE k == Key(q)
  <2>0. k \in Keys BY KeyFacts
  <2>1. Inside /\ UNCHANGED run BY <1>1 DEF Submit, Inside
  <2>2. PICK snap \in BOOLEAN : snap = (rec[k].state = "canceling" /\ rec[k].dispatched)
    OBVIOUS
  <2>3. call' = [call EXCEPT ![c] = [pc |-> "starting", key |-> k, snap |-> snap]]
    BY <1>1, <2>2, Zenon DEF Submit
  <2>4. CallOK' BY <2>0, <2>3, CallMade
  <2>5. rec' = rec \/ (Claim(rec, q) = "created" /\ Write(k, acceptedRun(q)))
    BY <1>1 DEF Submit
  <2>6. RecStep BY <2>5, ClaimCreates DEF RecStep
  <2> QED BY <1>r, <2>1, <2>4, <2>6, InsideFine DEF Inside
<1>2. ASSUME NEW k \in Keys, Cancel(c, k) PROVE Fine
  <2>1. Inside /\ UNCHANGED run BY <1>2 DEF Cancel, Inside
  <2>2. rec[k] \in BrokerRecord BY RecordIn
  <2>3. rec[k].dispatched \in BOOLEAN BY <2>2 DEF BrokerRecord
  <2>4. CallOK' BY <1>2, <2>3, CallMade DEF Cancel
  <2>5. RecStep BY <1>2, <2>2, StateFine, WriteMoves DEF Cancel, SetStateAllowed, BrokerOpen
  <2> QED BY <1>r, <2>1, <2>4, <2>5, InsideFine DEF Inside
<1> QED BY <1>1, <1>2

-----------------------------------------------------------------------------
(* Time, restarts and the cell.                                            *)

\* Deadlines, a log that fills up, and the resumption of a record.
LEMMA KeySteps ==
  ASSUME IndInv, NEW k \in Keys, Deadline(k) \/ LogFills(k) \/ Resume(k)
  PROVE  Fine
<1>0. rec[k] \in BrokerRecord BY RecordIn
<1>r. UNCHANGED run /\ ckpt' = ckpt => RunsFine' BY DEF IndInv, RunsFine
<1>c. UNCHANGED call => CallOK' BY DEF IndInv, CallOK
<1>1. ASSUME Deadline(k) PROVE Fine
  <2>1. UNCHANGED <<rec, ckpt, call, resuming, closing, cell, faults>> BY <1>1 DEF Deadline
  <2>2. RunsFine' BY <1>1, <1>r, <2>1, StopFine DEF Deadline
  <2>3. RestOK' BY <1>1, <2>1 DEF Deadline, IndInv, RestOK, cell
  <2>4. CellStep BY <2>1, CellSame DEF cell
  <2> QED BY <1>c, <2>1, <2>2, <2>3, <2>4 DEF Fine, Step, RecStep, CkptStep
<1>2. ASSUME LogFills(k) PROVE Fine
  <2>1. UNCHANGED <<ckpt, broker, cell>> BY <1>2 DEF LogFills
  <2> DEFINE r == [rec[k] EXCEPT !.full = TRUE]
  <2>2. r \in BrokerRecord /\ r.state = rec[k].state BY <1>0 DEF BrokerRecord
  <2>3. rec[k].state \in BrokerOpen /\ Write(k, r) BY <1>2 DEF LogFills, AppendAllowed
  <2>4. r.state \notin {"absent", "complete"} BY <2>2, <2>3 DEF BrokerOpen
  <2> HIDE DEF r
  <2>5. RecStep BY <2>2, <2>3, <2>4, WriteMoves
  <2>6. RestOK' BY <1>2, <2>1, BrokerAssumption DEF LogFills, IndInv, RestOK, broker, cell
  <2>7. CellStep BY <2>1, CellSame DEF cell
  <2> QED BY <1>r, <1>c, <2>1, <2>5, <2>6, <2>7 DEF Fine, Step, CkptStep, broker
<1>3. ASSUME Resume(k) PROVE Fine
  <2>1. UNCHANGED <<ckpt, late, closing, cell, faults>> BY <1>3 DEF Resume
  <2>2. RestOK' BY <1>3, <2>1 DEF Resume, IndInv, RestOK, cell
  <2>3. CellStep BY <2>1, CellSame DEF cell
  <2>4. RecStep /\ RunsFine' /\ CallOK'
    <3>1. CASE rec[k].state = "canceling" /\ ~rec[k].dispatched
      <4>1. Synthetic(k, "canceled", "clean") /\ UNCHANGED <<run, call>>
        BY <1>3, <3>1 DEF Resume
      <4> QED BY <1>r, <1>c, <2>1, <4>1, SyntheticFine
    <3>2. CASE ~(rec[k].state = "canceling" /\ ~rec[k].dispatched)
      <4>1. PICK ext \in BOOLEAN : ext = (rec[k].state = "canceling" /\ rec[k].dispatched)
        OBVIOUS
      <4>2. /\ run' = Started(k, ext) /\ UNCHANGED rec
            /\ \/ UNCHANGED call
               \/ \E c \in Calls : call' = [call EXCEPT ![c] = [pc |-> "probe", key |-> k,
                                                                snap |-> TRUE]]
        BY <1>3, <3>2, <4>1 DEF Resume
      <4>3. RunsFine' BY <2>1, <4>2, StartedFine
      <4>4. CallOK' BY <1>c, <4>2, CallMade
      <4> QED BY <4>2, <4>3, <4>4 DEF RecStep
    <3> QED BY <3>1, <3>2
  <2> QED BY <2>1, <2>2, <2>3, <2>4 DEF Fine, Step, CkptStep
<1> QED BY <1>1, <1>2, <1>3

\* The process is closed, or ends and is replaced.
LEMMA ProcessSteps ==
  ASSUME IndInv, Close \/ Restart
  PROVE  Fine
<1>1. UNCHANGED <<rec, ckpt, late, cell>> BY DEF Close, Restart
<1>2. CellStep BY <1>1, CellSame DEF cell
<1>3. faults' \in 0 .. MaxFaults
  BY BrokerAssumption DEF Close, Restart, IndInv, RestOK
<1>4. RestOK' BY <1>1, <1>3 DEF Close, Restart, IndInv, RestOK, cell
<1>5. CallOK'
  <2>1. NoCall \in Call BY SomeKey DEF NoCall, Call
  <2> QED BY <2>1 DEF Close, Restart, IndInv, CallOK
<1>6. RunsFine'
  <2>1. CASE Restart BY <1>1, <2>1, IdleFine DEF Restart, RunsFine
  <2>2. CASE Close
    <3>1. \A r \in ActiveRun : LET p == [r EXCEPT !.stopped = TRUE]
            IN  p \in ActiveRun /\ p.pc = r.pc /\ p.nonce = r.nonce /\ p.attempt = r.attempt
      BY DEF ActiveRun
    <3>2. \A k \in Keys : run[k] \in ActiveRun /\ RunFine(run[k], ckpt[k])
      BY DEF IndInv, RunsFine
    <3>3. \A k \in Keys : LET p == [run[k] EXCEPT !.stopped = TRUE]
            IN  p \in ActiveRun /\ RunFine(p, ckpt[k])
      BY <3>1, <3>2 DEF RunFine
    <3>4. run' = [k \in Keys |-> IF run[k].pc = "idle" THEN run[k]
                                 ELSE [run[k] EXCEPT !.stopped = TRUE]]
      BY <2>2 DEF Close
    <3>5. run' \in [Keys -> ActiveRun] BY <3>2, <3>3, <3>4
    <3>6. \A k \in Keys : RunFine(run'[k], ckpt[k]) BY <3>2, <3>3, <3>4
    <3> QED BY <1>1, <3>5, <3>6 DEF RunsFine
  <2> QED BY <2>1, <2>2
<1> QED BY <1>1, <1>2, <1>4, <1>5, <1>6 DEF Fine, Step, RecStep, CkptStep

\* The cell ends the build, or its call returns.
LEMMA CellSteps ==
  ASSUME IndInv, NEW b \in Builds, CellEnds(b) \/ CellReturns(b)
  PROVE  Fine
<1>1. UNCHANGED <<rec, ckpt, broker, held>> BY DEF CellEnds, CellReturns
<1>2. RunsFine' /\ CallOK' BY <1>1 DEF IndInv, RunsFine, CallOK, broker
<1>3. driven' \subseteq Builds /\ counted' \subseteq Builds
  BY DEF CellEnds, CellReturns, IndInv, RestOK
<1>4. faults' \in 0 .. MaxFaults
  BY BrokerAssumption DEF CellEnds, CellReturns, IndInv, RestOK
<1>5. RestOK' BY <1>1, <1>3, <1>4 DEF IndInv, RestOK, broker
<1>6. \/ UNCHANGED <<outcome, canceled, held>>
      \/ /\ outcome[b] = "active" /\ canceled' = canceled
         /\ \E p \in CellTerminal : outcome' = [outcome EXCEPT ![b] = p]
  BY <1>1 DEF CellEnds, CellReturns, Cell!End, CellTerminal
<1>7. CellStep
  <2>1. CASE UNCHANGED <<outcome, canceled, held>> BY <2>1, CellSame
  <2>2. ASSUME outcome[b] = "active", canceled' = canceled,
               NEW p \in CellTerminal, outcome' = [outcome EXCEPT ![b] = p]
        PROVE  CellStep
    <3>1. CellOK' BY <1>1, <2>2 DEF IndInv, CellOK
    <3>2. \A d \in Builds : outcome'[d] = outcome[d] \/ (d = b /\ outcome'[d] = p)
      BY <2>2 DEF IndInv, CellOK
    <3>3. p # "absent" BY DEF CellTerminal
    <3> QED BY <1>1, <2>2, <3>1, <3>2, <3>3 DEF CellStep
  <2> QED BY <1>6, <2>1, <2>2
<1> QED BY <1>1, <1>2, <1>5, <1>7 DEF Fine, Step, RecStep, CkptStep

-----------------------------------------------------------------------------
(* The invariant and the theorems.                                         *)

\* Nothing is stored, signed or accepted at the start.
LEMMA InitInv == Init => IndInv
<1> SUFFICES ASSUME Init PROVE IndInv OBVIOUS
<1> USE DEF Init
<1>1. RunsFine BY IdleFine DEF RunsFine
<1>2. CkptOK BY DEF CkptOK
<1>3. RecOK BY AbsentFine DEF RecOK
<1>4. CallOK
  <2>1. NoCall \in Call BY SomeKey DEF NoCall, Call
  <2> QED BY <2>1 DEF CallOK
<1>5. \A b \in Builds : outcome[b] = "absent" BY DEF Cell!Init
<1>6. CellOK
  <2>1. NoAssignment \in Assignment BY SomeKey DEF NoAssignment, Assignment
  <2> QED BY <2>1 DEF CellOK, Cell!Init
<1>7. RestOK
  <2>1. faults \in 0 .. MaxFaults BY BrokerAssumption
  <2>2. closing \in BOOLEAN BY Zenon
  <2>3. late \subseteq Keys /\ resuming \subseteq Keys /\ driven \subseteq Builds /\ counted \subseteq Builds
    OBVIOUS
  <2> QED BY <2>1, <2>2, <2>3, Zenon DEF RestOK
<1>8. HeldSaved BY <1>5, KeyFacts DEF HeldSaved
<1>9. \A k \in Keys : rec[k].state = "absent" BY DEF AbsentRun
<1>10. CompleteIsCells BY <1>9 DEF CompleteIsCells
<1>11. LatestOpen BY <1>9 DEF LatestOpen, BrokerOpen
<1> QED BY <1>1, <1>2, <1>3, <1>4, <1>6, <1>7, <1>8, <1>10, <1>11 DEF IndInv

\* What every step of the broker, of its callers and of the cell may do.
LEMMA NextFine ==
  ASSUME IndInv, [Next]_vars
  PROVE  Fine
<1>1. CASE UNCHANGED vars
  <2>1. UNCHANGED <<outcome, canceled, held>> BY <1>1 DEF vars
  <2>2. RunsFine' /\ CallOK' /\ RestOK'
    BY <1>1 DEF vars, IndInv, RunsFine, CallOK, RestOK
  <2> QED BY <1>1, <2>1, <2>2, CellSame DEF vars, Fine, Step, RecStep, CkptStep
<1>2. ASSUME NEW k \in Keys, Execute(k) PROVE Fine
  BY <1>2, ExecuteLoop, RunSteps, SignFine, DispatchFine DEF Execute
<1>3. ASSUME NEW k \in Keys, Deadline(k) \/ LogFills(k) \/ Resume(k) PROVE Fine
  BY <1>3, KeySteps
<1>4. ASSUME NEW c \in Calls, CallStep(c) PROVE Fine BY <1>4, CallSteps
<1>5. ASSUME NEW c \in Calls,
             (\E q \in Requests : Submit(c, q)) \/ (\E k \in Keys : Cancel(c, k))
      PROVE  Fine
  BY <1>5, CallsBegin
<1>6. ASSUME NEW b \in Builds, CellEnds(b) \/ CellReturns(b) PROVE Fine BY <1>6, CellSteps
<1>7. CASE Close \/ Restart BY <1>7, ProcessSteps
<1> QED BY <1>1, <1>2, <1>3, <1>4, <1>5, <1>6, <1>7 DEF Next

\* The invariant is inductive.
LEMMA NextInv == IndInv /\ [Next]_vars => IndInv'
BY NextFine, SafetyPreserved DEF Fine, IndInv

\* The invariant holds in every reachable state.
LEMMA Invariant == Spec => []IndInv
BY InitInv, NextInv, PTL DEF Spec

\* Every variable of the broker and of the cell keeps its type, for any number
\* of requests, calls and attempts; in particular no run counts an attempt past
\* the limit (broker.go execute).
THEOREM BrokerTypeCorrect == Spec => []TypeOK
<1>1. IndInv => TypeOK
  BY DEF IndInv, RunsFine, CkptOK, RecOK, CallOK, CellOK, RestOK, TypeOK
<1> QED BY <1>1, Invariant, PTL

\* What the cell holds for a generation is the checkpointed assignment, through
\* every retry, crash and restart (orchestrator.go Run, broker_store.go Save).
THEOREM AssignmentSignedOnce == Spec => []OneAssignment
<1>1. IndInv => OneAssignment BY DEF IndInv, HeldSaved, OneAssignment
<1> QED BY <1>1, Invariant, PTL

\* A run recorded complete was completed by the cell under the assignment of
\* this very generation (orchestrator.go Run, execution.go result mapping).
THEOREM CompletedByCell == Spec => []CompleteIsCells
<1>1. IndInv => CompleteIsCells BY DEF IndInv
<1> QED BY <1>1, Invariant, PTL

\* Two generations of a build are never open together (broker_store.go Claim).
THEOREM GenerationsInTurn == Spec => []OneOpenGeneration
<1>1. IndInv => OneOpenGeneration
  <2> SUFFICES ASSUME IndInv, NEW j \in Keys, NEW k \in Keys, j.build = k.build,
                      rec[j].state \in BrokerOpen, rec[k].state \in BrokerOpen
               PROVE  j = k
    BY DEF OneOpenGeneration
  <2>1. rec[j].state # "absent" /\ rec[k].state # "absent" BY DEF BrokerOpen
  <2>2. k.gen <= j.gen /\ j.gen <= k.gen BY <2>1 DEF IndInv, LatestOpen
  <2>3. j.gen \in Nat /\ k.gen \in Nat BY KeyFacts
  <2>4. j.gen = k.gen BY <2>2, <2>3
  <2> QED BY <2>4, KeyFacts
<1> QED BY <1>1, Invariant, PTL

\* No run, call or reconciliation goroutine writes a terminal record again
\* (broker_store.go Append and SetState).
THEOREM TerminalRunKept == Spec => TerminalRunStays
<1>1. IndInv /\ [Next]_vars
        => [\A k \in Keys : rec[k].state \in BrokerTerminal => rec'[k] = rec[k]]_vars
  <2> SUFFICES ASSUME IndInv, [Next]_vars, NEW k \in Keys, rec[k].state \in BrokerTerminal
               PROVE  rec'[k] = rec[k]
    OBVIOUS
  <2>1. RecStep BY NextFine DEF Fine, Step
  <2>2. rec[k].state \notin BrokerOpen /\ rec[k].state # "absent"
    BY DEF BrokerTerminal, BrokerOpen
  <2>3. ASSUME NEW j \in Keys, Moved(j) PROVE rec'[k] = rec[k]
    BY <2>2, <2>3 DEF Moved, IndInv, RecOK
  <2>4. ASSUME NEW q \in Requests, Born(q) PROVE rec'[k] = rec[k]
    BY <2>2, <2>4 DEF Born, IndInv, RecOK
  <2> QED BY <2>1, <2>3, <2>4 DEF RecStep
<1> QED BY <1>1, Invariant, PTL DEF Spec, TerminalRunStays
=============================================================================
