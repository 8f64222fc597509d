-------------------------- MODULE SourcePlaneProofs --------------------------
(***************************************************************************)
(* Theorems about source ingestion, for any uploads, fetches, archives,    *)
(* parts, handlers, gateways and any number of faults.                     *)
(*                                                                         *)
(* Objects are only ever added (Grows), so what a handler has verified     *)
(* and written before it signs stays true whatever other handlers do       *)
(* (Verified), and a receipt that was seen once is the receipt for good    *)
(* (Concluded): a handler may delete the parts, or read the winner's       *)
(* receipt, only when there is one.                                        *)
(*                                                                         *)
(* What a repacked archive contains follows from the definition of         *)
(* SetToSeq over a finite set, not by induction over its entries.          *)
(***************************************************************************)
EXTENDS SourcePlane, FiniteSetTheorems, TLAPS

-----------------------------------------------------------------------------
(* What a repacked archive contains.                                       *)

\* A finite set laid out as a sequence: each element, and nothing else.
LEMMA SetToSeqLists ==
  ASSUME NEW S, IsFiniteSet(S)
  PROVE  /\ SetToSeq(S) \in [1 .. Cardinality(S) -> S]
         /\ Cardinality(S) \in Nat
         /\ \A x \in S : \E i \in 1 .. Cardinality(S) : SetToSeq(S)[i] = x
<1> DEFINE D == 1 .. Cardinality(S)
<1>1. Cardinality(S) \in Nat /\ ExistsBijection(D, S)
  BY FS_CardinalityType
<1>2. \E f \in [D -> S] : IsInjective(f)
  <2>1. PICK f \in Bijection(D, S) : TRUE
    BY <1>1 DEF ExistsBijection
  <2>2. f \in [D -> S] /\ IsInjective(f)
    BY <2>1, Zenon DEF Bijection, Injection, IsInjective
  <2> QED
    BY <2>2
<1>3. SetToSeq(S) \in [D -> S] /\ IsInjective(SetToSeq(S))
  BY <1>2 DEF SetToSeq
<1>4. SetToSeq(S) \in Injection(D, S)
  BY <1>3, Zenon DEF Injection, IsInjective
<1>5. Cardinality(D) = Cardinality(S)
  BY <1>1, FS_Interval
<1>6. SetToSeq(S) \in Surjection(D, S)
  BY <1>4, <1>5, FS_Injection
<1>7. ASSUME NEW x \in S PROVE \E i \in D : SetToSeq(S)[i] = x
  BY <1>6, Zenon DEF Surjection
<1> QED
  BY <1>1, <1>3, <1>7

\* normalizeArchive: the manifest of what replaces a provider's archive lists
\* exactly the files of the tree, if it is accepted at all.
LEMMA RepackedFiles ==
  ASSUME NEW f \in Fetches, NEW a \in Archives, Normalized[f][a] # None, Accepted[Normalized[f][a]]
  PROVE  /\ Normalized[f][a] \in Archives
         /\ Manifest[Normalized[f][a]].files = TreeFiles(f)
<1> DEFINE tree == resolveTree(Trees[f])
           files == {Trees[f].entries[i] : i \in Files(Trees[f])}
           b == Normalized[f][a]
           entries == SetToSeq(files)
           File(e) == [path |-> e.path, size |-> e.size, blob |-> e.blob, exec |-> e.exec]
<1>1. /\ tree # Rejected
      /\ normalizeArchive(Content[a], tree, f) # Rejected
      /\ b = CHOOSE x \in Archives : Content[x] = normalizeArchive(Content[a], tree, f)
  BY Zenon DEF Normalized
<1>2. normalizeArchive(Content[a], tree, f) = repacked(tree)
  BY <1>1, Zenon DEF normalizeArchive
<1>3. b \in Archives /\ Content[b] = repacked(tree)
  BY <1>1, <1>2, RepackedAssumption, Zenon
<1>4. tree = [files |-> files]
  BY <1>1, Zenon DEF resolveTree
<1>5. Content[b].entries = entries
  BY <1>3, <1>4 DEF repacked
<1>6. IsFiniteSet(files)
  <2> DEFINE D == Files(Trees[f])
             nth == [i \in D |-> Trees[f].entries[i]]
  <2>1. IsFiniteSet(1 .. Len(Trees[f].entries)) /\ D \in SUBSET (1 .. Len(Trees[f].entries))
    BY SourceAssumption, FS_Interval DEF Files
  <2>2. IsFiniteSet(D)
    BY <2>1, FS_Subset
  <2>3. nth \in Surjection(D, files)
    BY Zenon DEF Surjection
  <2> QED
    BY <2>2, <2>3, FS_Surjection
<1>7. readTar(Content[b]) # Rejected
  BY <1>3, Zenon DEF Accepted, FinalizeArchive
<1>8. Manifest[b] = readTar(Content[b])
  BY <1>3 DEF Manifest
<1>9. Manifest[b].files = {File(entries[i]) : i \in Files(Content[b])}
  <2> DEFINE listed == {File(Content[b].entries[i]) : i \in Files(Content[b])}
  <2>1. readTar(Content[b]) = [files |-> listed, bytes |-> Expanded(Content[b])]
    BY <1>7, Zenon DEF readTar
  <2> HIDE DEF listed
  <2>2. Manifest[b].files = listed
    BY <1>8, <2>1
  <2> QED
    BY <1>5, <2>2, Zenon DEF listed
<1>10. Files(Content[b]) = 1 .. Cardinality(files)
  <2>1. Len(entries) = Cardinality(files)
    BY <1>6, SetToSeqLists
  <2>2. \A i \in 1 .. Cardinality(files) : entries[i] \in files
    BY <1>6, SetToSeqLists
  <2>3. \A e \in files : e.kind = "file"
    BY DEF Files
  <2> QED
    BY <1>5, <2>1, <2>2, <2>3 DEF Files
<1>11. {File(entries[i]) : i \in 1 .. Cardinality(files)} = {File(e) : e \in files}
  <2>1. \A i \in 1 .. Cardinality(files) : entries[i] \in files
    BY <1>6, SetToSeqLists
  <2>2. \A e \in files : \E i \in 1 .. Cardinality(files) : entries[i] = e
    BY <1>6, SetToSeqLists
  <2> HIDE DEF entries, files
  <2> QED
    BY <2>1, <2>2
<1>12. TreeFiles(f) = {File(e) : e \in files}
  BY Zenon DEF TreeFiles
<1> QED
  BY <1>3, <1>9, <1>10, <1>11, <1>12

-----------------------------------------------------------------------------
(* The inductive invariant.                                                *)

States == {"none", "uploading", "finalizing", "authorized", "fetching", "complete", "failed",
           "expired"}
Pcs == GatewayPcs \cup {"idle", "answered", "refused"}
Snapshots == {SnapshotSHA256(ManifestSHA256[a], Metadata[r]) : a \in Archives, r \in Requests}
Receipts == [snapshot : Snapshots, archive : Archives, finalizedAt : Calls]
Handlers == [pc : Pcs, req : Requests \cup {None}, gw : Gateways \cup {None},
             declared : Archives \cup {None}, part : 1 .. Parts,
             source : Archives \cup {None}, receipt : Receipts \cup {None},
             row : States \cup {None}, waiting : BOOLEAN]

HandlerTypes == call \in [Calls -> Handlers]

SourceTypes ==
  /\ HandlerTypes
  /\ state \in [Requests -> States]
  /\ part \in [Uploads -> [1 .. Parts -> Archives \cup {None}]]
  /\ receipts \in [DOMAIN receipts -> Receipts]
  /\ archives = [s \in DOMAIN archives |-> archives[s]]

\* What a request may be answered with: the granted archive, or one with
\* exactly the files of the commit.
Backs(r, a) ==
  /\ a \in Archives
  /\ r \in Uploads => a = Granted[r]
  /\ r \in Fetches => Manifest[a].files = TreeFiles(r)

\* Which requests a handler serves at which step.
Serves(c) ==
  LET h == call[c] IN
  /\ h.pc # "idle" => h.req \in Requests
  /\ h.pc # "idle" /\ h.req \in Uploads => h.declared \in Archives
  /\ h.pc \in {"read", "delete"} => h.req \in Uploads
  /\ h.pc \in {"lock", "resolve", "reread"} => h.req \in Fetches

\* What it has verified, and written.
Verified(c) ==
  LET h == call[c] IN
  /\ h.pc \in {"archive", "manifest", "sign"} => Backs(h.req, h.source)
  /\ h.pc \in {"manifest", "sign"} => /\ Snapshot(c) \in DOMAIN archives
                                      /\ archives[Snapshot(c)] = h.source
  /\ h.pc = "sign" => Snapshot(c) \in manifests

\* What it knows to be stored for its request.
Concluded(c) ==
  LET h == call[c] IN
  /\ h.pc \in {"delete", "reread"} => h.req \in DOMAIN receipts
  /\ h.pc = "delete" => receipts[h.req] = h.receipt

HandlerInv(c) == Serves(c) /\ Verified(c) /\ Concluded(c)

SourceInv ==
  /\ SourceTypes
  /\ \A c \in Calls : HandlerInv(c)
  /\ AnswersAgree
  /\ ReceiptIsBacked

-----------------------------------------------------------------------------
(* Steps of one handler.                                                   *)

\* Objects are written once.
Grows ==
  /\ \A s \in DOMAIN archives : s \in DOMAIN archives' /\ archives'[s] = archives[s]
  /\ manifests \subseteq manifests'
  /\ \A r \in DOMAIN receipts : r \in DOMAIN receipts' /\ receipts'[r] = receipts[r]

\* A handler moves; it serves the same request.
Moves(c) ==
  /\ HandlerTypes'
  /\ \A d \in Calls \ {c} : call'[d] = call[d]
  /\ call'[c].req = call[c].req /\ call'[c].declared = call[c].declared

LEMMA GoMoves ==
  ASSUME HandlerTypes, NEW c \in Calls, NEW pc \in Pcs, Go(c, pc)
  PROVE  /\ Moves(c) /\ call'[c].pc = pc
         /\ call'[c].source = call[c].source /\ call'[c].receipt = call[c].receipt
<1>1. call[c] \in Handlers
  BY DEF HandlerTypes
<1>2. [call[c] EXCEPT !.pc = pc] \in Handlers
  BY <1>1 DEF Handlers
<1>3. call' = [call EXCEPT ![c] = [call[c] EXCEPT !.pc = pc]]
  BY DEF Go
<1>4. call'[c] = [call[c] EXCEPT !.pc = pc] /\ \A d \in Calls \ {c} : call'[d] = call[d]
  BY <1>3 DEF HandlerTypes
<1>5. HandlerTypes'
  BY <1>2, <1>3 DEF HandlerTypes
<1> QED
  BY <1>1, <1>4, <1>5 DEF Moves, Handlers

LEMMA GoWithSourceMoves ==
  ASSUME HandlerTypes, NEW c \in Calls, NEW a \in Archives, GoWithSource(c, a)
  PROVE  Moves(c) /\ call'[c].pc = "archive" /\ call'[c].source = a
<1> DEFINE h == [call[c] EXCEPT !.pc = "archive", !.source = a]
<1>1. call[c] \in Handlers
  BY DEF HandlerTypes
<1>2. h \in Handlers
  BY <1>1 DEF Handlers, Pcs, GatewayPcs
<1>3. call' = [call EXCEPT ![c] = h]
  BY DEF GoWithSource
<1>4. call'[c] = h /\ \A d \in Calls \ {c} : call'[d] = call[d]
  BY <1>3 DEF HandlerTypes
<1>5. HandlerTypes'
  BY <1>2, <1>3 DEF HandlerTypes
<1> QED
  BY <1>1, <1>4, <1>5 DEF Moves, Handlers

LEMMA GoWithReceiptMoves ==
  ASSUME HandlerTypes, NEW c \in Calls, NEW pc \in Pcs, NEW x \in Receipts,
         GoWithReceipt(c, pc, x)
  PROVE  Moves(c) /\ call'[c].pc = pc /\ call'[c].receipt = x
<1> DEFINE h == [call[c] EXCEPT !.pc = pc, !.receipt = x]
<1>1. call[c] \in Handlers
  BY DEF HandlerTypes
<1>2. h \in Handlers
  BY <1>1 DEF Handlers
<1>3. call' = [call EXCEPT ![c] = h]
  BY DEF GoWithReceipt
<1>4. call'[c] = h /\ \A d \in Calls \ {c} : call'[d] = call[d]
  BY <1>3 DEF HandlerTypes
<1>5. HandlerTypes'
  BY <1>2, <1>3 DEF HandlerTypes
<1> QED
  BY <1>1, <1>4, <1>5 DEF Moves, Handlers

\* A handler that did not move knows what it knew.
LEMMA OtherHandler ==
  ASSUME Grows, NEW d \in Calls, call'[d] = call[d], HandlerInv(d)
  PROVE  HandlerInv(d)'
<1>1. Snapshot(d)' = Snapshot(d)
  BY DEF Snapshot
<1>2. Serves(d)'
  BY DEF HandlerInv, Serves
<1>3. Verified(d)'
  BY <1>1 DEF HandlerInv, Verified, Grows
<1>4. Concluded(d)'
  BY DEF HandlerInv, Concluded, Grows
<1> QED
  BY <1>2, <1>3, <1>4 DEF HandlerInv

\* A handler that goes on to a step where it need not know anything.
LEMMA FreshHandler ==
  ASSUME NEW c \in Calls, HandlerInv(c), call[c].pc # "idle",
         call'[c].req = call[c].req, call'[c].declared = call[c].declared,
         \/ call'[c].pc \in {"refused", "answered", "receipt"}
         \/ call'[c].pc = "read" /\ call[c].req \in Uploads
         \/ call'[c].pc = "resolve" /\ call[c].req \in Fetches
  PROVE  HandlerInv(c)'
<1>1. Serves(c)'
  BY SourceAssumption DEF HandlerInv, Serves
<1>2. Verified(c)' /\ Concluded(c)'
  BY DEF Verified, Concluded
<1> QED
  BY <1>1, <1>2 DEF HandlerInv

\* One handler moves, objects stay, nothing is answered.
LEMMA QuietMove ==
  ASSUME SourceInv, NEW c \in Calls, Moves(c), HandlerInv(c)',
         UNCHANGED <<state, archives, manifests, receipts, answered>>,
         part' \in [Uploads -> [1 .. Parts -> Archives \cup {None}]]
  PROVE  SourceInv'
<1>1. Grows
  BY DEF Grows
<1>2. \A d \in Calls : HandlerInv(d)'
  BY <1>1, OtherHandler DEF SourceInv, Moves
<1>3. SourceTypes'
  BY DEF SourceInv, SourceTypes, Moves
<1>4. AnswersAgree' /\ ReceiptIsBacked'
  BY DEF SourceInv, AnswersAgree, ReceiptIsBacked
<1> QED
  BY <1>2, <1>3, <1>4 DEF SourceInv

LEMMA SourceInitially == Init => SourceInv
<1> SUFFICES ASSUME Init PROVE SourceInv
  OBVIOUS
<1> USE SourceAssumption
<1>1. NoCall \in Handlers
  BY DEF NoCall, Handlers, Pcs
<1>2. HandlerTypes
  BY <1>1 DEF Init, HandlerTypes
<1>3. state \in [Requests -> States]
  BY DEF Init, States
<1>4. part \in [Uploads -> [1 .. Parts -> Archives \cup {None}]]
  BY DEF Init
<1>5. receipts \in [DOMAIN receipts -> Receipts] /\ DOMAIN receipts = {}
  BY DEF Init
<1>6. archives = [s \in DOMAIN archives |-> archives[s]]
  <2>1. CASE archives = <<>>
    BY <2>1
  <2>2. CASE \E a \in Earlier, u \in Uploads :
               archives = [s \in {SnapshotSHA256(ManifestSHA256[a], Metadata[u])} |-> a]
    BY <2>2
  <2> QED
    BY <2>1, <2>2 DEF Init
<1>7. \A c \in Calls : HandlerInv(c)
  <2>1. \A c \in Calls : call[c].pc = "idle"
    BY DEF Init, NoCall
  <2> QED
    BY <2>1 DEF HandlerInv, Serves, Verified, Concluded
<1>8. AnswersAgree /\ ReceiptIsBacked
  BY <1>5 DEF Init, AnswersAgree, ReceiptIsBacked
<1> QED
  BY <1>2, <1>3, <1>4, <1>5, <1>6, <1>7, <1>8 DEF SourceInv, SourceTypes

-----------------------------------------------------------------------------
(* The control plane, its clients, and failures.                           *)

LEMMA ClientStep ==
  ASSUME SourceInv, NEW r \in Requests,
         \/ CreateSession(r) \/ CreateSessionFails(r) \/ AuthorizeFetch(r)
         \/ GrantExpires(r) \/ Sweep(r) \/ ConnectionChanges(r)
  PROVE  SourceInv'
<1>1. UNCHANGED <<part, archives, manifests, receipts, call, answered>>
  BY DEF CreateSession, CreateSessionFails, AuthorizeFetch, GrantExpires, Sweep, ConnectionChanges, store
<1>2. state' \in [Requests -> States]
  BY DEF SourceInv, SourceTypes, States, CreateSession, CreateSessionFails, AuthorizeFetch, GrantExpires, Sweep,
         ConnectionChanges
<1>3. SourceTypes'
  BY <1>1, <1>2 DEF SourceInv, SourceTypes, HandlerTypes
<1>4. \A c \in Calls : HandlerInv(c)'
  BY <1>1, OtherHandler DEF SourceInv, Grows
<1>5. AnswersAgree' /\ ReceiptIsBacked'
  BY <1>1 DEF SourceInv, AnswersAgree, ReceiptIsBacked
<1> QED
  BY <1>3, <1>4, <1>5 DEF SourceInv

LEMMA PutPartStep ==
  ASSUME SourceInv, NEW u \in Uploads, NEW i \in 1 .. Parts, NEW a \in Archives, PutPart(u, i, a)
  PROVE  SourceInv'
<1>1. UNCHANGED <<state, archives, manifests, receipts, call, answered>>
  BY DEF PutPart
<1>2. part' \in [Uploads -> [1 .. Parts -> Archives \cup {None}]]
  BY DEF PutPart, SourceInv, SourceTypes
<1>3. SourceTypes'
  BY <1>1, <1>2 DEF SourceInv, SourceTypes, HandlerTypes
<1>4. \A c \in Calls : HandlerInv(c)'
  BY <1>1, OtherHandler DEF SourceInv, Grows
<1>5. AnswersAgree' /\ ReceiptIsBacked'
  BY <1>1 DEF SourceInv, AnswersAgree, ReceiptIsBacked
<1> QED
  BY <1>3, <1>4, <1>5 DEF SourceInv

\* A request starts, or ends: the handler knows nothing yet, or no longer.
LEMMA HandlerReplaced ==
  ASSUME SourceInv, NEW c \in Calls, NEW h \in Handlers,
         call' = [call EXCEPT ![c] = h], state' \in [Requests -> States],
         UNCHANGED <<part, archives, manifests, receipts, answered>>,
         \/ h.pc = "idle"
         \/ /\ h.req \in Requests
            /\ h.req \in Uploads => h.declared \in Archives
            /\ h.pc \in {"refused", "receipt"} \/ (h.pc = "lock" /\ h.req \in Fetches)
  PROVE  SourceInv'
<1>1. HandlerTypes' /\ call'[c] = h /\ \A d \in Calls \ {c} : call'[d] = call[d]
  BY DEF SourceInv, SourceTypes, HandlerTypes
<1>2. HandlerInv(c)'
  <2>1. Serves(c)'
    BY <1>1, SourceAssumption DEF Serves
  <2>2. Verified(c)' /\ Concluded(c)'
    BY <1>1 DEF Verified, Concluded
  <2> QED
    BY <2>1, <2>2 DEF HandlerInv
<1>3. \A d \in Calls : HandlerInv(d)'
  BY <1>1, <1>2, OtherHandler DEF SourceInv, Grows
<1>4. SourceTypes'
  BY <1>1 DEF SourceInv, SourceTypes
<1>5. AnswersAgree' /\ ReceiptIsBacked'
  BY DEF SourceInv, AnswersAgree, ReceiptIsBacked
<1> QED
  BY <1>3, <1>4, <1>5 DEF SourceInv

LEMMA NoCallHandles == NoCall \in Handlers
BY SourceAssumption DEF NoCall, Handlers, Pcs

LEMMA AdmitStep ==
  ASSUME SourceInv, NEW c \in Calls, NEW r \in Requests, NEW g \in Gateways,
         NEW declared \in Archives \cup {None}, r \in Uploads => declared \in Archives,
         NEW first \in {"receipt", "lock"}, first = "lock" => r \in Fetches,
         Admit(c, r, g, declared, first), state' \in [Requests -> States],
         UNCHANGED <<part, archives, manifests, receipts, answered>>
  PROVE  SourceInv'
<1> DEFINE pc == IF Cardinality(InFlight(g, IF r \in Uploads THEN Uploads ELSE Fetches)) < MaxConcurrent
                 THEN first ELSE "refused"
           row == state'[r]
           h == [NoCall EXCEPT !.req = r, !.gw = g, !.declared = declared, !.row = row,
                               !.pc = pc]
<1>1. call' = [call EXCEPT ![c] = h]
  BY Zenon DEF Admit
<1>2. pc \in {first, "refused"}
  OBVIOUS
<1>3. pc \in Pcs
  BY <1>2 DEF Pcs, GatewayPcs
<1>4. row \in States
  OBVIOUS
<1> HIDE DEF pc, row
<1>5. h \in Handlers
  BY <1>3, <1>4, NoCallHandles DEF Handlers
<1>6. h.pc = pc /\ h.req = r /\ h.declared = declared
  BY NoCallHandles DEF Handlers
<1> HIDE DEF h
<1>7. /\ h.req \in Requests
      /\ h.req \in Uploads => h.declared \in Archives
      /\ h.pc \in {"refused", "receipt"} \/ (h.pc = "lock" /\ h.req \in Fetches)
  BY <1>2, <1>6
<1> QED
  BY <1>1, <1>5, <1>7, HandlerReplaced

LEMMA StartStep ==
  ASSUME SourceInv, NEW c \in Calls, NEW g \in Gateways,
         \/ \E u \in Uploads, a \in Archives : StartFinalize(c, u, g, a)
         \/ \E f \in Fetches : StartFetch(c, f, g)
  PROVE  SourceInv'
<1>1. CASE \E u \in Uploads, a \in Archives : StartFinalize(c, u, g, a)
  <2>1. PICK u \in Uploads, a \in Archives : StartFinalize(c, u, g, a)
    BY <1>1
  <2>2. u \in Requests /\ a \in Archives \cup {None}
    BY DEF Requests
  <2>3. Admit(c, u, g, a, "receipt") /\ UNCHANGED <<part, archives, manifests, receipts, answered>>
    BY <2>1 DEF StartFinalize, store
  <2>4. state' \in [Requests -> States]
    BY <2>1 DEF StartFinalize, SourceInv, SourceTypes, States
  <2> QED
    BY <2>2, <2>3, <2>4, AdmitStep
<1>2. CASE \E f \in Fetches : StartFetch(c, f, g)
  <2>1. PICK f \in Fetches : StartFetch(c, f, g)
    BY <1>2
  <2>2. f \in Requests /\ f \notin Uploads /\ None \in Archives \cup {None}
    BY SourceAssumption DEF Requests
  <2>3. Admit(c, f, g, None, "lock") /\ UNCHANGED <<part, archives, manifests, receipts, answered>>
    BY <2>1 DEF StartFetch, store
  <2>4. state' \in [Requests -> States]
    BY <2>1 DEF StartFetch, SourceInv, SourceTypes, States
  <2> QED
    BY <2>2, <2>3, <2>4, AdmitStep
<1> QED
  BY <1>1, <1>2

LEMMA EndStep ==
  ASSUME SourceInv, NEW c \in Calls, Complete(c) \/ Fail(c) \/ Unheard(c)
  PROVE  SourceInv'
<1>1. /\ call' = [call EXCEPT ![c] = NoCall]
      /\ UNCHANGED <<part, archives, manifests, receipts, answered>>
  BY DEF Complete, Fail, Unheard, store
<1>2. state' \in [Requests -> States]
  BY DEF Complete, Fail, Unheard, SourceInv, SourceTypes, States
<1>3. NoCall.pc = "idle"
  BY DEF NoCall
<1> QED
  BY <1>1, <1>2, <1>3, NoCallHandles, HandlerReplaced

\* A call that fails, a context that is done: the handler answers an error.
LEMMA RefuseStep ==
  ASSUME SourceInv, NEW c \in Calls, CallFails(c) \/ ContextDone(c)
  PROVE  SourceInv'
<1>1. Go(c, "refused") /\ call[c].pc # "idle" /\ UNCHANGED <<state, part, archives, manifests, receipts, answered>>
  BY DEF CallFails, ContextDone, Refuse, GatewayPcs, store
<1>2. Moves(c) /\ call'[c].pc = "refused"
  BY <1>1, GoMoves DEF SourceInv, SourceTypes, Pcs
<1>3. HandlerInv(c)'
  BY <1>1, <1>2, FreshHandler DEF SourceInv, Moves
<1> QED
  BY <1>1, <1>2, <1>3, QuietMove DEF SourceInv, SourceTypes

\* A handler changes nothing of what it knows.
LEMMA SameKnowledge ==
  ASSUME Grows, NEW c \in Calls, HandlerInv(c),
         call'[c].pc = call[c].pc, call'[c].req = call[c].req,
         call'[c].declared = call[c].declared, call'[c].source = call[c].source,
         call'[c].receipt = call[c].receipt
  PROVE  HandlerInv(c)'
<1>1. Snapshot(c)' = Snapshot(c)
  BY DEF Snapshot
<1>2. Serves(c)'
  BY DEF HandlerInv, Serves
<1>3. Verified(c)'
  BY <1>1 DEF HandlerInv, Verified, Grows
<1>4. Concluded(c)'
  BY DEF HandlerInv, Concluded, Grows
<1> QED
  BY <1>2, <1>3, <1>4 DEF HandlerInv

LEMMA LeaveStep ==
  ASSUME SourceInv, NEW c \in Calls, CallerLeaves(c)
  PROVE  SourceInv'
<1> DEFINE h == [call[c] EXCEPT !.waiting = FALSE]
<1>1. call[c] \in Handlers
  BY DEF SourceInv, SourceTypes, HandlerTypes
<1>2. h \in Handlers
  BY <1>1 DEF Handlers
<1>3. call' = [call EXCEPT ![c] = h] /\ UNCHANGED <<state, part, archives, manifests, receipts, answered>>
  BY DEF CallerLeaves, store
<1>4. HandlerTypes' /\ call'[c] = h /\ \A d \in Calls \ {c} : call'[d] = call[d]
  BY <1>2, <1>3 DEF SourceInv, SourceTypes, HandlerTypes
<1>5. /\ call'[c].pc = call[c].pc /\ call'[c].req = call[c].req
      /\ call'[c].declared = call[c].declared /\ call'[c].source = call[c].source
      /\ call'[c].receipt = call[c].receipt
  BY <1>1, <1>4 DEF Handlers
<1>6. HandlerInv(c)'
  BY <1>3, <1>5, SameKnowledge DEF Grows, SourceInv
<1> QED
  BY <1>3, <1>4, <1>5, <1>6, QuietMove DEF Moves, SourceInv, SourceTypes

LEMMA CrashStep ==
  ASSUME SourceInv, NEW g \in Gateways, Crash(g)
  PROVE  SourceInv'
<1>1. UNCHANGED <<state, part, archives, manifests, receipts, answered>>
  BY DEF Crash, store
<1>2. ASSUME NEW c \in Calls
      PROVE  /\ call'[c] \in Handlers
             /\ HandlerInv(c)'
  <2>1. call[c] \in Handlers
    BY DEF SourceInv, SourceTypes, HandlerTypes
  <2>2. CASE call[c].gw = g /\ call[c].pc \in GatewayPcs \cup {"answered"}
    <3>1. call'[c] = [call[c] EXCEPT !.pc = "refused"]
      BY <2>2 DEF Crash
    <3>2. call'[c] \in Handlers
      BY <2>1, <3>1 DEF Handlers, Pcs
    <3>3. /\ call'[c].pc = "refused" /\ call'[c].req = call[c].req
          /\ call'[c].declared = call[c].declared
      BY <2>1, <3>1 DEF Handlers
    <3>4. call[c].pc # "idle"
      BY <2>2 DEF GatewayPcs
    <3> QED
      BY <3>2, <3>3, <3>4, FreshHandler DEF SourceInv
  <2>3. CASE ~ (call[c].gw = g /\ call[c].pc \in GatewayPcs \cup {"answered"})
    <3>1. call'[c] = call[c]
      BY <2>3 DEF Crash
    <3> QED
      BY <1>1, <2>1, <3>1, OtherHandler DEF Grows, SourceInv
  <2> QED
    BY <2>2, <2>3
<1>3. HandlerTypes'
  BY <1>2 DEF Crash, HandlerTypes
<1>4. SourceTypes'
  BY <1>1, <1>3 DEF SourceInv, SourceTypes
<1>5. AnswersAgree' /\ ReceiptIsBacked'
  BY <1>1 DEF SourceInv, AnswersAgree, ReceiptIsBacked
<1> QED
  BY <1>2, <1>4, <1>5 DEF SourceInv

-----------------------------------------------------------------------------
(* The gateway.                                                            *)

\* The stored receipt of a request is answered, with nothing else written.
LEMMA AnswerStep ==
  ASSUME SourceInv, NEW c \in Calls, call[c].pc # "idle",
         call[c].req \in DOMAIN receipts, Answer(c, receipts[call[c].req]),
         UNCHANGED <<state, archives, manifests, receipts>>,
         part' \in [Uploads -> [1 .. Parts -> Archives \cup {None}]]
  PROVE  SourceInv'
<1> DEFINE r == call[c].req
<1>1. receipts[r] \in Receipts
  BY DEF SourceInv, SourceTypes
<1>2. Moves(c) /\ call'[c].pc = "answered"
  BY <1>1, GoWithReceiptMoves DEF Answer, SourceInv, SourceTypes, Pcs
<1>3. HandlerInv(c)'
  BY <1>2, FreshHandler DEF SourceInv, Moves
<1>4. \A d \in Calls : HandlerInv(d)'
  BY <1>2, <1>3, OtherHandler DEF Grows, SourceInv, Moves
<1>5. SourceTypes'
  BY <1>2 DEF SourceInv, SourceTypes, Moves
<1>6. AnswersAgree'
  <2>1. answered' = answered \cup {<<r, receipts[r]>>}
    BY DEF Answer
  <2> QED
    BY <2>1 DEF SourceInv, AnswersAgree
<1>7. ReceiptIsBacked'
  BY DEF SourceInv, ReceiptIsBacked
<1> QED
  BY <1>4, <1>5, <1>6, <1>7 DEF SourceInv

LEMMA LockStep ==
  ASSUME SourceInv, NEW c \in Calls, FetchLock(c)
  PROVE  SourceInv'
<1>1. /\ Go(c, "receipt") /\ call[c].pc # "idle"
      /\ UNCHANGED <<state, part, archives, manifests, receipts, answered>>
  BY DEF FetchLock, store
<1>2. Moves(c) /\ call'[c].pc = "receipt"
  BY <1>1, GoMoves DEF SourceInv, SourceTypes, Pcs, GatewayPcs
<1>3. HandlerInv(c)'
  BY <1>1, <1>2, FreshHandler DEF SourceInv, Moves
<1> QED
  BY <1>1, <1>2, <1>3, QuietMove DEF SourceInv, SourceTypes

\* A handler takes the stored receipt, to answer it when the parts are gone.
LEMMA TakeReceipt ==
  ASSUME SourceInv, NEW c \in Calls, call[c].pc # "idle", call[c].req \in Uploads,
         call[c].req \in DOMAIN receipts, GoWithReceipt(c, "delete", receipts[call[c].req]),
         UNCHANGED <<state, part, archives, manifests, receipts, answered>>
  PROVE  SourceInv'
<1>1. receipts[call[c].req] \in Receipts
  BY DEF SourceInv, SourceTypes
<1>2. Moves(c) /\ call'[c].pc = "delete" /\ call'[c].receipt = receipts[call[c].req]
  BY <1>1, GoWithReceiptMoves DEF SourceInv, SourceTypes, Pcs, GatewayPcs
<1>3. HandlerInv(c)'
  <2>1. Serves(c)'
    BY <1>2, SourceAssumption DEF Serves, Moves, SourceInv, HandlerInv
  <2>2. Verified(c)'
    BY <1>2 DEF Verified
  <2>3. Concluded(c)'
    BY <1>2 DEF Concluded, Moves
  <2> QED
    BY <2>1, <2>2, <2>3 DEF HandlerInv
<1> QED
  BY <1>2, <1>3, QuietMove DEF SourceInv, SourceTypes

\* A handler goes on to a step where it need not know anything.
LEMMA QuietGo ==
  ASSUME SourceInv, NEW c \in Calls, call[c].pc # "idle",
         NEW pc \in {"refused", "read", "resolve"}, Go(c, pc),
         pc = "read" => call[c].req \in Uploads, pc = "resolve" => call[c].req \in Fetches,
         UNCHANGED <<state, part, archives, manifests, receipts, answered>>
  PROVE  SourceInv'
<1>1. Moves(c) /\ call'[c].pc = pc
  BY GoMoves DEF SourceInv, SourceTypes, Pcs, GatewayPcs
<1>2. HandlerInv(c)'
  BY <1>1, FreshHandler DEF SourceInv, Moves
<1> QED
  BY <1>1, <1>2, QuietMove DEF SourceInv, SourceTypes

LEMMA CompletedResultStep ==
  ASSUME SourceInv, NEW c \in Calls, completedResult(c)
  PROVE  SourceInv'
<1> DEFINE r == call[c].req
<1>1. /\ call[c].pc = "receipt" /\ call[c].pc # "idle"
      /\ UNCHANGED <<state, part, archives, manifests, receipts>>
  BY DEF completedResult, store
<1>2. CASE r \notin DOMAIN receipts /\ r \in Uploads
  <2>1. Go(c, "read") \/ Go(c, "refused")
    BY <1>2, SourceAssumption DEF completedResult, Refuse
  <2>2. UNCHANGED answered
    BY <1>2, SourceAssumption DEF completedResult
  <2> QED
    BY <1>1, <1>2, <2>1, <2>2, QuietGo
<1>3. CASE r \notin DOMAIN receipts /\ r \in Fetches
  <2>1. Go(c, "resolve") /\ UNCHANGED answered
    BY <1>3, SourceAssumption DEF completedResult
  <2> QED
    BY <1>1, <1>3, <2>1, QuietGo
<1>4. CASE r \in DOMAIN receipts /\ r \in Uploads
  <2>1. GoWithReceipt(c, "delete", receipts[r]) /\ UNCHANGED answered
    BY <1>4, SourceAssumption DEF completedResult
  <2> QED
    BY <1>1, <1>4, <2>1, TakeReceipt
<1>5. CASE r \in DOMAIN receipts /\ r \in Fetches
  <2>1. Answer(c, receipts[r])
    BY <1>5, SourceAssumption DEF completedResult
  <2> QED
    BY <1>1, <1>5, <2>1, AnswerStep DEF SourceInv, SourceTypes
<1> QED
  BY <1>2, <1>3, <1>4, <1>5 DEF completedResult

\* A handler has an archive that backs its request.
LEMMA TakeSource ==
  ASSUME SourceInv, NEW c \in Calls, call[c].pc # "idle",
         NEW a \in Archives, Backs(call[c].req, a), GoWithSource(c, a),
         UNCHANGED <<state, part, archives, manifests, receipts, answered>>
  PROVE  SourceInv'
<1>1. Moves(c) /\ call'[c].pc = "archive" /\ call'[c].source = a
  BY GoWithSourceMoves DEF SourceInv, SourceTypes
<1>2. HandlerInv(c)'
  <2>1. Serves(c)'
    BY <1>1 DEF Serves, Moves, SourceInv, HandlerInv
  <2>2. Verified(c)'
    BY <1>1 DEF Verified, Moves, Backs
  <2>3. Concluded(c)'
    BY <1>1 DEF Concluded
  <2> QED
    BY <2>1, <2>2, <2>3 DEF HandlerInv
<1> QED
  BY <1>1, <1>2, QuietMove DEF SourceInv, SourceTypes

LEMMA ReadPartStep ==
  ASSUME SourceInv, NEW c \in Calls, ReadPart(c)
  PROVE  SourceInv'
<1> DEFINE u == call[c].req
           i == call[c].part
           a == call[c].declared
<1>1. /\ call[c].pc = "read" /\ call[c].pc # "idle"
      /\ UNCHANGED <<state, part, archives, manifests, receipts, answered>>
  BY DEF ReadPart, store
<1>2. u \in Uploads /\ u \notin Fetches /\ a \in Archives /\ i \in 1 .. Parts
  BY <1>1, SourceAssumption DEF SourceInv, SourceTypes, HandlerTypes, Handlers, HandlerInv, Serves
<1>3. CASE Refuse(c)
  BY <1>1, <1>3, QuietGo DEF Refuse
<1>4. CASE i < Parts /\ call' = [call EXCEPT ![c].part = i + 1]
  <2> DEFINE h == [call[c] EXCEPT !.part = i + 1]
  <2>1. call[c] \in Handlers
    BY DEF SourceInv, SourceTypes, HandlerTypes
  <2>2. i + 1 \in 1 .. Parts
    BY <1>2, <1>4, SourceAssumption
  <2>3. h \in Handlers
    BY <2>1, <2>2 DEF Handlers
  <2>4. HandlerTypes' /\ call'[c] = h /\ \A d \in Calls \ {c} : call'[d] = call[d]
    BY <1>4, <2>3 DEF SourceInv, SourceTypes, HandlerTypes
  <2>5. /\ call'[c].pc = call[c].pc /\ call'[c].req = call[c].req
        /\ call'[c].declared = call[c].declared /\ call'[c].source = call[c].source
        /\ call'[c].receipt = call[c].receipt
    BY <2>1, <2>4 DEF Handlers
  <2>6. HandlerInv(c)'
    BY <1>1, <2>5, SameKnowledge DEF Grows, SourceInv
  <2> QED
    BY <1>1, <2>4, <2>5, <2>6, QuietMove DEF Moves, SourceInv, SourceTypes
<1>5. CASE a = Granted[u] /\ GoWithSource(c, a)
  <2>1. Backs(u, a)
    BY <1>2, <1>5 DEF Backs
  <2> QED
    BY <1>1, <1>2, <1>5, <2>1, TakeSource
<1> QED
  BY <1>3, <1>4, <1>5 DEF ReadPart

LEMMA ResolveStep ==
  ASSUME SourceInv, NEW c \in Calls, NEW t \in TokenMinutes, NEW a \in Archives, Resolve(c, t, a)
  PROVE  SourceInv'
<1> DEFINE f == call[c].req
           packed == Normalized[f][a]
<1>1. /\ call[c].pc = "resolve" /\ call[c].pc # "idle"
      /\ UNCHANGED <<state, part, archives, manifests, receipts, answered>>
  BY DEF Resolve, store
<1>2. f \in Fetches /\ f \notin Uploads
  BY <1>1, SourceAssumption DEF SourceInv, HandlerInv, Serves
<1>3. \/ Refuse(c)
      \/ packed # None /\ Accepted[packed] /\ GoWithSource(c, packed)
  BY Zenon DEF Resolve
<1>4. CASE Refuse(c)
  BY <1>1, <1>4, QuietGo DEF Refuse
<1>5. CASE packed # None /\ Accepted[packed] /\ GoWithSource(c, packed)
  <2>1. packed \in Archives /\ Manifest[packed].files = TreeFiles(f)
    BY <1>2, <1>5, RepackedFiles
  <2>2. Backs(f, packed)
    BY <1>2, <2>1 DEF Backs
  <2> HIDE DEF packed
  <2> QED
    BY <1>1, <1>5, <2>1, <2>2, TakeSource
<1> QED
  BY <1>3, <1>4, <1>5

\* Receipts stay backed and answers stay good while objects are only added.
LEMMA BackedGrows ==
  ASSUME SourceInv, Grows, UNCHANGED <<receipts, answered>>
  PROVE  AnswersAgree' /\ ReceiptIsBacked'
<1>1. AnswersAgree'
  BY DEF SourceInv, AnswersAgree
<1>2. ReceiptIsBacked'
  BY DEF SourceInv, ReceiptIsBacked, Grows
<1> QED
  BY <1>1, <1>2

LEMMA PutArchiveStep ==
  ASSUME SourceInv, NEW c \in Calls, PutArchive(c)
  PROVE  SourceInv'
<1> DEFINE s == Snapshot(c)
           a == call[c].source
<1>1. /\ call[c].pc = "archive" /\ archives' = Stored(archives, s, a)
      /\ UNCHANGED <<state, part, manifests, receipts, answered>>
  BY DEF PutArchive
<1>2. archives = [k \in DOMAIN archives |-> archives[k]]
  BY DEF SourceInv, SourceTypes
<1>3. /\ DOMAIN archives' = DOMAIN archives \cup {s}
      /\ archives' = [k \in DOMAIN archives' |-> archives'[k]]
      /\ \A k \in DOMAIN archives : archives'[k] = archives[k]
      /\ PutImmutable(archives, s, a) => archives'[s] = a
  <2> HIDE DEF s, a
  <2> QED
    BY <1>1, <1>2 DEF Stored, PutImmutable
<1>4. Grows
  BY <1>1, <1>3 DEF Grows
<1>5. \/ PutImmutable(archives, s, a) /\ Go(c, "manifest")
      \/ Go(c, "refused")
  BY Zenon DEF PutArchive, Refuse
<1>6. /\ Moves(c) /\ call'[c].pc \in {"manifest", "refused"} /\ call'[c].source = a
      /\ call'[c].pc = "manifest" => archives'[s] = a
  BY <1>3, <1>5, GoMoves DEF SourceInv, SourceTypes, Pcs, GatewayPcs
<1>7. Snapshot(c)' = s
  BY <1>6 DEF Snapshot, Moves
<1>8. HandlerInv(c)'
  <2>1. Serves(c)'
    BY <1>1, <1>6 DEF Serves, Moves, SourceInv, HandlerInv
  <2>2. Backs(call[c].req, a)
    BY <1>1 DEF SourceInv, HandlerInv, Verified
  <2>3. Verified(c)'
    BY <1>3, <1>6, <1>7, <2>2 DEF Verified, Moves, Backs
  <2>4. Concluded(c)'
    BY <1>6 DEF Concluded
  <2> QED
    BY <2>1, <2>3, <2>4 DEF HandlerInv
<1>9. \A d \in Calls : HandlerInv(d)'
  BY <1>4, <1>6, <1>8, OtherHandler DEF SourceInv, Moves
<1>10. SourceTypes'
  BY <1>1, <1>3, <1>6 DEF SourceInv, SourceTypes, Moves
<1>11. AnswersAgree' /\ ReceiptIsBacked'
  BY <1>1, <1>4, BackedGrows
<1> QED
  BY <1>9, <1>10, <1>11 DEF SourceInv

LEMMA PutManifestStep ==
  ASSUME SourceInv, NEW c \in Calls, PutManifest(c)
  PROVE  SourceInv'
<1>1. /\ call[c].pc = "manifest" /\ manifests' = manifests \cup {Snapshot(c)} /\ Go(c, "sign")
      /\ UNCHANGED <<state, part, archives, receipts, answered>>
  BY DEF PutManifest
<1>2. Grows
  BY <1>1 DEF Grows
<1>3. Moves(c) /\ call'[c].pc = "sign" /\ call'[c].source = call[c].source
  BY <1>1, GoMoves DEF SourceInv, SourceTypes, Pcs, GatewayPcs
<1>4. Snapshot(c)' = Snapshot(c)
  BY <1>3 DEF Snapshot, Moves
<1>5. HandlerInv(c)'
  <2>1. Serves(c)'
    BY <1>1, <1>3 DEF Serves, Moves, SourceInv, HandlerInv
  <2>2. /\ Backs(call[c].req, call[c].source)
        /\ Snapshot(c) \in DOMAIN archives /\ archives[Snapshot(c)] = call[c].source
    BY <1>1 DEF SourceInv, HandlerInv, Verified
  <2>3. Verified(c)'
    BY <1>1, <1>3, <1>4, <2>2 DEF Verified, Moves, Backs
  <2>4. Concluded(c)'
    BY <1>3 DEF Concluded
  <2> QED
    BY <2>1, <2>3, <2>4 DEF HandlerInv
<1>6. \A d \in Calls : HandlerInv(d)'
  BY <1>2, <1>3, <1>5, OtherHandler DEF SourceInv, Moves
<1>7. SourceTypes'
  BY <1>1, <1>3 DEF SourceInv, SourceTypes, Moves
<1>8. AnswersAgree' /\ ReceiptIsBacked'
  BY <1>1, <1>2, BackedGrows
<1> QED
  BY <1>6, <1>7, <1>8 DEF SourceInv

\* The receipt a handler would sign.
LEMMA SignedReceipt ==
  ASSUME SourceInv, NEW c \in Calls, call[c].pc = "sign"
  PROVE  /\ call[c].req \in Requests
         /\ SignResult(c) \in Receipts
         /\ SignResult(c).archive = call[c].source /\ SignResult(c).snapshot = Snapshot(c)
         /\ Snapshot(c) \in DOMAIN archives /\ archives[Snapshot(c)] = call[c].source
         /\ Snapshot(c) \in manifests
         /\ Backs(call[c].req, call[c].source)
<1>1. call[c].req \in Requests
  BY DEF SourceInv, HandlerInv, Serves
<1>2. /\ Snapshot(c) \in DOMAIN archives /\ archives[Snapshot(c)] = call[c].source
      /\ Snapshot(c) \in manifests
      /\ Backs(call[c].req, call[c].source)
  BY DEF SourceInv, HandlerInv, Verified
<1>3. call[c].source \in Archives
  BY <1>2 DEF Backs
<1>4. Snapshot(c) \in Snapshots
  <2>1. \E a \in Archives, r \in Requests :
          Snapshot(c) = SnapshotSHA256(ManifestSHA256[a], Metadata[r])
    BY <1>1, <1>3 DEF Snapshot
  <2> QED
    BY <2>1 DEF Snapshots
<1> QED
  BY <1>1, <1>2, <1>3, <1>4 DEF SignResult, Receipts

LEMMA PutReceiptStep ==
  ASSUME SourceInv, NEW c \in Calls, PutReceipt(c)
  PROVE  SourceInv'
<1> DEFINE r == call[c].req
           x == SignResult(c)
<1>1. /\ call[c].pc = "sign" /\ receipts' = Stored(receipts, r, x)
      /\ UNCHANGED <<state, part, archives, manifests>>
  BY DEF PutReceipt
<1>2. /\ r \in Requests /\ x \in Receipts
      /\ x.archive = call[c].source /\ x.snapshot = Snapshot(c)
      /\ Snapshot(c) \in DOMAIN archives /\ archives[Snapshot(c)] = call[c].source
      /\ Snapshot(c) \in manifests
      /\ Backs(r, call[c].source)
  BY <1>1, SignedReceipt
<1>3. receipts \in [DOMAIN receipts -> Receipts]
  BY DEF SourceInv, SourceTypes
<1>4. receipts = [k \in DOMAIN receipts |-> receipts[k]]
  BY <1>3
<1>5. /\ DOMAIN receipts' = DOMAIN receipts \cup {r}
      /\ receipts' = [k \in DOMAIN receipts' |-> receipts'[k]]
      /\ \A k \in DOMAIN receipts : receipts'[k] = receipts[k]
      /\ PutImmutable(receipts, r, x) => receipts'[r] = x
      /\ r \notin DOMAIN receipts => receipts'[r] = x
  <2> HIDE DEF r, x
  <2> QED
    BY <1>1, <1>4 DEF Stored, PutImmutable
<1>6. receipts' \in [DOMAIN receipts' -> Receipts]
  <2> HIDE DEF x, r
  <2>1. \A k \in DOMAIN receipts' : receipts'[k] \in Receipts
    BY <1>2, <1>3, <1>5
  <2> QED
    BY <1>5, <2>1
<1>7. Grows
  BY <1>1, <1>5 DEF Grows
<1>8. ReceiptIsBacked'
  <2>1. ASSUME NEW k \in DOMAIN receipts
        PROVE  LET y == receipts'[k] IN
               /\ y.snapshot \in DOMAIN archives' /\ archives'[y.snapshot] = y.archive
               /\ y.snapshot \in manifests'
               /\ k \in Uploads => y.archive = Granted[k]
               /\ k \in Fetches => Manifest[y.archive].files = TreeFiles(k)
    BY <1>1, <1>5 DEF SourceInv, ReceiptIsBacked
  <2>2. ASSUME r \notin DOMAIN receipts
        PROVE  LET y == receipts'[r] IN
               /\ y.snapshot \in DOMAIN archives' /\ archives'[y.snapshot] = y.archive
               /\ y.snapshot \in manifests'
               /\ r \in Uploads => y.archive = Granted[r]
               /\ r \in Fetches => Manifest[y.archive].files = TreeFiles(r)
    <3>1. receipts'[r] = x
      BY <1>5, <2>2
    <3> HIDE DEF x, r
    <3> QED
      BY <1>1, <1>2, <3>1 DEF Backs
  <2> HIDE DEF r
  <2> QED
    BY <1>5, <2>1, <2>2 DEF ReceiptIsBacked
<1>9. \/ /\ receipts'[r] = x /\ r \in Uploads /\ GoWithReceipt(c, "delete", x) /\ UNCHANGED answered
      \/ /\ receipts'[r] = x /\ r \in Fetches /\ Answer(c, x)
      \/ r \in Uploads /\ Go(c, "refused") /\ UNCHANGED answered
      \/ r \in Fetches /\ Go(c, "reread") /\ UNCHANGED answered
  BY <1>2, <1>5, Zenon DEF PutReceipt, Refuse, Requests
<1>10. /\ Moves(c)
       /\ \/ /\ receipts'[r] = x /\ r \in Uploads /\ call'[c].pc = "delete" /\ call'[c].receipt = x
          \/ call'[c].pc \in {"answered", "refused"}
          \/ r \in Fetches /\ call'[c].pc = "reread"
  <2>1. HandlerTypes /\ {"delete", "answered", "refused", "reread"} \subseteq Pcs
    BY DEF SourceInv, SourceTypes, Pcs, GatewayPcs
  <2> QED
    BY <1>2, <1>9, <2>1, GoMoves, GoWithReceiptMoves DEF Answer
<1>11. HandlerInv(c)'
  <2>1. Serves(c)'
    BY <1>1, <1>10, SourceAssumption DEF Serves, Moves, SourceInv, HandlerInv
  <2>2. Verified(c)'
    BY <1>10 DEF Verified
  <2>3. Concluded(c)'
    BY <1>5, <1>10 DEF Concluded, Moves
  <2> QED
    BY <2>1, <2>2, <2>3 DEF HandlerInv
<1>12. \A d \in Calls : HandlerInv(d)'
  BY <1>7, <1>10, <1>11, OtherHandler DEF SourceInv, Moves
<1>13. SourceTypes'
  BY <1>1, <1>6, <1>10 DEF SourceInv, SourceTypes, Moves
<1>14. AnswersAgree'
  <2>1. \/ UNCHANGED answered
        \/ answered' = answered \cup {<<r, x>>} /\ receipts'[r] = x
    BY <1>9 DEF Answer
  <2> HIDE DEF r, x
  <2> QED
    BY <1>5, <2>1 DEF SourceInv, AnswersAgree
<1> QED
  BY <1>8, <1>12, <1>13, <1>14 DEF SourceInv

LEMMA RereadStep ==
  ASSUME SourceInv, NEW c \in Calls, Reread(c)
  PROVE  SourceInv'
<1>1. /\ call[c].pc = "reread" /\ call[c].pc # "idle" /\ Answer(c, receipts[call[c].req])
      /\ UNCHANGED <<state, part, archives, manifests, receipts>>
  BY DEF Reread, store
<1>2. call[c].req \in DOMAIN receipts
  BY <1>1 DEF SourceInv, HandlerInv, Concluded
<1> QED
  BY <1>1, <1>2, AnswerStep DEF SourceInv, SourceTypes

LEMMA DeletePartsStep ==
  ASSUME SourceInv, NEW c \in Calls, DeleteParts(c)
  PROVE  SourceInv'
<1> DEFINE u == call[c].req
<1>1. /\ call[c].pc = "delete" /\ call[c].pc # "idle"
      /\ UNCHANGED <<state, archives, manifests, receipts>>
  BY DEF DeleteParts
<1>2. u \in Uploads /\ u \in DOMAIN receipts /\ receipts[u] = call[c].receipt
  BY <1>1 DEF SourceInv, HandlerInv, Serves, Concluded
<1>3. part \in [Uploads -> [1 .. Parts -> Archives \cup {None}]]
  BY DEF SourceInv, SourceTypes
<1>4. CASE /\ part' = [part EXCEPT ![u] = [i \in 1 .. Parts |-> None]]
           /\ Answer(c, call[c].receipt)
  <2>1. part' \in [Uploads -> [1 .. Parts -> Archives \cup {None}]]
    BY <1>2, <1>3, <1>4
  <2> QED
    BY <1>1, <1>2, <1>4, <2>1, AnswerStep
<1>5. CASE /\ \E gone \in SUBSET (1 .. Parts) :
                part' = [part EXCEPT ![u] = [i \in 1 .. Parts |-> IF i \in gone THEN None ELSE @[i]]]
           /\ Refuse(c) /\ UNCHANGED answered
  <2>1. PICK gone \in SUBSET (1 .. Parts) :
          part' = [part EXCEPT ![u] = [i \in 1 .. Parts |-> IF i \in gone THEN None ELSE @[i]]]
    BY <1>5
  <2>2. [i \in 1 .. Parts |-> IF i \in gone THEN None ELSE part[u][i]] \in [1 .. Parts -> Archives \cup {None}]
    BY <1>2, <1>3
  <2>3. part' \in [Uploads -> [1 .. Parts -> Archives \cup {None}]]
    BY <1>2, <1>3, <2>1, <2>2
  <2>4. Moves(c) /\ call'[c].pc = "refused"
    BY <1>5, GoMoves DEF Refuse, SourceInv, SourceTypes, Pcs
  <2>5. HandlerInv(c)'
    BY <1>1, <2>4, FreshHandler DEF SourceInv, Moves
  <2> QED
    BY <1>1, <1>5, <2>3, <2>4, <2>5, QuietMove
<1> QED
  BY <1>4, <1>5, Zenon DEF DeleteParts

-----------------------------------------------------------------------------
LEMMA SourceStutters ==
  ASSUME SourceInv, UNCHANGED vars
  PROVE  SourceInv'
<1>1. UNCHANGED <<state, part, archives, manifests, receipts, call, answered>>
  BY DEF vars
<1>2. SourceTypes'
  BY <1>1 DEF SourceInv, SourceTypes, HandlerTypes
<1>3. \A c \in Calls : HandlerInv(c)'
  BY <1>1, OtherHandler DEF SourceInv, Grows
<1>4. AnswersAgree' /\ ReceiptIsBacked'
  BY <1>1 DEF SourceInv, AnswersAgree, ReceiptIsBacked
<1> QED
  BY <1>2, <1>3, <1>4 DEF SourceInv

LEMMA SourceInductive == SourceInv /\ [Next]_vars => SourceInv'
<1> SUFFICES ASSUME SourceInv, [Next]_vars PROVE SourceInv'
  OBVIOUS
<1>1. ASSUME NEW u \in Uploads,
             \/ CreateSession(u) \/ CreateSessionFails(u) \/ GrantExpires(u) \/ Sweep(u)
             \/ \E i \in 1 .. Parts, a \in Archives : PutPart(u, i, a)
             \/ \E c \in Calls, g \in Gateways, a \in Archives : StartFinalize(c, u, g, a)
      PROVE  SourceInv'
  <2>1. u \in Requests
    BY DEF Requests
  <2>2. CASE CreateSession(u) \/ CreateSessionFails(u) \/ GrantExpires(u) \/ Sweep(u)
    BY <2>1, <2>2, ClientStep
  <2>3. CASE \E i \in 1 .. Parts, a \in Archives : PutPart(u, i, a)
    BY <2>3, PutPartStep
  <2>4. CASE \E c \in Calls, g \in Gateways, a \in Archives : StartFinalize(c, u, g, a)
    BY <2>4, StartStep
  <2> QED
    BY <1>1, <2>2, <2>3, <2>4
<1>2. ASSUME NEW f \in Fetches,
             AuthorizeFetch(f) \/ ConnectionChanges(f) \/ \E c \in Calls, g \in Gateways : StartFetch(c, f, g)
      PROVE  SourceInv'
  <2>1. f \in Requests
    BY DEF Requests
  <2> QED
    BY <1>2, <2>1, ClientStep, StartStep
<1>3. ASSUME NEW c \in Calls, GatewayStep(c)
      PROVE  SourceInv'
  <2>1. CASE FetchLock(c) \/ completedResult(c) \/ ReadPart(c)
    BY <2>1, LockStep, CompletedResultStep, ReadPartStep
  <2>2. CASE \E t \in TokenMinutes, a \in Archives : Resolve(c, t, a)
    BY <2>2, ResolveStep
  <2>3. CASE PutArchive(c) \/ PutManifest(c) \/ PutReceipt(c)
    BY <2>3, PutArchiveStep, PutManifestStep, PutReceiptStep
  <2>4. CASE Reread(c) \/ DeleteParts(c)
    BY <2>4, RereadStep, DeletePartsStep
  <2> QED
    BY <1>3, <2>1, <2>2, <2>3, <2>4 DEF GatewayStep
<1>4. ASSUME NEW c \in Calls,
             \/ Complete(c) \/ Fail(c) \/ Unheard(c)
             \/ CallFails(c) \/ CallerLeaves(c) \/ ContextDone(c)
      PROVE  SourceInv'
  BY <1>4, EndStep, RefuseStep, LeaveStep
<1>5. ASSUME NEW g \in Gateways, Crash(g)
      PROVE  SourceInv'
  BY <1>5, CrashStep
<1>6. CASE UNCHANGED vars
  BY <1>6, SourceStutters
<1> QED
  BY <1>1, <1>2, <1>3, <1>4, <1>5, <1>6 DEF Next

LEMMA SourceAlways == Spec => []SourceInv
BY SourceInitially, SourceInductive, PTL DEF Spec

\* Racing, repeated, interrupted: every answer of a gateway is the one stored
\* receipt of the request (sourceupload/finalizer.go, providerfetch/fetcher.go).
THEOREM AnswersAreOne == Spec => []AnswersAgree
<1>1. SourceInv => AnswersAgree
  BY DEF SourceInv
<1> QED
  BY <1>1, SourceAlways, PTL

\* A receipt is only stored over the objects it names: the granted archive, or
\* one with exactly the files of the commit, and its manifest
\* (snapshotstore/store.go, providerfetch/archive.go).
THEOREM ReceiptsAreBacked == Spec => []ReceiptIsBacked
<1>1. SourceInv => ReceiptIsBacked
  BY DEF SourceInv
<1> QED
  BY <1>1, SourceAlways, PTL

-----------------------------------------------------------------------------
(* Parts are deleted by DeleteParts alone, of a request that is concluded. *)

PartsKept ==
  \A u \in Uploads, i \in 1 .. Parts :
    part[u][i] # None /\ part'[u][i] = None => u \in DOMAIN receipts

LEMMA OnlyDeleteParts ==
  ASSUME SourceInv, [Next]_vars
  PROVE  \/ UNCHANGED part
         \/ \E u \in Uploads, i \in 1 .. Parts, a \in Archives : PutPart(u, i, a)
         \/ \E c \in Calls : DeleteParts(c)
<1>1. ASSUME NEW u \in Uploads, NEW c \in Calls, NEW g \in Gateways, NEW a \in Archives,
             StartFinalize(c, u, g, a)
      PROVE  UNCHANGED part
  BY <1>1 DEF StartFinalize, store
<1>2. ASSUME NEW f \in Fetches, NEW c \in Calls, NEW g \in Gateways, StartFetch(c, f, g)
      PROVE  UNCHANGED part
  BY <1>2 DEF StartFetch, store
<1>3. ASSUME NEW r, \/ CreateSession(r) \/ CreateSessionFails(r) \/ GrantExpires(r) \/ Sweep(r)
                    \/ AuthorizeFetch(r) \/ ConnectionChanges(r)
      PROVE  UNCHANGED part
  BY <1>3 DEF CreateSession, CreateSessionFails, GrantExpires, Sweep, AuthorizeFetch, ConnectionChanges, store
<1>4. ASSUME NEW c \in Calls, NEW t \in TokenMinutes, NEW a \in Archives, Resolve(c, t, a)
      PROVE  UNCHANGED part
  BY <1>4 DEF Resolve, store
<1>5. ASSUME NEW c \in Calls,
             \/ FetchLock(c) \/ completedResult(c) \/ ReadPart(c)
             \/ PutArchive(c) \/ PutManifest(c) \/ PutReceipt(c) \/ Reread(c)
      PROVE  UNCHANGED part
  BY <1>5 DEF FetchLock, completedResult, ReadPart, PutArchive, PutManifest, PutReceipt, Reread, store
<1>6. ASSUME NEW c \in Calls,
             \/ Complete(c) \/ Fail(c) \/ Unheard(c)
             \/ CallFails(c) \/ CallerLeaves(c) \/ ContextDone(c)
      PROVE  UNCHANGED part
  BY <1>6 DEF Complete, Fail, Unheard, CallFails, CallerLeaves, ContextDone, store
<1>7. ASSUME NEW g \in Gateways, Crash(g) PROVE UNCHANGED part
  BY <1>7 DEF Crash, store
<1>8. CASE UNCHANGED vars
  BY <1>8 DEF vars
<1> QED
  BY <1>1, <1>2, <1>3, <1>4, <1>5, <1>6, <1>7, <1>8 DEF Next, GatewayStep

LEMMA PartsStep == SourceInv /\ [Next]_vars => PartsKept
<1> SUFFICES ASSUME SourceInv, [Next]_vars, NEW v \in Uploads, NEW j \in 1 .. Parts,
                    part[v][j] # None, part'[v][j] = None
             PROVE  v \in DOMAIN receipts
  BY DEF PartsKept
<1>1. part \in [Uploads -> [1 .. Parts -> Archives \cup {None}]]
  BY DEF SourceInv, SourceTypes
<1>2. ASSUME NEW u \in Uploads, NEW i \in 1 .. Parts, NEW a \in Archives, PutPart(u, i, a)
      PROVE  FALSE
  <2>1. part' = [part EXCEPT ![u][i] = a]
    BY <1>2 DEF PutPart
  <2>2. part'[v][j] = part[v][j] \/ part'[v][j] = a
    BY <1>1, <2>1
  <2> QED
    BY <2>2, SourceAssumption
<1>3. ASSUME NEW c \in Calls, DeleteParts(c)
      PROVE  v \in DOMAIN receipts
  <2>1. call[c].req \in DOMAIN receipts
    BY <1>3 DEF DeleteParts, SourceInv, HandlerInv, Concluded
  <2>2. v # call[c].req => part'[v] = part[v]
    BY <1>1, <1>3 DEF DeleteParts
  <2> QED
    BY <2>1, <2>2
<1> QED
  BY <1>2, <1>3, OnlyDeleteParts

\* An uploaded part outlives every failure until its receipt is durable, so
\* that a finalization can be repeated (sourceupload/finalizer.go).
THEOREM PartsOutliveFailures == Spec => PartsKeptForRetry
<1>1. SourceInv /\ [Next]_vars => [PartsKept]_vars
  BY PartsStep
<1> QED
  BY <1>1, SourceAlways, PTL DEF Spec, PartsKeptForRetry, PartsKept
=============================================================================
