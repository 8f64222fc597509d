----------------------------- MODULE SourcePlane -----------------------------
(***************************************************************************)
(* Source ingestion: the control plane's upload sessions and fetches       *)
(* (SourceIngestion::Finalize, Fetch), the source gateway that serves them *)
(* (httpapi, sourceupload, providerfetch, snapshotstore) and the object    *)
(* store they share. Clients write parts through presigned URLs at any     *)
(* time before the grant expires, also while a finalizer reads them.       *)
(*                                                                         *)
(* A call is one request of the control plane with the handler that serves *)
(* it; several calls may work on the same session, in the same gateway or  *)
(* in different ones.                                                      *)
(***************************************************************************)
EXTENDS SourceArchive, Functions, TLC

CONSTANTS
  Uploads, Fetches,   \* upload sessions and provider fetches
  Granted,            \* upload -> the archive its grant names
  Trees,              \* fetch -> the tree the provider has for the commit
  Metadata,           \* request -> metadata that enters the snapshot digest
  Archives, Content,  \* archives by name, and what they contain: those clients
                      \* upload, providers serve and the gateway repacks
  Parts,              \* parts of an upload
  Earlier,            \* archives an earlier upload of the project may have stored
  Together,           \* bound: sets of requests opened in one behaviour
  Calls, Gateways,    \* bound: concurrent requests; gateway processes
  MaxPartBytes,
  TokenMinutes,       \* lifetimes of the tokens the provider issues
  MaxConcurrent,      \* MaxConcurrentFinalizers, MaxConcurrentFetchers
  MaxFaults,          \* bound: failed calls, crashes, wrong parts and provider answers
  None

ASSUME SourceAssumption ==
  /\ Uploads \cap Fetches = {}
  /\ Parts \in Nat \ {0} /\ MaxConcurrent \in Nat \ {0} /\ MaxFaults \in Nat
  /\ None \notin Archives
  /\ validatePolicy(Policy)
  /\ \A f \in Fetches : Len(Trees[f].entries) \in Nat

\* Archives are closed under what the gateway repacks.
ASSUME RepackedAssumption ==
  \A f \in Fetches : resolveTree(Trees[f]) # Rejected =>
    \E b \in Archives : Content[b] = repacked(resolveTree(Trees[f]))

Requests == Uploads \cup Fetches

\* What the gateway computes of an archive, tabulated.
Manifest  == [a \in Archives |-> readTar(Content[a])]
Accepted  == [a \in Archives |-> FinalizeArchive(Content[a], Content[a]) # Rejected]

\* A digest of a manifest stands for all archives that have it.
ManifestSHA256 == [a \in Archives |-> CHOOSE b \in Archives : Manifest[b] = Manifest[a]]

\* The declared parts are as many as granted, bounded, and add up.
ValidateParts(u, declared) ==
  LET sizes == Content[declared].parts IN
  /\ Len(sizes) = Parts
  /\ \A i \in 1 .. Parts : sizes[i] \in 1 .. MaxPartBytes
  /\ FoldSeq(+, 0, sizes) = Content[Granted[u]].bytes

\* An installation token, by the minutes it lives: it must outlast the fetch
\* and not be a long-lived one. The gateway repeats the broker's check.
GitHubToken(minutes) == minutes > 5 /\ minutes <= 120
BrokerToken(minutes) == GitHubToken(minutes) /\ minutes > 5 /\ minutes <= 120

\* The archive the gateway makes of the one a provider serves for a commit.
Normalized ==
  [f \in Fetches |-> [a \in Archives |->
    LET tree == resolveTree(Trees[f])
        packed == IF tree = Rejected THEN Rejected ELSE normalizeArchive(Content[a], tree, f)
    IN IF packed = Rejected THEN None ELSE CHOOSE b \in Archives : Content[b] = packed]]

VARIABLES
  state,      \* request -> state of its row in the control plane
  recorded,   \* requests whose snapshot the control plane has recorded
  presigned,  \* uploads whose client holds the URLs of its parts
  withdrawn,  \* uploads whose grant has expired, and fetches whose source
              \* connection does not authorize the repository any more
  part,       \* upload -> part number -> archive it is a part of, or None
  archives,   \* snapshot digest -> archive stored under it
  manifests,  \* snapshot digests with a stored manifest
  receipts,   \* request -> stored signed receipt
  call,       \* call -> handler
  answered,   \* <<request, receipt>> a gateway has answered with
  faults

store == <<part, archives, manifests, receipts>>
vars  == <<state, recorded, presigned, withdrawn, part, archives, manifests, receipts, call,
           answered, faults>>

GatewayPcs == {"receipt", "read", "lock", "resolve", "archive", "manifest",
               "sign", "reread", "delete"}
NoCall == [pc |-> "idle", req |-> None, gw |-> None, declared |-> None, part |-> 1,
           source |-> None, receipt |-> None, row |-> None, waiting |-> TRUE]

\* A grant is good until it expires. (A fetch's row gets a new expiry each
\* time it starts, so its grant is good when it is sent.)
VerifyGrant(u) == u \notin withdrawn

Busy(c) == call[c].pc # "idle"

Init ==
  /\ state = [r \in Requests |-> "none"]
  /\ recorded = {} /\ presigned = {} /\ withdrawn = {} /\ answered = {} /\ faults = 0
  /\ part = [u \in Uploads |-> [i \in 1 .. Parts |-> None]]
  /\ \/ archives = <<>> /\ manifests = {}
     \/ \E a \in Earlier, u \in Uploads :
          /\ archives = [s \in {SnapshotSHA256(ManifestSHA256[a], Metadata[u])} |-> a]
          /\ manifests = DOMAIN archives
  /\ receipts = <<>>
  /\ call = [c \in Calls |-> NoCall]

\* The handler goes on at another step.
Go(c, pc) == call' = [call EXCEPT ![c].pc = pc]

\* ... with the archive it has verified, or with the receipt it will answer.
GoWithSource(c, a) == call' = [call EXCEPT ![c] = [@ EXCEPT !.pc = "archive", !.source = a]]
GoWithReceipt(c, pc, x) == call' = [call EXCEPT ![c] = [@ EXCEPT !.pc = pc, !.receipt = x]]

\* The handler answers with an error; the control plane has yet to see it.
Refuse(c) == Go(c, "refused")

\* The digest of the snapshot a handler has verified.
Snapshot(c) ==
  SnapshotSHA256(ManifestSHA256[call[c].source], Metadata[call[c].req])

\* Mutants: an existing object is taken for the same one; a write replaces it.
PutImmutableUnchecked(objects, key, value) == TRUE
StoredOver(objects, key, value) ==
  [k \in DOMAIN objects \cup {key} |-> IF k = key THEN value ELSE objects[k]]

\* PutImmutable: a conditional write, which finds its own bytes acceptable.
PutImmutable(objects, key, value) == key \in DOMAIN objects => objects[key] = value
Stored(objects, key, value) ==
  [k \in DOMAIN objects \cup {key} |-> IF k \in DOMAIN objects THEN objects[k] ELSE value]

-----------------------------------------------------------------------------
(* The control plane and its clients.                                      *)

Opened == {r \in Requests : state[r] # "none"}
MayOpen(r) == r \notin Opened /\ \E s \in Together : Opened \cup {r} \subseteq s

\* CreateSession: the row, and presigned URLs from the gateway.
CreateSession(u) ==
  /\ MayOpen(u)
  /\ state' = [state EXCEPT ![u] = "uploading"]
  /\ presigned' = presigned \cup {u}
  /\ UNCHANGED <<recorded, withdrawn, call, answered, faults, store>>

\* The gateway refused or failed to presign.
CreateSessionFails(u) ==
  /\ MayOpen(u) /\ faults < MaxFaults
  /\ state' = [state EXCEPT ![u] = "failed"]
  /\ faults' = faults + 1
  /\ UNCHANGED <<recorded, presigned, withdrawn, call, answered, store>>

\* Fetch.authorize: the row of a fetch.
AuthorizeFetch(f) ==
  /\ MayOpen(f)
  /\ state' = [state EXCEPT ![f] = "authorized"]
  /\ UNCHANGED <<recorded, presigned, withdrawn, call, answered, faults, store>>

\* A client writes a part, of the right archive or of another one.
PutPart(u, i, a) ==
  /\ u \in presigned \ withdrawn
  /\ part[u][i] # a
  /\ part' = [part EXCEPT ![u][i] = a]
  /\ faults' = IF a = Granted[u] THEN faults ELSE faults + 1
  /\ faults' <= MaxFaults
  /\ UNCHANGED <<state, recorded, presigned, withdrawn, archives, manifests, receipts, call, answered>>

\* Fifteen minutes pass.
GrantExpires(u) ==
  /\ u \in Opened \ withdrawn
  /\ withdrawn' = withdrawn \cup {u}
  /\ UNCHANGED <<state, recorded, presigned, call, answered, faults, store>>

\* lrail_expire_source_upload_sessions.
Sweep(u) ==
  /\ u \in withdrawn /\ state[u] \in {"uploading", "failed"}
  /\ state' = [state EXCEPT ![u] = "expired"]
  /\ UNCHANGED <<recorded, presigned, withdrawn, call, answered, faults, store>>

\* Requests a gateway process is serving, of uploads or of fetches.
InFlight(g, kind) ==
  {c \in Calls : call[c].gw = g /\ call[c].req \in kind /\ call[c].pc \in GatewayPcs}

\* The request reaches a gateway: it takes a slot or is turned away (429).
Admit(c, r, g, declared, first) ==
  LET kind == IF r \in Uploads THEN Uploads ELSE Fetches IN
  call' = [call EXCEPT ![c] =
             [NoCall EXCEPT !.req = r, !.gw = g, !.declared = declared, !.row = state'[r],
              !.pc = IF Cardinality(InFlight(g, kind)) < MaxConcurrent THEN first ELSE "refused"]]

\* Finalize.call: a session in "finalizing" is taken over once its row is
\* two minutes old, whether or not the first request still runs.
StartFinalize(c, u, g, declared) ==
  /\ ~ Busy(c)
  /\ state[u] \in {"uploading", "failed", "finalizing"} /\ VerifyGrant(u)
  /\ state' = [state EXCEPT ![u] = "finalizing"]
  /\ Admit(c, u, g, declared, "receipt")
  /\ faults' = IF declared = Granted[u] THEN faults ELSE faults + 1
  /\ faults' <= MaxFaults
  /\ UNCHANGED <<recorded, presigned, withdrawn, answered, store>>

\* The operator or the provider changes what the connection authorizes.
ConnectionChanges(f) ==
  /\ f \in Opened
  /\ withdrawn' = IF f \in withdrawn THEN withdrawn \ {f} ELSE withdrawn \cup {f}
  /\ UNCHANGED <<state, recorded, presigned, call, answered, faults, store>>

\* Fetch.start and acquire; a complete fetch stays complete, whatever has
\* become of its connection.
StartFetch(c, f, g) ==
  /\ ~ Busy(c) /\ f \in Opened
  /\ state[f] = "complete" \/ f \notin withdrawn
  /\ state' = [state EXCEPT ![f] = IF @ = "complete" THEN @ ELSE "fetching"]
  /\ Admit(c, f, g, None, "lock")
  /\ UNCHANGED <<recorded, presigned, withdrawn, answered, faults, store>>

\* The control plane verifies the receipt and records the snapshot.
Complete(c) ==
  /\ call[c].pc = "answered" /\ call[c].waiting
  /\ state' = [state EXCEPT ![call[c].req] = "complete"]
  /\ recorded' = recorded \cup {call[c].req}
  /\ call' = [call EXCEPT ![c] = NoCall]
  /\ UNCHANGED <<presigned, withdrawn, answered, faults, store>>

\* The control plane gets an error. It looks at its own copy of the row, so
\* it writes "failed" whatever another request has made of the row since.
Fail(c) ==
  /\ call[c].pc = "refused" /\ call[c].waiting
  /\ state' = [state EXCEPT ![call[c].req] = IF call[c].row = "complete" THEN @ ELSE "failed"]
  /\ call' = [call EXCEPT ![c] = NoCall]
  /\ UNCHANGED <<recorded, presigned, withdrawn, answered, faults, store>>

\* The answer reaches nobody.
Unheard(c) ==
  /\ call[c].pc \in {"answered", "refused"} /\ ~ call[c].waiting
  /\ call' = [call EXCEPT ![c] = NoCall]
  /\ UNCHANGED <<state, recorded, presigned, withdrawn, answered, faults, store>>

-----------------------------------------------------------------------------
(* The source gateway.                                                     *)

\* Fetcher.acquire: one handler of a process per fetch.
FetchLock(c) ==
  /\ call[c].pc = "lock"
  /\ \A d \in InFlight(call[c].gw, {call[c].req}) \ {c} : call[d].pc = "lock"
  /\ Go(c, "receipt")
  /\ UNCHANGED <<state, recorded, presigned, withdrawn, answered, faults, store>>

\* The handler answers with a receipt.
Answer(c, receipt) ==
  /\ GoWithReceipt(c, "answered", receipt)
  /\ answered' = answered \cup {<<call[c].req, receipt>>}

\* Mutant: the stored receipt is never looked for.
CompletedResultIgnored(c) ==
  /\ call[c].pc = "receipt"
  /\ Go(c, IF call[c].req \in Uploads THEN "read" ELSE "resolve")
  /\ UNCHANGED <<state, recorded, presigned, withdrawn, answered, faults, store>>

\* completedResult: what an earlier handler has concluded is answered again;
\* an upload deletes its parts first.
completedResult(c) ==
  LET r == call[c].req IN
  /\ call[c].pc = "receipt"
  /\ \/ /\ r \notin DOMAIN receipts /\ r \in Uploads
        /\ IF ValidateParts(r, call[c].declared) THEN Go(c, "read") ELSE Refuse(c)
        /\ UNCHANGED answered
     \/ /\ r \notin DOMAIN receipts /\ r \in Fetches
        /\ Go(c, "resolve")
        /\ UNCHANGED answered
     \/ /\ r \in DOMAIN receipts /\ r \in Uploads
        /\ GoWithReceipt(c, "delete", receipts[r])
        /\ UNCHANGED answered
     \/ /\ r \in DOMAIN receipts /\ r \in Fetches
        /\ Answer(c, receipts[r])
  /\ UNCHANGED <<state, recorded, presigned, withdrawn, faults, store>>

\* PartsReader.Read and finishPart: the object as it is now must have the
\* declared digest; after the last one the archive must be the granted one
\* and pass validation. Refusals are "unsafe_source".
ReadPart(c) ==
  LET u == call[c].req
      i == call[c].part
      a == call[c].declared
  IN
  /\ call[c].pc = "read"
  /\ \/ /\ part[u][i] # a
        /\ Refuse(c)
     \/ /\ part[u][i] = a /\ i < Parts
        /\ call' = [call EXCEPT ![c].part = i + 1]
     \/ /\ part[u][i] = a /\ i = Parts
        /\ IF a = Granted[u] /\ Accepted[a]
           THEN GoWithSource(c, a)
           ELSE Refuse(c)
  /\ UNCHANGED <<state, recorded, presigned, withdrawn, answered, faults, store>>

\* Token, resolveCommit, resolveTree, downloadArchive and normalizeArchive:
\* with a token for the repository, the provider's tree for the exact commit
\* and the archive it serves, which may be another one.
Resolve(c, minutes, a) ==
  LET packed == IF BrokerToken(minutes) THEN Normalized[call[c].req][a] ELSE None IN
  /\ call[c].pc = "resolve"
  /\ faults' = IF packed = None THEN faults + 1 ELSE faults
  /\ faults' <= MaxFaults
  /\ IF packed # None /\ Accepted[packed]
     THEN GoWithSource(c, packed)
     ELSE Refuse(c)
  /\ UNCHANGED <<state, recorded, presigned, withdrawn, answered, store>>

\* Writer.Write, first object. Another archive of the same files may hold
\* the key already.
PutArchive(c) ==
  /\ call[c].pc = "archive"
  /\ archives' = Stored(archives, Snapshot(c), call[c].source)
  /\ IF PutImmutable(archives, Snapshot(c), call[c].source)
     THEN Go(c, "manifest") ELSE Refuse(c)
  /\ UNCHANGED <<state, recorded, presigned, withdrawn, part, manifests, receipts, answered, faults>>

\* Mutant: the parts go as soon as the snapshot is stored.
PutManifestAndDelete(c) ==
  /\ call[c].pc = "manifest"
  /\ manifests' = manifests \cup {Snapshot(c)}
  /\ part' = [u \in Uploads |-> IF u = call[c].req THEN [i \in 1 .. Parts |-> None] ELSE part[u]]
  /\ Go(c, "sign")
  /\ UNCHANGED <<state, recorded, presigned, withdrawn, archives, receipts, answered, faults>>

\* Writer.Write, second object.
PutManifest(c) ==
  /\ call[c].pc = "manifest"
  /\ manifests' = manifests \cup {Snapshot(c)}
  /\ Go(c, "sign")
  /\ UNCHANGED <<state, recorded, presigned, withdrawn, part, archives, receipts, answered, faults>>

\* Two receipts of a request differ in the time they were finalized.
SignResult(c) == [snapshot |-> Snapshot(c), archive |-> call[c].source, finalizedAt |-> c]

\* The conditional write of the receipt. A fetch that lost the race reads the
\* winner's, an upload fails.
PutReceipt(c) ==
  LET r == call[c].req
      receipt == SignResult(c)
  IN
  /\ call[c].pc = "sign"
  /\ receipts' = Stored(receipts, r, receipt)
  /\ \/ /\ PutImmutable(receipts, r, receipt) /\ r \in Uploads
        /\ GoWithReceipt(c, "delete", receipt)
        /\ UNCHANGED answered
     \/ /\ PutImmutable(receipts, r, receipt) /\ r \in Fetches
        /\ Answer(c, receipt)
     \/ /\ ~ PutImmutable(receipts, r, receipt)
        /\ IF r \in Uploads THEN Refuse(c) ELSE Go(c, "reread")
        /\ UNCHANGED answered
  /\ UNCHANGED <<state, recorded, presigned, withdrawn, part, archives, manifests, faults>>

\* Fetch, after a conflict: completedResult again.
Reread(c) ==
  /\ call[c].pc = "reread"
  /\ Answer(c, receipts[call[c].req])
  /\ UNCHANGED <<state, recorded, presigned, withdrawn, faults, store>>

\* MinIO.Delete of the parts, in batches: on an error any of them may be gone.
DeleteParts(c) ==
  LET u == call[c].req IN
  /\ call[c].pc = "delete"
  /\ \/ /\ part' = [part EXCEPT ![u] = [i \in 1 .. Parts |-> None]]
        /\ Answer(c, call[c].receipt)
        /\ UNCHANGED faults
     \/ /\ faults < MaxFaults /\ faults' = faults + 1
        /\ \E gone \in SUBSET (1 .. Parts) :
             part' = [part EXCEPT ![u] = [i \in 1 .. Parts |-> IF i \in gone THEN None ELSE @[i]]]
        /\ Refuse(c)
        /\ UNCHANGED answered
  /\ UNCHANGED <<state, recorded, presigned, withdrawn, archives, manifests, receipts>>

-----------------------------------------------------------------------------
(* Failures.                                                               *)

\* The object store, the token broker or the provider fails a call.
CallFails(c) ==
  /\ call[c].pc \in GatewayPcs \ {"lock"} /\ faults < MaxFaults
  /\ Refuse(c)
  /\ faults' = faults + 1
  /\ UNCHANGED <<state, recorded, presigned, withdrawn, answered, store>>

\* A gateway process dies: its handlers are gone, their callers see an error.
Crash(g) ==
  /\ faults < MaxFaults
  /\ \E c \in Calls : call[c].gw = g
  /\ call' = [c \in Calls |-> IF call[c].gw = g /\ call[c].pc \in GatewayPcs \cup {"answered"}
                              THEN [call[c] EXCEPT !.pc = "refused"] ELSE call[c]]
  /\ faults' = faults + 1
  /\ UNCHANGED <<state, recorded, presigned, withdrawn, answered, store>>

\* The control plane's request ends (process exit, timeout): the handler
\* goes on until the store notices that its context is done.
CallerLeaves(c) ==
  /\ Busy(c) /\ call[c].waiting /\ faults < MaxFaults
  /\ call' = [call EXCEPT ![c].waiting = FALSE]
  /\ faults' = faults + 1
  /\ UNCHANGED <<state, recorded, presigned, withdrawn, answered, store>>

ContextDone(c) ==
  /\ call[c].pc \in GatewayPcs \ {"lock"} /\ ~ call[c].waiting
  /\ Refuse(c)
  /\ UNCHANGED <<state, recorded, presigned, withdrawn, answered, faults, store>>

-----------------------------------------------------------------------------
GatewayStep(c) ==
  \/ FetchLock(c) \/ completedResult(c) \/ ReadPart(c)
  \/ \E t \in TokenMinutes, a \in Archives : Resolve(c, t, a)
  \/ PutArchive(c) \/ PutManifest(c) \/ PutReceipt(c) \/ Reread(c) \/ DeleteParts(c)

Next ==
  \/ \E u \in Uploads :
       \/ CreateSession(u) \/ CreateSessionFails(u) \/ GrantExpires(u) \/ Sweep(u)
       \/ \E i \in 1 .. Parts, a \in Archives : PutPart(u, i, a)
       \/ \E c \in Calls, g \in Gateways, a \in Archives : StartFinalize(c, u, g, a)
  \/ \E f \in Fetches :
       AuthorizeFetch(f) \/ ConnectionChanges(f) \/ \E c \in Calls, g \in Gateways : StartFetch(c, f, g)
  \/ \E c \in Calls :
       GatewayStep(c) \/ Complete(c) \/ Fail(c) \/ Unheard(c)
       \/ CallFails(c) \/ CallerLeaves(c) \/ ContextDone(c)
  \/ \E g \in Gateways : Crash(g)

Spec == Init /\ [][Next]_vars
-----------------------------------------------------------------------------
(* Fairness: handlers run; clients upload what they were granted and       *)
(* repeat their request (a webhook delivery is retried by its job) until a *)
(* gateway has a slot for it.                                              *)
Handle(c) == GatewayStep(c) \/ Complete(c) \/ Fail(c) \/ Unheard(c)

RetryFinalize(u) ==
  \E c \in Calls, g \in Gateways :
    StartFinalize(c, u, g, Granted[u]) /\ call'[c].pc # "refused"

RetryFetch(f) ==
  \E c \in Calls, g \in Gateways : StartFetch(c, f, g) /\ call'[c].pc # "refused"

Fairness ==
  /\ \A c \in Calls : WF_vars(Handle(c))
  /\ \A u \in Uploads :
       /\ \A i \in 1 .. Parts : WF_vars(PutPart(u, i, Granted[u]))
       /\ SF_vars(RetryFinalize(u))
  /\ \A f \in Fetches : SF_vars(RetryFetch(f))

FairSpec == Spec /\ Fairness

-----------------------------------------------------------------------------
(* Properties.                                                             *)

\* Every answer a gateway ever gives for an upload or a fetch is the one
\* receipt that is stored for it, whichever of several racing, repeated or
\* interrupted handlers gives it (finalizer.go, fetcher.go).
AnswersAgree ==
  \A x \in answered : x[1] \in DOMAIN receipts /\ receipts[x[1]] = x[2]

\* The files of a fetch's commit, as its manifest lists them.
TreeFiles(f) ==
  {[path |-> e.path, size |-> e.size, blob |-> e.blob, exec |-> e.exec] :
     e \in {Trees[f].entries[i] : i \in Files(Trees[f])}}

\* A receipt is backed by stored objects: the archive under its snapshot
\* digest is the granted one, or has exactly the files of the commit's tree,
\* although clients may overwrite parts while they are read and providers may
\* serve something else; and the manifest is there.
ReceiptIsBacked ==
  \A r \in DOMAIN receipts :
    LET x == receipts[r] IN
    /\ x.snapshot \in DOMAIN archives /\ archives[x.snapshot] = x.archive
    /\ x.snapshot \in manifests
    /\ r \in Uploads => x.archive = Granted[r]
    /\ r \in Fetches => Manifest[x.archive].files = TreeFiles(r)

\* A part that was uploaded is never removed before the receipt is durable:
\* a finalization that failed can always be repeated (ADR 004).
PartsKeptForRetry ==
  [][\A u \in Uploads, i \in 1 .. Parts :
       part[u][i] # None /\ part'[u][i] = None => u \in DOMAIN receipts]_vars

\* Another archive with the same files and metadata was stored first.
Collided(u) ==
  LET s == SnapshotSHA256(ManifestSHA256[Granted[u]], Metadata[u]) IN
  s \in DOMAIN archives /\ archives[s] # Granted[u]

\* Through failures, crashes and lost answers a repeated request ends with the
\* snapshot recorded, unless the connection of a fetch is withdrawn, the
\* grant of an upload expires, its archive is refused, or its key holds
\* another archive of the same files.
RequestsEnd ==
  /\ \A f \in Fetches : f \in Opened ~> f \in recorded \/ f \in withdrawn
  /\ \A u \in Uploads :
       u \in presigned ~>
         \/ u \in recorded \/ u \in withdrawn
         \/ ~ Accepted[Granted[u]] \/ Collided(u)
=============================================================================
