---------------------------- MODULE BuildRegistry ----------------------------
(***************************************************************************)
(* Publication of a build output through Harbor (buildregistry): the       *)
(* broker that turns the administrator credential into a short-lived push  *)
(* capability for one repository, the publisher that pushes an artifact    *)
(* and its five pieces of evidence with it, and the retention coordinator  *)
(* that deletes artifacts under a journal.                                 *)
(*                                                                         *)
(* A publication is one call of Publisher.Commit. A robot account and its  *)
(* lease are made together and named by their place in made, the history   *)
(* of robots; of the registry the model keeps one repository. A capability *)
(* is a token Harbor signs for the robot: it stays good until it expires,  *)
(* which is no later than its lease does, also when the robot is deleted.  *)
(***************************************************************************)
EXTENDS Naturals, Sequences, FiniteSets

CONSTANTS
  Publications,        \* calls of Publisher.Commit
  Build, Key, Subject, \* build, business key and manifest digest of each
  Static,              \* the publications of static bundles
  Settings,            \* which publications overlap, whether the registry has
                       \* the referrers API, and the subjects retention gives up
  MaxConcurrentIssues, \* Issue calls the broker admits at a time
  MaxLeases,           \* capacity of the lease store
  MaxRegistryFaults    \* bound: failures, crashes and losses of a behaviour

ASSUME RegistryAssumption ==
  /\ DOMAIN Build = Publications /\ DOMAIN Key = Publications /\ DOMAIN Subject = Publications
  /\ Static \subseteq Publications
  /\ Settings \subseteq [together : SUBSET Publications, api : BOOLEAN, given : SUBSET {Subject[p] : p \in Publications}]
  /\ \A p, q \in Publications : Key[p] = Key[q] => Build[p] = Build[q]
  /\ "none" \notin Publications /\ "sweeper" \notin Publications
  /\ \A p \in Publications : Key[p] # "none"
  /\ MaxConcurrentIssues \in Nat \ {0} /\ MaxLeases \in Nat /\ MaxRegistryFaults \in Nat

VARIABLES
  commit,      \* where each Commit stands
  held,        \* the robot behind the capability each Commit holds, 0: none
  made,        \* robots ever created: the publication each was made for
  robots,      \* the ones Harbor still has
  leases,      \* the ones the lease store names
  lapsed,      \* the ones whose lease is past its expiry
  tokened,     \* the ones whose token has left the broker
  op,          \* the broker call that holds the mutex
  project,     \* what of the organization's Harbor project is in place
  pushed,      \* blobs and evidence manifests in the repository
  manifests,   \* subject manifests in the repository
  found,       \* what ManifestExists answered each Commit
  alias,       \* signature tag of each subject: the key it was pushed for
  referrers,   \* referrers index of each subject: keys with their evidence
  seen,        \* the fallback index each Commit has read
  api,         \* the registry has the referrers API
  journal,     \* deletion records
  retain,      \* where the deletion of each subject stands
  rfaults      \* failures so far

registryVars == <<commit, held, made, robots, leases, lapsed, tokened, op, project, pushed,
                  manifests, found, alias, referrers, seen, api, journal, retain, rfaults>>

Subjects == {Subject[p] : p \in Publications}
None == "none"
Project == {"metadata", "quota", "immutability"}
Idle == [by |-> None, step |-> "idle", id |-> 0]

RegistryInit ==
  /\ \E setting \in Settings :
       /\ commit = [p \in Publications |-> IF p \in setting.together THEN "start" ELSE "absent"]
       /\ api = setting.api
       /\ retain = [d \in Subjects |-> IF d \in setting.given THEN "idle" ELSE "kept"]
  /\ held = [p \in Publications |-> 0]
  /\ made = <<>> /\ robots = {} /\ leases = {} /\ lapsed = {} /\ tokened = {}
  /\ op = Idle /\ project = {}
  /\ pushed = {} /\ manifests = {} /\ found = [p \in Publications |-> FALSE]
  /\ alias = [d \in Subjects |-> None] /\ referrers = [d \in Subjects |-> {}]
  /\ seen = [p \in Publications |-> {}]
  /\ journal = {}
  /\ rfaults = 0

brokerVars   == <<made, robots, leases, lapsed, tokened, op, project>>
contentVars  == <<pushed, manifests, found, alias, referrers, seen, api>>
deletionVars == <<journal, retain>>

Fault == rfaults < MaxRegistryFaults /\ rfaults' = rfaults + 1
NoFault == UNCHANGED rfaults
Goto(p, s) == commit' = [commit EXCEPT ![p] = s]

-----------------------------------------------------------------------------
\* Publisher.Commit up to the capability: the artifact is validated,
\* inspected or packaged, its evidence generated and validated, and the
\* artifact validated again; any of it may fail before Harbor is touched.
Prepare(p) ==
  /\ commit[p] = "start"
  /\ Goto(p, "issue") /\ NoFault
  /\ UNCHANGED <<held, brokerVars, contentVars, deletionVars>>

PrepareFails(p) ==
  /\ commit[p] = "start"
  /\ Goto(p, "failed") /\ Fault
  /\ UNCHANGED <<held, brokerVars, contentVars, deletionVars>>

\* The issuing semaphore: taken or refused, never waited for.
Issuing == {p \in Publications : commit[p] \in {"queued", "issuing"}}
Admit(p) ==
  /\ commit[p] = "issue"
  /\ IF Cardinality(Issuing) < MaxConcurrentIssues THEN Goto(p, "queued") ELSE Goto(p, "failed")
  /\ NoFault
  /\ UNCHANGED <<held, brokerVars, contentVars, deletionVars>>

LeaseOf(key) == {i \in leases : Key[made[i]] = key}

\* Issue gets the mutex. A lease of the same scope is revoked first.
Lock(p) ==
  /\ commit[p] = "queued" /\ op = Idle
  /\ IF LeaseOf(Key[p]) # {}
     THEN \E i \in LeaseOf(Key[p]) : op' = [by |-> p, step |-> "delete", id |-> i]
     ELSE op' = [by |-> p, step |-> "ensure", id |-> 0]
  /\ Goto(p, "issuing") /\ NoFault
  /\ UNCHANGED <<held, made, robots, leases, lapsed, tokened, project, contentVars, deletionVars>>

\* The broker call ends and releases the mutex; its caller goes on.
Return(s) ==
  /\ op' = Idle
  /\ IF op.by \in Publications THEN Goto(op.by, s) ELSE UNCHANGED commit

\* The broker's process ends: calls in progress fail, the lease database
\* survives. A sweep that fails ends it as well (sweepExpired).
Exit ==
  /\ op' = Idle
  /\ commit' = [p \in Publications |->
       IF commit[p] \in {"queued", "issuing", "revoking", "dropping"} THEN "failed" ELSE commit[p]]
GiveUp == IF op.by = "sweeper" THEN Exit ELSE Return("failed")

\* revokeLease: the robot first, the lease once Harbor has confirmed.
DeleteRobot ==
  /\ op.step \in {"delete", "drop", "undo"}
  /\ robots' = robots \ {op.id}
  /\ IF op.step = "undo" THEN Return("failed")
     ELSE op' = [op EXCEPT !.step = IF @ = "delete" THEN "remove" ELSE "forget"] /\ UNCHANGED commit
  /\ NoFault
  /\ UNCHANGED <<held, made, leases, lapsed, tokened, project, contentVars, deletionVars>>

\* LeaseStore.RemoveLease. Where the call goes on: an Issue to the project, a
\* Revoke to its caller's result, a sweep to the next lapsed lease.
RemoveLease ==
  /\ op.step \in {"remove", "forget"}
  /\ leases' = leases \ {op.id} /\ lapsed' = lapsed \ {op.id}
  /\ CASE op.step = "forget" -> Return("failed")
       [] op.step = "remove" /\ op.by \in Publications /\ commit[op.by] = "issuing" ->
            op' = [op EXCEPT !.step = "ensure", !.id = 0] /\ UNCHANGED commit
       [] op.step = "remove" /\ op.by \in Publications /\ commit[op.by] = "revoking" -> Return("committed")
       [] op.step = "remove" /\ op.by \in Publications /\ commit[op.by] = "dropping" -> Return("failed")
       [] OTHER -> Return(None)
  /\ NoFault
  /\ UNCHANGED <<held, made, robots, tokened, project, contentVars, deletionVars>>

\* EnsureProject converges the project before any robot exists.
EnsureProject ==
  /\ op.step = "ensure"
  /\ project' = Project
  /\ op' = [op EXCEPT !.step = "create"] /\ NoFault
  /\ UNCHANGED <<commit, held, made, robots, leases, lapsed, tokened, contentVars, deletionVars>>

\* Harbor names a robot after the build and refuses a second of that name.
CreatePushRobot ==
  /\ op.step = "create"
  /\ IF \E i \in robots : Build[made[i]] = Build[op.by]
     THEN Return("failed") /\ UNCHANGED <<made, robots>>
     ELSE /\ made' = Append(made, op.by)
          /\ robots' = robots \cup {Len(made')}
          /\ op' = [op EXCEPT !.step = "put", !.id = Len(made')]
          /\ UNCHANGED commit
  /\ NoFault
  /\ UNCHANGED <<held, leases, lapsed, tokened, project, contentVars, deletionVars>>

\* Mutant: the error of LeaseStore.Put is dropped.
PutLeaseIgnored ==
  /\ op.step = "put"
  /\ leases' = IF Cardinality(leases) < MaxLeases THEN leases \cup {op.id} ELSE leases
  /\ op' = [op EXCEPT !.step = "token"] /\ NoFault
  /\ UNCHANGED <<commit, held, made, robots, lapsed, tokened, project, contentVars, deletionVars>>

\* LeaseStore.Put: one transaction; a full store undoes the robot.
PutLease ==
  /\ op.step = "put"
  /\ IF LeaseOf(Key[op.by]) = {} /\ Cardinality(leases) < MaxLeases
     THEN leases' = leases \cup {op.id} /\ op' = [op EXCEPT !.step = "token"]
     ELSE UNCHANGED leases /\ op' = [op EXCEPT !.step = "undo"]
  /\ NoFault
  /\ UNCHANGED <<commit, held, made, robots, lapsed, tokened, project, contentVars, deletionVars>>

\* RepositoryToken and validatePushCapability: the capability goes to the
\* caller, and the mutex and the slot are released.
IssueToken ==
  /\ op.step = "token"
  /\ tokened' = tokened \cup {op.id}
  /\ held' = [held EXCEPT ![op.by] = op.id]
  /\ Return("probe") /\ NoFault
  /\ UNCHANGED <<made, robots, leases, lapsed, project, contentVars, deletionVars>>

\* A call of Harbor or of the lease store fails. An error answer may hide
\* that Harbor did what it was asked.
BrokerCallFails ==
  /\ Fault
  /\ \/ /\ op.step \in {"delete", "remove", "drop", "forget", "undo"}
        /\ robots' \in {robots, IF op.step \in {"delete", "drop", "undo"} THEN robots \ {op.id} ELSE robots}
        /\ GiveUp
        /\ UNCHANGED <<made, project>>
     \/ /\ op.step = "ensure"
        /\ project' \in {ps \in SUBSET Project : project \subseteq ps}
        /\ Return("failed")
        /\ UNCHANGED <<made, robots>>
     \/ /\ op.step = "create"
        /\ \A i \in robots : Build[made[i]] # Build[op.by]
        /\ made' = Append(made, op.by) /\ robots' \in {robots, robots \cup {Len(made')}}
        /\ Return("failed")
        /\ UNCHANGED project
     \/ /\ op.step \in {"put", "token"}
        /\ op' = [op EXCEPT !.step = IF @ = "put" THEN "undo" ELSE "drop"]
        /\ UNCHANGED <<commit, made, robots, project>>
  /\ UNCHANGED <<held, leases, lapsed, tokened, contentVars, deletionVars>>

\* Publisher's deferred Revoke. An unknown lease is already revoked. The
\* result of the Commit is decided by "revoking" (success so far) and
\* "dropping" (an error is on its way).
Revoke(p) ==
  /\ commit[p] \in {"revoke", "drop"} /\ op = Idle
  /\ IF held[p] \in leases
     THEN /\ op' = [by |-> p, step |-> "delete", id |-> held[p]]
          /\ Goto(p, IF commit[p] = "revoke" THEN "revoking" ELSE "dropping")
     ELSE /\ UNCHANGED op
          /\ Goto(p, IF commit[p] = "revoke" THEN "committed" ELSE "failed")
  /\ NoFault
  /\ UNCHANGED <<held, made, robots, leases, lapsed, tokened, project, contentVars, deletionVars>>

\* Mutant: only capabilities somebody still holds are swept.
SweepHeld ==
  /\ op = Idle
  /\ \E i \in lapsed : /\ \E p \in Publications : held[p] = i
                       /\ op' = [by |-> "sweeper", step |-> "delete", id |-> i]
  /\ NoFault
  /\ UNCHANGED <<commit, held, made, robots, leases, lapsed, tokened, project, contentVars, deletionVars>>

\* The minute ticker, and every start of the broker.
SweepExpired ==
  /\ op = Idle
  /\ \E i \in lapsed : op' = [by |-> "sweeper", step |-> "delete", id |-> i]
  /\ NoFault
  /\ UNCHANGED <<commit, held, made, robots, leases, lapsed, tokened, project, contentVars, deletionVars>>

LeaseLapses(i) ==
  /\ i \in leases \ lapsed
  /\ lapsed' = lapsed \cup {i} /\ NoFault
  /\ UNCHANGED <<commit, held, made, robots, leases, tokened, op, project, contentVars, deletionVars>>

BrokerCrash ==
  /\ Fault /\ Exit
  /\ UNCHANGED <<held, made, robots, leases, lapsed, tokened, project, contentVars, deletionVars>>

-----------------------------------------------------------------------------
\* Publishing with the capability. A lapsed one is refused by the registry.
CanPush(p) == held[p] # 0 /\ held[p] \notin lapsed

ManifestExists(p) ==
  /\ commit[p] = "probe" /\ CanPush(p)
  /\ found' = [found EXCEPT ![p] = Subject[p] \in manifests]
  /\ Goto(p, "blobs") /\ NoFault
  /\ UNCHANGED <<held, brokerVars, pushed, manifests, alias, referrers, seen, api, deletionVars>>

\* EnsureBlob for the config and every layer, each read back.
EnsureBlobs(p) ==
  /\ commit[p] = "blobs" /\ CanPush(p)
  /\ pushed' = pushed \cup {<<"blobs", Subject[p]>>}
  /\ Goto(p, IF found[p] THEN "evidence" ELSE "manifest") /\ NoFault
  /\ UNCHANGED <<held, brokerVars, manifests, found, alias, referrers, seen, api, deletionVars>>

PutManifest(p) ==
  /\ commit[p] = "manifest" /\ CanPush(p)
  /\ manifests' = manifests \cup {Subject[p]}
  /\ Goto(p, "evidence") /\ NoFault
  /\ UNCHANGED <<held, brokerVars, pushed, found, alias, referrers, seen, api, deletionVars>>

\* publishEvidence: the blobs and manifests of the five payloads, which a
\* registry with the referrers API indexes by itself.
PutEvidence(p) ==
  /\ commit[p] = "evidence" /\ CanPush(p)
  /\ pushed' = pushed \cup {<<"evidence", Subject[p], Key[p]>>}
  /\ referrers' = IF api THEN [referrers EXCEPT ![Subject[p]] = @ \cup {Key[p]}] ELSE referrers
  /\ Goto(p, "alias") /\ NoFault
  /\ UNCHANGED <<held, brokerVars, manifests, found, alias, seen, api, deletionVars>>

\* Mutant: the signature tag is pushed without looking at it.
EnsureAliasOverwrites(p) ==
  /\ commit[p] = "alias" /\ CanPush(p)
  /\ alias' = [alias EXCEPT ![Subject[p]] = Key[p]]
  /\ Goto(p, IF api THEN "verify" ELSE "index") /\ NoFault
  /\ UNCHANGED <<held, brokerVars, pushed, manifests, found, referrers, seen, api, deletionVars>>

\* EnsureManifestReference: the signature, which names build and attempt, is
\* tagged once; another publication's tag is a conflict.
EnsureAlias(p) ==
  /\ commit[p] = "alias" /\ CanPush(p)
  /\ IF alias[Subject[p]] \in {None, Key[p]}
     THEN /\ alias' = [alias EXCEPT ![Subject[p]] = Key[p]]
          /\ Goto(p, IF api THEN "verify" ELSE "index")
     ELSE UNCHANGED alias /\ Goto(p, "drop")
  /\ NoFault
  /\ UNCHANGED <<held, brokerVars, pushed, manifests, found, referrers, seen, api, deletionVars>>

\* verifyReferrersFallback reads the tagged index, merges and writes it back.
ReadIndex(p) ==
  /\ commit[p] = "index" /\ CanPush(p)
  /\ seen' = [seen EXCEPT ![p] = referrers[Subject[p]] \cup {Key[p]}]
  /\ Goto(p, IF Key[p] \in referrers[Subject[p]] THEN "verify" ELSE "merge") /\ NoFault
  /\ UNCHANGED <<held, brokerVars, pushed, manifests, found, alias, referrers, api, deletionVars>>

WriteIndex(p) ==
  /\ commit[p] = "merge" /\ CanPush(p)
  /\ referrers' = [referrers EXCEPT ![Subject[p]] = seen[p]]
  /\ Goto(p, "verify") /\ NoFault
  /\ UNCHANGED <<held, brokerVars, pushed, manifests, found, alias, seen, api, deletionVars>>

\* verifyReferrerIndex; then a static bundle's manifest is stored.
VerifyReferrers(p) ==
  /\ commit[p] = "verify" /\ CanPush(p)
  /\ Goto(p, IF Key[p] \notin referrers[Subject[p]] THEN "drop"
             ELSE IF p \in Static THEN "static" ELSE "revoke")
  /\ NoFault
  /\ UNCHANGED <<held, brokerVars, contentVars, deletionVars>>

\* S3StaticManifestStore.PutImmutable: content-addressed, so a repeat agrees.
PutStaticManifest(p) ==
  /\ commit[p] = "static"
  /\ pushed' = pushed \cup {<<"static", Subject[p], Key[p]>>}
  /\ Goto(p, "revoke") /\ NoFault
  /\ UNCHANGED <<held, brokerVars, manifests, found, alias, referrers, seen, api, deletionVars>>

Pushing == {"probe", "blobs", "manifest", "evidence", "alias", "index", "merge", "verify", "static"}

\* A registry call fails, a digest differs, or the artifact on disk has
\* changed: the deferred Revoke runs with an error. A lapsed capability
\* fails every call.
PushFails(p) ==
  /\ commit[p] \in Pushing
  /\ IF CanPush(p) THEN Fault ELSE NoFault
  /\ Goto(p, "drop")
  /\ UNCHANGED <<held, brokerVars, contentVars, deletionVars>>

\* The cell dies, or the answer to Issue is lost or refused by the client:
\* nothing revokes the capability.
PublisherLost(p) ==
  /\ Fault
  /\ commit[p] \in Pushing \cup {"revoke", "drop"}
  /\ Goto(p, "lost") /\ held' = [held EXCEPT ![p] = 0]
  /\ UNCHANGED <<brokerVars, contentVars, deletionVars>>

-----------------------------------------------------------------------------
\* RetentionCoordinator.Delete. The protections are what the caller read
\* when it called: the subjects of committed publications among them.
Protected(d) == \E p \in Publications : commit[p] = "committed" /\ Subject[p] = d

Record(d, state) == journal' = journal \cup {<<state, d>>}

\* The candidate's references are deleted, its replicas converged and its
\* metadata backed up. The authorization is durable before Harbor is asked.
AuthorizeDeletion(d) ==
  /\ retain[d] = "idle"
  /\ ~ Protected(d)
  /\ Record(d, "deletion_authorized")
  /\ retain' = [retain EXCEPT ![d] = "authorized"] /\ NoFault
  /\ UNCHANGED <<commit, held, brokerVars, contentVars>>

\* Harbor answers 404 for what is gone: as good as a deletion.
DeleteArtifact(d) ==
  /\ retain[d] = "authorized"
  /\ manifests' = manifests \ {d}
  /\ retain' = [retain EXCEPT ![d] = "deleted"] /\ NoFault
  /\ UNCHANGED <<commit, held, brokerVars, pushed, found, alias, referrers, seen, api, journal>>

RecordTombstone(d) ==
  /\ retain[d] = "deleted"
  /\ Record(d, "artifact_deleted")
  /\ retain' = [retain EXCEPT ![d] = "done"] /\ NoFault
  /\ UNCHANGED <<commit, held, brokerVars, contentVars>>

\* The journal or Harbor fails: Delete returns, and may be called again.
DeletionFails(d) ==
  /\ retain[d] \in {"authorized", "deleted"}
  /\ retain' = [retain EXCEPT ![d] = "idle"] /\ Fault
  /\ UNCHANGED <<commit, held, brokerVars, contentVars, journal>>

-----------------------------------------------------------------------------
BrokerStep == \/ DeleteRobot \/ RemoveLease \/ EnsureProject \/ CreatePushRobot \/ PutLease \/ IssueToken
CommitStep(p) ==
  \/ Prepare(p) \/ Admit(p) \/ Lock(p) \/ Revoke(p)
  \/ ManifestExists(p) \/ EnsureBlobs(p) \/ PutManifest(p) \/ PutEvidence(p) \/ EnsureAlias(p)
  \/ ReadIndex(p) \/ WriteIndex(p) \/ VerifyReferrers(p) \/ PutStaticManifest(p)

RegistryNext ==
  \/ BrokerStep \/ SweepExpired \/ BrokerCallFails \/ BrokerCrash
  \/ \E p \in Publications :
       \/ CommitStep(p) \/ PrepareFails(p) \/ PushFails(p) \/ PublisherLost(p)
  \/ \E i \in 1 .. Len(made) : LeaseLapses(i)
  \/ \E d \in Subjects :
       \/ AuthorizeDeletion(d) \/ DeleteArtifact(d) \/ RecordTombstone(d) \/ DeletionFails(d)

RegistrySpec == RegistryInit /\ [][RegistryNext]_registryVars

-----------------------------------------------------------------------------
\* While a robot behind a token exists, a lease names it: whatever fails
\* while a capability is issued, used or revoked, somebody can still find
\* the robot (broker.go, revokeLease deletes the robot before the lease).
TokenIsLeased == tokened \cap robots \subseteq leases

\* A robot whose token has left the broker does not stay for ever, also when
\* the publisher dies, its answer is lost or the broker restarts.
CapabilitiesEnd ==
  \A i \in 1 .. Cardinality(Publications) : []<>(i \notin tokened \cap robots)

\* Everything Commit reported is in the repository, and its evidence can be
\* found from the subject and under the signature tag.
Complete(p) ==
  /\ Subject[p] \in manifests
  /\ <<"blobs", Subject[p]>> \in pushed
  /\ <<"evidence", Subject[p], Key[p]>> \in pushed
  /\ p \in Static => <<"static", Subject[p], Key[p]>> \in pushed
  /\ alias[Subject[p]] = Key[p]
  /\ Key[p] \in referrers[Subject[p]]

\* A publication that succeeded stays complete unless a journaled deletion
\* took it away, also when another publication of the same artifact merges
\* the referrers index from a stale copy; and its robot is gone.
CommittedIsComplete ==
  \A p \in Publications : commit[p] = "committed" =>
    /\ Complete(p) \/ <<"deletion_authorized", Subject[p]>> \in journal
    /\ held[p] \notin robots
=============================================================================
