---------------------------- MODULE RegistryProofs ---------------------------
(***************************************************************************)
(* Theorems about what is published of a build output: through Harbor, for *)
(* any set of publications and any number of leases and faults, and the    *)
(* evidence of it, for any images, reports and policy, and any number of   *)
(* databases and key versions.                                             *)
(*                                                                         *)
(* The broker.  One call holds the mutex (OpOwned), and it removes a lease *)
(* only after its robot (LeaseKept); a robot made later has a number no    *)
(* token has yet, so nothing that was revoked comes back.                  *)
(*                                                                         *)
(* The content.  What a Commit has pushed it can still find (Published):   *)
(* manifests leave only under a journal record; the signature tag is set   *)
(* once, so the Commits that merge the referrers index of a subject after  *)
(* tagging it have the same key, and a stale merge loses only the keys of  *)
(* Commits that lost the race for the tag.                                 *)
(*                                                                         *)
(* The scan.  A database directory only ever gets newer under a running    *)
(* scan, so identity <= scanned <= cache (ScanInOrder): when the second    *)
(* look finds the version of the first, the scan used it too.              *)
(*                                                                         *)
(* The bundle.  What is collected is exactly the first kinds under one     *)
(* version (BundleSoFar); a version of zero stands for "no signature yet"  *)
(* and no policy allows it.                                                *)
(***************************************************************************)
EXTENDS BuildRegistry, BuildEvidence, TLAPS

CallStage == {"issuing", "revoking", "dropping"}
CommitStage == CallStage \cup Pushing \cup
  {"absent", "start", "issue", "queued", "revoke", "drop", "committed", "failed", "lost"}
IssueStep == {"ensure", "create", "put", "token", "undo", "drop", "forget"}
OpStep == IssueStep \cup {"idle", "delete", "remove"}

BrokerTypes ==
  /\ commit \in [Publications -> CommitStage]
  /\ held \in [Publications -> Nat]
  /\ made \in Seq(Publications)
  /\ robots \subseteq 1 .. Len(made) /\ leases \subseteq 1 .. Len(made)
  /\ lapsed \subseteq 1 .. Len(made) /\ tokened \subseteq 1 .. Len(made)
  /\ op \in [by : Publications \cup {"none", "sweeper"}, step : OpStep, id : Nat]

\* The call that holds the mutex, and the Commit that waits for it.
OpOwned ==
  /\ op.by \in Publications => commit[op.by] \in CallStage
  /\ op.step \in IssueStep => op.by \in Publications /\ commit[op.by] = "issuing"
  /\ \A p \in Publications : commit[p] \in {"revoking", "dropping"} =>
       op.by = p /\ op.id = held[p] /\ op.step \in {"delete", "remove"}
  /\ op.step \in {"put", "token"} => op.id \in 1 .. Len(made)

LeaseKept ==
  /\ TokenIsLeased
  /\ op.step \in {"remove", "forget"} => op.id \notin robots
  /\ op.step = "token" => op.id \in leases
  /\ \A p \in Publications : held[p] \in tokened \cup {0}
  /\ \A p \in Publications : commit[p] = "committed" => held[p] \notin robots

BrokerInv == BrokerTypes /\ OpOwned /\ LeaseKept

Authorized(d) == <<"deletion_authorized", d>> \in journal
Present(p) == Subject[p] \in manifests \/ Authorized(Subject[p])

\* What a Commit that has reached a stage can rely on.
AtLast == {"revoke", "revoking", "committed"}
AtReferred == AtLast \cup {"static"}
AtTagged == AtReferred \cup {"index", "merge", "verify"}
AtEvidence == AtTagged \cup {"alias"}
AtManifest == AtEvidence \cup {"evidence"}
Published(p) ==
  /\ commit[p] = "blobs" /\ found[p] => Present(p)
  /\ commit[p] \in AtManifest \cup {"manifest"} => <<"blobs", Subject[p]>> \in pushed
  /\ commit[p] \in AtManifest => Present(p)
  /\ commit[p] \in AtEvidence => <<"evidence", Subject[p], Key[p]>> \in pushed
  /\ commit[p] \in AtTagged => alias[Subject[p]] = Key[p]
  /\ commit[p] = "merge" => Key[p] \in seen[p]
  /\ commit[p] \in AtReferred => Key[p] \in referrers[Subject[p]]
  /\ commit[p] \in AtLast /\ p \in Static => <<"static", Subject[p], Key[p]>> \in pushed

ContentTypes ==
  /\ alias = [d \in Subjects |-> alias[d]] /\ referrers = [d \in Subjects |-> referrers[d]]
  /\ seen = [p \in Publications |-> seen[p]] /\ found \in [Publications -> BOOLEAN]
  /\ retain = [d \in Subjects |-> retain[d]]

ContentInv ==
  /\ ContentTypes
  /\ \A d \in Subjects : retain[d] = "authorized" => Authorized(d)
  /\ \A p \in Publications : Published(p)

-----------------------------------------------------------------------------
\* A step that leaves the broker alone, of Commits that wait for no call.
LEMMA BrokerFrame ==
  ASSUME BrokerInv, UNCHANGED brokerVars,
         commit' \in [Publications -> CommitStage], held' \in [Publications -> Nat],
         \A p \in Publications :
           \/ commit'[p] = commit[p] /\ held'[p] = held[p]
           \/ /\ commit[p] \notin CallStage \cup {"committed"}
              /\ commit'[p] \notin CallStage \cup {"committed"}
              /\ held'[p] \in {held[p], 0}
  PROVE  BrokerInv'
<1>1. BrokerTypes'
  BY DEF BrokerInv, BrokerTypes, brokerVars
<1>2. OpOwned'
  BY DEF BrokerInv, OpOwned, brokerVars, CallStage
<1>3. LeaseKept'
  BY DEF BrokerInv, LeaseKept, TokenIsLeased, brokerVars
<1> QED
  BY <1>1, <1>2, <1>3 DEF BrokerInv

\* A Commit that goes from one stage to another, neither waiting for a call.
LEMMA CommitMoves ==
  ASSUME BrokerInv, NEW p \in Publications, NEW s \in CommitStage \ (CallStage \cup {"committed"}),
         commit[p] \notin CallStage \cup {"committed"}, Goto(p, s),
         UNCHANGED brokerVars, UNCHANGED held
  PROVE  BrokerInv'
<1>1. commit' \in [Publications -> CommitStage] /\ held' \in [Publications -> Nat]
  BY DEF BrokerInv, BrokerTypes, Goto
<1>2. \A q \in Publications : IF q = p THEN commit'[q] = s ELSE commit'[q] = commit[q]
  BY DEF BrokerInv, BrokerTypes, Goto
<1> QED
  BY <1>1, <1>2, BrokerFrame

\* The steps of a Commit and of retention that hold no mutex.
LEMMA CommitKeepsBroker ==
  ASSUME BrokerInv, NEW p \in Publications,
         \/ Prepare(p) \/ Admit(p) \/ PrepareFails(p) \/ PushFails(p)
         \/ ManifestExists(p) \/ EnsureBlobs(p) \/ PutManifest(p) \/ PutEvidence(p) \/ EnsureAlias(p)
         \/ ReadIndex(p) \/ WriteIndex(p) \/ VerifyReferrers(p) \/ PutStaticManifest(p)
  PROVE  BrokerInv'
<1>1. UNCHANGED brokerVars /\ UNCHANGED held
  BY DEF Prepare, Admit, PrepareFails, PushFails, ManifestExists, EnsureBlobs, PutManifest, PutEvidence,
         EnsureAlias, ReadIndex, WriteIndex, VerifyReferrers, PutStaticManifest
<1>2. commit[p] \in Pushing \cup {"start", "issue"}
  BY DEF Prepare, Admit, PrepareFails, PushFails, ManifestExists, EnsureBlobs, PutManifest, PutEvidence,
         EnsureAlias, ReadIndex, WriteIndex, VerifyReferrers, PutStaticManifest, Pushing
<1>3. \E s \in Pushing \cup {"issue", "queued", "failed", "drop", "revoke"} : Goto(p, s)
  BY DEF Prepare, Admit, PrepareFails, PushFails, ManifestExists, EnsureBlobs, PutManifest, PutEvidence,
         EnsureAlias, ReadIndex, WriteIndex, VerifyReferrers, PutStaticManifest, Pushing
<1> QED
  BY <1>1, <1>2, <1>3, CommitMoves DEF CallStage, CommitStage, Pushing

LEMMA LossKeepsBroker ==
  ASSUME BrokerInv, NEW p \in Publications, PublisherLost(p)
  PROVE  BrokerInv'
<1>1. commit' \in [Publications -> CommitStage] /\ held' \in [Publications -> Nat]
  BY DEF BrokerInv, BrokerTypes, PublisherLost, Goto, CommitStage
<1>2. \A q \in Publications : IF q = p THEN commit'[q] = "lost" /\ held'[q] = 0
                              ELSE commit'[q] = commit[q] /\ held'[q] = held[q]
  BY DEF BrokerInv, BrokerTypes, PublisherLost, Goto
<1>3. commit[p] \notin CallStage \cup {"committed"} /\ UNCHANGED brokerVars
  BY DEF PublisherLost, Pushing, CallStage
<1> QED
  BY <1>1, <1>2, <1>3, BrokerFrame DEF CallStage

-----------------------------------------------------------------------------
\* A call that ends: the mutex is free, and no Commit waits for it any more.
LEMMA Released ==
  ASSUME BrokerInv, op' = Idle, UNCHANGED <<held, tokened>>,
         made' \in Seq(Publications), Len(made') \in Nat, Len(made) <= Len(made'),
         robots' \subseteq 1 .. Len(made'), \A i \in robots' : i \in robots \/ i > Len(made),
         leases' \subseteq 1 .. Len(made'), lapsed' \subseteq 1 .. Len(made'),
         tokened \cap robots' \subseteq leases',
         commit' \in [Publications -> CommitStage],
         \A p \in Publications :
           \/ commit'[p] \notin CallStage \cup {"committed"}
           \/ commit'[p] = commit[p] /\ commit[p] \notin {"revoking", "dropping"}
  PROVE  BrokerInv'
<1>1. Len(made) \in Nat
  BY DEF BrokerInv, BrokerTypes
<1>2. BrokerTypes'
  BY <1>1 DEF BrokerInv, BrokerTypes, Idle, None, OpStep
<1>3. OpOwned'
  BY RegistryAssumption DEF OpOwned, Idle, None, IssueStep, CallStage
<1>4. LeaseKept'
  <2>1. TokenIsLeased'
    BY DEF TokenIsLeased
  <2>2. \A p \in Publications : commit'[p] = "committed" => held[p] \notin robots'
    BY <1>1 DEF BrokerInv, BrokerTypes, LeaseKept
  <2> QED
    BY <2>1, <2>2 DEF BrokerInv, LeaseKept, Idle
<1> QED
  BY <1>2, <1>3, <1>4 DEF BrokerInv

LEMMA ReleasedSame ==
  ASSUME BrokerInv, op' = Idle, UNCHANGED <<held, tokened, made>>,
         robots' \subseteq robots, leases' \subseteq leases, lapsed' \subseteq lapsed,
         tokened \cap robots' \subseteq leases',
         commit' \in [Publications -> CommitStage],
         \A p \in Publications :
           \/ commit'[p] \notin CallStage \cup {"committed"}
           \/ commit'[p] = commit[p] /\ commit[p] \notin {"revoking", "dropping"}
  PROVE  BrokerInv'
<1>1. made' \in Seq(Publications) /\ Len(made') \in Nat /\ Len(made) <= Len(made')
  BY DEF BrokerInv, BrokerTypes
<1>2. robots' \subseteq 1 .. Len(made') /\ leases' \subseteq 1 .. Len(made') /\ lapsed' \subseteq 1 .. Len(made')
  BY DEF BrokerInv, BrokerTypes
<1>3. \A i \in robots' : i \in robots \/ i > Len(made)
  OBVIOUS
<1> QED
  BY <1>1, <1>2, <1>3, Released

LEMMA ReturnEnds ==
  ASSUME BrokerInv, op.by \in Publications,
         NEW s \in CommitStage \ (CallStage \cup {"committed"}), Return(s)
  PROVE  /\ op' = Idle /\ commit' \in [Publications -> CommitStage]
         /\ \A p \in Publications :
              \/ commit'[p] \notin CallStage \cup {"committed"}
              \/ commit'[p] = commit[p] /\ commit[p] \notin {"revoking", "dropping"}
<1>1. op' = Idle /\ Goto(op.by, s)
  BY DEF Return
<1>2. commit' \in [Publications -> CommitStage] /\ commit'[op.by] = s
  BY <1>1 DEF Goto, BrokerInv, BrokerTypes
<1>3. \A p \in Publications : p # op.by => commit'[p] = commit[p] /\ commit[p] \notin {"revoking", "dropping"}
  BY <1>1 DEF Goto, BrokerInv, BrokerTypes, OpOwned
<1> QED
  BY <1>1, <1>2, <1>3

LEMMA ExitEnds ==
  ASSUME BrokerInv, Exit
  PROVE  /\ op' = Idle /\ commit' \in [Publications -> CommitStage]
         /\ \A p \in Publications :
              \/ commit'[p] \notin CallStage \cup {"committed"}
              \/ commit'[p] = commit[p] /\ commit[p] \notin {"revoking", "dropping"}
<1>1. op' = Idle
  BY DEF Exit
<1>2. commit' \in [Publications -> CommitStage]
  BY DEF Exit, BrokerInv, BrokerTypes, CommitStage
<1>3. ASSUME NEW p \in Publications
      PROVE  \/ commit'[p] \notin CallStage \cup {"committed"}
             \/ commit'[p] = commit[p] /\ commit[p] \notin {"revoking", "dropping"}
  BY DEF Exit, CallStage
<1> QED
  BY <1>1, <1>2, <1>3

-----------------------------------------------------------------------------
LEMMA LockKeepsBroker ==
  ASSUME BrokerInv, NEW p \in Publications, Lock(p)
  PROVE  BrokerInv'
<1>1. /\ commit[p] = "queued" /\ op = Idle /\ commit' = [commit EXCEPT ![p] = "issuing"]
      /\ UNCHANGED <<held, made, robots, leases, lapsed, tokened>>
  BY DEF Lock, Goto
<1>2. /\ op' \in [by : Publications \cup {"none", "sweeper"}, step : OpStep, id : Nat]
      /\ op'.by = p /\ op'.step \in {"delete", "ensure"}
  <2>1. CASE LeaseOf(Key[p]) # {}
    <3>1. PICK i \in LeaseOf(Key[p]) : op' = [by |-> p, step |-> "delete", id |-> i]
      BY <2>1 DEF Lock
    <3>2. i \in Nat
      BY DEF LeaseOf, BrokerInv, BrokerTypes
    <3> QED
      BY <3>1, <3>2 DEF OpStep
  <2>2. CASE LeaseOf(Key[p]) = {}
    BY <2>2 DEF Lock, OpStep, IssueStep
  <2> QED
    BY <2>1, <2>2
<1>3. commit' \in [Publications -> CommitStage] /\ commit'[p] = "issuing"
  BY <1>1 DEF BrokerInv, BrokerTypes, CommitStage, CallStage
<1>4. \A q \in Publications : q # p => commit'[q] = commit[q]
  BY <1>1 DEF BrokerInv, BrokerTypes
<1>5. \A q \in Publications : commit[q] \notin {"revoking", "dropping"}
  BY <1>1, RegistryAssumption DEF BrokerInv, OpOwned, Idle, None
<1>6. BrokerTypes'
  BY <1>1, <1>2, <1>3 DEF BrokerInv, BrokerTypes
<1>7. OpOwned'
  BY <1>1, <1>2, <1>3, <1>4, <1>5 DEF OpOwned, CallStage, IssueStep
<1>8. LeaseKept'
  BY <1>1, <1>2, <1>3, <1>4 DEF BrokerInv, LeaseKept, TokenIsLeased
<1> QED
  BY <1>6, <1>7, <1>8 DEF BrokerInv

\* A lease that is already gone: TokenIsLeased says its robot is gone too.
LEMMA RevokeKeepsBroker ==
  ASSUME BrokerInv, NEW p \in Publications, Revoke(p)
  PROVE  BrokerInv'
<1>1. /\ commit[p] \in {"revoke", "drop"} /\ op = Idle
      /\ UNCHANGED <<held, made, robots, leases, lapsed, tokened>>
  BY DEF Revoke
<1>2. \A q \in Publications : commit[q] \notin {"revoking", "dropping"}
  BY <1>1, RegistryAssumption DEF BrokerInv, OpOwned, Idle, None
<1>3. CASE held[p] \in leases
  <2>1. /\ op' = [by |-> p, step |-> "delete", id |-> held[p]]
        /\ \E s \in {"revoking", "dropping"} : commit' = [commit EXCEPT ![p] = s]
    BY <1>3 DEF Revoke, Goto
  <2>2. commit' \in [Publications -> CommitStage] /\ commit'[p] \in {"revoking", "dropping"}
    BY <2>1 DEF BrokerInv, BrokerTypes, CommitStage, CallStage
  <2>3. \A q \in Publications : q # p => commit'[q] = commit[q]
    BY <2>1 DEF BrokerInv, BrokerTypes
  <2>4. BrokerTypes'
    BY <1>1, <2>1, <2>2 DEF BrokerInv, BrokerTypes, OpStep
  <2>5. OpOwned'
    BY <1>1, <1>2, <2>1, <2>2, <2>3 DEF OpOwned, CallStage, IssueStep
  <2>6. LeaseKept'
    BY <1>1, <2>1, <2>2, <2>3 DEF BrokerInv, LeaseKept, TokenIsLeased
  <2> QED
    BY <2>4, <2>5, <2>6 DEF BrokerInv
<1>4. CASE held[p] \notin leases
  <2>1. /\ op' = op
        /\ \E s \in {"committed", "failed"} : commit' = [commit EXCEPT ![p] = s]
    BY <1>4 DEF Revoke, Goto
  <2>2. commit' \in [Publications -> CommitStage] /\ commit'[p] \in {"committed", "failed"}
    BY <2>1 DEF BrokerInv, BrokerTypes, CommitStage
  <2>3. \A q \in Publications : q # p => commit'[q] = commit[q]
    BY <2>1 DEF BrokerInv, BrokerTypes
  <2>4. held[p] \notin robots
    <3>1. held[p] \in tokened \cup {0} /\ 0 \notin robots
      BY DEF BrokerInv, BrokerTypes, LeaseKept
    <3> QED
      BY <1>4, <3>1 DEF BrokerInv, LeaseKept, TokenIsLeased
  <2>5. BrokerTypes'
    BY <1>1, <2>1, <2>2 DEF BrokerInv, BrokerTypes
  <2>6. OpOwned'
    BY <1>1, <1>2, <2>1, <2>2, <2>3, RegistryAssumption DEF OpOwned, Idle, None, IssueStep
  <2>7. LeaseKept'
    BY <1>1, <2>1, <2>2, <2>3, <2>4 DEF BrokerInv, LeaseKept, TokenIsLeased
  <2> QED
    BY <2>5, <2>6, <2>7 DEF BrokerInv
<1> QED
  BY <1>3, <1>4

-----------------------------------------------------------------------------
\* A call that goes on to its next step: Commits are left as they are.
LEMMA CallGoesOn ==
  ASSUME BrokerInv, UNCHANGED <<commit, held, made, lapsed, tokened>>,
         op.by \in Publications => op'.by = op.by,
         op' \in [by : Publications \cup {"none", "sweeper"}, step : OpStep, id : Nat],
         op'.by \in Publications => op'.by = op.by,
         op'.step \in IssueStep => op'.by \in Publications /\ commit[op'.by] = "issuing",
         op.by \in Publications /\ commit[op.by] \in {"revoking", "dropping"} =>
           op'.id = op.id /\ op'.step \in {"delete", "remove"},
         op'.step \in {"put", "token"} => op'.id \in 1 .. Len(made),
         op'.step \in {"remove", "forget"} => op'.id \notin robots',
         op'.step = "token" => op'.id \in leases',
         robots' \subseteq robots, leases' \subseteq 1 .. Len(made), tokened \cap robots' \subseteq leases'
  PROVE  BrokerInv'
<1>1. BrokerTypes'
  BY DEF BrokerInv, BrokerTypes
<1>2. OpOwned'
  BY DEF BrokerInv, OpOwned
<1>3. LeaseKept'
  BY DEF BrokerInv, LeaseKept, TokenIsLeased
<1> QED
  BY <1>1, <1>2, <1>3 DEF BrokerInv

LEMMA OpRecord ==
  ASSUME BrokerInv, NEW s \in OpStep
  PROVE  /\ [op EXCEPT !.step = s] \in [by : Publications \cup {"none", "sweeper"}, step : OpStep, id : Nat]
         /\ [op EXCEPT !.step = s].by = op.by /\ [op EXCEPT !.step = s].step = s /\ [op EXCEPT !.step = s].id = op.id
BY DEF BrokerInv, BrokerTypes

\* DeleteRobot: from here on the lease is all that is left of the robot.
LEMMA DeleteRobotKeepsBroker ==
  ASSUME BrokerInv, DeleteRobot
  PROVE  BrokerInv'
<1>1. /\ op.step \in {"delete", "drop", "undo"} /\ robots' = robots \ {op.id}
      /\ UNCHANGED <<held, made, leases, lapsed, tokened>>
  BY DEF DeleteRobot
<1>2. tokened \cap robots' \subseteq leases'
  BY <1>1 DEF BrokerInv, LeaseKept, TokenIsLeased
<1>3. CASE op.step = "undo"
  <2>1. Return("failed") /\ op.by \in Publications
    BY <1>3 DEF DeleteRobot, BrokerInv, OpOwned, IssueStep
  <2>2. "failed" \in CommitStage \ (CallStage \cup {"committed"})
    BY DEF CommitStage, CallStage
  <2>3. robots' \subseteq robots /\ leases' \subseteq leases /\ lapsed' \subseteq lapsed
    BY <1>1
  <2> QED
    BY <1>1, <1>2, <2>1, <2>2, <2>3, ReturnEnds, ReleasedSame
<1>4. CASE op.step # "undo"
  <2> DEFINE next == IF op.step = "delete" THEN "remove" ELSE "forget"
  <2>1. op' = [op EXCEPT !.step = next] /\ UNCHANGED commit
    BY <1>4 DEF DeleteRobot, BrokerInv, BrokerTypes
  <2>2. next \in OpStep
    BY DEF OpStep, IssueStep
  <2> HIDE DEF next
  <2>3. /\ op' \in [by : Publications \cup {"none", "sweeper"}, step : OpStep, id : Nat]
        /\ op'.by = op.by /\ op'.step = next /\ op'.id = op.id
    BY <2>1, <2>2, OpRecord
  <2>4. next \in IssueStep => op.by \in Publications /\ commit[op.by] = "issuing"
    BY <1>1 DEF next, IssueStep, BrokerInv, OpOwned
  <2>5. op.by \in Publications /\ commit[op.by] \in {"revoking", "dropping"} => next = "remove"
    BY <1>1, <1>4 DEF next, BrokerInv, OpOwned
  <2>6. next \in {"remove", "forget"}
    BY DEF next
  <2>7. leases' \subseteq 1 .. Len(made) /\ robots' \subseteq robots /\ op.id \notin robots'
    BY <1>1 DEF BrokerInv, BrokerTypes
  <2> QED
    BY <1>1, <1>2, <2>1, <2>3, <2>4, <2>5, <2>6, <2>7, CallGoesOn
<1> QED
  BY <1>3, <1>4

\* RemoveLease: the robot is gone, so no token is left without a lease.
LEMMA RemoveLeaseKeepsBroker ==
  ASSUME BrokerInv, RemoveLease
  PROVE  BrokerInv'
<1>1. /\ op.step \in {"remove", "forget"} /\ op.id \notin robots
      /\ leases' = leases \ {op.id} /\ lapsed' = lapsed \ {op.id}
      /\ UNCHANGED <<held, made, robots, tokened>>
  BY DEF RemoveLease, BrokerInv, LeaseKept
<1>2. /\ tokened \cap robots' \subseteq leases'
      /\ robots' \subseteq robots /\ leases' \subseteq leases /\ lapsed' \subseteq lapsed
  BY <1>1 DEF BrokerInv, LeaseKept, TokenIsLeased
<1>3. "failed" \in CommitStage \ (CallStage \cup {"committed"})
  BY DEF CommitStage, CallStage
<1>4. CASE /\ op.by \in Publications
           /\ op.step = "forget" \/ commit[op.by] = "dropping"
  <2>1. Return("failed")
    BY <1>1, <1>4 DEF RemoveLease
  <2> QED
    BY <1>1, <1>2, <1>3, <1>4, <2>1, ReturnEnds, ReleasedSame
<1>5. CASE op.step = "remove" /\ op.by \in Publications /\ commit[op.by] = "issuing"
  <2>1. op' = [op EXCEPT !.step = "ensure", !.id = 0] /\ UNCHANGED commit
    BY <1>5 DEF RemoveLease
  <2>2. /\ op' \in [by : Publications \cup {"none", "sweeper"}, step : OpStep, id : Nat]
        /\ op'.by = op.by /\ op'.step = "ensure"
    BY <2>1 DEF BrokerInv, BrokerTypes, OpStep, IssueStep
  <2>3. BrokerTypes'
    BY <1>1, <1>2, <2>1, <2>2 DEF BrokerInv, BrokerTypes
  <2>4. OpOwned'
    BY <1>1, <1>5, <2>1, <2>2 DEF BrokerInv, OpOwned
  <2>5. LeaseKept'
    BY <1>1, <1>2, <2>1, <2>2 DEF BrokerInv, LeaseKept, TokenIsLeased
  <2> QED
    BY <2>3, <2>4, <2>5 DEF BrokerInv
<1>6. CASE op.step = "remove" /\ op.by \in Publications /\ commit[op.by] = "revoking"
  <2>1. op' = Idle /\ commit' = [commit EXCEPT ![op.by] = "committed"]
    BY <1>6 DEF RemoveLease, Return, Goto
  <2>2. held[op.by] \notin robots
    BY <1>1, <1>6 DEF BrokerInv, OpOwned
  <2>3. commit' \in [Publications -> CommitStage] /\ commit'[op.by] = "committed"
    BY <1>6, <2>1 DEF BrokerInv, BrokerTypes, CommitStage
  <2>4. \A p \in Publications : p # op.by => commit'[p] = commit[p] /\ commit[p] \notin {"revoking", "dropping"}
    BY <2>1 DEF BrokerInv, BrokerTypes, OpOwned
  <2>5. BrokerTypes'
    BY <1>1, <1>2, <2>1, <2>3 DEF BrokerInv, BrokerTypes, Idle, None, OpStep
  <2>6. OpOwned'
    BY <2>1, <2>3, <2>4, RegistryAssumption DEF OpOwned, Idle, None, IssueStep
  <2>7. LeaseKept'
    BY <1>1, <1>2, <2>1, <2>2, <2>3, <2>4 DEF BrokerInv, LeaseKept, TokenIsLeased, Idle
  <2> QED
    BY <2>5, <2>6, <2>7 DEF BrokerInv
<1>7. CASE op.by \notin Publications
  <2>1. op.step = "remove"
    BY <1>1, <1>7 DEF BrokerInv, OpOwned, IssueStep
  <2>2. op' = Idle /\ UNCHANGED commit
    BY <1>7, <2>1 DEF RemoveLease, Return
  <2>3. \A p \in Publications : commit[p] \notin {"revoking", "dropping"}
    BY <1>7 DEF BrokerInv, OpOwned
  <2> QED
    BY <1>1, <1>2, <2>2, <2>3, ReleasedSame DEF BrokerInv, BrokerTypes
<1> QED
  BY <1>1, <1>4, <1>5, <1>6, <1>7 DEF BrokerInv, OpOwned, CallStage

-----------------------------------------------------------------------------
LEMMA EnsureProjectKeepsBroker ==
  ASSUME BrokerInv, EnsureProject
  PROVE  BrokerInv'
<1>1. /\ op.step = "ensure" /\ op' = [op EXCEPT !.step = "create"]
      /\ UNCHANGED <<commit, held, made, robots, leases, lapsed, tokened>>
  BY DEF EnsureProject
<1>2. op.by \in Publications /\ commit[op.by] = "issuing" /\ "create" \in OpStep
  BY <1>1 DEF BrokerInv, OpOwned, IssueStep, OpStep
<1>3. /\ op' \in [by : Publications \cup {"none", "sweeper"}, step : OpStep, id : Nat]
      /\ op'.by = op.by /\ op'.step = "create"
  BY <1>1, <1>2, OpRecord
<1>4. leases' \subseteq 1 .. Len(made) /\ tokened \cap robots' \subseteq leases'
  BY <1>1 DEF BrokerInv, BrokerTypes, LeaseKept, TokenIsLeased
<1> QED
  BY <1>1, <1>2, <1>3, <1>4, CallGoesOn

LEMMA PutLeaseKeepsBroker ==
  ASSUME BrokerInv, PutLease
  PROVE  BrokerInv'
<1>1. /\ op.step = "put" /\ UNCHANGED <<commit, held, made, robots, lapsed, tokened>>
      /\ op.by \in Publications /\ commit[op.by] = "issuing" /\ op.id \in 1 .. Len(made)
  BY DEF PutLease, BrokerInv, OpOwned, IssueStep
<1>2. PICK s \in {"token", "undo"} :
        /\ op' = [op EXCEPT !.step = s]
        /\ s = "token" => op.id \in leases'
        /\ leases' \in {leases, leases \cup {op.id}}
  BY DEF PutLease
<1>3. /\ op' \in [by : Publications \cup {"none", "sweeper"}, step : OpStep, id : Nat]
      /\ op'.by = op.by /\ op'.step = s /\ op'.id = op.id
  BY <1>2, OpRecord DEF OpStep, IssueStep
<1>4. leases' \subseteq 1 .. Len(made) /\ tokened \cap robots' \subseteq leases'
  BY <1>1, <1>2 DEF BrokerInv, BrokerTypes, LeaseKept, TokenIsLeased
<1> QED
  BY <1>1, <1>2, <1>3, <1>4, CallGoesOn

LEMMA IssueTokenKeepsBroker ==
  ASSUME BrokerInv, IssueToken
  PROVE  BrokerInv'
<1>1. /\ op.step = "token" /\ op.by \in Publications /\ commit[op.by] = "issuing"
      /\ op.id \in 1 .. Len(made) /\ op.id \in leases
  BY DEF IssueToken, BrokerInv, OpOwned, LeaseKept, IssueStep
<1>2. /\ UNCHANGED <<made, robots, leases, lapsed>> /\ tokened' = tokened \cup {op.id}
      /\ held' = [held EXCEPT ![op.by] = op.id] /\ op' = Idle
      /\ commit' = [commit EXCEPT ![op.by] = "probe"]
  BY <1>1 DEF IssueToken, Return, Goto
<1>3. /\ commit' \in [Publications -> CommitStage] /\ held' \in [Publications -> Nat]
      /\ commit'[op.by] = "probe" /\ held'[op.by] = op.id
  BY <1>1, <1>2 DEF BrokerInv, BrokerTypes, CommitStage, Pushing
<1>4. \A p \in Publications : p # op.by => commit'[p] = commit[p] /\ held'[p] = held[p] /\ commit[p] \notin {"revoking", "dropping"}
  BY <1>2 DEF BrokerInv, BrokerTypes, OpOwned
<1>5. tokened' \subseteq 1 .. Len(made)
  BY <1>1, <1>2 DEF BrokerInv, BrokerTypes
<1>6. BrokerTypes'
  BY <1>2, <1>3, <1>5 DEF BrokerInv, BrokerTypes, Idle, None, OpStep
<1>7. OpOwned'
  BY <1>2, <1>3, <1>4, RegistryAssumption DEF OpOwned, Idle, None, IssueStep
<1>8. LeaseKept'
  BY <1>1, <1>2, <1>3, <1>4 DEF BrokerInv, LeaseKept, TokenIsLeased, Idle
<1> QED
  BY <1>6, <1>7, <1>8 DEF BrokerInv

\* A new robot has a number that no token has.
LEMMA NewRobot ==
  ASSUME BrokerInv, op.by \in Publications, made' = Append(made, op.by),
         robots' \in {robots, robots \cup {Len(made')}}, UNCHANGED <<leases, lapsed, tokened>>
  PROVE  /\ made' \in Seq(Publications) /\ Len(made') = Len(made) + 1 /\ Len(made) \in Nat
         /\ robots' \subseteq 1 .. Len(made') /\ leases' \subseteq 1 .. Len(made')
         /\ lapsed' \subseteq 1 .. Len(made') /\ tokened' \subseteq 1 .. Len(made')
         /\ \A i \in robots' : i \in robots \/ i > Len(made)
         /\ tokened \cap robots' \subseteq leases'
<1>1. made \in Seq(Publications) /\ Len(made) \in Nat
  BY DEF BrokerInv, BrokerTypes
<1>2. made' \in Seq(Publications) /\ Len(made') = Len(made) + 1
  BY <1>1
<1>3. /\ robots \subseteq 1 .. Len(made) /\ leases \subseteq 1 .. Len(made)
      /\ lapsed \subseteq 1 .. Len(made) /\ tokened \subseteq 1 .. Len(made)
      /\ tokened \cap robots \subseteq leases
  BY DEF BrokerInv, BrokerTypes, LeaseKept, TokenIsLeased
<1> QED
  BY <1>1, <1>2, <1>3

LEMMA CreateKeepsBroker ==
  ASSUME BrokerInv, CreatePushRobot
  PROVE  BrokerInv'
<1>1. op.step = "create" /\ op.by \in Publications /\ commit[op.by] = "issuing"
  BY DEF CreatePushRobot, BrokerInv, OpOwned, IssueStep
<1>2. UNCHANGED <<held, leases, lapsed, tokened>>
  BY DEF CreatePushRobot
<1>3. CASE \E i \in robots : Build[made[i]] = Build[op.by]
  <2>1. Return("failed") /\ UNCHANGED <<made, robots>>
    BY <1>3 DEF CreatePushRobot
  <2>2. "failed" \in CommitStage \ (CallStage \cup {"committed"})
    BY DEF CommitStage, CallStage
  <2>3. tokened \cap robots' \subseteq leases' /\ robots' \subseteq robots /\ leases' \subseteq leases /\ lapsed' \subseteq lapsed
    BY <1>2, <2>1 DEF BrokerInv, LeaseKept, TokenIsLeased
  <2> QED
    BY <1>1, <1>2, <2>1, <2>2, <2>3, ReturnEnds, ReleasedSame
<1>4. CASE ~ \E i \in robots : Build[made[i]] = Build[op.by]
  <2>1. /\ made' = Append(made, op.by) /\ robots' = robots \cup {Len(made')} /\ UNCHANGED commit
        /\ op' = [op EXCEPT !.step = "put", !.id = Len(made')]
    BY <1>4 DEF CreatePushRobot
  <2>2. /\ made' \in Seq(Publications) /\ Len(made') = Len(made) + 1 /\ Len(made) \in Nat
        /\ robots' \subseteq 1 .. Len(made') /\ leases' \subseteq 1 .. Len(made')
        /\ lapsed' \subseteq 1 .. Len(made') /\ tokened' \subseteq 1 .. Len(made')
        /\ \A i \in robots' : i \in robots \/ i > Len(made)
        /\ tokened \cap robots' \subseteq leases'
    BY <1>1, <1>2, <2>1, NewRobot
  <2>3. /\ op' \in [by : Publications \cup {"none", "sweeper"}, step : OpStep, id : Nat]
        /\ op'.by = op.by /\ op'.step = "put" /\ op'.id = Len(made')
    <3>1. Len(made') \in Nat
      BY <2>2
    <3>2. op \in [by : Publications \cup {"none", "sweeper"}, step : OpStep, id : Nat] /\ "put" \in OpStep
      BY DEF BrokerInv, BrokerTypes, OpStep, IssueStep
    <3> QED
      BY <2>1, <3>1, <3>2
  <2>4. BrokerTypes'
    BY <1>2, <2>1, <2>2, <2>3 DEF BrokerInv, BrokerTypes
  <2>5. OpOwned'
    BY <1>1, <1>2, <2>1, <2>2, <2>3 DEF BrokerInv, OpOwned
  <2>6. LeaseKept'
    <3>1. \A p \in Publications : commit[p] = "committed" => held[p] \notin robots'
      BY <2>2 DEF BrokerInv, BrokerTypes, LeaseKept
    <3> QED
      BY <1>2, <2>1, <2>2, <2>3, <3>1 DEF BrokerInv, LeaseKept, TokenIsLeased
  <2> QED
    BY <2>4, <2>5, <2>6 DEF BrokerInv
<1> QED
  BY <1>3, <1>4

-----------------------------------------------------------------------------
LEMMA FailureKeepsBroker ==
  ASSUME BrokerInv, BrokerCallFails
  PROVE  BrokerInv'
<1>1. UNCHANGED <<held, leases, lapsed, tokened>>
  BY DEF BrokerCallFails
<1>2. "failed" \in CommitStage \ (CallStage \cup {"committed"})
  BY DEF CommitStage, CallStage
<1>3. \A rs : rs \subseteq robots => tokened \cap rs \subseteq leases
  BY DEF BrokerInv, LeaseKept, TokenIsLeased
<1>4. CASE /\ op.step \in {"delete", "remove", "drop", "forget", "undo"}
           /\ robots' \in {robots, IF op.step \in {"delete", "drop", "undo"} THEN robots \ {op.id} ELSE robots}
           /\ GiveUp
           /\ UNCHANGED <<made, project>>
  <2>1. robots' \subseteq robots /\ leases' \subseteq leases /\ lapsed' \subseteq lapsed
    BY <1>1, <1>4
  <2>2. CASE op.by = "sweeper"
    BY <1>1, <1>3, <1>4, <2>1, <2>2, ExitEnds, ReleasedSame DEF GiveUp
  <2>3. CASE op.by \in Publications
    <3>1. Return("failed")
      BY <1>4, <2>3, RegistryAssumption DEF GiveUp
    <3> QED
      BY <1>1, <1>2, <1>3, <1>4, <2>1, <2>3, <3>1, ReturnEnds, ReleasedSame
  <2>4. CASE op.by = "none"
    <3>1. op' = Idle /\ UNCHANGED commit
      BY <1>4, <2>4, RegistryAssumption DEF GiveUp, Return
    <3>2. \A p \in Publications : commit[p] \notin {"revoking", "dropping"}
      BY <2>4, RegistryAssumption DEF BrokerInv, OpOwned
    <3>3. commit' \in [Publications -> CommitStage]
      BY <3>1 DEF BrokerInv, BrokerTypes
    <3> QED
      BY <1>1, <1>3, <1>4, <2>1, <3>1, <3>2, <3>3, ReleasedSame
  <2> QED
    BY <2>2, <2>3, <2>4 DEF BrokerInv, BrokerTypes
<1>5. CASE op.step = "ensure" /\ Return("failed") /\ UNCHANGED <<made, robots>>
  <2>1. op.by \in Publications
    BY <1>5 DEF BrokerInv, OpOwned, IssueStep
  <2>2. robots' \subseteq robots /\ leases' \subseteq leases /\ lapsed' \subseteq lapsed
    BY <1>1, <1>5
  <2> QED
    BY <1>1, <1>2, <1>3, <1>5, <2>1, <2>2, ReturnEnds, ReleasedSame
<1>6. CASE /\ op.step = "create" /\ made' = Append(made, op.by)
           /\ robots' \in {robots, robots \cup {Len(made')}} /\ Return("failed")
  <2>1. op.by \in Publications
    BY <1>6 DEF BrokerInv, OpOwned, IssueStep
  <2>2. /\ made' \in Seq(Publications) /\ Len(made') = Len(made) + 1 /\ Len(made) \in Nat
        /\ robots' \subseteq 1 .. Len(made') /\ leases' \subseteq 1 .. Len(made')
        /\ lapsed' \subseteq 1 .. Len(made')
        /\ \A i \in robots' : i \in robots \/ i > Len(made)
        /\ tokened \cap robots' \subseteq leases'
    BY <1>1, <1>6, <2>1, NewRobot
  <2>3. Len(made') \in Nat /\ Len(made) <= Len(made')
    BY <2>2
  <2> QED
    BY <1>1, <1>2, <1>6, <2>1, <2>2, <2>3, ReturnEnds, Released
<1>7. CASE /\ op.step \in {"put", "token"}
           /\ op' = [op EXCEPT !.step = IF op.step = "put" THEN "undo" ELSE "drop"]
           /\ UNCHANGED <<commit, made, robots, project>>
  <2>1. op.by \in Publications /\ commit[op.by] = "issuing"
    BY <1>7 DEF BrokerInv, OpOwned, IssueStep
  <2>2. PICK s \in {"undo", "drop"} : op' = [op EXCEPT !.step = s]
    BY <1>7
  <2>3. /\ op' \in [by : Publications \cup {"none", "sweeper"}, step : OpStep, id : Nat]
        /\ op'.by = op.by /\ op'.step = s /\ op'.id = op.id
    BY <2>2, OpRecord DEF OpStep, IssueStep
  <2>4. leases' \subseteq 1 .. Len(made) /\ robots' \subseteq robots /\ tokened \cap robots' \subseteq leases'
    BY <1>1, <1>3, <1>7 DEF BrokerInv, BrokerTypes
  <2> QED
    BY <1>1, <1>7, <2>1, <2>3, <2>4, CallGoesOn
<1>8. op \in [by : Publications \cup {"none", "sweeper"}, step : OpStep, id : Nat]
  BY DEF BrokerInv, BrokerTypes
<1>9. ASSUME op.step \in {"put", "token"}, op' = [op EXCEPT !.step = IF @ = "put" THEN "undo" ELSE "drop"]
      PROVE  op' = [op EXCEPT !.step = IF op.step = "put" THEN "undo" ELSE "drop"]
  BY <1>8, <1>9
<1> QED
  BY <1>4, <1>5, <1>6, <1>7, <1>9 DEF BrokerCallFails

LEMMA SweepKeepsBroker ==
  ASSUME BrokerInv, SweepExpired
  PROVE  BrokerInv'
<1>1. op = Idle /\ UNCHANGED <<commit, held, made, robots, leases, lapsed, tokened>>
  BY DEF SweepExpired
<1>2. PICK i \in lapsed : op' = [by |-> "sweeper", step |-> "delete", id |-> i]
  BY DEF SweepExpired
<1>3. i \in Nat
  BY DEF BrokerInv, BrokerTypes
<1>4. \A p \in Publications : commit[p] \notin {"revoking", "dropping"}
  BY <1>1, RegistryAssumption DEF BrokerInv, OpOwned, Idle, None
<1>5. BrokerTypes'
  BY <1>1, <1>2, <1>3 DEF BrokerInv, BrokerTypes, OpStep
<1>6. OpOwned'
  BY <1>1, <1>2, <1>4, RegistryAssumption DEF OpOwned, IssueStep
<1>7. LeaseKept'
  BY <1>1, <1>2 DEF BrokerInv, LeaseKept, TokenIsLeased
<1> QED
  BY <1>5, <1>6, <1>7 DEF BrokerInv

LEMMA CrashKeepsBroker ==
  ASSUME BrokerInv, BrokerCrash
  PROVE  BrokerInv'
<1>1. Exit /\ UNCHANGED <<held, made, robots, leases, lapsed, tokened>>
  BY DEF BrokerCrash
<1>2. robots' \subseteq robots /\ leases' \subseteq leases /\ lapsed' \subseteq lapsed /\ tokened \cap robots' \subseteq leases'
  BY <1>1 DEF BrokerInv, LeaseKept, TokenIsLeased
<1> QED
  BY <1>1, <1>2, ExitEnds, ReleasedSame

LEMMA LapseKeepsBroker ==
  ASSUME BrokerInv, NEW i \in 1 .. Len(made), LeaseLapses(i)
  PROVE  BrokerInv'
<1>1. lapsed' = lapsed \cup {i} /\ UNCHANGED <<commit, held, made, robots, leases, tokened, op>>
  BY DEF LeaseLapses
<1>2. BrokerTypes'
  BY <1>1 DEF BrokerInv, BrokerTypes
<1>3. OpOwned' /\ LeaseKept'
  BY <1>1 DEF BrokerInv, OpOwned, LeaseKept, TokenIsLeased
<1> QED
  BY <1>2, <1>3 DEF BrokerInv

LEMMA RetentionKeepsBroker ==
  ASSUME BrokerInv, UNCHANGED <<commit, held, brokerVars>>
  PROVE  BrokerInv'
BY DEF BrokerInv, BrokerTypes, OpOwned, LeaseKept, TokenIsLeased, brokerVars

LEMMA BrokerInitially == RegistryInit => BrokerInv
<1> SUFFICES ASSUME RegistryInit PROVE BrokerInv
  OBVIOUS
<1>1. commit \in [Publications -> CommitStage] /\ \A p \in Publications : commit[p] \in {"start", "absent"}
  BY DEF RegistryInit, CommitStage
<1>2. made = <<>> /\ held = [p \in Publications |-> 0] /\ robots = {} /\ leases = {} /\ lapsed = {} /\ tokened = {} /\ op = Idle
  BY DEF RegistryInit
<1>3. BrokerTypes
  BY <1>1, <1>2 DEF BrokerTypes, Idle, None, OpStep
<1>4. OpOwned
  BY <1>1, <1>2, RegistryAssumption DEF OpOwned, Idle, None, IssueStep
<1>5. LeaseKept
  BY <1>1, <1>2 DEF LeaseKept, TokenIsLeased, Idle
<1> QED
  BY <1>3, <1>4, <1>5 DEF BrokerInv

LEMMA BrokerStepKeeps == BrokerInv /\ [RegistryNext]_registryVars => BrokerInv'
<1> SUFFICES ASSUME BrokerInv, [RegistryNext]_registryVars PROVE BrokerInv'
  OBVIOUS
<1>1. CASE BrokerStep
  BY <1>1, DeleteRobotKeepsBroker, RemoveLeaseKeepsBroker, EnsureProjectKeepsBroker, CreateKeepsBroker,
     PutLeaseKeepsBroker, IssueTokenKeepsBroker DEF BrokerStep
<1>2. CASE SweepExpired \/ BrokerCallFails \/ BrokerCrash
  BY <1>2, SweepKeepsBroker, FailureKeepsBroker, CrashKeepsBroker
<1>3. ASSUME NEW p \in Publications, CommitStep(p) PROVE BrokerInv'
  BY <1>3, LockKeepsBroker, RevokeKeepsBroker, CommitKeepsBroker DEF CommitStep
<1>4. ASSUME NEW p \in Publications, PrepareFails(p) \/ PushFails(p) \/ PublisherLost(p) PROVE BrokerInv'
  BY <1>4, CommitKeepsBroker, LossKeepsBroker
<1>5. ASSUME NEW i \in 1 .. Len(made), LeaseLapses(i) PROVE BrokerInv'
  BY <1>5, LapseKeepsBroker
<1>6. ASSUME NEW d \in Subjects, AuthorizeDeletion(d) \/ DeleteArtifact(d) \/ RecordTombstone(d) \/ DeletionFails(d)
      PROVE  BrokerInv'
  <2>1. UNCHANGED <<commit, held, brokerVars>>
    BY <1>6 DEF AuthorizeDeletion, DeleteArtifact, RecordTombstone, DeletionFails
  <2> QED
    BY <2>1, RetentionKeepsBroker
<1>7. CASE UNCHANGED registryVars
  BY <1>7, RetentionKeepsBroker DEF registryVars, brokerVars
<1> QED
  BY <1>1, <1>2, <1>3, <1>4, <1>5, <1>6, <1>7 DEF RegistryNext

\* While a robot behind a token exists a lease names it, whatever fails
\* while the capability is issued, used or revoked (buildregistry/broker.go).
THEOREM TokensAreLeased == RegistrySpec => []TokenIsLeased
<1>1. BrokerInv => TokenIsLeased
  BY DEF BrokerInv, LeaseKept
<1> QED
  BY <1>1, BrokerInitially, BrokerStepKeeps, PTL DEF RegistrySpec

-----------------------------------------------------------------------------
\* Stages that promise nothing about the repository yet.
Blank == {"absent", "start", "issue", "queued", "issuing", "probe", "drop", "dropping", "failed", "lost"}

\* A step that touches no content: a Commit stays, gives up, or goes on to
\* its result with everything in place.
LEMMA ContentFrame ==
  ASSUME ContentInv, UNCHANGED contentVars, UNCHANGED deletionVars,
         \A p \in Publications :
           \/ commit'[p] = commit[p] \/ commit'[p] \in Blank
           \/ commit[p] \in AtLast /\ commit'[p] \in AtLast
  PROVE  ContentInv'
<1>1. ContentTypes'
  BY DEF ContentInv, ContentTypes, contentVars, deletionVars
<1>2. \A d \in Subjects : Authorized(d)' <=> Authorized(d)
  BY DEF Authorized, deletionVars
<1>3. ASSUME NEW p \in Publications PROVE Published(p)'
  <2>1. Present(p)' <=> Present(p)
    BY DEF Present, Authorized, contentVars, deletionVars
  <2>2. Published(p)
    BY DEF ContentInv
  <2>3. CASE commit'[p] = commit[p]
    BY <2>1, <2>2, <2>3 DEF Published, contentVars
  <2>4. CASE commit'[p] \in Blank
    BY <2>4 DEF Published, Blank, AtManifest, AtEvidence, AtTagged, AtReferred, AtLast
  <2>5. CASE commit[p] \in AtLast /\ commit'[p] \in AtLast
    BY <2>1, <2>2, <2>5 DEF Published, contentVars, AtManifest, AtEvidence, AtTagged, AtReferred, AtLast
  <2> QED
    BY <2>3, <2>4, <2>5
<1> QED
  BY <1>1, <1>2, <1>3 DEF ContentInv, deletionVars

LEMMA ReturnStays ==
  ASSUME BrokerInv, NEW s, Return(s)
  PROVE  \A p \in Publications : commit'[p] = commit[p] \/ (p = op.by /\ commit'[p] = s)
BY DEF Return, Goto, BrokerInv, BrokerTypes

LEMMA ExitStays ==
  ASSUME BrokerInv, Exit
  PROVE  \A p \in Publications : commit'[p] = commit[p] \/ commit'[p] = "failed"
BY DEF Exit

LEMMA BrokerKeepsContent ==
  ASSUME BrokerInv, ContentInv, BrokerStep \/ SweepExpired \/ BrokerCallFails \/ BrokerCrash
  PROVE  ContentInv'
<1>1. UNCHANGED contentVars /\ UNCHANGED deletionVars
  BY DEF BrokerStep, DeleteRobot, RemoveLease, EnsureProject, CreatePushRobot, PutLease, IssueToken,
         SweepExpired, BrokerCallFails, BrokerCrash
<1>2. CASE RemoveLease
  <2>1. CASE Return("failed")
    BY <2>1, ReturnStays, <1>1, ContentFrame DEF Blank
  <2>2. CASE UNCHANGED commit
    BY <2>2, <1>1, ContentFrame
  <2>3. CASE op.by \in Publications /\ commit[op.by] = "revoking" /\ Return("committed")
    BY <2>3, ReturnStays, <1>1, ContentFrame DEF AtLast
  <2>4. op.by \in Publications => commit[op.by] \in CallStage
    BY DEF BrokerInv, OpOwned
  <2>5. op.step \in {"remove", "forget"}
    BY <1>2 DEF RemoveLease
  <2>6. CASE op.by \notin Publications
    BY <1>2, <2>5, <2>6, <2>1, <2>2 DEF RemoveLease, Return
  <2>7. CASE op.by \in Publications
    BY <1>2, <2>1, <2>2, <2>3, <2>4, <2>5, <2>7 DEF RemoveLease, CallStage
  <2> QED
    BY <2>6, <2>7
<1>3. CASE DeleteRobot
  BY <1>1, <1>3, ReturnStays, ContentFrame DEF DeleteRobot, Blank
<1>4. CASE EnsureProject \/ PutLease \/ SweepExpired
  BY <1>1, <1>4, ContentFrame DEF EnsureProject, PutLease, SweepExpired
<1>5. CASE CreatePushRobot
  BY <1>1, <1>5, ReturnStays, ContentFrame DEF CreatePushRobot, Blank
<1>6. CASE IssueToken
  BY <1>1, <1>6, ReturnStays, ContentFrame DEF IssueToken, Blank
<1>7. CASE BrokerCallFails
  BY <1>1, <1>7, ReturnStays, ExitStays, ContentFrame DEF BrokerCallFails, GiveUp, Blank
<1>8. CASE BrokerCrash
  BY <1>1, <1>8, ExitStays, ContentFrame DEF BrokerCrash, Blank
<1> QED
  BY <1>2, <1>3, <1>4, <1>5, <1>6, <1>7, <1>8 DEF BrokerStep

-----------------------------------------------------------------------------
\* What a step of one Commit adds: nothing that any other relies on goes.
LEMMA ContentGrows ==
  ASSUME ContentInv, NEW p \in Publications, ContentTypes',
         \A q \in Publications \ {p} : commit'[q] = commit[q] /\ seen'[q] = seen[q] /\ found'[q] = found[q],
         pushed \subseteq pushed', manifests \subseteq manifests', UNCHANGED deletionVars,
         \A q \in Publications : commit[q] \in AtTagged => alias'[Subject[q]] = alias[Subject[q]],
         \A q \in Publications \ {p} :
           commit[q] \in AtReferred /\ Key[q] \in referrers[Subject[q]] => Key[q] \in referrers'[Subject[q]],
         Published(p)'
  PROVE  ContentInv'
<1>1. ASSUME NEW q \in Publications \ {p} PROVE Published(q)'
  <2>1. Present(q) => Present(q)'
    BY DEF Present, Authorized, deletionVars
  <2>2. Published(q)
    BY DEF ContentInv
  <2> QED
    BY <2>1, <2>2 DEF Published
<1>2. \A d \in Subjects : Authorized(d)' <=> Authorized(d)
  BY DEF Authorized, deletionVars
<1> QED
  BY <1>1, <1>2 DEF ContentInv, deletionVars

\* The move of one Commit from stage to stage.
LEMMA OneMoves ==
  ASSUME BrokerInv, NEW p \in Publications, NEW s, Goto(p, s)
  PROVE  commit'[p] = s /\ \A q \in Publications \ {p} : commit'[q] = commit[q]
BY DEF Goto, BrokerInv, BrokerTypes

LEMMA SubjectOf == \A p \in Publications : Subject[p] \in Subjects
BY DEF Subjects

LEMMA QuietKeepsContent ==
  ASSUME BrokerInv, ContentInv, NEW p \in Publications,
         \/ Prepare(p) \/ PrepareFails(p) \/ Admit(p) \/ Lock(p) \/ Revoke(p) \/ PushFails(p) \/ PublisherLost(p)
  PROVE  ContentInv'
<1>1. UNCHANGED contentVars /\ UNCHANGED deletionVars
  BY DEF Prepare, PrepareFails, Admit, Lock, Revoke, PushFails, PublisherLost
<1>2. PICK s : /\ Goto(p, s)
               /\ s \in Blank \/ (commit[p] \in AtLast /\ s \in AtLast)
  BY DEF Prepare, PrepareFails, Admit, Lock, Revoke, PushFails, PublisherLost, Blank, AtLast
<1>3. commit'[p] = s /\ \A q \in Publications \ {p} : commit'[q] = commit[q]
  BY <1>2, OneMoves
<1>4. ASSUME NEW q \in Publications
      PROVE  \/ commit'[q] = commit[q] \/ commit'[q] \in Blank
             \/ commit[q] \in AtLast /\ commit'[q] \in AtLast
  BY <1>2, <1>3
<1> QED
  BY <1>1, <1>4, ContentFrame

LEMMA ProbeKeepsContent ==
  ASSUME BrokerInv, ContentInv, NEW p \in Publications, ManifestExists(p)
  PROVE  ContentInv'
<1>1. /\ found' = [found EXCEPT ![p] = Subject[p] \in manifests] /\ Goto(p, "blobs")
      /\ UNCHANGED <<pushed, manifests, alias, referrers, seen, api, journal, retain>>
  BY DEF ManifestExists, deletionVars
<1>2. commit'[p] = "blobs" /\ \A q \in Publications \ {p} : commit'[q] = commit[q]
  BY <1>1, OneMoves
<1>3. found'[p] = (Subject[p] \in manifests) /\ \A q \in Publications \ {p} : found'[q] = found[q]
  BY <1>1 DEF ContentInv, ContentTypes
<1>4. ContentTypes'
  BY <1>1 DEF ContentInv, ContentTypes
<1>5. Published(p)'
  BY <1>1, <1>2, <1>3 DEF Published, Present, AtManifest, AtEvidence, AtTagged, AtReferred, AtLast
<1> QED
  BY <1>1, <1>2, <1>3, <1>4, <1>5, ContentGrows DEF deletionVars

LEMMA BlobsKeepContent ==
  ASSUME BrokerInv, ContentInv, NEW p \in Publications, EnsureBlobs(p)
  PROVE  ContentInv'
<1>1. /\ pushed' = pushed \cup {<<"blobs", Subject[p]>>} /\ commit[p] = "blobs"
      /\ UNCHANGED <<found, manifests, alias, referrers, seen, api, journal, retain>>
  BY DEF EnsureBlobs, deletionVars
<1>2. PICK s \in {"evidence", "manifest"} : Goto(p, s) /\ (s = "evidence" => found[p])
  BY DEF EnsureBlobs
<1>3. commit'[p] = s /\ \A q \in Publications \ {p} : commit'[q] = commit[q]
  BY <1>2, OneMoves
<1>4. ContentTypes'
  BY <1>1 DEF ContentInv, ContentTypes
<1>5. s = "evidence" => Present(p)'
  BY <1>1, <1>2 DEF ContentInv, Published, Present, Authorized
<1>6. Published(p)'
  BY <1>1, <1>3, <1>5 DEF Published, AtManifest, AtEvidence, AtTagged, AtReferred, AtLast
<1> QED
  BY <1>1, <1>3, <1>4, <1>6, ContentGrows DEF deletionVars

LEMMA ManifestKeepsContent ==
  ASSUME BrokerInv, ContentInv, NEW p \in Publications, PutManifest(p)
  PROVE  ContentInv'
<1>1. /\ manifests' = manifests \cup {Subject[p]} /\ commit[p] = "manifest" /\ Goto(p, "evidence")
      /\ UNCHANGED <<found, pushed, alias, referrers, seen, api, journal, retain>>
  BY DEF PutManifest, deletionVars
<1>2. commit'[p] = "evidence" /\ \A q \in Publications \ {p} : commit'[q] = commit[q]
  BY <1>1, OneMoves
<1>3. ContentTypes'
  BY <1>1 DEF ContentInv, ContentTypes
<1>4. <<"blobs", Subject[p]>> \in pushed
  BY <1>1 DEF ContentInv, Published
<1>5. Published(p)'
  BY <1>1, <1>2, <1>4 DEF Published, Present, AtManifest, AtEvidence, AtTagged, AtReferred, AtLast
<1> QED
  BY <1>1, <1>2, <1>3, <1>5, ContentGrows DEF deletionVars

LEMMA EvidenceKeepsContent ==
  ASSUME BrokerInv, ContentInv, NEW p \in Publications, PutEvidence(p)
  PROVE  ContentInv'
<1>1. /\ pushed' = pushed \cup {<<"evidence", Subject[p], Key[p]>>} /\ commit[p] = "evidence" /\ Goto(p, "alias")
      /\ UNCHANGED <<found, manifests, alias, seen, api, journal, retain>>
  BY DEF PutEvidence, deletionVars
<1>2. commit'[p] = "alias" /\ \A q \in Publications \ {p} : commit'[q] = commit[q]
  BY <1>1, OneMoves
<1>3. /\ referrers' = [d \in Subjects |-> referrers'[d]]
      /\ \A d \in Subjects : referrers[d] \subseteq referrers'[d]
  BY SubjectOf DEF PutEvidence, ContentInv, ContentTypes
<1>4. ContentTypes'
  BY <1>1, <1>3 DEF ContentInv, ContentTypes
<1>5. <<"blobs", Subject[p]>> \in pushed /\ Present(p)
  BY <1>1 DEF ContentInv, Published, AtManifest
<1>6. Published(p)'
  BY <1>1, <1>2, <1>5 DEF Published, Present, Authorized, AtManifest, AtEvidence, AtTagged, AtReferred, AtLast
<1>7. \A q \in Publications \ {p} : Key[q] \in referrers[Subject[q]] => Key[q] \in referrers'[Subject[q]]
  BY <1>3, SubjectOf
<1> QED
  BY <1>1, <1>2, <1>4, <1>6, <1>7, ContentGrows DEF deletionVars

\* The tag is set once: a Commit that relies on it keeps it.
LEMMA AliasKeepsContent ==
  ASSUME BrokerInv, ContentInv, NEW p \in Publications, EnsureAlias(p)
  PROVE  ContentInv'
<1>1. /\ commit[p] = "alias" /\ UNCHANGED <<pushed, found, manifests, referrers, seen, api, journal, retain>>
  BY DEF EnsureAlias, deletionVars
<1>2. /\ <<"blobs", Subject[p]>> \in pushed /\ Present(p) /\ <<"evidence", Subject[p], Key[p]>> \in pushed
  BY <1>1 DEF ContentInv, Published, AtManifest, AtEvidence
<1>3. Present(p)'
  BY <1>1, <1>2 DEF Present, Authorized
<1>4. CASE alias[Subject[p]] \in {None, Key[p]}
  <2>1. PICK s \in {"verify", "index"} : Goto(p, s)
    BY <1>4 DEF EnsureAlias
  <2>2. commit'[p] = s /\ \A q \in Publications \ {p} : commit'[q] = commit[q]
    BY <2>1, OneMoves
  <2>3. alias' = [alias EXCEPT ![Subject[p]] = Key[p]]
    BY <1>4 DEF EnsureAlias
  <2>4. /\ alias'[Subject[p]] = Key[p] /\ alias' = [d \in Subjects |-> alias'[d]]
        /\ \A d \in Subjects : d # Subject[p] => alias'[d] = alias[d]
    BY <2>3, SubjectOf DEF ContentInv, ContentTypes
  <2>5. \A q \in Publications : commit[q] \in AtTagged => alias'[Subject[q]] = alias[Subject[q]]
    <3> SUFFICES ASSUME NEW q \in Publications, commit[q] \in AtTagged
                 PROVE  alias'[Subject[q]] = alias[Subject[q]]
      OBVIOUS
    <3>1. alias[Subject[q]] = Key[q]
      BY DEF ContentInv, Published
    <3>2. Key[q] # None
      BY RegistryAssumption DEF None
    <3> QED
      BY <1>4, <2>4, <3>1, <3>2, SubjectOf
  <2>6. ContentTypes'
    BY <1>1, <2>4 DEF ContentInv, ContentTypes
  <2>7. Published(p)'
    BY <1>1, <1>2, <1>3, <2>2, <2>4 DEF Published, AtManifest, AtEvidence, AtTagged, AtReferred, AtLast
  <2> QED
    BY <1>1, <2>2, <2>5, <2>6, <2>7, ContentGrows DEF deletionVars
<1>5. CASE alias[Subject[p]] \notin {None, Key[p]}
  <2>1. UNCHANGED alias /\ Goto(p, "drop")
    BY <1>5 DEF EnsureAlias
  <2>2. commit'[p] = "drop" /\ \A q \in Publications \ {p} : commit'[q] = commit[q]
    BY <2>1, OneMoves
  <2> QED
    BY <1>1, <2>1, <2>2, ContentFrame DEF contentVars, deletionVars, Blank
<1> QED
  BY <1>4, <1>5

LEMMA ReadIndexKeepsContent ==
  ASSUME BrokerInv, ContentInv, NEW p \in Publications, ReadIndex(p)
  PROVE  ContentInv'
<1>1. /\ commit[p] = "index" /\ UNCHANGED <<pushed, found, manifests, alias, referrers, api, journal, retain>>
      /\ seen' = [seen EXCEPT ![p] = referrers[Subject[p]] \cup {Key[p]}]
  BY DEF ReadIndex, deletionVars
<1>2. PICK s \in {"verify", "merge"} : Goto(p, s)
  BY DEF ReadIndex
<1>3. commit'[p] = s /\ \A q \in Publications \ {p} : commit'[q] = commit[q]
  BY <1>2, OneMoves
<1>4. /\ Key[p] \in seen'[p] /\ seen' = [q \in Publications |-> seen'[q]]
      /\ \A q \in Publications \ {p} : seen'[q] = seen[q]
  BY <1>1 DEF ContentInv, ContentTypes
<1>5. ContentTypes'
  BY <1>1, <1>4 DEF ContentInv, ContentTypes
<1>6. Published(p)'
  BY <1>1, <1>3, <1>4 DEF ContentInv, Published, Present, Authorized, AtManifest, AtEvidence, AtTagged, AtReferred, AtLast
<1> QED
  BY <1>1, <1>3, <1>4, <1>5, <1>6, ContentGrows DEF deletionVars

\* A stale merge: whoever it could harm has the same tag, hence the same key.
LEMMA WriteIndexKeepsContent ==
  ASSUME BrokerInv, ContentInv, NEW p \in Publications, WriteIndex(p)
  PROVE  ContentInv'
<1>1. /\ commit[p] = "merge" /\ UNCHANGED <<pushed, found, manifests, alias, seen, api, journal, retain>>
      /\ referrers' = [referrers EXCEPT ![Subject[p]] = seen[p]] /\ Goto(p, "verify")
  BY DEF WriteIndex, deletionVars
<1>2. commit'[p] = "verify" /\ \A q \in Publications \ {p} : commit'[q] = commit[q]
  BY <1>1, OneMoves
<1>3. Key[p] \in seen[p] /\ alias[Subject[p]] = Key[p]
  BY <1>1 DEF ContentInv, Published, AtTagged
<1>4. /\ referrers'[Subject[p]] = seen[p] /\ referrers' = [d \in Subjects |-> referrers'[d]]
      /\ \A d \in Subjects : d # Subject[p] => referrers'[d] = referrers[d]
  BY <1>1, SubjectOf DEF ContentInv, ContentTypes
<1>5. ASSUME NEW q \in Publications \ {p}, commit[q] \in AtReferred, Key[q] \in referrers[Subject[q]]
      PROVE  Key[q] \in referrers'[Subject[q]]
  <2>1. alias[Subject[q]] = Key[q]
    BY <1>5 DEF ContentInv, Published, AtTagged
  <2> QED
    BY <1>3, <1>4, <1>5, <2>1, SubjectOf
<1>6. ContentTypes'
  BY <1>1, <1>4 DEF ContentInv, ContentTypes
<1>7. Published(p)'
  BY <1>1, <1>2 DEF ContentInv, Published, Present, Authorized, AtManifest, AtEvidence, AtTagged, AtReferred, AtLast
<1> QED
  BY <1>1, <1>2, <1>5, <1>6, <1>7, ContentGrows DEF deletionVars

LEMMA VerifyKeepsContent ==
  ASSUME BrokerInv, ContentInv, NEW p \in Publications, VerifyReferrers(p)
  PROVE  ContentInv'
<1>1. commit[p] = "verify" /\ UNCHANGED contentVars /\ UNCHANGED deletionVars
  BY DEF VerifyReferrers
<1>2. PICK s \in {"drop", "static", "revoke"} :
        /\ Goto(p, s)
        /\ s # "drop" => Key[p] \in referrers[Subject[p]]
        /\ s = "revoke" => p \notin Static
  BY DEF VerifyReferrers
<1>3. commit'[p] = s /\ \A q \in Publications \ {p} : commit'[q] = commit[q]
  BY <1>2, OneMoves
<1>4. ContentTypes'
  BY <1>1 DEF ContentInv, ContentTypes, contentVars, deletionVars
<1>5. Published(p)'
  BY <1>1, <1>2, <1>3 DEF ContentInv, Published, Present, Authorized, contentVars, deletionVars,
     AtManifest, AtEvidence, AtTagged, AtReferred, AtLast
<1> QED
  BY <1>1, <1>3, <1>4, <1>5, ContentGrows DEF contentVars

LEMMA StaticKeepsContent ==
  ASSUME BrokerInv, ContentInv, NEW p \in Publications, PutStaticManifest(p)
  PROVE  ContentInv'
<1>1. /\ commit[p] = "static" /\ UNCHANGED <<found, manifests, alias, referrers, seen, api, journal, retain>>
      /\ pushed' = pushed \cup {<<"static", Subject[p], Key[p]>>} /\ Goto(p, "revoke")
  BY DEF PutStaticManifest, deletionVars
<1>2. commit'[p] = "revoke" /\ \A q \in Publications \ {p} : commit'[q] = commit[q]
  BY <1>1, OneMoves
<1>3. ContentTypes'
  BY <1>1 DEF ContentInv, ContentTypes
<1>4. Published(p)'
  BY <1>1, <1>2 DEF ContentInv, Published, Present, Authorized, AtManifest, AtEvidence, AtTagged, AtReferred, AtLast
<1> QED
  BY <1>1, <1>2, <1>3, <1>4, ContentGrows DEF deletionVars

\* Retention: the record is in the journal before the artifact goes.
LEMMA RetentionKeepsContent ==
  ASSUME ContentInv, NEW d \in Subjects,
         AuthorizeDeletion(d) \/ DeleteArtifact(d) \/ RecordTombstone(d) \/ DeletionFails(d)
  PROVE  ContentInv'
<1>1. UNCHANGED <<commit, pushed, found, alias, referrers, seen>> /\ journal \subseteq journal'
  BY DEF AuthorizeDeletion, DeleteArtifact, RecordTombstone, DeletionFails, Record, contentVars
<1>2. \A e \in Subjects : retain'[e] = retain[e] \/ (e = d /\ (retain'[e] = "authorized" => Authorized(e)'))
  BY DEF AuthorizeDeletion, DeleteArtifact, RecordTombstone, DeletionFails, Record, Authorized, ContentInv, ContentTypes
<1>3. ContentTypes'
  <2>1. retain' = [e \in Subjects |-> retain'[e]]
    <3>1. PICK s : retain' = [retain EXCEPT ![d] = s]
      BY DEF AuthorizeDeletion, DeleteArtifact, RecordTombstone, DeletionFails
    <3>2. retain = [e \in Subjects |-> retain[e]]
      BY DEF ContentInv, ContentTypes
    <3> QED
      BY <3>1, <3>2
  <2> QED
    BY <1>1, <2>1 DEF ContentInv, ContentTypes
<1>4. \A e \in Subjects : Authorized(e) => Authorized(e)'
  BY <1>1 DEF Authorized
<1>5. \A e \in Subjects : e \in manifests => e \in manifests' \/ Authorized(e)'
  <2>1. CASE DeleteArtifact(d)
    BY <1>4, <2>1 DEF DeleteArtifact, ContentInv
  <2>2. CASE AuthorizeDeletion(d) \/ RecordTombstone(d) \/ DeletionFails(d)
    BY <2>2 DEF AuthorizeDeletion, RecordTombstone, DeletionFails, contentVars
  <2> QED
    BY <2>1, <2>2
<1>6. ASSUME NEW p \in Publications PROVE Published(p)'
  <2>1. Present(p) => Present(p)'
    BY <1>4, <1>5, SubjectOf DEF Present
  <2> QED
    BY <1>1, <2>1 DEF ContentInv, Published
<1> QED
  BY <1>2, <1>3, <1>4, <1>6 DEF ContentInv

LEMMA ContentInitially == RegistryInit => ContentInv
<1> SUFFICES ASSUME RegistryInit PROVE ContentInv
  OBVIOUS
<1>1. \A p \in Publications : commit[p] \in {"start", "absent"}
  BY DEF RegistryInit
<1>2. \A d \in Subjects : retain[d] \in {"idle", "kept"}
  BY DEF RegistryInit
<1>3. ContentTypes
  BY DEF RegistryInit, ContentTypes
<1>4. \A p \in Publications : Published(p)
  BY <1>1 DEF Published, AtManifest, AtEvidence, AtTagged, AtReferred, AtLast
<1> QED
  BY <1>2, <1>3, <1>4 DEF ContentInv

LEMMA ContentStepKeeps == BrokerInv /\ ContentInv /\ [RegistryNext]_registryVars => ContentInv'
<1> SUFFICES ASSUME BrokerInv, ContentInv, [RegistryNext]_registryVars PROVE ContentInv'
  OBVIOUS
<1>1. CASE BrokerStep \/ SweepExpired \/ BrokerCallFails \/ BrokerCrash
  BY <1>1, BrokerKeepsContent
<1>2. ASSUME NEW p \in Publications, CommitStep(p) PROVE ContentInv'
  BY <1>2, QuietKeepsContent, ProbeKeepsContent, BlobsKeepContent, ManifestKeepsContent, EvidenceKeepsContent,
     AliasKeepsContent, ReadIndexKeepsContent, WriteIndexKeepsContent, VerifyKeepsContent, StaticKeepsContent
     DEF CommitStep
<1>3. ASSUME NEW p \in Publications, PrepareFails(p) \/ PushFails(p) \/ PublisherLost(p) PROVE ContentInv'
  BY <1>3, QuietKeepsContent
<1>4. ASSUME NEW i \in 1 .. Len(made), LeaseLapses(i) PROVE ContentInv'
  BY <1>4, ContentFrame DEF LeaseLapses
<1>5. ASSUME NEW d \in Subjects, AuthorizeDeletion(d) \/ DeleteArtifact(d) \/ RecordTombstone(d) \/ DeletionFails(d)
      PROVE  ContentInv'
  BY <1>5, RetentionKeepsContent
<1>6. CASE UNCHANGED registryVars
  BY <1>6, ContentFrame DEF registryVars, contentVars, deletionVars
<1> QED
  BY <1>1, <1>2, <1>3, <1>4, <1>5, <1>6 DEF RegistryNext

\* What Commit reported stays in the repository and can be found, unless a
\* journaled deletion took it, and its robot is gone (publisher.go,
\* broker.go, retention.go).
THEOREM CommitsStayComplete == RegistrySpec => []CommittedIsComplete
<1>1. BrokerInv /\ ContentInv => CommittedIsComplete
  <2> SUFFICES ASSUME BrokerInv, ContentInv, NEW p \in Publications, commit[p] = "committed"
               PROVE  /\ Complete(p) \/ <<"deletion_authorized", Subject[p]>> \in journal
                      /\ held[p] \notin robots
    BY DEF CommittedIsComplete
  <2>1. Published(p)
    BY DEF ContentInv
  <2>2. held[p] \notin robots
    BY DEF BrokerInv, LeaseKept
  <2> QED
    BY <2>1, <2>2 DEF Published, Present, Authorized, Complete, AtManifest, AtEvidence, AtTagged, AtReferred, AtLast
<1> QED
  BY <1>1, BrokerInitially, BrokerStepKeeps, ContentInitially, ContentStepKeeps, PTL DEF RegistrySpec

-----------------------------------------------------------------------------
\* The steps of a Generate that has passed the policy.
Vetted == {"sign", "key", "seal", "revoke", "abandon", "accepted"}
Stage == Vetted \cup {"start", "scan", "compare", "failed", "denied"}

EvidenceTypes ==
  /\ gen \in [Images -> Stage]
  /\ identity \in [Images -> Nat] /\ scanned \in [Images -> Nat] /\ cache \in [Images -> Nat]
  /\ kind \in [Images -> 0 .. 5] /\ signer \in [Images -> Nat] /\ session \in [Images -> Nat]
  /\ DOMAIN bundle = Images /\ bundle = [i \in Images |-> bundle[i]]
  /\ database \in Nat /\ latest \in Nat

ScanAccepted(i) == scanned[i] = identity[i] /\ Accepts(i, identity[i])

ScanInOrder(i) ==
  /\ gen[i] \in {"scan", "compare"} => FreshFrom <= identity[i] /\ identity[i] <= cache[i]
  /\ gen[i] = "compare" => identity[i] <= scanned[i] /\ scanned[i] <= cache[i]
  /\ gen[i] \in Vetted => ScanAccepted(i) /\ FreshFrom <= identity[i]

BundleSoFar(i) ==
  /\ bundle[i] = {<<Kinds[k], signer[i]>> : k \in 1 .. kind[i]}
  /\ IF kind[i] = 0 THEN signer[i] = 0 ELSE signer[i] \in SupplyPolicy.AllowedKeyVersions
  /\ gen[i] \in {"start", "scan", "compare"} => kind[i] = 0
  /\ gen[i] \in {"sign", "key", "seal", "revoke"} => kind[i] < 5
  /\ gen[i] = "accepted" => kind[i] = 5 /\ i \notin tokens

SignedIsVetted ==
  \A s \in signatures : /\ s[1] \in Images
                        /\ gen[s[1]] \in Vetted \cup {"failed"}
                        /\ ScanAccepted(s[1])

EvidenceInv ==
  /\ EvidenceTypes
  /\ \A i \in Images : ScanInOrder(i) /\ BundleSoFar(i)
  /\ SignedIsVetted

-----------------------------------------------------------------------------
\* A step of one Generate leaves what is known of another one alone.
LEMMA OtherImage ==
  ASSUME EvidenceTypes, NEW i \in Images, NEW j \in Images, i # j,
         gen'[j] = gen[j], identity'[j] = identity[j], scanned'[j] = scanned[j],
         cache'[j] = cache[j], kind'[j] = kind[j], signer'[j] = signer[j],
         bundle'[j] = bundle[j], j \in tokens' <=> j \in tokens,
         ScanInOrder(j), BundleSoFar(j)
  PROVE  (ScanInOrder(j) /\ BundleSoFar(j))'
<1>1. ScanAccepted(j)' <=> ScanAccepted(j)
  BY DEF ScanAccepted, Accepts
<1>2. ScanInOrder(j)'
  BY <1>1 DEF ScanInOrder
<1>3. BundleSoFar(j)'
  BY DEF BundleSoFar
<1> QED
  BY <1>2, <1>3

LEMMA EvidenceInitially == EvidenceInit => EvidenceInv
<1> SUFFICES ASSUME EvidenceInit PROVE EvidenceInv
  OBVIOUS
<1>1. EvidenceTypes
  BY DEF EvidenceInit, EvidenceTypes, Stage, Vetted
<1>2. ASSUME NEW i \in Images PROVE ScanInOrder(i) /\ BundleSoFar(i)
  <2>1. gen[i] = "start" /\ kind[i] = 0 /\ signer[i] = 0 /\ bundle[i] = {}
    BY DEF EvidenceInit
  <2>2. {<<Kinds[k], signer[i]>> : k \in 1 .. kind[i]} = {}
    BY <2>1
  <2> QED
    BY <2>1, <2>2 DEF ScanInOrder, BundleSoFar, Vetted
<1> QED
  BY <1>1, <1>2 DEF EvidenceInv, SignedIsVetted, EvidenceInit

-----------------------------------------------------------------------------
\* The part of a step that concerns the scan.
LEMMA ScanStep ==
  ASSUME EvidenceInv, NEW i \in Images,
         IdentifyDatabase(i) \/ RunScanners(i) \/ EvaluatePolicy(i)
  PROVE  EvidenceInv'
<1> USE EvidenceAssumption
<1>1. EvidenceTypes'
  BY DEF EvidenceInv, EvidenceTypes, IdentifyDatabase, RunScanners, EvaluatePolicy, Step, Stage, Vetted, worldVars
<1>2. gen[i] \in {"start", "scan", "compare"} /\ UNCHANGED <<kind, signer, session, bundle, tokens, signatures, database, latest, efaults>>
  BY DEF IdentifyDatabase, RunScanners, EvaluatePolicy, worldVars
<1>3. \A j \in Images \ {i} : /\ gen'[j] = gen[j] /\ identity'[j] = identity[j]
                              /\ scanned'[j] = scanned[j] /\ cache'[j] = cache[j]
  BY DEF EvidenceInv, EvidenceTypes, IdentifyDatabase, RunScanners, EvaluatePolicy, Step, worldVars
<1>4. ScanInOrder(i)'
  <2>1. CASE IdentifyDatabase(i)
    BY <2>1 DEF EvidenceInv, EvidenceTypes, IdentifyDatabase, Step, ScanInOrder, Vetted
  <2>2. CASE RunScanners(i)
    BY <2>2 DEF EvidenceInv, EvidenceTypes, RunScanners, Step, ScanInOrder, Vetted, worldVars
  <2>3. CASE EvaluatePolicy(i)
    <3>1. /\ UNCHANGED <<identity, scanned, cache>>
          /\ gen'[i] \in {"failed", "sign", "denied"}
          /\ gen'[i] = "sign" => cache[i] = identity[i] /\ Accepts(i, scanned[i])
          /\ gen[i] = "compare"
      BY <2>3 DEF EvidenceInv, EvidenceTypes, EvaluatePolicy, Step, worldVars
    <3>2. /\ FreshFrom <= identity[i] /\ identity[i] <= scanned[i] /\ scanned[i] <= cache[i]
          /\ identity[i] \in Nat /\ scanned[i] \in Nat /\ cache[i] \in Nat
      BY <3>1 DEF EvidenceInv, EvidenceTypes, ScanInOrder
    <3>3. gen'[i] = "sign" => scanned[i] = identity[i]
      BY <3>1, <3>2
    <3>4. gen'[i] = "sign" => ScanAccepted(i)'
      BY <3>1, <3>3 DEF ScanAccepted, Accepts
    <3> QED
      BY <3>1, <3>2, <3>4 DEF ScanInOrder, Vetted
  <2> QED
    BY <2>1, <2>2, <2>3
<1>5. BundleSoFar(i)'
  <2>1. gen'[i] \in {"failed", "scan", "compare", "sign", "denied"}
    BY DEF EvidenceInv, EvidenceTypes, IdentifyDatabase, RunScanners, EvaluatePolicy, Step
  <2> QED
    BY <1>2, <2>1 DEF EvidenceInv, BundleSoFar
<1>6. SignedIsVetted'
  BY <1>2, <1>3 DEF EvidenceInv, SignedIsVetted, ScanAccepted, Accepts, Vetted
<1>7. ASSUME NEW j \in Images PROVE (ScanInOrder(j) /\ BundleSoFar(j))'
  BY <1>2, <1>3, <1>4, <1>5, OtherImage DEF EvidenceInv
<1> QED
  BY <1>1, <1>6, <1>7 DEF EvidenceInv

-----------------------------------------------------------------------------
\* Steps of a vetted Generate that keep its bundle: the scan is over, so what
\* it was signed for stays true.
LEMMA SessionStep ==
  ASSUME EvidenceInv, NEW i \in Images,
         Login(i) \/ ReadKey(i) \/ SignPayload(i) \/ AbandonSession(i) \/ EvidenceCallFails(i)
  PROVE  EvidenceInv'
<1>1. EvidenceTypes'
  BY DEF EvidenceInv, EvidenceTypes, Login, ReadKey, SignPayload, AbandonSession, EvidenceCallFails, Step, Stage, Vetted, worldVars
<1>2. UNCHANGED <<identity, scanned, cache, kind, signer, bundle>>
  BY DEF Login, ReadKey, SignPayload, AbandonSession, EvidenceCallFails, worldVars
<1>3. /\ \A j \in Images \ {i} : gen'[j] = gen[j] /\ (j \in tokens' <=> j \in tokens)
      /\ gen'[i] \in {"key", "seal", "revoke", "abandon", "failed"}
      /\ gen'[i] \in Vetted => gen[i] \in Vetted
      /\ gen[i] \in Vetted => gen'[i] \in Vetted \cup {"failed"}
      /\ gen[i] # "denied"
      /\ gen'[i] \in {"key", "seal", "revoke"} => gen[i] \in {"sign", "key", "seal"}
  BY DEF EvidenceInv, EvidenceTypes, Login, ReadKey, SignPayload, AbandonSession, EvidenceCallFails, Step, Vetted
<1>4. ScanInOrder(i)'
  BY <1>2, <1>3 DEF EvidenceInv, ScanInOrder, ScanAccepted, Accepts, Vetted
<1>5. BundleSoFar(i)'
  BY <1>2, <1>3 DEF EvidenceInv, BundleSoFar
<1>6. SignedIsVetted'
  <2>1. \A s \in signatures' : s \in signatures \/ (s = <<i, Kinds[kind[i] + 1]>> /\ gen[i] = "seal")
    BY DEF Login, ReadKey, SignPayload, AbandonSession, EvidenceCallFails
  <2>2. ASSUME NEW s \in signatures'
        PROVE  s[1] \in Images /\ gen'[s[1]] \in Vetted \cup {"failed"} /\ ScanAccepted(s[1])
    <3>1. CASE s \in signatures
      BY <1>3, <3>1 DEF EvidenceInv, SignedIsVetted, Vetted
    <3>2. CASE s = <<i, Kinds[kind[i] + 1]>> /\ gen[i] = "seal"
      BY <1>3, <3>2 DEF EvidenceInv, ScanInOrder, Vetted
    <3> QED
      BY <2>1, <3>1, <3>2
  <2>3. \A j \in Images : ScanAccepted(j) => ScanAccepted(j)'
    BY <1>2 DEF ScanAccepted, Accepts
  <2> QED
    BY <2>2, <2>3 DEF SignedIsVetted
<1>7. ASSUME NEW j \in Images PROVE (ScanInOrder(j) /\ BundleSoFar(j))'
  BY <1>2, <1>3, <1>4, <1>5, OtherImage DEF EvidenceInv
<1> QED
  BY <1>1, <1>6, <1>7 DEF EvidenceInv

\* A signature is collected only under the version the bundle has so far.
LEMMA CollectStep ==
  ASSUME EvidenceInv, NEW i \in Images, CollectSignature(i)
  PROVE  EvidenceInv'
<1> USE EvidenceAssumption
<1>1. /\ gen[i] = "revoke" /\ kind[i] \in 0 .. 4 /\ session[i] \in Nat /\ signer[i] \in Nat
      /\ ScanAccepted(i) /\ FreshFrom <= identity[i]
      /\ bundle[i] = {<<Kinds[k], signer[i]>> : k \in 1 .. kind[i]}
      /\ kind[i] # 0 => signer[i] \in SupplyPolicy.AllowedKeyVersions
      /\ kind[i] = 0 => signer[i] = 0
      /\ UNCHANGED <<identity, scanned, cache, session, signatures, database, latest>>
      /\ i \notin tokens' /\ \A j \in Images \ {i} : j \in tokens' <=> j \in tokens
  <2>1. gen[i] = "revoke" /\ i \notin tokens' /\ \A j \in Images \ {i} : j \in tokens' <=> j \in tokens
    BY DEF CollectSignature
  <2>2. UNCHANGED <<identity, scanned, cache, session, signatures, database, latest>>
    BY DEF CollectSignature, worldVars
  <2>3. ScanAccepted(i) /\ FreshFrom <= identity[i]
    BY <2>1 DEF EvidenceInv, ScanInOrder, Vetted
  <2>4. kind[i] \in 0 .. 4 /\ session[i] \in Nat /\ signer[i] \in Nat
    <3>1. kind[i] \in 0 .. 5 /\ session[i] \in Nat /\ signer[i] \in Nat
      BY DEF EvidenceInv, EvidenceTypes
    <3>2. kind[i] < 5
      BY <2>1 DEF EvidenceInv, BundleSoFar
    <3> QED
      BY <3>1, <3>2
  <2>5. /\ bundle[i] = {<<Kinds[k], signer[i]>> : k \in 1 .. kind[i]}
        /\ kind[i] # 0 => signer[i] \in SupplyPolicy.AllowedKeyVersions
        /\ kind[i] = 0 => signer[i] = 0
    BY DEF EvidenceInv, BundleSoFar
  <2> QED
    BY <2>1, <2>2, <2>3, <2>4, <2>5
<1>2. CASE session[i] \in SupplyPolicy.AllowedKeyVersions /\ signer[i] \in {0, session[i]}
  <2>1. /\ signer' = [signer EXCEPT ![i] = session[i]]
        /\ bundle' = [bundle EXCEPT ![i] = @ \cup {<<Kinds[kind[i] + 1], session[i]>>}]
        /\ kind' = [kind EXCEPT ![i] = @ + 1]
        /\ gen' = [gen EXCEPT ![i] = IF kind'[i] = Len(Kinds) THEN "accepted" ELSE "sign"]
    BY <1>2 DEF CollectSignature, Step
  <2>2. Len(Kinds) = 5
    BY DEF Kinds
  <2>3. /\ signer'[i] = session[i] /\ kind'[i] = kind[i] + 1
        /\ bundle'[i] = bundle[i] \cup {<<Kinds[kind[i] + 1], session[i]>>}
        /\ gen'[i] = IF kind[i] = 4 THEN "accepted" ELSE "sign"
    BY <1>1, <2>1, <2>2 DEF EvidenceInv, EvidenceTypes
  <2>4. EvidenceTypes'
    <3>1. gen' \in [Images -> Stage]
      <4>1. gen' = [gen EXCEPT ![i] = gen'[i]] /\ gen'[i] \in Stage
        BY <2>1, <2>3 DEF EvidenceInv, EvidenceTypes, Stage, Vetted
      <4> QED
        BY <4>1 DEF EvidenceInv, EvidenceTypes
    <3>2. kind' \in [Images -> 0 .. 5] /\ signer' \in [Images -> Nat]
      <4>1. kind[i] + 1 \in 0 .. 5
        BY <1>1
      <4> QED
        BY <1>1, <2>1, <4>1 DEF EvidenceInv, EvidenceTypes
    <3>3. DOMAIN bundle' = Images /\ bundle' = [j \in Images |-> bundle'[j]]
      BY <2>1 DEF EvidenceInv, EvidenceTypes
    <3> QED
      BY <1>1, <3>1, <3>2, <3>3 DEF EvidenceInv, EvidenceTypes
  <2>5. ScanInOrder(i)'
    BY <1>1, <2>3 DEF ScanInOrder, ScanAccepted, Accepts, Vetted
  <2>6. kind[i] # 0 => signer[i] = session[i]
    BY <1>1, <1>2
  <2>7. bundle'[i] = {<<Kinds[k], session[i]>> : k \in 1 .. (kind[i] + 1)}
    <3>1. bundle[i] = {<<Kinds[k], session[i]>> : k \in 1 .. kind[i]}
      BY <1>1, <2>6
    <3>2. 1 .. (kind[i] + 1) = (1 .. kind[i]) \cup {kind[i] + 1}
      BY <1>1
    <3>3. {<<Kinds[k], session[i]>> : k \in (1 .. kind[i]) \cup {kind[i] + 1}}
            = {<<Kinds[k], session[i]>> : k \in 1 .. kind[i]} \cup {<<Kinds[kind[i] + 1], session[i]>>}
      BY Zenon
    <3> QED
      BY <2>3, <3>1, <3>2, <3>3, Zenon
  <2>8. BundleSoFar(i)'
    BY <1>1, <1>2, <2>3, <2>7 DEF BundleSoFar
  <2>9. \A j \in Images \ {i} : gen'[j] = gen[j] /\ kind'[j] = kind[j] /\ signer'[j] = signer[j] /\ bundle'[j] = bundle[j]
    BY <2>1 DEF EvidenceInv, EvidenceTypes
  <2>10. ASSUME NEW j \in Images PROVE (ScanInOrder(j) /\ BundleSoFar(j))'
    BY <1>1, <2>5, <2>8, <2>9, OtherImage DEF EvidenceInv
  <2>11. SignedIsVetted'
    BY <1>1, <2>3, <2>9 DEF EvidenceInv, SignedIsVetted, ScanAccepted, Accepts, Vetted
  <2> QED
    BY <2>4, <2>10, <2>11 DEF EvidenceInv
<1>3. CASE ~ (session[i] \in SupplyPolicy.AllowedKeyVersions /\ signer[i] \in {0, session[i]})
  <2>1. gen' = [gen EXCEPT ![i] = "failed"] /\ UNCHANGED <<signer, bundle, kind>>
    BY <1>3 DEF CollectSignature, Step
  <2>2. EvidenceTypes'
    BY <1>1, <2>1 DEF EvidenceInv, EvidenceTypes, Stage
  <2>3. gen'[i] = "failed" /\ \A j \in Images \ {i} : gen'[j] = gen[j]
    BY <2>1 DEF EvidenceInv, EvidenceTypes
  <2>4. ScanInOrder(i)' /\ BundleSoFar(i)'
    BY <1>1, <2>1, <2>3 DEF EvidenceInv, ScanInOrder, BundleSoFar, Vetted
  <2>5. ASSUME NEW j \in Images PROVE (ScanInOrder(j) /\ BundleSoFar(j))'
    BY <1>1, <2>1, <2>3, <2>4, OtherImage DEF EvidenceInv
  <2>6. SignedIsVetted'
    BY <1>1, <2>3 DEF EvidenceInv, SignedIsVetted, ScanAccepted, Accepts, Vetted
  <2> QED
    BY <2>2, <2>5, <2>6 DEF EvidenceInv
<1> QED
  BY <1>2, <1>3

-----------------------------------------------------------------------------
\* A newer database: directories only get newer.
LEMMA UpdateStep == EvidenceInv /\ UpdateDatabase => EvidenceInv'
<1> SUFFICES ASSUME EvidenceInv, UpdateDatabase PROVE EvidenceInv'
  OBVIOUS
<1> USE EvidenceAssumption
<1>1. /\ UNCHANGED <<gen, identity, scanned, kind, signer, session, bundle, latest, tokens, signatures>>
      /\ database' \in Nat /\ cache' \in [Images -> Nat]
      /\ \A j \in Images : cache[j] <= cache'[j]
  BY DEF EvidenceInv, EvidenceTypes, UpdateDatabase
<1>2. EvidenceTypes'
  BY <1>1 DEF EvidenceInv, EvidenceTypes
<1>3. ASSUME NEW j \in Images PROVE ScanInOrder(j)'
  <2>1. cache[j] <= cache'[j] /\ cache[j] \in Nat /\ cache'[j] \in Nat /\ identity[j] \in Nat /\ scanned[j] \in Nat
    BY <1>1 DEF EvidenceInv, EvidenceTypes
  <2> QED
    BY <1>1, <2>1 DEF EvidenceInv, ScanInOrder, ScanAccepted, Accepts
<1>4. ASSUME NEW j \in Images PROVE BundleSoFar(j)'
  BY <1>1 DEF EvidenceInv, BundleSoFar
<1> QED
  BY <1>1, <1>2, <1>3, <1>4 DEF EvidenceInv, SignedIsVetted, ScanAccepted, Accepts

LEMMA EvidenceStep == EvidenceInv /\ [EvidenceNext]_evidenceVars => EvidenceInv'
<1> SUFFICES ASSUME EvidenceInv, [EvidenceNext]_evidenceVars PROVE EvidenceInv'
  OBVIOUS
<1>1. CASE RotateKey
  <2>1. UNCHANGED <<gen, identity, scanned, kind, signer, session, bundle, cache, database, tokens, signatures>> /\ latest' \in Nat
    BY <1>1 DEF RotateKey, EvidenceInv, EvidenceTypes
  <2> QED
    BY <2>1 DEF EvidenceInv, EvidenceTypes, ScanInOrder, BundleSoFar, SignedIsVetted, ScanAccepted, Accepts
<1>2. CASE UNCHANGED evidenceVars
  BY <1>2 DEF evidenceVars, EvidenceInv, EvidenceTypes, ScanInOrder, BundleSoFar, SignedIsVetted, ScanAccepted, Accepts
<1> QED
  BY <1>1, <1>2, UpdateStep, ScanStep, SessionStep, CollectStep DEF EvidenceNext

-----------------------------------------------------------------------------
\* An accepted bundle holds five kinds under one trusted key version, made
\* for a scan of the database it names, and leaves no token (pipeline.go).
THEOREM AcceptedBundles == EvidenceSpec => []BundleIsCoherent
<1>1. EvidenceInv => BundleIsCoherent
  <2> SUFFICES ASSUME EvidenceInv, NEW i \in Images, gen[i] = "accepted"
               PROVE  /\ \E v \in SupplyPolicy.AllowedKeyVersions : bundle[i] = {<<Kinds[k], v>> : k \in 1 .. Len(Kinds)}
                      /\ scanned[i] = identity[i] /\ scanned[i] >= FreshFrom
                      /\ i \notin tokens
    BY DEF BundleIsCoherent
  <2>1. kind[i] = 5 /\ Len(Kinds) = 5
    BY DEF EvidenceInv, BundleSoFar, Kinds
  <2>2. signer[i] \in SupplyPolicy.AllowedKeyVersions /\ bundle[i] = {<<Kinds[k], signer[i]>> : k \in 1 .. 5}
    BY <2>1 DEF EvidenceInv, BundleSoFar
  <2>3. scanned[i] = identity[i] /\ scanned[i] >= FreshFrom
    BY EvidenceAssumption DEF EvidenceInv, EvidenceTypes, ScanInOrder, ScanAccepted, Vetted
  <2>4. i \notin tokens
    BY DEF EvidenceInv, BundleSoFar
  <2> QED
    BY <2>1, <2>2, <2>3, <2>4
<1> QED
  BY <1>1, EvidenceInitially, EvidenceStep, PTL DEF EvidenceSpec

\* Nothing is signed for an image whose own scan the policy did not accept,
\* whatever failed in between (pipeline.go, openbao.go).
THEOREM OnlyAcceptedIsSigned == EvidenceSpec => []DeniedIsNeverSigned
<1>1. EvidenceInv => DeniedIsNeverSigned
  BY DEF EvidenceInv, SignedIsVetted, ScanAccepted, DeniedIsNeverSigned
<1> QED
  BY <1>1, EvidenceInitially, EvidenceStep, PTL DEF EvidenceSpec
=============================================================================
