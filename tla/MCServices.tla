----------------------------- MODULE MCServices ------------------------------
(***************************************************************************)
(* Services of the build and source planes that share no state with each   *)
(* other, checked in one run: `part` names the one that moves. The others  *)
(* stay in their initial states, so the run's states are the sum, not the  *)
(* product, of the components'.                                            *)
(***************************************************************************)
EXTENDS BuildRegistry, BuildEvidence, BuildWorker, Outputs, FileStore, QuotaGuard,
        LogRedactor, BuildEgress, ProviderEgress, ResidueAgent, TLC

VARIABLE part

CONSTANTS p1, p2, p3, p4, i1, i2, a1, a2, a3, a4

-----------------------------------------------------------------------------
(* Registry: three publications of one build, two of them with the same    *)
(* business key, one of them static, and a publication of another build;   *)
(* every pair that matters runs together.                                  *)
MCBuild == p1 :> "b1" @@ p2 :> "b1" @@ p3 :> "b1" @@ p4 :> "b2"
MCKey == p1 :> "k1" @@ p2 :> "k1" @@ p3 :> "k2" @@ p4 :> "k3"
MCSubject == [p \in {p1, p2, p3, p4} |-> "d1"]
MCSettings == {
  [together |-> {p1, p2}, api |-> TRUE, given |-> {"d1"}],
  [together |-> {p1, p3}, api |-> TRUE, given |-> {}],
  [together |-> {p1, p4}, api |-> FALSE, given |-> {}]}

(* Evidence: an image that turns bad with the second database version, and *)
(* one that turns bad with the third.                                      *)
Finding(k, c, s) == [kind |-> k, class |-> c, status |-> s]
MCFindings ==
  i1 :> <<{}, {Finding("vulnerability", "CRITICAL", "")}, {Finding("misconfiguration", "HIGH", "PASS")}>> @@
  i2 :> <<{}, {Finding("license", "notice", "")}, {Finding("secret", "LOW", ""), Finding("misconfiguration", "HIGH", "FAIL")}>>
MCSupplyPolicy ==
  [RequireSecretFree |-> TRUE, RequireImageConfigurationScan |-> TRUE,
   DeniedVulnerabilitySeverities |-> {"CRITICAL"}, DeniedLicenseClassifications |-> {"forbidden"},
   DeniedConfigurationSeverities |-> {"HIGH"}, AllowedKeyVersions |-> {1, 2}]

(* Worker: two builds that declare the same outputs in opposite order, and *)
(* a second attempt of the first one that uses secrets, also beside one    *)
(* without caches.                                                         *)
MCBuildID == a1 :> "b1" @@ a2 :> "b2" @@ a3 :> "b1" @@ a4 :> "b2"
MCDeclared == a1 :> <<2, 1>> @@ a2 :> <<1, 2>> @@ a3 :> <<1>> @@ a4 :> <<1>>
MCOverlaps == {{a1, a2}, {a1, a3}, {a3, a4}}

File(p, c) == [path |-> p, type |-> "file", contents |-> c, manifests |-> <<>>]
Dir(p) == [path |-> p, type |-> "dir", contents |-> "", manifests |-> <<>>]
Index(ms) == [path |-> "index.json", type |-> "file", contents |-> "", manifests |-> ms]
Layout == File("oci-layout", "")
Blobs(s) == [i \in 1 .. Len(s) |-> File(s[i], s[i])]
MCOCIManifest ==
  "m1" :> [config |-> "c1", layers |-> <<"l1", "l2">>, valid |-> TRUE] @@
  "m2" :> [config |-> "c1", layers |-> <<"l1">>, valid |-> TRUE] @@
  "m3" :> [config |-> "c1", layers |-> <<"l1", "l1">>, valid |-> TRUE] @@
  "m5" :> [config |-> "c5", layers |-> <<"l5">>, valid |-> TRUE] @@
  "m6" :> [config |-> "c6", layers |-> <<"l6">>, valid |-> TRUE]
MCOCIArchives == {
  <<Layout, Index(<<"m1">>)>> \o Blobs(<<"m1", "c1", "l1", "l2">>),
  <<Dir("blobs"), Layout, Index(<<"m2">>)>> \o Blobs(<<"m2", "c1", "l1">>),
  <<Layout, Index(<<"m2">>)>> \o Blobs(<<"m2", "c1", "l1", "l2">>),
  <<Layout, Index(<<"m1">>), File("l1", "l2")>> \o Blobs(<<"m1", "c1", "l2">>),
  <<Layout, Index(<<"m2", "m1">>)>> \o Blobs(<<"m1", "m2", "c1", "l1">>),
  <<Layout, Index(<<"m3">>)>> \o Blobs(<<"m3", "c1", "l1">>),
  <<Layout, Index(<<"m2">>)>> \o Blobs(<<"m2", "c1", "l1", "l1">>),
  <<Dir("blobs"), Dir("blobs"), Layout, Index(<<"m2">>)>> \o Blobs(<<"m2", "c1", "l1">>),
  <<Layout, Index(<<"m2">>), [Dir("l2") EXCEPT !.type = "link"]>> \o Blobs(<<"m2", "c1", "l1">>)}
MCCacheExport ==
  "d1" :> <<Layout, Index(<<"m1">>)>> \o Blobs(<<"m1", "c1", "l1", "l2">>) @@
  "d2" :> <<Layout, Index(<<"m1", "m5">>)>> \o Blobs(<<"m1", "c1", "l1", "l2", "m5", "c5", "l5">>) @@
  "d3" :> <<Layout, Index(<<"m1">>)>> \o Blobs(<<"m1", "c1", "l1", "l2", "l5">>)

(* Static outputs: another file, a changed one, a missing one, a link      *)
(* instead of one, and one file too many.                                  *)
MCBundles == {
  "a" :> "1" @@ "b" :> "2", "a" :> "1" @@ "b" :> "2" @@ "d" :> "dir", "a" :> "1" @@ "b" :> "3",
  "a" :> "1", "a" :> "1" @@ "b" :> "link", "a" :> "1" @@ "b" :> "2" @@ "c" :> "3"}

(* Logs: a secret that begins like another one, and one of two lines, the  *)
(* second of which begins where the first secret ends.                     *)
MCSecrets == {<<"s", "t">>, <<"s">>, <<"u", "NL", "t", "u">>}
MCLogChunks == {<<"s">>, <<"t">>, <<"u", "NL">>, <<"x", "NL", "s">>, <<"u", "t", "NL">>, <<"x", "x">>}

(* Egress: addresses of every class; gateways, of which the second is      *)
(* wrong and the third serves a host of the first; connections that are    *)
(* granted, that fall outside the lock, and that present a wrong hello.    *)
MCAddressClass == <<"special", "public", "private", "private", "public", "reserved">>
MCMappings == <<
  [cidrs |-> {{3}}, ports |-> {5432}, hosts |-> {"db.corp"}],
  [cidrs |-> {{3, 5}}, ports |-> {443}, hosts |-> {}],
  [cidrs |-> {{4}}, ports |-> {5432}, hosts |-> {"db.corp"}]>>
Granting(n, p, h, g) == [node |-> n, profile |-> p, hosts |-> h, gateway |-> g]
PublicLock == [base |-> {"ghcr.io"}, network |-> {Granting("n1", "allowlist", {"api.example"}, 9), Granting("n2", "none", {}, 0)}]
PrivateLock == [base |-> {"docker.io"}, network |-> {Granting("n1", "private", {}, 1), Granting("n2", "private", {}, 3)}]
BadPrefixLock == [base |-> {"ghcr.io"}, network |-> {Granting("n1", "private", {}, 2)}]
BadNameLock == [base |-> {"r.example"}, network |-> {Granting("n1", "packages", {"-"}, 9)}]
BadProfileLock == [base |-> {"ghcr.io"}, network |-> {Granting("n1", "wide", {"api.example"}, 9)}]
Hello(names) == [records |-> <<"part", "last">>, names |-> names]
Silent == [records |-> <<>>, names |-> <<>>]
To443(l, h, hello) == [lock |-> l, direct |-> FALSE, connect |-> TRUE, host |-> h, address |-> 0, port |-> 443, hello |-> hello]
ToAddress(l, a, port) == [lock |-> l, direct |-> FALSE, connect |-> TRUE, host |-> "", address |-> a, port |-> port, hello |-> Silent]
MCConnects == {
  To443(PublicLock, "api.example", Hello(<<"api.example">>)),
  To443(PublicLock, "api.example", Hello(<<"other.example">>)),
  To443(PublicLock, "api.example", Silent),
  [To443(PublicLock, "api.example", Hello(<<"api.example">>)) EXCEPT !.port = 80],
  To443(PublicLock, "-", Hello(<<"-">>)),
  [To443(PublicLock, "-", Hello(<<"-">>)) EXCEPT !.direct = TRUE],
  [To443(PublicLock, "ghcr.io", Hello(<<"ghcr.io">>)) EXCEPT !.direct = TRUE, !.connect = FALSE],
  [To443(PrivateLock, "db.corp", Hello(<<"db.corp">>)) EXCEPT !.port = 5432],
  ToAddress(PrivateLock, 3, 5432), ToAddress(PrivateLock, 4, 5432), ToAddress(BadPrefixLock, 3, 443),
  To443(BadNameLock, "-", Hello(<<"-">>)), To443(BadProfileLock, "api.example", Hello(<<"api.example">>))}
Answered(n, k, v) == [name |-> n, kind |-> k, value |-> v]
Response(h, q, r, as) == [header |-> h, question |-> q, rcode |-> r, answers |-> as]
MCDNSResponses == {
  Response("valid", "api.example", "success", {Answered("api.example", "address", 2), Answered("api.example", "address", 5)}),
  Response("valid", "api.example", "success", {Answered("api.example", "alias", "cdn.example"), Answered("cdn.example", "address", 1)}),
  Response("valid", "api.example", "success", {Answered("api.example", "alias", "cdn.example"), Answered("cdn.example", "alias", "api.example")}),
  Response("valid", "api.example", "name error", {}),
  Response("truncated", "api.example", "success", {}),
  Response("valid", "db.corp", "success", {Answered("db.corp", "address", 3)}),
  Response("valid", "db.corp", "success", {Answered("db.corp", "address", 4)}),
  Response("other id", "db.corp", "success", {})}
MCCapability == [notBefore |-> 1, expires |-> 4]
MCIssuers == {[id |-> 1, notBefore |-> 2, notAfter |-> 9], [id |-> 1, notBefore |-> 0, notAfter |-> 3], [id |-> 2, notBefore |-> 0, notAfter |-> 9]}
MCProviderAnswers == {<<>>, <<2>>, <<5, 1>>, <<2, 2>>, <<6, 2>>, <<2, 2, 2>>}
MCTunnelTo ==
  [t1 |-> [connect |-> TRUE, host |-> "api.github.com", port |-> 443],
   t2 |-> [connect |-> TRUE, host |-> "codeload.github.com", port |-> 443],
   t3 |-> [connect |-> TRUE, host |-> "other.example", port |-> 443],
   t4 |-> [connect |-> FALSE, host |-> "api.github.com", port |-> 443]]

-----------------------------------------------------------------------------
servicesVars == <<registryVars, evidenceVars, workerVars, ociVars, commitVars, fileVars, guardVars, logVars,
                  egressVars, providerVars, residueVars, part>>

\* A part that does not move starts in one fixed state of its own.
Init ==
  /\ part \in {"registry", "evidence", "worker", "oci", "commit", "files", "guard", "log", "egress", "provider", "residue"}
  /\ RegistryInit /\ (part # "registry" => ~ api)
  /\ WorkerInit /\ (part # "worker" => exec[a4] = "idle")
  /\ OCIInit /\ (part # "oci" => ofile = CHOOSE archive \in OCIArchives : TRUE)
  /\ CommitInit /\ (part # "commit" => kpc["k3"] = "absent" /\ kexported = CHOOSE b \in Bundles : hashable(b))
  /\ GuardInit /\ (part # "guard" => gmode = "external" /\ ~ gready)
  /\ EgressInit /\ (part # "egress" => ecase = CHOOSE connect \in Connects : TRUE)
  /\ ResidueInit /\ (part # "residue" => nruntime = {} /\ nmounts = {} /\ nagents = 1)
  /\ LogInit /\ (part # "log" => lpatterns = CHOOSE order \in NewRedactor : TRUE)
  /\ EvidenceInit /\ FileInit /\ ProviderInit

Next ==
  /\ part' = part
  /\ \/ /\ part = "registry" /\ RegistryNext
        /\ UNCHANGED <<evidenceVars, workerVars, ociVars, commitVars, fileVars, guardVars, logVars, egressVars, providerVars, residueVars>>
     \/ /\ part = "evidence" /\ EvidenceNext
        /\ UNCHANGED <<registryVars, workerVars, ociVars, commitVars, fileVars, guardVars, logVars, egressVars, providerVars, residueVars>>
     \/ /\ part = "worker" /\ WorkerNext
        /\ UNCHANGED <<registryVars, evidenceVars, ociVars, commitVars, fileVars, guardVars, logVars, egressVars, providerVars, residueVars>>
     \/ /\ part = "oci" /\ OCINext
        /\ UNCHANGED <<registryVars, evidenceVars, workerVars, commitVars, fileVars, guardVars, logVars, egressVars, providerVars, residueVars>>
     \/ /\ part = "commit" /\ CommitNext
        /\ UNCHANGED <<registryVars, evidenceVars, workerVars, ociVars, fileVars, guardVars, logVars, egressVars, providerVars, residueVars>>
     \/ /\ part = "files" /\ FileNext
        /\ UNCHANGED <<registryVars, evidenceVars, workerVars, ociVars, commitVars, guardVars, logVars, egressVars, providerVars, residueVars>>
     \/ /\ part = "guard" /\ GuardNext
        /\ UNCHANGED <<registryVars, evidenceVars, workerVars, ociVars, commitVars, fileVars, logVars, egressVars, providerVars, residueVars>>
     \/ /\ part = "log" /\ LogNext
        /\ UNCHANGED <<registryVars, evidenceVars, workerVars, ociVars, commitVars, fileVars, guardVars, egressVars, providerVars, residueVars>>
     \/ /\ part = "egress" /\ EgressNext
        /\ UNCHANGED <<registryVars, evidenceVars, workerVars, ociVars, commitVars, fileVars, guardVars, logVars, providerVars, residueVars>>
     \/ /\ part = "provider" /\ ProviderNext
        /\ UNCHANGED <<registryVars, evidenceVars, workerVars, ociVars, commitVars, fileVars, guardVars, logVars, egressVars, residueVars>>
     \/ /\ part = "residue" /\ ResidueNext
        /\ UNCHANGED <<registryVars, evidenceVars, workerVars, ociVars, commitVars, fileVars, guardVars, logVars, egressVars, providerVars>>

-----------------------------------------------------------------------------
\* Processes and calls make progress and time passes; nothing is assumed of
\* publishers, the guarded process, the peers of a tunnel or the operators.
\*  - registry: the broker's calls have timeouts, its sweeper is a ticker;
\*  - worker: every call of Execute ends, but for the wait for a file lock;
\*  - guard: the guard and its monitor are processes;
\*  - egress, provider: handlers run, deadlines pass.
Fairness ==
  /\ WF_registryVars(part = "registry" /\ BrokerStep)
  /\ WF_registryVars(part = "registry" /\ SweepExpired)
  /\ \A i \in 1 .. Cardinality(Publications) : WF_registryVars(part = "registry" /\ LeaseLapses(i))
  /\ \A a \in Attempts : WF_workerVars(part = "worker" /\ ExecuteStep(a))
  /\ WF_guardVars(part = "guard" /\ GuardStep) /\ WF_guardVars(part = "guard" /\ MonitorStep)
  /\ WF_egressVars(part = "egress" /\ EgressStep) /\ WF_egressVars(part = "egress" /\ EgressTick)
  /\ \A t \in Tunnels : WF_providerVars(part = "provider" /\ TunnelStep(t))

Spec == Init /\ [][Next]_servicesVars /\ Fairness

\* The tunnels of both proxies are torn down, even if neither end closes or
\* sends: by the deadlines the proxies set (buildegress/proxy.go tunnel,
\* provideregress/proxy.go serveHTTP).
TunnelsEnd == TunnelEnds /\ ProviderTunnelsEnd
=============================================================================
