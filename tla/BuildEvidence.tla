---------------------------- MODULE BuildEvidence ----------------------------
(***************************************************************************)
(* The evidence of a build output (buildsupply) and its signing authority  *)
(* (buildsigning): Pipeline.Generate analyzes the image, holds the summary *)
(* against the policy and has five payloads signed, each by a call of the  *)
(* signer that logs in to OpenBao, reads the transit key, signs with its   *)
(* latest version and revokes its own token.                               *)
(*                                                                         *)
(* Two things change under a running Generate: the vulnerability database, *)
(* and the version of the signing key. A report is the set of findings an  *)
(* image has under a database version.                                     *)
(***************************************************************************)
EXTENDS Naturals, Sequences, FiniteSets

CONSTANTS
  Images,            \* Generate requests, one per image
  Findings,          \* Findings[i][v]: what the scanner reports
  SupplyPolicy,      \* llbcompiler.SupplyChainPolicy
  Databases,         \* number of database versions
  FreshFrom,         \* the first of them that is not stale
  KeyVersions,       \* number of versions of the transit key
  SignerCapacity,    \* calls SignEvidence admits at a time
  MaxEvidenceFaults  \* bound: failed calls of a behaviour

ASSUME EvidenceAssumption ==
  /\ Databases \in Nat \ {0} /\ KeyVersions \in Nat \ {0}
  /\ FreshFrom \in 1 .. Databases /\ SignerCapacity \in Nat \ {0}
  /\ SupplyPolicy.AllowedKeyVersions \subseteq 1 .. KeyVersions
  /\ MaxEvidenceFaults \in Nat

\* The image signature is made first, the attestations after it.
Kinds == <<"signature", "sbom", "vulnerability_scan", "provenance", "policy_decision">>

-----------------------------------------------------------------------------
\* normalizeTrivyReport: counts per class; a finding out of bounds refuses
\* the report; a configuration check that passed is listed, not counted.
Malformed == [malformed |-> TRUE]
normalizeTrivyReport(report) ==
  LET Count(kind) == {f.class : f \in {g \in report : g.kind = kind /\ g.status # "PASS"}} IN
  IF \E f \in report : f.class = "" THEN Malformed
  ELSE [Vulnerabilities |-> Count("vulnerability"), Secrets |-> Count("secret"),
        Misconfigurations |-> Count("misconfiguration"), Licenses |-> Count("license")]

\* evaluatePolicy, in its order.
evaluatePolicy(policy, summary) ==
  CASE policy.RequireSecretFree /\ summary.Secrets # {} -> "security_secret_found"
    [] policy.DeniedVulnerabilitySeverities \cap summary.Vulnerabilities # {} -> "security_vulnerability_policy"
    [] policy.DeniedLicenseClassifications \cap summary.Licenses # {} -> "security_license_policy"
    [] /\ policy.RequireImageConfigurationScan
       /\ policy.DeniedConfigurationSeverities \cap summary.Misconfigurations # {} -> "security_configuration_policy"
    [] OTHER -> "accepted"

Accepts(i, v) ==
  LET summary == normalizeTrivyReport(Findings[i][v]) IN
  summary # Malformed /\ evaluatePolicy(SupplyPolicy, summary) = "accepted"

VARIABLES
  gen,         \* step of each Generate
  identity,    \* database identity Analyze read before the scan
  scanned,     \* database version the scanner really used
  kind,        \* number of payloads each Generate has signed
  signer,      \* key version of its image signature
  session,     \* key version its current signing session has read
  bundle,      \* the signatures collected: <<kind, key version>>
  cache,       \* version in the database directory each Analyze resolved
  database,    \* version behind the scanner's cache path
  latest,      \* latest version of the transit key
  tokens,      \* signing tokens OpenBao has issued and not revoked: images
  signatures,  \* every signature ever made: <<image, kind>>
  efaults

evidenceVars == <<gen, identity, scanned, kind, signer, session, bundle,
                  cache, database, latest, tokens, signatures, efaults>>

EvidenceInit ==
  /\ gen = [i \in Images |-> "start"]
  /\ identity = [i \in Images |-> 0] /\ scanned = [i \in Images |-> 0]
  /\ kind = [i \in Images |-> 0] /\ signer = [i \in Images |-> 0] /\ session = [i \in Images |-> 0]
  /\ bundle = [i \in Images |-> {}]
  /\ cache = [i \in Images |-> 0] /\ database = 1 /\ latest = 1
  /\ tokens = {} /\ signatures = {} /\ efaults = 0

Step(i, s) == gen' = [gen EXCEPT ![i] = s]
worldVars == <<cache, database, latest, efaults>>

-----------------------------------------------------------------------------
\* Analyze: the tools have the versions the policy names, the cache link is
\* resolved once, and the database behind it is identified.
IdentifyDatabase(i) ==
  /\ gen[i] = "start"
  /\ IF database < FreshFrom
     THEN Step(i, "failed") /\ UNCHANGED <<cache, identity>>         \* stale database
     ELSE /\ Step(i, "scan")
          /\ cache' = [cache EXCEPT ![i] = database]
          /\ identity' = [identity EXCEPT ![i] = database]
  /\ UNCHANGED <<scanned, kind, signer, session, bundle, tokens, signatures, database, latest, efaults>>

\* Syft, and Trivy twice, over the extracted and verified layout.
RunScanners(i) ==
  /\ gen[i] = "scan"
  /\ scanned' = [scanned EXCEPT ![i] = cache[i]]
  /\ Step(i, "compare")
  /\ UNCHANGED <<identity, kind, signer, session, bundle, tokens, signatures, worldVars>>

\* Mutant: the database is not identified again after the scan.
PolicyWithoutCompare(i) ==
  /\ gen[i] = "compare"
  /\ Step(i, IF Accepts(i, scanned[i]) THEN "sign" ELSE "denied")
  /\ UNCHANGED <<identity, scanned, kind, signer, session, bundle, tokens, signatures, worldVars>>

\* The database must still be the one identified; the reports are merged and
\* normalized and the summary is held against the policy. Only an accepted
\* image has statements made for it.
EvaluatePolicy(i) ==
  /\ gen[i] = "compare"
  /\ Step(i, IF cache[i] # identity[i] THEN "failed"
             ELSE IF Accepts(i, scanned[i]) THEN "sign" ELSE "denied")
  /\ UNCHANGED <<identity, scanned, kind, signer, session, bundle, tokens, signatures, worldVars>>

\* SignEvidence: a slot or ResourceExhausted; then login.
InSigner == {i \in Images : gen[i] \in {"key", "seal", "revoke", "abandon"}}
Login(i) ==
  /\ gen[i] = "sign"
  /\ IF Cardinality(InSigner) < SignerCapacity
     THEN Step(i, "key") /\ tokens' = tokens \cup {i}
     ELSE Step(i, "failed") /\ UNCHANGED tokens
  /\ UNCHANGED <<identity, scanned, kind, signer, session, bundle, signatures, worldVars>>

ReadKey(i) ==
  /\ gen[i] = "key"
  /\ session' = [session EXCEPT ![i] = latest]
  /\ Step(i, "seal")
  /\ UNCHANGED <<identity, scanned, kind, signer, bundle, tokens, signatures, worldVars>>

\* The key version read is the one asked for, whatever is latest by now.
SignPayload(i) ==
  /\ gen[i] = "seal"
  /\ signatures' = signatures \cup {<<i, Kinds[kind[i] + 1]>>}
  /\ Step(i, "revoke")
  /\ UNCHANGED <<identity, scanned, kind, signer, session, bundle, tokens, worldVars>>

\* Mutant: a signature of another key version joins the bundle.
CollectAny(i) ==
  /\ gen[i] = "revoke"
  /\ tokens' = tokens \ {i}
  /\ signer' = [signer EXCEPT ![i] = session[i]]
  /\ bundle' = [bundle EXCEPT ![i] = @ \cup {<<Kinds[kind[i] + 1], session[i]>>}]
  /\ kind' = [kind EXCEPT ![i] = @ + 1]
  /\ Step(i, IF kind'[i] = Len(Kinds) THEN "accepted" ELSE "sign")
  /\ UNCHANGED <<identity, scanned, session, signatures, worldVars>>

\* The session's token revokes itself before Sign returns. validateSignature
\* wants a trusted key; sameSigner wants the key of the image signature. The
\* fifth payload completes the bundle, which ValidateBundle checks as a whole.
CollectSignature(i) ==
  /\ gen[i] = "revoke"
  /\ tokens' = tokens \ {i}
  /\ IF session[i] \in SupplyPolicy.AllowedKeyVersions /\ signer[i] \in {0, session[i]}
     THEN /\ signer' = [signer EXCEPT ![i] = session[i]]
          /\ bundle' = [bundle EXCEPT ![i] = @ \cup {<<Kinds[kind[i] + 1], session[i]>>}]
          /\ kind' = [kind EXCEPT ![i] = @ + 1]
          /\ Step(i, IF kind'[i] = Len(Kinds) THEN "accepted" ELSE "sign")
     ELSE Step(i, "failed") /\ UNCHANGED <<signer, bundle, kind>>
  /\ UNCHANGED <<identity, scanned, session, signatures, worldVars>>

\* A tool, the transit engine or the RPC fails. Inside Sign the deferred
\* revocation still runs; when that fails the material is withheld and the
\* token is left to its lease. A lost answer leaves a signature behind.
EvidenceCallFails(i) ==
  /\ efaults < MaxEvidenceFaults /\ efaults' = efaults + 1
  /\ \/ gen[i] \in {"start", "scan", "compare", "sign", "revoke"} /\ Step(i, "failed") /\ UNCHANGED signatures
     \/ /\ gen[i] \in {"key", "seal"}
        /\ signatures' \in {signatures, IF gen[i] = "seal" THEN signatures \cup {<<i, Kinds[kind[i] + 1]>>} ELSE signatures}
        /\ Step(i, "abandon")
  /\ UNCHANGED <<identity, scanned, kind, signer, session, bundle, tokens, cache, database, latest>>

AbandonSession(i) ==
  /\ gen[i] = "abandon"
  /\ tokens' = tokens \ {i}
  /\ Step(i, "failed")
  /\ UNCHANGED <<identity, scanned, kind, signer, session, bundle, signatures, worldVars>>

\* A newer database arrives: as a directory of its own the cache path is
\* linked to, or written over the one that running scans have resolved.
UpdateDatabase ==
  /\ database < Databases
  /\ database' = database + 1
  /\ \/ UNCHANGED cache
     \/ cache' = [i \in Images |-> IF cache[i] = database THEN database + 1 ELSE cache[i]]
  /\ UNCHANGED <<gen, identity, scanned, kind, signer, session, bundle, latest, tokens, signatures, efaults>>

\* An operator rotates the transit key.
RotateKey ==
  /\ latest < KeyVersions
  /\ latest' = latest + 1
  /\ UNCHANGED <<gen, identity, scanned, kind, signer, session, bundle, cache, database, tokens, signatures, efaults>>

EvidenceNext ==
  \/ UpdateDatabase \/ RotateKey
  \/ \E i \in Images :
       \/ IdentifyDatabase(i) \/ RunScanners(i) \/ EvaluatePolicy(i)
       \/ Login(i) \/ ReadKey(i) \/ SignPayload(i) \/ CollectSignature(i)
       \/ AbandonSession(i) \/ EvidenceCallFails(i)

EvidenceSpec == EvidenceInit /\ [][EvidenceNext]_evidenceVars

-----------------------------------------------------------------------------
\* What an accepted bundle vouches for: five payloads of five kinds, under
\* one key version the policy trusts although the key may rotate at any
\* point; a scan that ran on the very database its report names; and no
\* signing token left behind (pipeline.go, openbao.go).
BundleIsCoherent ==
  \A i \in Images : gen[i] = "accepted" =>
    /\ \E v \in SupplyPolicy.AllowedKeyVersions : bundle[i] = {<<Kinds[k], v>> : k \in 1 .. Len(Kinds)}
    /\ scanned[i] = identity[i] /\ scanned[i] >= FreshFrom
    /\ i \notin tokens

\* Nothing about an image is ever signed unless its own scan, under the
\* database the scan is reported for, was accepted by the policy: a denied
\* image leaves no signature anywhere, whatever failed in between.
DeniedIsNeverSigned ==
  \A s \in signatures : scanned[s[1]] = identity[s[1]] /\ Accepts(s[1], identity[s[1]])
=============================================================================
