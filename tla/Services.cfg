SPECIFICATION Spec
CONSTANTS
  p1 = p1 p2 = p2 p3 = p3 p4 = p4
  Publications = {p1, p2, p3, p4}
  Build <- MCBuild
  Key <- MCKey
  Subject <- MCSubject
  Static = {p3}
  Settings <- MCSettings
  MaxConcurrentIssues = 1
  MaxLeases = 1
  MaxRegistryFaults = 1
  i1 = i1 i2 = i2
  Images = {i1, i2}
  Findings <- MCFindings
  SupplyPolicy <- MCSupplyPolicy
  Databases = 3
  FreshFrom = 2
  KeyVersions = 3
  SignerCapacity = 1
  MaxEvidenceFaults = 1
  a1 = a1 a2 = a2 a3 = a3 a4 = a4
  Attempts = {a1, a2, a3, a4}
  BuildID <- MCBuildID
  Declared <- MCDeclared
  WithSecrets = {a3}
  WithoutCaches = {a4}
  CacheExport <- MCCacheExport
  Overlaps <- MCOverlaps
  MaxWorkerFaults = 1
  OCIManifest <- MCOCIManifest
  OCIArchives <- MCOCIArchives
  MaxOCIEntries = 9
  MaxOCILayers = 2
  MaxOCIChanges = 2
  Commits = {"k1", "k2", "k3"}
  Copying = {"k1", "k2"}
  CommitsTogether = {{"k1", "k2"}, {"k3"}}
  Bundles <- MCBundles
  StaticDigest = "m6"
  MaxBundleFiles = 2
  MaxBundleChanges = 2
  MaxCommitFaults = 1
  Handles = {"h1", "h2"}
  FileRecords = {"r1", "r2"}
  MaxEntries = 1
  MaxWrites = 2
  MaxFileFaults = 2
  MaxGuardFaults = 1
  Secrets <- MCSecrets
  LogChunks <- MCLogChunks
  MaxLogLineBytes = 3
  MaxLogBytes = 6
  Bad = Bad
  AddressClass <- MCAddressClass
  BadNames = {"-"}
  Mappings <- MCMappings
  MaxResolvedAddresses = 3
  MaxCNAMEChain = 2
  MaxHelloRecords = 2
  Connects <- MCConnects
  DNSResponses <- MCDNSResponses
  Capability <- MCCapability
  Issuers <- MCIssuers
  TunnelLifetime = 2
  ClientHelloTimeout = 1
  MaxEgressClock = 6
  MaxEgressFaults = 1
  Tunnels = {"t1", "t2", "t3", "t4"}
  TunnelTo <- MCTunnelTo
  AllowedHosts = {"api.github.com", "codeload.github.com"}
  ProviderAnswers <- MCProviderAnswers
  MaxIPs = 2
  MaxConcurrent = 1
  MaxProviderFaults = 1
  Containers = {"c1", "c2"}
  PodMounts = {"m1", "m2"}
  CleanupAttempts = 4
  MaxResidueFaults = 2
INVARIANTS
  TokenIsLeased CommittedIsComplete
  BundleIsCoherent DeniedIsNeverSigned
  CompleteIsProven CacheIsServable
  OutputsAreExact AcknowledgedIsDurable GuardedRun LogsAreRedacted
  EgressIsAuthorized ProviderStaysInside CleanNodeIsClean
PROPERTIES
  CapabilitiesEnd ExecutionsEnd OverQuotaStops TunnelsEnd
CHECK_DEADLOCK FALSE
