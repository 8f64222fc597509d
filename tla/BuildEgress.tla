----------------------------- MODULE BuildEgress -----------------------------
(***************************************************************************)
(* One CONNECT of a build worker: the forwarder beside BuildKit adds the   *)
(* worker's certificate (forwarder.go), the proxy decides, audits, dials   *)
(* and relays (proxy.go). Time is counted in units of which a capability   *)
(* lasts a few; every deadline below is a deadline of the code.            *)
(***************************************************************************)
EXTENDS EgressPolicy

CONSTANTS
  Connects,          \* scenarios: [lock, direct, connect, host, address, port, hello]
  DNSResponses,      \* what the DNS server may answer to a query
  Capability,        \* [notBefore, expires] of the assignment
  Issuers,           \* issuer certificates: [id, notBefore, notAfter]
  TunnelLifetime, ClientHelloTimeout,
  MaxEgressClock,    \* bound: time
  MaxEgressFaults    \* bound: failures of a behaviour

ASSUME EgressAssumption ==
  /\ Capability.expires \in Nat /\ TunnelLifetime \in Nat /\ ClientHelloTimeout \in Nat
  /\ \A c \in Connects : c.host # Bad /\ c.hello.names \in Seq(STRING)

VARIABLES
  ecase,      \* the scenario
  ecert,      \* the worker's certificate, Bad without one
  etrusted,   \* issuer the proxy's client CA file holds
  efwd,       \* the client's side, the forwarder's unless the request came from
              \* a direct holder of the certificate: idle, connecting, relay, closed
  epc,        \* step of the proxy's handler
  epolicy,    \* the capability the handler read, Bad before
  eleft,      \* candidate addresses still to be tried
  eaudit,     \* audit events: [action, reason, address], address 0 if none
  edialed,    \* addresses connections were opened to
  eclientBy,  \* deadlines of the two connections of the tunnel: the
  eupstreamBy,\* client's for reading, and the upstream's; 0 when not set
  eclosed,    \* the BuildKit client or the destination has closed its side
  esent,      \* when the last byte was relayed, 0 if none was
  eclock, efailures

egressVars == <<ecase, ecert, etrusted, efwd, epc, epolicy, eleft, eaudit, edialed,
                eclientBy, eupstreamBy, eclosed, esent, eclock, efailures>>
tunnelVars == <<eclientBy, eupstreamBy, eclosed, esent>>
siteVars == <<ecase, ecert, etrusted, eclock>>

EgressInit ==
  /\ ecase \in Connects
  /\ ecert = Bad /\ etrusted = 1 /\ efwd = "idle" /\ epc = "issue" /\ epolicy = Bad
  /\ eleft = <<>> /\ eaudit = {} /\ edialed = {}
  /\ eclientBy = 0 /\ eupstreamBy = 0 /\ eclosed = FALSE /\ esent = 0
  /\ eclock = 0 /\ efailures = 0

EgressFault == efailures < MaxEgressFaults /\ efailures' = efailures + 1
NoEgressFault == UNCHANGED efailures

\* The allocator issues the worker's certificate when it creates the worker.
IssueCertificate ==
  /\ epc = "issue"
  /\ \E issuer \in Issuers :
       LET policy == NewPolicy(ecase.lock, Capability.notBefore, Capability.expires)
           cert == IF policy = Bad THEN Bad ELSE Issue(policy, issuer, eclock)
       IN ecert' = cert /\ epc' = IF cert = Bad THEN "closed" ELSE "forward"
  /\ UNCHANGED <<ecase, etrusted, efwd, epolicy, eleft, eaudit, edialed, tunnelVars, eclock, efailures>>

\* parseConnectAuthority.
ValidRequest == ecase.connect /\ (ecase.address # 0 \/ validHostname(ecase.host))

\* Forwarder.ServeHTTP, which sends on a valid CONNECT only, up to the TLS
\* handshake, which the proxy accepts if its trust roots, read anew for each
\* connection, cover the certificate.
ForwardConnect ==
  /\ epc = "forward"
  /\ \/ /\ efwd' = "connecting" /\ epc' = "identify" /\ NoEgressFault
        /\ ecase.direct \/ ValidRequest
        /\ ecert.issuer = etrusted /\ ecert.notBefore <= eclock /\ eclock < ecert.notAfter
     \/ /\ efwd' = "closed" /\ epc' = "closed" /\ NoEgressFault
        /\ \/ ~ ecase.direct /\ ~ ValidRequest
           \/ ecert.issuer # etrusted \/ eclock < ecert.notBefore \/ eclock >= ecert.notAfter
     \/ EgressFault /\ efwd' = "closed" /\ epc' = "closed"
  /\ UNCHANGED <<siteVars, epolicy, eleft, eaudit, edialed, tunnelVars>>

\* deny: an audit event that may not be written; the answer is never 200.
Deny(reason) ==
  /\ epc' = "closed" /\ efwd' = "closed"
  /\ \/ eaudit' = eaudit \cup {[action |-> "denied", reason |-> reason, address |-> 0]} /\ NoEgressFault
     \/ UNCHANGED eaudit /\ EgressFault

\* clientPolicy.
Identify ==
  /\ epc = "identify"
  /\ LET policy == PolicyFromCertificate(ecert, eclock) IN
     \/ policy = Bad /\ Deny("client_identity") /\ UNCHANGED epolicy
     \/ policy # Bad /\ epolicy' = policy /\ epc' = "authorize" /\ UNCHANGED <<efwd, eaudit, efailures>>
  /\ UNCHANGED <<siteVars, eleft, edialed, tunnelVars>>

\* A CONNECT to an authority that can be read; a literal address has to be
\* mapped, a domain to be a destination.
Authorize ==
  LET port == ecase.port
      public == publicDestination(epolicy, ecase.host, port)
      private == privateDomainDestination(epolicy, ecase.host, port)
  IN
  /\ epc = "authorize"
  /\ \/ /\ ~ ValidRequest
        /\ Deny(IF ecase.connect THEN "authority_invalid" ELSE "connect_required") /\ UNCHANGED eleft
     \/ /\ ValidRequest /\ ecase.address # 0
        /\ privateDestination(epolicy, ecase.address, port)
        /\ ~ forbiddenAddress(ecase.address) \/ allowedPrivateAddress(ecase.address)
        /\ eleft' = <<ecase.address>> /\ epc' = "record" /\ UNCHANGED <<efwd, eaudit, efailures>>
     \/ /\ ValidRequest /\ ecase.address # 0
        /\ \/ ~ privateDestination(epolicy, ecase.address, port)
           \/ forbiddenAddress(ecase.address) /\ ~ allowedPrivateAddress(ecase.address)
        /\ Deny("ip_not_mapped") /\ UNCHANGED eleft
     \/ /\ ValidRequest /\ ecase.address = 0 /\ ~ public /\ private = {}
        /\ Deny("domain_not_allowed") /\ UNCHANGED eleft
     \/ /\ ValidRequest /\ ecase.address = 0 /\ (public \/ private # {})
        /\ epc' = "resolve" /\ UNCHANGED <<efwd, eleft, eaudit, efailures>>
  /\ UNCHANGED <<siteVars, epolicy, edialed, tunnelVars>>

\* Mutant: one good address is enough.
JudgeAny(addresses) ==
  IF addresses = Bad THEN "dns_failed"
  ELSE IF \E a \in addresses : ~ forbiddenAddress(a) THEN "policy_match" ELSE "dns_address_forbidden"

\* Addresses a resolved domain may have under the policy.
Judge(addresses) ==
  LET public == publicDestination(epolicy, ecase.host, ecase.port)
      private == privateDomainDestination(epolicy, ecase.host, ecase.port)
  IN
  CASE addresses = Bad -> "dns_failed"
    [] public /\ \E a \in addresses : forbiddenAddress(a) -> "dns_address_forbidden"
    [] \E a \in addresses, id \in private : ~ privateDestinationContains(epolicy.gateways[id], a) -> "private_dns_mismatch"
    [] OTHER -> "policy_match"

\* Two queries, A and AAAA; the candidates are tried in order of address.
Resolve ==
  /\ epc = "resolve"
  /\ \E udp, tcp, other \in DNSResponses :
       LET a == query(udp, tcp, ecase.host)
           found == LookupNetIP(a, query(other, other, ecase.host))
           verdict == Judge(found)
       IN \/ /\ verdict = "policy_match" /\ epc' = "record" /\ eleft' \in Ascending(found)
             /\ UNCHANGED <<efwd, eaudit, efailures>>
          \/ verdict # "policy_match" /\ Deny(verdict) /\ UNCHANGED eleft
  /\ UNCHANGED <<siteVars, epolicy, edialed, tunnelVars>>

\* connect: an attempt that cannot be audited is not made.
RecordAttempt ==
  /\ epc = "record"
  /\ \/ /\ eaudit' = eaudit \cup {[action |-> "allowed", reason |-> "policy_match", address |-> Head(eleft)]}
        /\ epc' = "dial" /\ NoEgressFault /\ UNCHANGED efwd
     \/ EgressFault /\ epc' = "closed" /\ efwd' = "closed" /\ UNCHANGED eaudit
  /\ UNCHANGED <<siteVars, epolicy, eleft, edialed, tunnelVars>>

Dial ==
  /\ epc = "dial"
  /\ \/ /\ edialed' = edialed \cup {Head(eleft)} /\ epc' = "establish"
        /\ UNCHANGED <<efwd, eleft, eaudit, efailures>>
     \/ /\ Tail(eleft) # <<>> /\ EgressFault /\ eleft' = Tail(eleft) /\ epc' = "record"
        /\ UNCHANGED <<efwd, eaudit, edialed>>
     \/ /\ Tail(eleft) = <<>> /\ efailures < MaxEgressFaults /\ eleft' = <<>>
        /\ efailures' = efailures + 1 /\ epc' = "closed" /\ efwd' = "closed" /\ UNCHANGED edialed
        /\ eaudit' = eaudit \cup {[action |-> "denied", reason |-> "connect_failed", address |-> 0]}
  /\ UNCHANGED <<siteVars, epolicy, tunnelVars>>

Deadline == LET remaining == epolicy.expires - eclock IN
  eclock + (IF remaining < TunnelLifetime THEN remaining ELSE TunnelLifetime)

\* tunnel: both connections end with the capability; a deadline that has
\* passed makes the answer fail. With a domain the ClientHello comes first,
\* under a read deadline of its own.
Establish ==
  /\ epc = "establish"
  /\ eupstreamBy' = Deadline
  /\ \/ /\ Deadline > eclock /\ NoEgressFault
        /\ eclientBy' = IF ecase.address = 0 THEN eclock + ClientHelloTimeout ELSE Deadline
        /\ efwd' = "relay" /\ epc' = IF ecase.address = 0 THEN "hello" ELSE "relay"
     \/ /\ Deadline <= eclock \/ efailures < MaxEgressFaults
        /\ efailures' = IF Deadline <= eclock THEN efailures ELSE efailures + 1
        /\ epc' = "closed" /\ efwd' = "closed" /\ UNCHANGED eclientBy
  /\ UNCHANGED <<siteVars, epolicy, eleft, eaudit, edialed, eclosed, esent>>

\* Mutant: a client that sends nothing is waited for.
ReadHelloPatient ==
  /\ epc = "hello"
  /\ Len(ecase.hello.records) > 0 /\ eclientBy' = 0
  /\ IF readValidatedClientHello(ecase.hello, ecase.host) /\ eclock < eupstreamBy
     THEN epc' = "relay" /\ esent' = eclock /\ UNCHANGED efwd
     ELSE epc' = "closed" /\ efwd' = "closed" /\ UNCHANGED esent
  /\ UNCHANGED <<siteVars, epolicy, eleft, eaudit, edialed, eupstreamBy, eclosed, efailures>>

\* readValidatedClientHello, which leaves the client without read deadline;
\* the hello is written to the destination.
ReadHello ==
  /\ epc = "hello"
  /\ \/ /\ readValidatedClientHello(ecase.hello, ecase.host) /\ eclock < eclientBy
        /\ eclientBy' = 0
        /\ IF eclock < eupstreamBy
           THEN epc' = "relay" /\ esent' = eclock /\ UNCHANGED efwd
           ELSE epc' = "closed" /\ efwd' = "closed" /\ UNCHANGED esent
        /\ UNCHANGED <<eaudit, efailures>>
     \/ /\ (Len(ecase.hello.records) > 0 /\ ~ readValidatedClientHello(ecase.hello, ecase.host)) \/ eclock >= eclientBy
        /\ Deny("tls_sni_mismatch") /\ UNCHANGED <<eclientBy, esent>>
  /\ UNCHANGED <<siteVars, epolicy, eleft, edialed, eupstreamBy, eclosed>>

\* A byte goes through the tunnel in one of its directions.
Relay ==
  /\ epc = "relay" /\ ~ eclosed
  /\ eclock < eupstreamBy
  /\ esent' = eclock /\ eclock > esent
  /\ UNCHANGED <<siteVars, efwd, epc, epolicy, eleft, eaudit, edialed, eclientBy, eupstreamBy, eclosed, efailures>>

\* A copy ends on a close or a deadline; both connections are closed, and
\* with the proxy's the forwarder's.
RelayEnds ==
  /\ epc = "relay"
  /\ eclosed \/ eclock >= eupstreamBy \/ (eclientBy # 0 /\ eclock >= eclientBy)
  /\ epc' = "closed" /\ efwd' = "closed"
  /\ UNCHANGED <<siteVars, epolicy, eleft, eaudit, edialed, tunnelVars, efailures>>

PeerCloses ==
  /\ epc = "relay" /\ ~ eclosed
  /\ eclosed' = TRUE
  /\ UNCHANGED <<siteVars, efwd, epc, epolicy, eleft, eaudit, edialed, eclientBy, eupstreamBy, esent, efailures>>

\* The issuer is replaced, and the file of trusted issuers with it.
RotateIssuer ==
  /\ etrusted = 1
  /\ etrusted' = 2
  /\ UNCHANGED <<ecase, ecert, efwd, epc, epolicy, eleft, eaudit, edialed, tunnelVars, eclock, efailures>>

EgressTick ==
  /\ eclock < MaxEgressClock
  /\ eclock' = eclock + 1
  /\ UNCHANGED <<ecase, ecert, etrusted, efwd, epc, epolicy, eleft, eaudit, edialed, tunnelVars, efailures>>

EgressStep ==
  \/ ForwardConnect \/ Identify \/ Authorize \/ Resolve \/ RecordAttempt
  \/ Dial \/ Establish \/ ReadHello \/ RelayEnds
EgressNext == IssueCertificate \/ EgressStep \/ Relay \/ PeerCloses \/ RotateIssuer \/ EgressTick

EgressSpec == EgressInit /\ [][EgressNext]_egressVars

-----------------------------------------------------------------------------
\* The hosts a lock names.
RegistryHosts(lock) == UNION {parseRegistryAuthority(r) : r \in lock.base}
NetworkHosts(lock) == UNION {c.hosts : c \in {d \in lock.network : d.profile \in {"packages", "allowlist"}}}
LockHosts(lock) == RegistryHosts(lock) \cup NetworkHosts(lock)

\* Where the lock of the assignment lets a connection go, read from the lock
\* itself: a public address of a named host, or an address of a gateway the
\* lock names.
Granted(address) ==
  LET lock == ecase.lock
  IN \/ ecase.address = 0 /\ ecase.host \in LockHosts(lock) /\ ecase.port = 443 /\ AddressClass[address] = "public"
     \/ \E c \in lock.network :
          /\ c.profile = "private" /\ AddressClass[address] = "private"
          /\ ecase.port \in Mappings[c.gateway].ports
          /\ \E cidr \in Mappings[c.gateway].cidrs : address \in cidr
          /\ ecase.address = address \/ ecase.host \in Mappings[c.gateway].hosts

\* Whatever DNS answers and whenever the capability ends: a connection is
\* opened only where the signed lock allows it, after the attempt was
\* audited; nothing is relayed to a domain but after a ClientHello for it;
\* and no byte passes once the capability has expired.
EgressIsAuthorized ==
  /\ \A address \in edialed :
       /\ Granted(address)
       /\ \E event \in eaudit : event.action = "allowed" /\ event.address = address
  /\ esent > 0 => /\ esent < Capability.expires
                  /\ ecase.address # 0 \/ ecase.hello.names = <<ecase.host>>

\* A tunnel that was established is torn down, on both sides of the proxy,
\* even if neither end ever closes or sends anything.
TunnelEnds == []<>(epc \notin {"hello", "relay"} /\ efwd # "relay")
=============================================================================
