---------------------------- MODULE EgressPolicy -----------------------------
(***************************************************************************)
(* The decisions of the build egress proxy (buildegress): the capability   *)
(* computed from an assignment's definition lock, the certificate that     *)
(* carries it, and what the proxy accepts of a DNS response and of a TLS   *)
(* ClientHello. An address is a number with a class, a prefix the set of   *)
(* its addresses.                                                          *)
(***************************************************************************)
EXTENDS Integers, Sequences, FiniteSets, SequencesExt

CONSTANTS
  Bad,                   \* the result of anything that fails
  AddressClass,          \* address -> "public" | "private" | "reserved", or "special":
                         \* reserved by buildegress' own prefixes alone
  BadNames,              \* texts that are no host name
  Mappings,              \* the site's private gateways: id -> [cidrs, ports, hosts];
                         \* ids are numbers in the order of their texts, 0 is none
  MaxResolvedAddresses,
  MaxCNAMEChain,
  MaxHelloRecords        \* records that fit in maxClientHelloBytes

ASSUME EgressPolicyAssumption ==
  /\ MaxResolvedAddresses \in Nat /\ MaxCNAMEChain \in Nat /\ MaxHelloRecords \in Nat
  /\ \A a \in DOMAIN AddressClass : a \in Nat

validHostname(name) == name \notin BadNames
forbiddenAddress(address) == AddressClass[address] # "public"
allowedPrivateAddress(address) == AddressClass[address] = "private"
allowedPrivatePrefix(cidr) == \A address \in cidr : allowedPrivateAddress(address)

\* The hosts a base image's registry is pulled from; all on port 443.
parseRegistryAuthority(registry) ==
  CASE registry = "docker.io" -> {"registry-1.docker.io", "auth.docker.io", "production.cloudfront.docker.com"}
    [] registry = "ghcr.io" -> {"ghcr.io", "pkg-containers.githubusercontent.com"}
    [] OTHER -> {registry}

Ports == 1 .. 65535
validPrivateDestination(endpoint) ==
  /\ endpoint.cidrs # {} /\ \A cidr \in endpoint.cidrs : allowedPrivatePrefix(cidr)
  /\ endpoint.ports # {} /\ endpoint.ports \subseteq Ports
  /\ \A host \in endpoint.hosts : validHostname(host)
normalizePrivateDestination(gateway) ==
  IF gateway \in DOMAIN Mappings /\ validPrivateDestination(Mappings[gateway]) THEN Mappings[gateway] ELSE Bad

\* Policy.Validate: the parts that an issued or a presented policy must have.
Validate(policy) ==
  /\ 0 < policy.notBefore /\ policy.notBefore < policy.expires
  /\ \A domain \in DOMAIN policy.destinations : validHostname(domain)
  /\ \A id \in DOMAIN policy.gateways : validPrivateDestination(policy.gateways[id])
  /\ \A capability \in policy.authority :
       CASE capability.profile = "none" -> capability.hosts = {} /\ capability.gateway = 0
         [] capability.profile = "private" -> capability.hosts = {} /\ capability.gateway # 0
         [] capability.profile \in {"packages", "allowlist"} ->
              capability.gateway # 0 /\ \A host \in capability.hosts : validHostname(host)
         [] OTHER -> FALSE

\* NewPolicy: the lock's base registries and network capabilities, and
\* nothing else, become destinations.
NewPolicy(lock, notBefore, expires) ==
  LET base == UNION {parseRegistryAuthority(registry) : registry \in lock.base}
      named == {c \in lock.network : c.profile \in {"packages", "allowlist"}}
      private == {c.gateway : c \in {d \in lock.network : d.profile = "private"}}
      domains == base \cup UNION {c.hosts : c \in named}
      policy == [notBefore |-> notBefore, expires |-> expires, authority |-> lock.network,
                 destinations |-> [domain \in domains |-> {443}],
                 gateways |-> [gateway \in private |-> normalizePrivateDestination(gateway)]]
  IN IF \E gateway \in private : policy.gateways[gateway] = Bad THEN Bad
     ELSE IF Validate(policy) THEN policy ELSE Bad

publicDestination(policy, domain, port) == domain \in DOMAIN policy.destinations /\ port \in policy.destinations[domain]
privateDestinationContains(gateway, address) == \E cidr \in gateway.cidrs : address \in cidr
privateDestination(policy, address, port) ==
  \E id \in DOMAIN policy.gateways :
    port \in policy.gateways[id].ports /\ privateDestinationContains(policy.gateways[id], address)
\* The first gateway that serves the domain, if one does.
privateDomainDestination(policy, domain, port) ==
  LET serving == {id \in DOMAIN policy.gateways : port \in policy.gateways[id].ports /\ domain \in policy.gateways[id].hosts}
  IN {id \in serving : \A other \in serving : id <= other}

\* CertificateAuthority.Issue: the capability starts no earlier than its issuer.
Issue(policy, issuer, now) ==
  LET begins == IF policy.notBefore < issuer.notBefore THEN issuer.notBefore ELSE policy.notBefore
      bound == [policy EXCEPT !.notBefore = begins]
  IN IF Validate(bound) /\ now >= begins - 1 /\ bound.expires > now /\ bound.expires <= issuer.notAfter
     THEN [policy |-> bound, notBefore |-> begins, notAfter |-> bound.expires, issuer |-> issuer.id]
     ELSE Bad

\* PolicyFromCertificate: the certificate and its policy agree, now.
PolicyFromCertificate(certificate, now) ==
  IF /\ Validate(certificate.policy)
     /\ certificate.notBefore = certificate.policy.notBefore /\ certificate.notAfter = certificate.policy.expires
     /\ certificate.notBefore <= now /\ now < certificate.notAfter
  THEN certificate.policy ELSE Bad

\* parseDNSResponse: the addresses at the end of the chain of aliases that
\* starts at the question; every record belongs to the chain.
parseDNSResponse(response, question) ==
  LET aliases == {answer \in response.answers : answer.kind = "alias"}
      addresses == {answer \in response.answers : answer.kind = "address"}
      target(name) == (CHOOSE answer \in aliases : answer.name = name).value
      chain[n \in 0 .. MaxCNAMEChain] ==
        IF n = 0 THEN <<question>>
        ELSE LET before == chain[n - 1] IN
             IF Last(before) \in {answer.name : answer \in aliases}
             THEN Append(before, target(Last(before))) ELSE before
      names == chain[MaxCNAMEChain]
  IN
  CASE response.header # "valid" \/ response.question # question -> Bad
    [] response.rcode = "name error" -> {}
    [] response.rcode \notin {"success", "name error"} -> Bad
    [] \E a, b \in aliases : a.name = b.name /\ a.value # b.value -> Bad
    [] ~ IsInjective(names) \/ Last(names) \in {a.name : a \in aliases} -> Bad
    [] \E a \in aliases : a.name \notin Range(names) -> Bad
    [] \E a \in addresses : a.name # Last(names) -> Bad
    [] OTHER -> {a.value : a \in addresses}

\* query: a truncated answer over UDP that is otherwise good is asked for again.
query(udp, tcp, question) ==
  IF udp.header = "truncated"
  THEN IF udp.question = question /\ udp.rcode = "success" THEN parseDNSResponse(tcp, question) ELSE Bad
  ELSE parseDNSResponse(udp, question)

\* DNSResolver.LookupNetIP: both record types, and neither may fail.
LookupNetIP(a, aaaa) ==
  IF a = Bad \/ aaaa = Bad THEN Bad
  ELSE IF Cardinality(a \cup aaaa) \in 1 .. MaxResolvedAddresses THEN a \cup aaaa ELSE Bad

\* The addresses of an answer in the order they are tried.
Ascending(addresses) ==
  {s \in SetToSeqs(addresses) : \A i, j \in 1 .. Cardinality(addresses) : i < j => s[i] < s[j]}

\* serverNameExtension: exactly one name.
clientHelloServerName(hello) ==
  IF Len(hello.names) = 1 /\ validHostname(hello.names[1]) THEN hello.names[1] ELSE Bad

\* readValidatedClientHello: handshake records up to the one that completes
\* the ClientHello, which carries nothing else.
readValidatedClientHello(hello, domain) ==
  /\ Len(hello.records) \in 1 .. MaxHelloRecords
  /\ \A i \in 1 .. Len(hello.records) : hello.records[i] = (IF i = Len(hello.records) THEN "last" ELSE "part")
  /\ clientHelloServerName(hello) = domain
=============================================================================
