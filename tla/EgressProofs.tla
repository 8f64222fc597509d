----------------------------- MODULE EgressProofs ----------------------------
(***************************************************************************)
(* Theorems about the two proxies, for any connections, DNS answers, locks *)
(* and gateways, any number of tunnels and any number of faults.           *)
(*                                                                         *)
(* The build egress.  The certificate's policy is the lock and nothing     *)
(* else (FromLock), so every candidate address is one the lock grants      *)
(* (Candidates), and the deadline of the upstream connection is never past *)
(* the end of the capability (InTime).                                     *)
(*                                                                         *)
(* The provider egress.  The slots taken are counted by the requests being *)
(* served; a request has a connection only from its dial to its close.     *)
(***************************************************************************)
EXTENDS BuildEgress, ProviderEgress, FiniteSetTheorems, SequenceTheorems, TLAPS

\* An ordered answer lists addresses of the answer.
LEMMA AscendingLists ==
  ASSUME NEW S, Cardinality(S) \in Nat, NEW s \in Ascending(S)
  PROVE  s \in Seq(S) /\ Len(s) = Cardinality(S)
<1>1. s \in [1 .. Cardinality(S) -> S]
  BY DEF Ascending, SetToSeqs
<1> QED
  BY <1>1, SeqDef, LenProperties

-----------------------------------------------------------------------------
ServedHere == {t \in Tunnels : ppc[t] \notin {"idle", "answered"}}
Outside == {a \in DOMAIN AddressClass : AddressClass[a] \in {"public", "special"}}

Connected == {"establish", "relay", "close"}

ProviderInv ==
  /\ ppc \in [Tunnels -> {"idle", "authorize", "dial", "establish", "relay", "close", "release", "answered"}]
  /\ pleft \in [Tunnels -> Seq(Outside)]
  /\ popen = [t \in Tunnels |-> popen[t]]
  /\ \A t \in Tunnels : ppc[t] \in {"dial"} \cup Connected => TunnelTo[t].host \in AllowedHosts
  /\ \A t \in Tunnels : popen[t] # 0 => ppc[t] \in Connected /\ popen[t] \in Outside
  /\ IsFiniteSet(ServedHere) /\ pslots = Cardinality(ServedHere) /\ pslots <= MaxConcurrent

\* A step within a request that is being served changes no slot.
LEMMA SameServed ==
  ASSUME NEW t \in Tunnels, NEW pc, ppc = [u \in Tunnels |-> ppc[u]],
         ppc[t] \notin {"idle", "answered"}, pc \notin {"idle", "answered"}, GoOn(t, pc)
  PROVE  ServedHere' = ServedHere
BY DEF ServedHere, GoOn

\* Nothing of an answer that was accepted is private or reserved.
LEMMA AnswerIsOutside ==
  ASSUME NEW answer \in ProviderAnswers, ValidateDestination(answer)
  PROVE  IsFiniteSet(Range(answer)) /\ Range(answer) \subseteq Outside
<1>1. answer \in Seq(DOMAIN AddressClass) /\ DOMAIN answer = 1 .. Len(answer) /\ Len(answer) \in Nat
  BY ProviderAssumption
<1>2. Range(answer) = {answer[i] : i \in 1 .. Len(answer)}
  BY <1>1 DEF Range
<1>3. IsFiniteSet(Range(answer))
  <2>1. answer \in Surjection(1 .. Len(answer), Range(answer))
    BY <1>1, <1>2 DEF Surjection
  <2> QED
    BY <1>1, <2>1, FS_Interval, FS_Surjection
<1>4. \A i \in 1 .. Len(answer) : answer[i] \in Outside
  BY <1>1 DEF ValidateDestination, validateAddress, Outside
<1> QED
  BY <1>2, <1>3, <1>4

LEMMA ProviderStep ==
  ASSUME ProviderInv, NEW t \in Tunnels, TunnelStep(t) \/ PeerEnds(t) \/ ComeBack(t)
  PROVE  ProviderInv'
<1> USE DEF ProviderInv, Connected
<1>1. CASE Accept(t)
  <2>1. CASE TunnelTo[t].connect /\ pslots < MaxConcurrent
    <3>1. ppc' = [ppc EXCEPT ![t] = "authorize"] /\ pslots' = pslots + 1 /\ ppc[t] = "idle" /\ UNCHANGED <<pleft, popen>>
      BY <1>1, <2>1 DEF Accept, GoOn
    <3>2. ServedHere' = ServedHere \cup {t} /\ t \notin ServedHere
      BY <3>1 DEF ServedHere
    <3>3. IsFiniteSet(ServedHere') /\ Cardinality(ServedHere') = Cardinality(ServedHere) + 1 /\ Cardinality(ServedHere) \in Nat
      BY <3>2, FS_AddElement, FS_CardinalityType
    <3>4. pslots' <= MaxConcurrent
      BY <2>1, <3>1, <3>3, ProviderAssumption
    <3> QED
      BY <3>1, <3>3, <3>4
  <2>2. CASE ~ (TunnelTo[t].connect /\ pslots < MaxConcurrent)
    <3>1. ppc' = [ppc EXCEPT ![t] = "answered"] /\ ppc[t] = "idle" /\ UNCHANGED <<pslots, pleft, popen>>
      BY <1>1, <2>2 DEF Accept, GoOn
    <3>2. ServedHere' = ServedHere
      BY <3>1 DEF ServedHere
    <3> QED
      BY <3>1, <3>2
  <2> QED
    BY <2>1, <2>2
<1>2. CASE AuthorizeTunnel(t)
  <2>1. ppc[t] = "authorize" /\ UNCHANGED <<pslots, popen>>
    BY <1>2 DEF AuthorizeTunnel
  <2>2. CASE GoOn(t, "release") /\ UNCHANGED pleft
    <3>1. ServedHere' = ServedHere
      BY <2>1, <2>2, SameServed
    <3> QED
      BY <2>1, <2>2, <3>1 DEF GoOn
  <2>3. ASSUME TunnelTo[t].host \in AllowedHosts, NEW answer \in ProviderAnswers, ValidateDestination(answer),
               NEW decision \in Ascending(Range(answer)), pleft' = [pleft EXCEPT ![t] = decision], GoOn(t, "dial")
        PROVE  ProviderInv'
    <3>1. IsFiniteSet(Range(answer)) /\ Range(answer) \subseteq Outside
      BY <2>3, AnswerIsOutside
    <3>2. decision \in Seq(Outside)
      BY <3>1, AscendingLists, FS_CardinalityType
    <3>3. ServedHere' = ServedHere
      BY <2>1, <2>3, SameServed
    <3> QED
      BY <2>1, <2>3, <3>2, <3>3 DEF GoOn
  <2> QED
    BY <1>2, <2>2, <2>3 DEF AuthorizeTunnel
<1>3. CASE DialProvider(t)
  <2>1. ppc[t] = "dial" /\ UNCHANGED pslots /\ pleft[t] \in Seq(Outside)
    BY <1>3 DEF DialProvider
  <2>2. CASE pleft[t] # <<>> /\ popen' = [popen EXCEPT ![t] = Head(pleft[t])] /\ GoOn(t, "establish") /\ UNCHANGED pleft
    <3>2. Head(pleft[t]) \in Outside
      BY <2>1, <2>2
    <3>3. ServedHere' = ServedHere
      BY <2>1, <2>2, SameServed
    <3>4. ppc' = [ppc EXCEPT ![t] = "establish"]
      BY <2>2 DEF GoOn
    <3> QED
      BY <2>1, <2>2, <3>2, <3>3, <3>4 DEF Connected
  <2>3. CASE pleft[t] # <<>> /\ pleft' = [pleft EXCEPT ![t] = Tail(@)] /\ UNCHANGED <<ppc, popen>>
    <3>1. Tail(pleft[t]) \in Seq(Outside)
      BY <2>1, <2>3
    <3>2. ServedHere' = ServedHere
      BY <2>3 DEF ServedHere
    <3> QED
      BY <2>1, <2>3, <3>1, <3>2
  <2>4. CASE GoOn(t, "release") /\ UNCHANGED <<pleft, popen>>
    <3>1. ServedHere' = ServedHere
      BY <2>1, <2>4, SameServed
    <3> QED
      BY <2>1, <2>4, <3>1 DEF GoOn
  <2> QED
    BY <1>3, <2>2, <2>3, <2>4 DEF DialProvider
<1>4. CASE EstablishTunnel(t) \/ PeerEnds(t) \/ DeadlineEnds(t)
  <2>1. ppc[t] \in Connected /\ UNCHANGED <<pslots, pleft, popen>>
    BY <1>4 DEF EstablishTunnel, PeerEnds, DeadlineEnds, Connected
  <2>2. PICK pc \in Connected : GoOn(t, pc)
    BY <1>4 DEF EstablishTunnel, PeerEnds, DeadlineEnds, Connected
  <2>3. ServedHere' = ServedHere
    BY <2>1, <2>2, SameServed DEF Connected
  <2> QED
    BY <2>1, <2>2, <2>3 DEF GoOn, Connected
<1>5. CASE CloseTunnel(t)
  <2>1. ppc[t] = "close" /\ popen' = [popen EXCEPT ![t] = 0] /\ ppc' = [ppc EXCEPT ![t] = "release"] /\ UNCHANGED <<pslots, pleft>>
    BY <1>5 DEF CloseTunnel, GoOn
  <2>2. ServedHere' = ServedHere
    BY <1>5, SameServed DEF CloseTunnel
  <2> QED
    BY <2>1, <2>2
<1>6. CASE ReleaseSlot(t)
  <2>1. ppc' = [ppc EXCEPT ![t] = "answered"] /\ pslots' = pslots - 1 /\ ppc[t] = "release" /\ UNCHANGED <<pleft, popen>>
    BY <1>6 DEF ReleaseSlot, GoOn
  <2>2. ServedHere' = ServedHere \ {t} /\ t \in ServedHere
    BY <2>1 DEF ServedHere
  <2>3. IsFiniteSet(ServedHere') /\ Cardinality(ServedHere') = Cardinality(ServedHere) - 1 /\ Cardinality(ServedHere) \in Nat
    BY <2>2, FS_RemoveElement, FS_CardinalityType
  <2>4. pslots' <= MaxConcurrent
    BY <2>1, <2>3, ProviderAssumption
  <2> QED
    BY <2>1, <2>3, <2>4
<1>7. CASE ComeBack(t)
  <2>1. ppc' = [ppc EXCEPT ![t] = "idle"] /\ ppc[t] = "answered" /\ pleft' = [pleft EXCEPT ![t] = <<>>] /\ UNCHANGED <<pslots, popen>>
    BY <1>7 DEF ComeBack, GoOn
  <2>2. ServedHere' = ServedHere
    BY <2>1 DEF ServedHere
  <2>3. pleft' \in [Tunnels -> Seq(Outside)]
    BY <2>1
  <2> QED
    BY <2>1, <2>2, <2>3
<1> QED
  BY <1>1, <1>2, <1>3, <1>4, <1>5, <1>6, <1>7 DEF TunnelStep

\* Connections stay within the slots and go to addresses of allowed hosts
\* that are neither private nor reserved, and no slot is lost, through any sequence of tunnels, refusals and
\* failures (provideregress/proxy.go, netpolicy).
THEOREM ProviderEgressIsBounded == ProviderSpec => []ProviderStaysInside
<1>1. ProviderInit => ProviderInv
  <2> SUFFICES ASSUME ProviderInit PROVE ProviderInv
    OBVIOUS
  <2>1. ServedHere = {}
    BY DEF ProviderInit, ServedHere
  <2>2. IsFiniteSet(ServedHere) /\ Cardinality(ServedHere) = 0
    BY <2>1, FS_EmptySet
  <2> QED
    <3>1. ppc = [t \in Tunnels |-> "idle"] /\ popen = [t \in Tunnels |-> 0] /\ pslots = 0
      BY DEF ProviderInit
    <3>2. pleft \in [Tunnels -> Seq(Outside)]
      BY DEF ProviderInit
    <3>3. pslots <= MaxConcurrent
      BY <3>1, ProviderAssumption
    <3> QED
      BY <2>2, <3>1, <3>2, <3>3 DEF ProviderInv, Connected
<1>2. ProviderInv /\ [ProviderNext]_providerVars => ProviderInv'
  <2> SUFFICES ASSUME ProviderInv, [ProviderNext]_providerVars PROVE ProviderInv'
    OBVIOUS
  <2>1. CASE ProviderNext
    BY <2>1, ProviderStep DEF ProviderNext
  <2>2. CASE UNCHANGED providerVars
    BY <2>2 DEF providerVars, ProviderInv, ServedHere
  <2> QED
    BY <2>1, <2>2
<1>3. ProviderInv => ProviderStaysInside
  <2> SUFFICES ASSUME ProviderInv PROVE ProviderStaysInside
    OBVIOUS
  <2> DEFINE Open == {t \in Tunnels : popen[t] # 0}
  <2>1. Open \subseteq ServedHere
    BY DEF ProviderInv, ServedHere, Connected
  <2>2. Cardinality(Open) <= Cardinality(ServedHere) /\ Cardinality(Open) \in Nat /\ Cardinality(ServedHere) \in Nat
    BY <2>1, FS_Subset, FS_CardinalityType DEF ProviderInv
  <2>3. Cardinality(Open) <= MaxConcurrent
    BY <2>2, ProviderAssumption DEF ProviderInv
  <2> QED
    BY <2>3 DEF ProviderInv, ProviderStaysInside, ServedHere, Connected, Outside
<1> QED
  BY <1>1, <1>2, <1>3, PTL DEF ProviderSpec

-----------------------------------------------------------------------------
\* What the lock of a connection names.
NamesHost(lock, host) ==
  \/ \E r \in lock.base : host \in parseRegistryAuthority(r)
  \/ \E c \in lock.network : c.profile \in {"packages", "allowlist"} /\ host \in c.hosts
NamesGateway(lock, id) == \E c \in lock.network : c.profile = "private" /\ c.gateway = id

\* The policy is made of the lock and of the site's own gateways.
FromLock(policy, lock) ==
  /\ policy.expires = Capability.expires
  /\ \A domain \in DOMAIN policy.destinations : NamesHost(lock, domain) /\ policy.destinations[domain] = {443}
  /\ \A id \in DOMAIN policy.gateways :
       /\ NamesGateway(lock, id) /\ policy.gateways[id] = Mappings[id]
       /\ \A cidr \in Mappings[id].cidrs : \A a \in cidr : AddressClass[a] = "private"

LEMMA GatewayIsPrivate ==
  ASSUME NEW id, normalizePrivateDestination(id) # Bad
  PROVE  /\ normalizePrivateDestination(id) = Mappings[id]
         /\ \A cidr \in Mappings[id].cidrs : \A a \in cidr : AddressClass[a] = "private"
<1>1. normalizePrivateDestination(id) = Mappings[id] /\ validPrivateDestination(Mappings[id])
  BY DEF normalizePrivateDestination
<1>2. \A cidr \in Mappings[id].cidrs : allowedPrivatePrefix(cidr)
  BY <1>1 DEF validPrivateDestination
<1> QED
  BY <1>1, <1>2 DEF allowedPrivatePrefix, allowedPrivateAddress

LEMMA NewPolicyIsLock ==
  ASSUME NEW lock, NEW notBefore, NewPolicy(lock, notBefore, Capability.expires) # Bad
  PROVE  LET policy == NewPolicy(lock, notBefore, Capability.expires) IN
         /\ FromLock(policy, lock)
         /\ policy = [notBefore |-> policy.notBefore, expires |-> policy.expires, authority |-> policy.authority,
                      destinations |-> policy.destinations, gateways |-> policy.gateways]
<1> DEFINE base == UNION {parseRegistryAuthority(registry) : registry \in lock.base}
           named == {c \in lock.network : c.profile \in {"packages", "allowlist"}}
           private == {c.gateway : c \in {d \in lock.network : d.profile = "private"}}
           domains == base \cup UNION {c.hosts : c \in named}
           policy == [notBefore |-> notBefore, expires |-> Capability.expires, authority |-> lock.network,
                      destinations |-> [domain \in domains |-> {443}],
                      gateways |-> [gateway \in private |-> normalizePrivateDestination(gateway)]]
<1>1. NewPolicy(lock, notBefore, Capability.expires) = policy /\ ~ \E gateway \in private : policy.gateways[gateway] = Bad
  <2>1. NewPolicy(lock, notBefore, Capability.expires) =
          IF \E gateway \in private : policy.gateways[gateway] = Bad THEN Bad
          ELSE IF Validate(policy) THEN policy ELSE Bad
    BY Zenon DEF NewPolicy
  <2> HIDE DEF policy, private
  <2> QED
    BY <2>1, Zenon
<1>2. \A x \in domains : NamesHost(lock, x)
  BY DEF NamesHost
<1>7. \A x \in private : NamesGateway(lock, x)
  BY DEF NamesGateway
<1> HIDE DEF domains, private
<1>3. /\ policy.expires = Capability.expires
      /\ policy.destinations = [domain \in domains |-> {443}]
      /\ policy.gateways = [gateway \in private |-> normalizePrivateDestination(gateway)]
  OBVIOUS
<1>4. policy = [notBefore |-> policy.notBefore, expires |-> policy.expires, authority |-> policy.authority,
                destinations |-> policy.destinations, gateways |-> policy.gateways]
  OBVIOUS
<1> HIDE DEF policy
<1>5. \A domain \in DOMAIN policy.destinations : NamesHost(lock, domain) /\ policy.destinations[domain] = {443}
  BY <1>2, <1>3
<1>6. ASSUME NEW id \in DOMAIN policy.gateways
      PROVE  /\ NamesGateway(lock, id) /\ policy.gateways[id] = Mappings[id]
             /\ \A cidr \in Mappings[id].cidrs : \A a \in cidr : AddressClass[a] = "private"
  <2>1. id \in private /\ policy.gateways[id] = normalizePrivateDestination(id)
    BY <1>3
  <2>2. normalizePrivateDestination(id) # Bad
    BY <1>1, <2>1
  <2> QED
    BY <1>7, <2>1, <2>2, GatewayIsPrivate
<1> QED
  BY <1>1, <1>3, <1>4, <1>5, <1>6 DEF FromLock

LEMMA IssuedIsLock ==
  ASSUME NEW lock, NEW issuer, NEW now,
         NewPolicy(lock, Capability.notBefore, Capability.expires) # Bad,
         Issue(NewPolicy(lock, Capability.notBefore, Capability.expires), issuer, now) # Bad
  PROVE  FromLock(Issue(NewPolicy(lock, Capability.notBefore, Capability.expires), issuer, now).policy, lock)
<1> DEFINE policy == NewPolicy(lock, Capability.notBefore, Capability.expires)
           begins == IF policy.notBefore < issuer.notBefore THEN issuer.notBefore ELSE policy.notBefore
           bound == [policy EXCEPT !.notBefore = begins]
<1>1. FromLock(policy, lock)
  BY NewPolicyIsLock
<1>2. policy = [notBefore |-> policy.notBefore, expires |-> policy.expires, authority |-> policy.authority,
                destinations |-> policy.destinations, gateways |-> policy.gateways]
  BY NewPolicyIsLock
<1>3. Issue(policy, issuer, now).policy = bound
  BY DEF Issue
<1> HIDE DEF policy, begins
<1>4. bound.expires = policy.expires /\ bound.destinations = policy.destinations /\ bound.gateways = policy.gateways
  BY <1>2
<1> HIDE DEF bound
<1>5. FromLock(bound, lock)
  BY <1>1, <1>4 DEF FromLock
<1> QED
  BY <1>3, <1>5 DEF policy

-----------------------------------------------------------------------------
\* Addresses the policy lets through are addresses the lock grants.
LEMMA MappedIsGranted ==
  ASSUME FromLock(epolicy, ecase.lock), NEW address, NEW id \in DOMAIN epolicy.gateways,
         ecase.port \in epolicy.gateways[id].ports, privateDestinationContains(epolicy.gateways[id], address),
         ecase.address = address \/ ecase.host \in epolicy.gateways[id].hosts
  PROVE  Granted(address)
<1>1. /\ NamesGateway(ecase.lock, id) /\ epolicy.gateways[id] = Mappings[id]
      /\ \A cidr \in Mappings[id].cidrs : \A a \in cidr : AddressClass[a] = "private"
  BY DEF FromLock
<1>2. PICK c \in ecase.lock.network : c.profile = "private" /\ c.gateway = id
  BY <1>1 DEF NamesGateway
<1>3. PICK cidr \in Mappings[id].cidrs : address \in cidr
  BY <1>1 DEF privateDestinationContains
<1>4. AddressClass[address] = "private"
  BY <1>1, <1>3
<1>5. /\ c.profile = "private" /\ AddressClass[address] = "private"
      /\ ecase.port \in Mappings[c.gateway].ports
      /\ \E r \in Mappings[c.gateway].cidrs : address \in r
      /\ ecase.address = address \/ ecase.host \in Mappings[c.gateway].hosts
  BY <1>1, <1>2, <1>3, <1>4
<1> QED
  BY <1>5 DEF Granted

LEMMA NamedIsGranted ==
  ASSUME FromLock(epolicy, ecase.lock), NEW address, ecase.address = 0,
         publicDestination(epolicy, ecase.host, ecase.port), AddressClass[address] = "public"
  PROVE  Granted(address)
<1>1. NamesHost(ecase.lock, ecase.host) /\ ecase.port = 443
  BY DEF FromLock, publicDestination
<1>2. ecase.host \in LockHosts(ecase.lock)
  <2>1. CASE \E r \in ecase.lock.base : ecase.host \in parseRegistryAuthority(r)
    <3>1. ecase.host \in RegistryHosts(ecase.lock)
      BY <2>1 DEF RegistryHosts
    <3> QED
      BY <3>1 DEF LockHosts
  <2>2. CASE \E c \in ecase.lock.network : c.profile \in {"packages", "allowlist"} /\ ecase.host \in c.hosts
    <3>1. PICK n \in ecase.lock.network : n.profile \in {"packages", "allowlist"} /\ ecase.host \in n.hosts
      BY <2>2
    <3>2. n \in {d \in ecase.lock.network : d.profile \in {"packages", "allowlist"}}
      BY <3>1
    <3>3. n.hosts \in {c.hosts : c \in {d \in ecase.lock.network : d.profile \in {"packages", "allowlist"}}}
      BY <3>2, Zenon
    <3>4. ecase.host \in NetworkHosts(ecase.lock)
      BY <3>1, <3>3, Zenon DEF NetworkHosts
    <3> QED
      BY <3>4 DEF LockHosts
  <2> QED
    BY <1>1, <2>1, <2>2 DEF NamesHost
<1> QED
  BY <1>1, <1>2 DEF Granted

LEMMA JudgedIsGranted ==
  ASSUME FromLock(epolicy, ecase.lock), ecase.address = 0,
         \/ publicDestination(epolicy, ecase.host, ecase.port)
         \/ privateDomainDestination(epolicy, ecase.host, ecase.port) # {},
         NEW addresses, Judge(addresses) = "policy_match", NEW a \in addresses
  PROVE  Granted(a)
<1>1. CASE publicDestination(epolicy, ecase.host, ecase.port)
  <2>1. ~ forbiddenAddress(a)
    BY <1>1 DEF Judge
  <2> QED
    BY <1>1, <2>1, NamedIsGranted DEF forbiddenAddress
<1>2. CASE privateDomainDestination(epolicy, ecase.host, ecase.port) # {}
  <2>1. PICK id : id \in privateDomainDestination(epolicy, ecase.host, ecase.port)
    BY <1>2
  <2>2. privateDestinationContains(epolicy.gateways[id], a)
    BY <2>1 DEF Judge
  <2>3. /\ id \in DOMAIN epolicy.gateways /\ ecase.port \in epolicy.gateways[id].ports
        /\ ecase.host \in epolicy.gateways[id].hosts
    BY <2>1 DEF privateDomainDestination
  <2> QED
    BY <2>2, <2>3, MappedIsGranted
<1> QED
  BY <1>1, <1>2

-----------------------------------------------------------------------------
Decided == {"authorize", "resolve", "record", "dial", "establish", "hello", "relay"}
Audited(address) == \E event \in eaudit : event.action = "allowed" /\ event.address = address

\* The candidates still to be tried, each of which the lock grants.
Candidates ==
  /\ epc \in {"record", "dial"} => \E S : eleft \in Seq(S) /\ eleft # <<>> /\ \A a \in S : Granted(a)
  /\ epc = "dial" => Audited(Head(eleft))

InTime ==
  /\ esent \in Nat /\ eclock \in Nat
  /\ epc \in {"hello", "relay"} => eupstreamBy \in Int /\ eupstreamBy <= Capability.expires
  /\ epc = "relay" /\ ecase.address = 0 => ecase.hello.names = <<ecase.host>>

EgressInv ==
  /\ ecase \in Connects
  /\ epc \in Decided \cup {"issue", "forward", "identify", "closed"}
  /\ epc \notin {"issue", "closed"} => FromLock(ecert.policy, ecase.lock)
  /\ epc \in Decided => FromLock(epolicy, ecase.lock)
  /\ epc = "resolve" => /\ ecase.address = 0
                        /\ \/ publicDestination(epolicy, ecase.host, ecase.port)
                           \/ privateDomainDestination(epolicy, ecase.host, ecase.port) # {}
  /\ Candidates /\ InTime /\ EgressIsAuthorized

\* What no step but a dial or a relayed byte can disturb.
LEMMA EgressFrame ==
  ASSUME EgressInv, UNCHANGED <<ecase, edialed, esent>>, eaudit \subseteq eaudit'
  PROVE  EgressIsAuthorized' /\ \A a : Granted(a)' <=> Granted(a)
<1>1. \A a : Granted(a)' <=> Granted(a)
  BY DEF Granted
<1> QED
  BY <1>1 DEF EgressInv, EgressIsAuthorized

\* A step that closes the handler.
LEMMA EgressCloses ==
  ASSUME EgressInv, epc' = "closed", UNCHANGED <<ecase, edialed, esent>>, eclock' \in Nat, eaudit \subseteq eaudit'
  PROVE  EgressInv'
<1>1. EgressIsAuthorized'
  BY EgressFrame
<1> QED
  BY <1>1 DEF EgressInv, Decided, Candidates, InTime

LEMMA DenyCloses ==
  ASSUME NEW reason, Deny(reason)
  PROVE  epc' = "closed" /\ eaudit \subseteq eaudit'
BY DEF Deny

LEMMA BeforeDecision ==
  ASSUME EgressInv, IssueCertificate \/ ForwardConnect \/ Identify
  PROVE  EgressInv'
<1>1. UNCHANGED <<ecase, edialed, esent, eclock>> /\ eaudit \subseteq eaudit'
  BY DenyCloses DEF IssueCertificate, ForwardConnect, Identify, siteVars, tunnelVars
<1>2. EgressIsAuthorized'
  BY <1>1, EgressFrame
<1>3. eclock' \in Nat /\ esent' \in Nat
  BY <1>1 DEF EgressInv, InTime
<1>4. CASE epc' = "closed"
  BY <1>1, <1>3, <1>4, EgressCloses
<1>5. CASE IssueCertificate /\ epc' = "forward"
  <2>1. PICK issuer \in Issuers :
          LET policy == NewPolicy(ecase.lock, Capability.notBefore, Capability.expires)
              cert == IF policy = Bad THEN Bad ELSE Issue(policy, issuer, eclock)
          IN ecert' = cert /\ epc' = IF cert = Bad THEN "closed" ELSE "forward"
    BY <1>5 DEF IssueCertificate
  <2>2. /\ NewPolicy(ecase.lock, Capability.notBefore, Capability.expires) # Bad
        /\ ecert' = Issue(NewPolicy(ecase.lock, Capability.notBefore, Capability.expires), issuer, eclock)
        /\ ecert' # Bad
    BY <1>5, <2>1
  <2>3. FromLock(ecert'.policy, ecase.lock)
    BY <2>2, IssuedIsLock
  <2> QED
    BY <1>1, <1>2, <1>3, <1>5, <2>3 DEF EgressInv, Decided, Candidates, InTime
<1>6. CASE ForwardConnect /\ epc' = "identify"
  <2>1. UNCHANGED ecert /\ epc = "forward"
    BY <1>6 DEF ForwardConnect, siteVars
  <2> QED
    BY <1>1, <1>2, <1>3, <1>6, <2>1 DEF EgressInv, Decided, Candidates, InTime
<1>7. CASE Identify /\ epc' = "authorize"
  <2>1. UNCHANGED ecert /\ epc = "identify" /\ epolicy' = ecert.policy
    BY <1>7 DEF Identify, siteVars, Deny, PolicyFromCertificate
  <2> QED
    BY <1>1, <1>2, <1>3, <1>7, <2>1 DEF EgressInv, Decided, Candidates, InTime
<1> QED
  BY <1>4, <1>5, <1>6, <1>7, DenyCloses DEF IssueCertificate, ForwardConnect, Identify

LEMMA AuthorizeKeeps ==
  ASSUME EgressInv, Authorize
  PROVE  EgressInv'
<1>1. epc = "authorize" /\ UNCHANGED <<ecase, ecert, epolicy, edialed, esent, eclock>> /\ eaudit \subseteq eaudit'
  BY DenyCloses DEF Authorize, siteVars, tunnelVars
<1>2. EgressIsAuthorized' /\ \A a : Granted(a)' <=> Granted(a)
  BY <1>1, EgressFrame
<1>3. eclock' \in Nat /\ esent' \in Nat /\ FromLock(epolicy, ecase.lock) /\ FromLock(ecert.policy, ecase.lock)
  BY <1>1 DEF EgressInv, InTime, Decided
<1>4. CASE epc' = "closed"
  BY <1>1, <1>3, <1>4, EgressCloses
<1>5. CASE /\ ecase.address # 0 /\ privateDestination(epolicy, ecase.address, ecase.port)
           /\ eleft' = <<ecase.address>> /\ epc' = "record"
  <2>1. Granted(ecase.address)
    BY <1>3, <1>5, MappedIsGranted DEF privateDestination
  <2>2. eleft' \in Seq({ecase.address}) /\ eleft' # <<>> /\ \A a \in {ecase.address} : Granted(a)'
    BY <1>2, <1>5, <2>1
  <2> QED
    BY <1>1, <1>2, <1>3, <1>5, <2>2 DEF EgressInv, Decided, Candidates, InTime
<1>6. CASE /\ ecase.address = 0 /\ epc' = "resolve"
           /\ \/ publicDestination(epolicy, ecase.host, ecase.port)
              \/ privateDomainDestination(epolicy, ecase.host, ecase.port) # {}
  BY <1>1, <1>2, <1>3, <1>6 DEF EgressInv, Decided, Candidates, InTime
<1> QED
  BY <1>4, <1>5, <1>6, DenyCloses DEF Authorize

LEMMA ResolveKeeps ==
  ASSUME EgressInv, Resolve
  PROVE  EgressInv'
<1>1. epc = "resolve" /\ UNCHANGED <<ecase, ecert, epolicy, edialed, esent, eclock>> /\ eaudit \subseteq eaudit'
  BY DenyCloses DEF Resolve, siteVars, tunnelVars
<1>2. EgressIsAuthorized' /\ \A a : Granted(a)' <=> Granted(a)
  BY <1>1, EgressFrame
<1>3. eclock' \in Nat /\ esent' \in Nat /\ FromLock(epolicy, ecase.lock) /\ FromLock(ecert.policy, ecase.lock)
  BY <1>1 DEF EgressInv, InTime, Decided
<1>4. CASE epc' = "closed"
  BY <1>1, <1>3, <1>4, EgressCloses
<1>5. ASSUME NEW a, NEW aaaa, Judge(LookupNetIP(a, aaaa)) = "policy_match", epc' = "record",
             eleft' \in Ascending(LookupNetIP(a, aaaa))
      PROVE  EgressInv'
  <2> DEFINE found == LookupNetIP(a, aaaa)
  <2>1. found # Bad
    BY <1>5 DEF Judge
  <2>2. Cardinality(found) \in 1 .. MaxResolvedAddresses
    BY <2>1 DEF LookupNetIP
  <2>3. \A b \in found : Granted(b)'
    BY <1>1, <1>2, <1>3, <1>5, JudgedIsGranted DEF EgressInv
  <2> HIDE DEF found
  <2>4. Cardinality(found) \in Nat /\ Cardinality(found) > 0
    BY <2>2, EgressPolicyAssumption
  <2>5. eleft' \in Seq(found) /\ Len(eleft') = Cardinality(found)
    BY <1>5, <2>4, AscendingLists DEF found
  <2>6. eleft' # <<>>
    BY <2>4, <2>5
  <2> QED
    BY <1>1, <1>2, <1>3, <1>5, <2>3, <2>5, <2>6 DEF EgressInv, Decided, Candidates, InTime
<1> QED
  BY <1>4, <1>5, DenyCloses DEF Resolve

LEMMA RecordKeeps ==
  ASSUME EgressInv, RecordAttempt
  PROVE  EgressInv'
<1>1. epc = "record" /\ UNCHANGED <<ecase, ecert, epolicy, eleft, edialed, esent, eclock>> /\ eaudit \subseteq eaudit'
  BY DEF RecordAttempt, siteVars, tunnelVars
<1>2. EgressIsAuthorized' /\ \A a : Granted(a)' <=> Granted(a)
  BY <1>1, EgressFrame
<1>3. eclock' \in Nat /\ esent' \in Nat /\ FromLock(epolicy, ecase.lock) /\ FromLock(ecert.policy, ecase.lock)
  BY <1>1 DEF EgressInv, InTime, Decided
<1>4. CASE epc' = "closed"
  BY <1>1, <1>3, <1>4, EgressCloses
<1>5. CASE /\ eaudit' = eaudit \cup {[action |-> "allowed", reason |-> "policy_match", address |-> Head(eleft)]}
           /\ epc' = "dial"
  <2>1. Audited(Head(eleft))'
    <3> DEFINE event == [action |-> "allowed", reason |-> "policy_match", address |-> Head(eleft)]
    <3>1. event \in eaudit' /\ event.action = "allowed" /\ event.address = Head(eleft')
      BY <1>1, <1>5
    <3> QED
      BY <3>1, Zenon DEF Audited
  <2>2. \E S : eleft \in Seq(S) /\ eleft # <<>> /\ \A a \in S : Granted(a)
    BY <1>1 DEF EgressInv, Candidates
  <2> QED
    BY <1>1, <1>2, <1>3, <1>5, <2>1, <2>2 DEF EgressInv, Decided, Candidates, InTime
<1> QED
  BY <1>4, <1>5 DEF RecordAttempt

LEMMA DialKeeps ==
  ASSUME EgressInv, Dial
  PROVE  EgressInv'
<1>1. epc = "dial" /\ UNCHANGED <<ecase, ecert, epolicy, esent, eclock>> /\ eaudit \subseteq eaudit'
  BY DEF Dial, siteVars, tunnelVars
<1>2. \A a : Granted(a)' <=> Granted(a)
  BY <1>1 DEF Granted
<1>3. eclock' \in Nat /\ esent' \in Nat /\ FromLock(epolicy, ecase.lock) /\ FromLock(ecert.policy, ecase.lock)
  BY <1>1 DEF EgressInv, InTime, Decided
<1>4. PICK S : eleft \in Seq(S) /\ eleft # <<>> /\ \A a \in S : Granted(a)
  BY <1>1 DEF EgressInv, Candidates
<1>5. Audited(Head(eleft)) /\ Granted(Head(eleft))
  BY <1>1, <1>4 DEF EgressInv, Candidates
<1>6. CASE edialed' = edialed \cup {Head(eleft)} /\ epc' = "establish"
  <2>1. EgressIsAuthorized'
    <3>1. ASSUME NEW a \in edialed' PROVE Granted(a)' /\ Audited(a)'
      <4>1. Granted(a) /\ Audited(a)
        BY <1>5, <1>6 DEF EgressInv, EgressIsAuthorized, Audited
      <4> QED
        BY <1>1, <1>2, <4>1 DEF Audited
    <3>2. esent > 0 => /\ esent < Capability.expires
                       /\ ecase.address # 0 \/ ecase.hello.names = <<ecase.host>>
      BY DEF EgressInv, EgressIsAuthorized
    <3> QED
      BY <1>1, <3>1, <3>2 DEF EgressIsAuthorized, Audited
  <2> QED
    BY <1>1, <1>3, <1>6, <2>1 DEF EgressInv, Decided, Candidates, InTime
<1>7. CASE Tail(eleft) # <<>> /\ eleft' = Tail(eleft) /\ epc' = "record" /\ UNCHANGED edialed
  <2>1. EgressIsAuthorized'
    BY <1>1, <1>7, EgressFrame
  <2>2. eleft' \in Seq(S) /\ eleft' # <<>> /\ \A a \in S : Granted(a)'
    BY <1>2, <1>4, <1>7
  <2> QED
    BY <1>1, <1>3, <1>7, <2>1, <2>2 DEF EgressInv, Decided, Candidates, InTime
<1>8. CASE epc' = "closed" /\ UNCHANGED edialed
  BY <1>1, <1>3, <1>8, EgressCloses
<1> QED
  BY <1>6, <1>7, <1>8 DEF Dial

\* The deadline of the tunnel is at most the end of the capability.
LEMMA EstablishKeeps ==
  ASSUME EgressInv, Establish
  PROVE  EgressInv'
<1>1. epc = "establish" /\ UNCHANGED <<ecase, ecert, epolicy, edialed, esent, eclock, eaudit>> /\ eupstreamBy' = Deadline
  BY DEF Establish, siteVars
<1>2. EgressIsAuthorized'
  BY <1>1, EgressFrame
<1>3. eclock \in Nat /\ esent \in Nat /\ FromLock(epolicy, ecase.lock) /\ FromLock(ecert.policy, ecase.lock)
  BY <1>1 DEF EgressInv, InTime, Decided
<1>4. CASE epc' = "closed"
  BY <1>1, <1>3, <1>4, EgressCloses
<1>5. CASE epc' \in {"hello", "relay"} /\ (epc' = "relay" => ecase.address # 0)
  <2>1. epolicy.expires = Capability.expires
    BY <1>3 DEF FromLock
  <2>2. Deadline \in Int /\ Deadline <= Capability.expires
    BY <1>3, <2>1, EgressAssumption DEF Deadline
  <2> QED
    BY <1>1, <1>2, <1>3, <1>5, <2>2 DEF EgressInv, Decided, Candidates, InTime
<1> QED
  BY <1>4, <1>5 DEF Establish

\* Exactly one server name, and it is the host asked for.
LEMMA HelloNamesHost ==
  ASSUME ecase \in Connects, readValidatedClientHello(ecase.hello, ecase.host)
  PROVE  ecase.hello.names = <<ecase.host>>
<1>1. clientHelloServerName(ecase.hello) = ecase.host /\ ecase.host # Bad
  BY EgressAssumption DEF readValidatedClientHello
<1>2. Len(ecase.hello.names) = 1 /\ ecase.hello.names[1] = ecase.host
  BY <1>1 DEF clientHelloServerName
<1>3. ecase.hello.names \in Seq(STRING)
  BY EgressAssumption
<1> HIDE DEF EgressAssumption
<1> QED
  BY <1>2, <1>3

LEMMA HelloKeeps ==
  ASSUME EgressInv, ReadHello
  PROVE  EgressInv'
<1>1. epc = "hello" /\ UNCHANGED <<ecase, ecert, epolicy, edialed, eclock, eupstreamBy>> /\ eaudit \subseteq eaudit'
  BY DenyCloses DEF ReadHello, siteVars
<1>2. /\ eclock \in Nat /\ esent \in Nat /\ eupstreamBy \in Int /\ eupstreamBy <= Capability.expires
      /\ FromLock(epolicy, ecase.lock) /\ FromLock(ecert.policy, ecase.lock) /\ ecase \in Connects
  BY <1>1 DEF EgressInv, InTime, Decided
<1>3. CASE epc' = "closed" /\ UNCHANGED esent
  BY <1>1, <1>2, <1>3, EgressCloses
<1>4. CASE /\ readValidatedClientHello(ecase.hello, ecase.host) /\ eclock < eupstreamBy
           /\ epc' = "relay" /\ esent' = eclock /\ UNCHANGED eaudit
  <2>1. ecase.hello.names = <<ecase.host>>
    BY <1>2, <1>4, HelloNamesHost
  <2>2. eclock < Capability.expires
    BY <1>2, <1>4, EgressAssumption
  <2>3. EgressIsAuthorized'
    BY <1>1, <1>4, <2>1, <2>2 DEF EgressInv, EgressIsAuthorized, Granted
  <2> QED
    BY <1>1, <1>2, <1>4, <2>1, <2>3 DEF EgressInv, Decided, Candidates, InTime
<1> QED
  BY <1>3, <1>4, DenyCloses DEF ReadHello

LEMMA RelayKeeps ==
  ASSUME EgressInv, Relay
  PROVE  EgressInv'
<1>1. /\ epc = "relay" /\ UNCHANGED <<ecase, ecert, epc, epolicy, edialed, eaudit, eclock, eupstreamBy>>
      /\ eclock < eupstreamBy /\ esent' = eclock
  BY DEF Relay, siteVars
<1>2. eclock \in Nat /\ eupstreamBy \in Int /\ eupstreamBy <= Capability.expires
  BY <1>1 DEF EgressInv, InTime
<1>3. eclock < Capability.expires
  BY <1>1, <1>2, EgressAssumption
<1>4. ecase.address # 0 \/ ecase.hello.names = <<ecase.host>>
  BY <1>1 DEF EgressInv, InTime
<1>5. EgressIsAuthorized'
  BY <1>1, <1>3, <1>4 DEF EgressInv, EgressIsAuthorized, Granted
<1> QED
  BY <1>1, <1>2, <1>5 DEF EgressInv, Decided, Candidates, InTime

\* Peers, the clock and the issuer's file disturb nothing that was decided.
LEMMA WorldKeeps ==
  ASSUME EgressInv, PeerCloses \/ RotateIssuer \/ EgressTick \/ UNCHANGED egressVars
  PROVE  EgressInv'
<1>1. UNCHANGED <<ecase, ecert, epc, epolicy, eleft, eaudit, edialed, eupstreamBy, esent>>
  BY DEF PeerCloses, RotateIssuer, EgressTick, egressVars, siteVars, tunnelVars
<1>2. eclock' \in Nat
  BY DEF PeerCloses, RotateIssuer, EgressTick, egressVars, siteVars, EgressInv, InTime
<1>3. EgressIsAuthorized' /\ \A a : Granted(a)' <=> Granted(a)
  BY <1>1, EgressFrame
<1>4. Candidates'
  BY <1>1, <1>3 DEF EgressInv, Candidates, Audited
<1>5. InTime'
  BY <1>1, <1>2 DEF EgressInv, InTime
<1> QED
  BY <1>1, <1>3, <1>4, <1>5 DEF EgressInv

\* Wherever DNS points and whenever the capability ends, connections are
\* opened only where the signed lock allows, after an audit event, and
\* nothing is relayed without a matching ClientHello or after the capability
\* expired (buildegress/proxy.go, policy.go, certificate.go).
THEOREM EgressStaysAuthorized == EgressSpec => []EgressIsAuthorized
<1>1. EgressInit => EgressInv
  BY DEF EgressInit, EgressInv, Decided, Candidates, InTime, EgressIsAuthorized
<1>2. EgressInv /\ [EgressNext]_egressVars => EgressInv'
  <2> SUFFICES ASSUME EgressInv, [EgressNext]_egressVars PROVE EgressInv'
    OBVIOUS
  <2>1. CASE RelayEnds
    <3>1. epc' = "closed" /\ UNCHANGED <<ecase, edialed, esent, eclock, eaudit>>
      BY <2>1 DEF RelayEnds, siteVars, tunnelVars
    <3> QED
      BY <3>1, EgressCloses DEF EgressInv, InTime
  <2> QED
    BY <2>1, BeforeDecision, AuthorizeKeeps, ResolveKeeps, RecordKeeps, DialKeeps, EstablishKeeps,
       HelloKeeps, RelayKeeps, WorldKeeps DEF EgressNext, EgressStep
<1>3. EgressInv => EgressIsAuthorized
  BY DEF EgressInv
<1> QED
  BY <1>1, <1>2, <1>3, PTL DEF EgressSpec
=============================================================================
