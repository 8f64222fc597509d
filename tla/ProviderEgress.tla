--------------------------- MODULE ProviderEgress ----------------------------
(***************************************************************************)
(* The source plane's CONNECT proxy to the Git providers (provideregress)  *)
(* and the destination policy it asks (netpolicy): a bounded number of     *)
(* tunnels to exact hosts, each dialled at the addresses that were         *)
(* validated and not resolved again.                                       *)
(***************************************************************************)
EXTENDS EgressPolicy

CONSTANTS
  Tunnels,              \* requests that may arrive
  TunnelTo,             \* request -> [connect, host, port]
  AllowedHosts,         \* the configured allowlist
  ProviderAnswers,      \* lists of addresses DNS may return
  MaxIPs, MaxConcurrent,
  MaxProviderFaults     \* bound: failures of a behaviour

ASSUME ProviderAssumption ==
  /\ MaxConcurrent \in Nat \ {0} /\ MaxIPs \in Nat /\ MaxProviderFaults \in Nat
  /\ \A answer \in ProviderAnswers : answer \in Seq(DOMAIN AddressClass)

VARIABLES
  ppc,       \* step of each request
  pslots,    \* tokens in the semaphore
  pleft,     \* addresses a request has still to try
  popen,     \* request -> the address its upstream is connected to, 0 if none
  pdeadline, \* requests whose connections have the tunnel's deadline
  pfaults

providerVars == <<ppc, pslots, pleft, popen, pdeadline, pfaults>>

ProviderInit ==
  /\ ppc = [t \in Tunnels |-> "idle"] /\ pslots = 0
  /\ pleft = [t \in Tunnels |-> <<>>] /\ popen = [t \in Tunnels |-> 0]
  /\ pdeadline = {} /\ pfaults = 0

ProviderFault == pfaults < MaxProviderFaults /\ pfaults' = pfaults + 1
GoOn(t, pc) == ppc' = [ppc EXCEPT ![t] = pc]

\* netpolicy reserves fewer ranges than buildegress.
validateAddress(address) == AddressClass[address] \in {"public", "special"}

\* netpolicy.Policy.resolve: the whole answer is refused for one bad address,
\* or for its length, repeated addresses included.
ValidateDestination(answer) ==
  Len(answer) \in 1 .. MaxIPs /\ \A i \in 1 .. Len(answer) : validateAddress(answer[i])

\* Mutant: requests are not counted against the slots.
AcceptUnbounded(t) ==
  /\ ppc[t] = "idle"
  /\ IF TunnelTo[t].connect
     THEN pslots' = pslots + 1 /\ GoOn(t, "authorize")
     ELSE UNCHANGED pslots /\ GoOn(t, "answered")
  /\ UNCHANGED <<pleft, popen, pdeadline, pfaults>>

\* serveHTTP takes a slot or answers 503 at once.
Accept(t) ==
  /\ ppc[t] = "idle"
  /\ IF TunnelTo[t].connect /\ pslots < MaxConcurrent
     THEN pslots' = pslots + 1 /\ GoOn(t, "authorize")
     ELSE UNCHANGED pslots /\ GoOn(t, "answered")
  /\ UNCHANGED <<pleft, popen, pdeadline, pfaults>>

AuthorizeTunnel(t) ==
  /\ ppc[t] = "authorize"
  /\ \/ /\ TunnelTo[t].host \in AllowedHosts /\ TunnelTo[t].port = 443
        /\ \E answer \in ProviderAnswers :
             IF ValidateDestination(answer)
             THEN GoOn(t, "dial") /\ \E decision \in Ascending(Range(answer)) : pleft' = [pleft EXCEPT ![t] = decision]
             ELSE GoOn(t, "release") /\ UNCHANGED pleft
     \/ /\ TunnelTo[t].host \notin AllowedHosts \/ TunnelTo[t].port # 443
        /\ GoOn(t, "release") /\ UNCHANGED pleft
  /\ UNCHANGED <<pslots, popen, pdeadline, pfaults>>

\* dial: the addresses of the decision in order.
DialProvider(t) ==
  /\ ppc[t] = "dial"
  /\ \/ /\ pleft[t] # <<>>
        /\ popen' = [popen EXCEPT ![t] = Head(pleft[t])] /\ GoOn(t, "establish") /\ UNCHANGED <<pleft, pfaults>>
     \/ /\ pleft[t] # <<>> /\ ProviderFault
        /\ pleft' = [pleft EXCEPT ![t] = Tail(@)] /\ UNCHANGED <<ppc, popen>>
     \/ pleft[t] = <<>> /\ GoOn(t, "release") /\ UNCHANGED <<pleft, popen, pfaults>>
  /\ UNCHANGED <<pslots, pdeadline>>

\* Mutant: no deadline is set on the connections.
EstablishUnbounded(t) ==
  /\ ppc[t] = "establish"
  /\ \/ GoOn(t, "relay") /\ UNCHANGED pfaults
     \/ ProviderFault /\ GoOn(t, "close")
  /\ UNCHANGED <<pslots, pleft, popen, pdeadline>>

\* The client's connection is taken over, which may fail; the deadline is
\* set on both connections; the answer is written, which may fail too.
EstablishTunnel(t) ==
  /\ ppc[t] = "establish"
  /\ \/ GoOn(t, "relay") /\ pdeadline' = pdeadline \cup {t} /\ UNCHANGED pfaults
     \/ ProviderFault /\ GoOn(t, "close") /\ UNCHANGED pdeadline
     \/ ProviderFault /\ GoOn(t, "close") /\ pdeadline' = pdeadline \cup {t}
  /\ UNCHANGED <<pslots, pleft, popen>>

\* One direction of the relay ends, on a close or on the deadline.
PeerEnds(t) ==
  /\ ppc[t] = "relay"
  /\ GoOn(t, "close")
  /\ UNCHANGED <<pslots, pleft, popen, pdeadline, pfaults>>

DeadlineEnds(t) ==
  /\ ppc[t] = "relay" /\ t \in pdeadline
  /\ GoOn(t, "close")
  /\ UNCHANGED <<pslots, pleft, popen, pdeadline, pfaults>>

\* The deferred closes run before the slot is released.
CloseTunnel(t) ==
  /\ ppc[t] = "close"
  /\ popen' = [popen EXCEPT ![t] = 0] /\ GoOn(t, "release")
  /\ UNCHANGED <<pslots, pleft, pdeadline, pfaults>>

\* Mutant: the slot is kept when the request was not tunnelled.
ReleaseTunnelled(t) ==
  /\ ppc[t] = "release"
  /\ pslots' = IF t \in pdeadline THEN pslots - 1 ELSE pslots
  /\ GoOn(t, "answered")
  /\ UNCHANGED <<pleft, popen, pdeadline, pfaults>>

ReleaseSlot(t) ==
  /\ ppc[t] = "release"
  /\ pslots' = pslots - 1 /\ GoOn(t, "answered")
  /\ UNCHANGED <<pleft, popen, pdeadline, pfaults>>

\* The client comes back with the same request.
ComeBack(t) ==
  /\ ppc[t] = "answered"
  /\ GoOn(t, "idle") /\ pdeadline' = pdeadline \ {t} /\ pleft' = [pleft EXCEPT ![t] = <<>>]
  /\ UNCHANGED <<pslots, popen, pfaults>>

TunnelStep(t) ==
  \/ Accept(t) \/ AuthorizeTunnel(t) \/ DialProvider(t) \/ EstablishTunnel(t)
  \/ DeadlineEnds(t) \/ CloseTunnel(t) \/ ReleaseSlot(t)
ProviderNext == \E t \in Tunnels : TunnelStep(t) \/ PeerEnds(t) \/ ComeBack(t)

ProviderSpec == ProviderInit /\ [][ProviderNext]_providerVars

-----------------------------------------------------------------------------
\* Through any sequence of tunnels, refusals and failures there are never
\* more connections to the outside than slots, every one goes to an address
\* of a configured host that is neither private nor reserved, and no slot is
\* lost: those that are taken are those of requests being served.
ProviderStaysInside ==
  /\ Cardinality({t \in Tunnels : popen[t] # 0}) <= MaxConcurrent
  /\ \A t \in Tunnels : popen[t] # 0 => TunnelTo[t].host \in AllowedHosts /\ AddressClass[popen[t]] \notin {"private", "reserved"}
  /\ pslots = Cardinality({t \in Tunnels : ppc[t] \notin {"idle", "answered"}})

\* Every request that was admitted is answered and leaves its slot.
ProviderTunnelsEnd == \A t \in Tunnels : []<>(ppc[t] \in {"idle", "answered"})
=============================================================================
