------------------------------ MODULE Routing ------------------------------
(***************************************************************************)
(* Where a connection of the container goes: localForwardingConnector and  *)
(* addressMapper (connect.go), the tail of buildProxyChain (run.go) and    *)
(* the AAAA policy of the local resolver (resolver.go).                    *)
(*                                                                         *)
(* An address is an IPv4 address, an IPv6 address, or an IPv6 address that *)
(* embeds an IPv4 one in the NAT64 prefix.  A network is the set of the    *)
(* addresses it contains.  A configuration c is what the command line set: *)
(*   c.nat64   -nat64 is given        c.ipv6    -6 is given                *)
(*   c.bypass  the networks of -B     c.http    -F names an HTTP proxy     *)
(*   c.nat     the -L table: <<network, host text, port>> to a target      *)
(***************************************************************************)
EXTENDS Naturals, Sequences, FiniteSets

CONSTANTS V4, V6,          \* IPv4 and plain IPv6 addresses
          Embed,           \* IPv4 address -> that address in the NAT64 prefix
          TunV4, TunV6,    \* tunNetworkAddr and tunNetworkAddrV6, as sets
          Ports,
          Text,            \* ip -> its text, as endpointAddress renders it
          NotMapped        \* MapAddress's exists = false

ASSUME TunAssumption == TunV4 \subseteq V4 /\ TunV6 \subseteq V6

Networks == {"tcp", "udp"}

Synthesized == {Embed[a] : a \in V4}

IP == V4 \cup V6 \cup Synthesized

ASSUME FamilyAssumption ==
    /\ V4 \cap V6 = {} /\ V4 \cap Synthesized = {}
    /\ \A a, b \in V4 : Embed[a] = Embed[b] => a = b

\* A NAT64-synthesized destination is unmapped to the IPv4 address in it.
nat64Unmap(c, ip) ==
    IF c.nat64 /\ ip \in Synthesized THEN CHOOSE a \in V4 : ip = Embed[a] ELSE ip

\* An IPv4 destination is embedded in the prefix, for an IPv6-only host.
nat64Map(c, ip) == IF c.nat64 /\ ip \in V4 THEN Embed[ip] ELSE ip

matchNets(nets, ip) == \E n \in nets : ip \in n

\* runRun: the IPv6 TUN network exists only under -6.
tunNets(c) == IF c.ipv6 THEN {TunV4, TunV6} ELSE {TunV4}

\* The host of a -L key that is a bare port.
AnyHost == <<>>

\* The key of the full address first, then the key of the bare port.
MapAddress(nat, network, ip, port) ==
    IF <<network, Text[ip], port>> \in DOMAIN nat THEN nat[<<network, Text[ip], port>>]
    ELSE IF <<network, AnyHost, port>> \in DOMAIN nat
         THEN nat[<<network, AnyHost, port>>]
         ELSE NotMapped

Decision(means, to) == [means |-> means, to |-> to]

\* buildProxyChain: the chain carries UDP only when every hop speaks SOCKS5.
chainDial(c, network, ip) ==
    Decision(IF network = "udp" /\ c.http THEN "refuse" ELSE "proxy", ip)

LateUnmapDialContext(c, network, ip, port) ==
    LET target == MapAddress(c.nat, network, ip, port) IN
    IF target # NotMapped THEN Decision("direct", target)
    ELSE IF matchNets(tunNets(c), ip) THEN Decision("refuse", ip)
    ELSE IF matchNets(c.bypass, nat64Unmap(c, ip))
         THEN Decision("direct", nat64Map(c, nat64Unmap(c, ip)))
         ELSE chainDial(c, network, nat64Unmap(c, ip))

\* The route of a destination: -L, then the TUN networks, then -B, then -F.
DialContext(c, network, ip, port) ==
    LET address == nat64Unmap(c, ip)
        target  == MapAddress(c.nat, network, address, port)
    IN  IF target # NotMapped THEN Decision("direct", target)
        ELSE IF matchNets(tunNets(c), address) THEN Decision("refuse", address)
        ELSE IF matchNets(c.bypass, address)
             THEN Decision("direct", nat64Map(c, address))
             ELSE chainDial(c, network, address)

----------------------------------------------------------------------------
allowsAAAARaw(c, answer) ==
    \E ip \in answer : matchNets(c.bypass, ip)

\* dnsPolicy.allowsAAAA: one address that -B lets out directly is enough.
allowsAAAA(c, answer) ==
    \E ip \in answer : matchNets(c.bypass, nat64Unmap(c, ip))

\* resolveDNS for an AAAA question: the answer, or NODATA.
VisibleAAAA(c, answer) == c.ipv6 /\ allowsAAAA(c, answer)
============================================================================
