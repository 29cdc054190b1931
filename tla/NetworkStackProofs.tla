------------------------- MODULE NetworkStackProofs -------------------------
(***************************************************************************)
(* handleTCP keeps its promises for any set of clients and any limit, and  *)
(* the rules of routing hold for every configuration, set of addresses and *)
(* TUN network.                                                            *)
(***************************************************************************)
EXTENDS NetworkStack, Integers, TLAPS

USE SMTT(30)

----------------------------------------------------------------------------
(* Routing                                                                 *)

\* An IPv4 address is its own unmapping (nat64Unmap).
LEMMA UnmapV4 == ASSUME NEW c, NEW a \in V4 PROVE nat64Unmap(c, a) = a
BY FamilyAssumption DEF nat64Unmap

\* nat64Unmap takes an embedded address back to where it came from.
LEMMA UnmapEmbedded ==
  ASSUME NEW c, c.nat64, NEW a \in V4 PROVE nat64Unmap(c, Embed[a]) = a
<1>1. Embed[a] \in Synthesized
  BY DEF Synthesized
<1>2. (CHOOSE b \in V4 : Embed[a] = Embed[b]) = a
  BY FamilyAssumption
<1>. QED BY <1>1, <1>2 DEF nat64Unmap

\* What DialContext decides, in terms of -L, the TUN networks, -B and -F.
LEMMA DialContextRules ==
  ASSUME NEW c, NEW network, NEW ip, NEW port
  PROVE  LET r == DialContext(c, network, ip, port)
             a == nat64Unmap(c, ip)
             mapped == MapAddress(c.nat, network, a, port) # NotMapped
             tun == matchNets(tunNets(c), a)
             bypassed == matchNets(c.bypass, a)
         IN  /\ r.means = "direct" <=> mapped \/ (bypassed /\ ~tun)
             /\ r.means = "proxy" => ~mapped /\ ~tun /\ ~bypassed
             /\ r.means = "refuse" => ~mapped /\ (tun \/ (network = "udp" /\ c.http))
BY DEF DialContext, chainDial, Decision

\* DialContext treats the two forms of an IPv4 destination alike (-nat64).
THEOREM SameRouteTheorem == Spec => []SameRouteEitherForm
<1>1. SameRouteEitherForm
  <2>. SUFFICES ASSUME conf.nat64, NEW network \in Networks, NEW a \in V4, NEW port \in Ports
       PROVE  LET r == DialContext(conf, network, a, port) IN
              /\ DialContext(conf, network, Embed[a], port) = r
              /\ r.means = "proxy" => r.to = a
              /\ r.means = "direct" /\ MapAddress(conf.nat, network, a, port) = NotMapped
                   => r.to = Embed[a]
    BY DEF SameRouteEitherForm
  <2>1. nat64Unmap(conf, a) = a /\ nat64Unmap(conf, Embed[a]) = a
    BY UnmapV4, UnmapEmbedded
  <2>2. DialContext(conf, network, Embed[a], port) = DialContext(conf, network, a, port)
    BY <2>1 DEF DialContext
  <2>3. nat64Map(conf, a) = Embed[a]
    BY DEF nat64Map
  <2>. QED BY <2>1, <2>2, <2>3 DEF DialContext, chainDial, Decision
<1>. QED BY <1>1, PTL

\* The address that nat64Unmap leaves for a AAAA answer is in a TUN network
\* of the route only if no -B network holds it.
LEMMA BypassNotTun ==
  ASSUME BypassOffTun, NEW ip \in V6 \cup Synthesized,
         matchNets(conf.bypass, nat64Unmap(conf, ip))
  PROVE  ~ matchNets(tunNets(conf), nat64Unmap(conf, ip))
<1>. DEFINE a == nat64Unmap(conf, ip)
<1>1. PICK n \in conf.bypass : a \in n
  BY DEF matchNets
<1>2. a \notin TunV6
  BY <1>1 DEF BypassOffTun
<1>3. a \notin TunV4
  <2>1. CASE conf.nat64
    BY <1>1, <2>1 DEF BypassOffTun
  <2>2. CASE ~conf.nat64
    BY <2>2, TunAssumption, FamilyAssumption DEF nat64Unmap
  <2>. QED BY <2>1, <2>2
<1>. QED BY <1>2, <1>3 DEF matchNets, tunNets

\* The AAAA policy of the resolver follows the router, whatever the answer,
\* as long as -B names no address of the TUN.
THEOREM PolicyTheorem == Spec => []PolicyAgreesWithRoute
<1>1. PolicyAgreesWithRoute
  <2>. SUFFICES ASSUME BypassOffTun, NEW port \in Ports,
                       NEW answer \in SUBSET (V6 \cup Synthesized)
       PROVE  LET Direct == {ip \in V6 \cup Synthesized :
                               DialContext(conf, "tcp", ip, port).means = "direct"}
                  Mapped == {ip \in V6 \cup Synthesized :
                    MapAddress(conf.nat, "tcp", nat64Unmap(conf, ip), port) # NotMapped}
              IN  IF VisibleAAAA(conf, answer)
                  THEN answer \cap Direct # {}
                  ELSE conf.ipv6 => answer \cap Direct \subseteq Mapped
    BY DEF PolicyAgreesWithRoute
  <2>1. ASSUME NEW ip \in answer, matchNets(conf.bypass, nat64Unmap(conf, ip))
        PROVE  DialContext(conf, "tcp", ip, port).means = "direct"
    <3>1. ~ matchNets(tunNets(conf), nat64Unmap(conf, ip))
      BY <2>1, BypassNotTun
    <3>. QED BY <2>1, <3>1, DialContextRules
  <2>2. ASSUME NEW ip \in answer, DialContext(conf, "tcp", ip, port).means = "direct",
               ~ matchNets(conf.bypass, nat64Unmap(conf, ip))
        PROVE  MapAddress(conf.nat, "tcp", nat64Unmap(conf, ip), port) # NotMapped
    BY <2>2, DialContextRules
  <2>. QED BY <2>1, <2>2 DEF VisibleAAAA, allowsAAAA
<1>. QED BY <1>1, PTL

----------------------------------------------------------------------------
(* The packet filter                                                       *)

\* The four rules before the last (defaultIPTables) decide on every packet
\* that comes in: only TCP, UDP and echo arrive.
LEMMA OnlyTheseArrive ==
  ASSUME NEW kind \in Kinds, Arrives(kind)
  PROVE  kind \in {"tcp", "udp", "echo", "echoReply"}
<1>1. PICK i \in 1 .. 5 : /\ kind \in Rules[i].match /\ Rules[i].verdict = "accept"
                          /\ \A j \in 1 .. i - 1 : kind \notin Rules[j].match
  BY DEF Arrives, Accepts, Rules, BuiltinChains
<1>2. Rules[4].verdict = "drop" /\ Rules[4].match = Kinds
  BY DEF Rules
<1>3. i \in {1, 2, 3}
  BY <1>1, <1>2
<1>4. /\ Rules[1].match = {"tcp"} /\ Rules[2].match = {"udp"}
      /\ Rules[3].match = {k \in Kinds : icmpEchoMatcher(k)}
  BY DEF Rules
<1>. QED BY <1>1, <1>3, <1>4 DEF icmpEchoMatcher

\* An echo reply passes the hooks on its way out.
LEMMA EchoReplyLeaves == Leaves("echoReply")
<1>1. /\ Rules[1].match = {"tcp"} /\ Rules[2].match = {"udp"}
      /\ Rules[3].match = {k \in Kinds : icmpEchoMatcher(k)} /\ Rules[3].verdict = "accept"
      /\ Rules[5].match = Kinds /\ Rules[5].verdict = "accept" /\ Len(Rules) = 5
      /\ BuiltinChains["Output"] = 1 /\ BuiltinChains["Postrouting"] = 5
  BY DEF Rules, BuiltinChains
<1>2. "echoReply" \in Kinds /\ icmpEchoMatcher("echoReply")
  BY DEF Kinds, icmpEchoMatcher
<1>3. Accepts("Output", "echoReply")
  <2>1. \A j \in 1 .. 3 - 1 : "echoReply" \notin Rules[j].match
    BY <1>1
  <2>. QED BY <1>1, <1>2, <2>1 DEF Accepts
<1>4. Accepts("Postrouting", "echoReply")
  BY <1>1, <1>2 DEF Accepts
<1>. QED BY <1>3, <1>4 DEF Leaves

\* Nothing but echo reaches the ICMP handler, and every echo request is
\* answered (replyEcho).
THEOREM OnlyEchoTheorem == Spec => []OnlyEcho
<1>1. Init => OnlyEcho
  BY DEF Init, OnlyEcho
<1>2. OnlyEcho /\ [Next]_vars => OnlyEcho'
  <2>. SUFFICES ASSUME OnlyEcho, [Next]_vars PROVE OnlyEcho'
    OBVIOUS
  <2>1. ASSUME NEW kind \in Kinds, HandleICMP(kind) PROVE OnlyEcho'
    <3>1. kind \in {"echo", "echoReply"} /\ Leaves("echoReply")
      BY <2>1, OnlyTheseArrive, EchoReplyLeaves DEF HandleICMP
    <3>2. icmp' = [kind |-> kind, answered |-> kind = "echo" /\ Leaves("echoReply")]
      BY <2>1 DEF HandleICMP
    <3>3. icmp'.kind = kind /\ icmp'.answered = (kind = "echo" /\ Leaves("echoReply"))
      BY <3>2, Zenon
    <3>. QED BY <3>1, <3>3, Zenon DEF OnlyEcho
  <2>2. ASSUME UNCHANGED icmp PROVE OnlyEcho'
    BY <2>2 DEF OnlyEcho
  <2>3. ASSUME NEW c \in Clients,
               Ask(c) \/ Connect(c) \/ GiveUp(c) \/ HandlePacket(c) \/ Handle(c)
        PROVE  UNCHANGED icmp
    BY <2>3, Zenon DEF Ask, Connect, GiveUp, HandlePacket, Handle, Dial, Refuse,
       CreateEndpoint, CreateEndpointFails, CompleteOk, CompleteErr, CloseLocal, CloseDst
  <2>. QED BY <2>1, <2>2, <2>3 DEF Next, vars
<1>. QED BY <1>1, <1>2, PTL DEF Spec

----------------------------------------------------------------------------
(* handleTCP                                                               *)

\* The types of what handleTCP changes.
HandlersTyped ==
    /\ client \in [Clients -> {"ask", "try", "syn", "open", "gone", "done", "failed"}]
    /\ pc \in [Clients -> {"idle", "returned"} \cup Waiting \cup Dialed]
    /\ completes \in [Clients -> Nat]
    /\ dst \in [Clients -> {"none", "open", "closed"}]

\* dstConn is open exactly between the dial and its deferred Close, and a
\* program's connection only from the handshake to the end of the relay.
UpstreamOK ==
    \A c \in Clients :
       /\ dst[c] = "open" <=> pc[c] \in Dialed
       /\ client[c] = "open" => pc[c] \in {"complete", "relay"}

IInv == HandlersTyped /\ CompletedOnce /\ UpstreamOK

\* The invariant holds before the first SYN.
LEMMA InitIInv == Init => IInv
BY DEF Init, IInv, HandlersTyped, CompletedOnce, UpstreamOK, Waiting, Dialed

\* What programs do on their own touches no request.
LEMMA ClientStep ==
  ASSUME IInv, NEW c \in Clients, Ask(c) \/ Connect(c) \/ GiveUp(c) PROVE IInv'
<1>1. UNCHANGED <<pc, completes, inFlight, dst>>
  BY Zenon DEF Ask, Connect, GiveUp
<1>2. \/ UNCHANGED client
      \/ \E s \in {"try", "failed", "syn", "gone"} : client' = [client EXCEPT ![c] = s]
  <2>1. CASE Ask(c)
    BY <2>1 DEF Ask
  <2>2. CASE Connect(c)
    BY <2>2 DEF Connect
  <2>3. CASE GiveUp(c)
    BY <2>3 DEF GiveUp
  <2>. QED BY <2>1, <2>2, <2>3
<1>. QED BY <1>1, <1>2 DEF IInv, HandlersTyped, UpstreamOK, CompletedOnce

\* What handleTCP does apart from Complete: the places stay as they are.
LEMMA HandlerStep ==
  ASSUME IInv, NEW c \in Clients,
         \/ HandlePacket(c) \/ Dial(c) \/ CreateEndpoint(c) \/ CreateEndpointFails(c)
         \/ CloseLocal(c) \/ CloseDst(c)
  PROVE  IInv'
<1>. USE DEF IInv, HandlersTyped, CompletedOnce, UpstreamOK, Waiting, Dialed
<1>1. CASE HandlePacket(c)
  BY <1>1 DEF HandlePacket
<1>2. CASE Dial(c)
  BY <1>2 DEF Dial
<1>3. CASE CreateEndpoint(c)
  BY <1>3 DEF CreateEndpoint
<1>4. CASE CreateEndpointFails(c)
  BY <1>4 DEF CreateEndpointFails
<1>5. CASE CloseLocal(c)
  BY <1>5 DEF CloseLocal
<1>6. CASE CloseDst(c)
  BY <1>6 DEF CloseDst
<1>. QED BY <1>1, <1>2, <1>3, <1>4, <1>5, <1>6

\* Every path through Complete takes it once and gives the place back.
LEMMA CompleteStep ==
  ASSUME IInv, NEW c \in Clients, Refuse(c) \/ CompleteOk(c) \/ CompleteErr(c) PROVE IInv'
<1>. USE DEF IInv, HandlersTyped, CompletedOnce, UpstreamOK, Waiting, Dialed
<1>1. CASE Refuse(c)
  BY <1>1 DEF Refuse, Complete
<1>2. CASE CompleteOk(c)
  BY <1>2 DEF CompleteOk, Complete
<1>3. CASE CompleteErr(c)
  BY <1>3 DEF CompleteErr, Complete
<1>. QED BY <1>1, <1>2, <1>3

\* IInv is an inductive invariant of the stack.
THEOREM Invariance == Spec => []IInv
<1>1. IInv /\ [Next]_vars => IInv'
  <2>. SUFFICES ASSUME IInv, [Next]_vars PROVE IInv'
    OBVIOUS
  <2>1. ASSUME NEW c \in Clients,
               Ask(c) \/ Connect(c) \/ GiveUp(c) \/ HandlePacket(c) \/ Handle(c)
        PROVE  IInv'
    BY <2>1, ClientStep, HandlerStep, CompleteStep DEF Handle
  <2>2. ASSUME UNCHANGED <<client, pc, completes, inFlight, dst>> PROVE IInv'
    BY <2>2 DEF IInv, HandlersTyped, CompletedOnce, UpstreamOK
  <2>3. ASSUME NEW kind \in Kinds, HandleICMP(kind) PROVE IInv'
    BY <2>2, <2>3 DEF HandleICMP
  <2>4. CASE UNCHANGED vars
    BY <2>2, <2>4 DEF vars
  <2>. QED BY <2>1, <2>3, <2>4 DEF Next
<1>. QED BY <1>1, InitIInv, PTL DEF Spec

\* Every request is completed exactly once (handleTCP), for any number of
\* clients.
THEOREM CompletedOnceTheorem == Spec => []CompletedOnce
<1>1. IInv => CompletedOnce
  BY DEF IInv
<1>. QED BY <1>1, Invariance, PTL

\* A program's open connection has an upstream, and handleTCP returns without
\* leaving one open.
THEOREM UpstreamTheorem == Spec => []UpstreamHeld
<1>1. IInv => UpstreamHeld
  BY DEF IInv, UpstreamOK, UpstreamHeld, Dialed
<1>. QED BY <1>1, Invariance, PTL

----------------------------------------------------------------------------
(* Types                                                                   *)

\* A program has addresses to try, and one at least once it sent a SYN.
Trying ==
    /\ todo \in [Clients -> Seq(IP)]
    /\ \A c \in Clients : client[c] = "syn" => todo[c] # <<>>

\* A request is completed at most once and is a client's.
Counted == completes \in [Clients -> 0 .. 1] /\ inFlight \subseteq Clients

Seen == icmp \in [kind : Kinds \cup {"none"}, answered : BOOLEAN] /\ conf \in Configs

Types == Trying /\ Counted /\ Seen

\* One program's step through its addresses.
LEMMA TryingStep ==
  ASSUME HandlersTyped, Trying, NEW c \in Clients,
         NEW s \in Seq(IP), NEW v, v = "syn" => s # <<>>,
         todo' = [todo EXCEPT ![c] = s], client' = [client EXCEPT ![c] = v]
  PROVE  Trying'
BY DEF HandlersTyped, Trying

\* A program that sends no SYN keeps its addresses.
LEMMA TryingKept ==
  ASSUME HandlersTyped, Trying, NEW c \in Clients, NEW v, v # "syn", UNCHANGED todo,
         UNCHANGED client \/ client' = [client EXCEPT ![c] = v]
  PROVE  Trying'
BY DEF HandlersTyped, Trying

\* What a program tries, from its look-up to its last address.
LEMMA ClientTrying ==
  ASSUME HandlersTyped, Trying, Seen, NEW c \in Clients, Ask(c) \/ Connect(c) \/ GiveUp(c)
  PROVE  Trying'
<1>1. CASE Ask(c)
  <2>. DEFINE s == (IF conf.dns /\ ~VisibleAAAA(conf, {conf.aaaa[i] : i \in DOMAIN conf.aaaa})
                    THEN <<>> ELSE conf.aaaa) \o conf.a
  <2>1. conf.aaaa \in Seq(IP) /\ conf.a \in Seq(IP) /\ <<>> \in Seq(IP)
    BY ConfigsAssumption DEF Seen
  <2>2. s \in Seq(IP)
    BY <2>1
  <2>3. todo' = [todo EXCEPT ![c] = s] /\ client' = [client EXCEPT ![c] = "try"]
    BY <1>1, Zenon DEF Ask
  <2>. HIDE DEF s
  <2>. QED BY <2>2, <2>3, TryingStep, Zenon
<1>2. CASE Connect(c)
  <2>1. CASE todo[c] = <<>>
    <3>1. UNCHANGED todo /\ client' = [client EXCEPT ![c] = "failed"]
      BY <1>2, <2>1, Zenon DEF Connect
    <3>. QED BY <3>1, TryingKept, Zenon
  <2>2. CASE todo[c] # <<>> /\ (conf.ipv6 \/ Head(todo[c]) \in V4)
    <3>1. UNCHANGED todo /\ client' = [client EXCEPT ![c] = "syn"]
      BY <1>2, <2>2, Zenon DEF Connect
    <3>. QED BY <2>2, <3>1 DEF Trying, HandlersTyped
  <2>3. CASE todo[c] # <<>> /\ ~(conf.ipv6 \/ Head(todo[c]) \in V4)
    <3>1. todo' = [todo EXCEPT ![c] = Tail(todo[c])] /\ UNCHANGED client /\ client[c] = "try"
      BY <1>2, <2>3, Zenon DEF Connect
    <3>2. Tail(todo[c]) \in Seq(IP)
      BY <2>3 DEF Trying
    <3>. QED BY <3>1, <3>2 DEF Trying, HandlersTyped
  <2>. QED BY <2>1, <2>2, <2>3
<1>3. CASE GiveUp(c)
  <2>1. UNCHANGED todo /\ client' = [client EXCEPT ![c] = "gone"]
    BY <1>3, Zenon DEF GiveUp
  <2>. QED BY <2>1, TryingKept, Zenon
<1>. QED BY <1>1, <1>2, <1>3

\* A reset makes a program that still waits go on to the rest of its
\* addresses (Complete).
LEMMA ResetTrying ==
  ASSUME HandlersTyped, Trying, NEW c \in Clients, NEW reset \in BOOLEAN, Complete(c, reset)
  PROVE  Trying'
<1>1. CASE reset /\ client[c] = "syn"
  <2>1. todo' = [todo EXCEPT ![c] = Tail(todo[c])] /\ client' = [client EXCEPT ![c] = "try"]
    BY <1>1, Zenon DEF Complete
  <2>2. Tail(todo[c]) \in Seq(IP)
    BY <1>1 DEF Trying
  <2>. QED BY <2>1, <2>2, TryingStep, Zenon
<1>2. CASE ~(reset /\ client[c] = "syn")
  <2>1. UNCHANGED <<todo, client>>
    BY <1>2, Zenon DEF Complete
  <2>. QED BY <2>1 DEF Trying
<1>. QED BY <1>1, <1>2

\* The rest of handleTCP answers a SYN or leaves the program alone.
LEMMA HandlerTrying ==
  ASSUME HandlersTyped, Trying, NEW c \in Clients, HandlePacket(c) \/ Handle(c)
  PROVE  Trying'
<1>1. CASE Refuse(c) \/ CompleteOk(c) \/ CompleteErr(c)
  <2>1. Complete(c, TRUE) \/ Complete(c, FALSE)
    BY <1>1, Zenon DEF Refuse, CompleteOk, CompleteErr
  <2>. QED BY <2>1, ResetTrying, Zenon
<1>2. CASE HandlePacket(c) \/ Dial(c) \/ CreateEndpointFails(c) \/ CloseDst(c)
  <2>1. UNCHANGED <<todo, client>>
    BY <1>2, Zenon DEF HandlePacket, Dial, CreateEndpointFails, CloseDst
  <2>. QED BY <2>1 DEF Trying
<1>3. CASE CreateEndpoint(c)
  <2>1. UNCHANGED todo /\ client' = [client EXCEPT ![c] = "open"]
    BY <1>3, Zenon DEF CreateEndpoint
  <2>. QED BY <2>1, TryingKept, Zenon
<1>4. CASE CloseLocal(c)
  <2>1. UNCHANGED todo /\ client' = [client EXCEPT ![c] = "done"]
    BY <1>4, Zenon DEF CloseLocal
  <2>. QED BY <2>1, TryingKept, Zenon
<1>. QED BY <1>1, <1>2, <1>3, <1>4, Zenon DEF Handle

\* Only a request in flight, of which none is completed, is completed.
LEMMA CountedStep ==
  ASSUME CompletedOnce, Counted, NEW c \in Clients,
         Ask(c) \/ Connect(c) \/ GiveUp(c) \/ HandlePacket(c) \/ Handle(c)
  PROVE  Counted'
<1>1. CASE Refuse(c) \/ CompleteOk(c) \/ CompleteErr(c)
  <2>1. pc[c] \in Waiting
    BY <1>1, Zenon DEF Refuse, CompleteOk, CompleteErr, Waiting
  <2>2. completes[c] = 0
    BY <2>1 DEF CompletedOnce
  <2>3. completes' = [completes EXCEPT ![c] = completes[c] + 1] /\ inFlight' = inFlight \ {c}
    BY <1>1, Zenon DEF Refuse, CompleteOk, CompleteErr, Complete
  <2>. QED BY <2>2, <2>3 DEF Counted
<1>2. CASE HandlePacket(c)
  <2>1. completes' = [completes EXCEPT ![c] = 0] /\ inFlight' = inFlight \cup {c}
    BY <1>2, Zenon DEF HandlePacket
  <2>. QED BY <2>1 DEF Counted
<1>3. CASE \/ Ask(c) \/ Connect(c) \/ GiveUp(c) \/ Dial(c) \/ CreateEndpoint(c)
           \/ CreateEndpointFails(c) \/ CloseLocal(c) \/ CloseDst(c)
  <2>1. UNCHANGED <<completes, inFlight>>
    BY <1>3, Zenon DEF Ask, Connect, GiveUp, Dial, CreateEndpoint, CreateEndpointFails,
                       CloseLocal, CloseDst
  <2>. QED BY <2>1 DEF Counted
<1>. QED BY <1>1, <1>2, <1>3, Zenon DEF Handle

\* The program's addresses, the count of its completions and what the ICMP
\* handler saw keep their types.
LEMMA TypesInvariance == Spec => []Types
<1>1. Init => Types
  BY DEF Init, Types, Trying, Counted, Seen
<1>2. IInv /\ Types /\ [Next]_vars => Types'
  <2>. SUFFICES ASSUME IInv, Types, [Next]_vars PROVE Types'
    OBVIOUS
  <2>. USE DEF IInv, Types
  <2>1. ASSUME NEW c \in Clients,
               Ask(c) \/ Connect(c) \/ GiveUp(c) \/ HandlePacket(c) \/ Handle(c)
        PROVE  Types'
    <3>1. UNCHANGED <<icmp, conf>>
      BY <2>1, Zenon DEF Ask, Connect, GiveUp, HandlePacket, Handle, Dial, Refuse,
           CreateEndpoint, CreateEndpointFails, CompleteOk, CompleteErr, CloseLocal, CloseDst
    <3>2. Seen'
      BY <3>1 DEF Seen
    <3>3. Trying'
      BY <2>1, ClientTrying, HandlerTrying, Zenon
    <3>. QED BY <2>1, <3>2, <3>3, CountedStep, Zenon
  <2>2. ASSUME NEW kind \in Kinds, HandleICMP(kind) PROVE Types'
    <3>1. UNCHANGED <<conf, client, todo, completes, inFlight>>
      BY <2>2, Zenon DEF HandleICMP
    <3>2. Seen'
      BY <2>2 DEF HandleICMP, Seen
    <3>. QED BY <3>1, <3>2 DEF Trying, Counted
  <2>3. CASE UNCHANGED vars
    BY <2>3 DEF vars, Trying, Counted, Seen
  <2>. QED BY <2>1, <2>2, <2>3 DEF Next
<1>. QED BY <1>1, <1>2, Invariance, PTL DEF Spec

\* The types of the stack's state: in particular, whatever the programs and
\* handleTCP do to a list of addresses, no reset makes a program skip an
\* address it does not have, and no request is completed twice.
THEOREM TypesTheorem == Spec => []TypeOK
<1>1. IInv /\ Types => TypeOK
  BY Zenon DEF IInv, HandlersTyped, Types, Trying, Counted, Seen, TypeOK
<1>. QED BY <1>1, Invariance, TypesInvariance, PTL

----------------------------------------------------------------------------
(* Falling back to IPv4                                                    *)

\* A dial of the IPv4 address ip gets through.
GetsThrough(cf, ip) ==
    /\ ip \in V4
    /\ LET r == DialContext(cf, "tcp", ip, cf.port) IN
        r.means # "refuse" /\ <<r.means, r.to>> \in cf.reach

Hopeful(c) == \E k \in 1 .. Len(todo[c]) : GetsThrough(conf, todo[c][k])

\* While a request is being dialed its program waits for the answer to a SYN
\* to the first address of its list, or is gone; and the list keeps the
\* address that can be reached until the program is through.
FallbackOK(c) ==
    /\ pc[c] \in {"dial", "refuse", "endpoint"} => client[c] \in {"syn", "gone"}
    /\ pc[c] = "completeErr" => client[c] = "gone" \/ (client[c] = "syn" /\ conf.flaky)
    /\ pc[c] = "refuse" /\ client[c] = "syn" => ~GetsThrough(conf, Head(todo[c]))
    /\ ~conf.flaky /\ Reachable =>
         client[c] # "failed" /\ (client[c] \in {"try", "syn"} => Hopeful(c))

FallbacksOK == \A c \in Clients : FallbackOK(c)

\* A program that failed to connect could not have: unless gVisor failed, no
\* IPv4 address of its name can be reached.
FailsOnlyUnreachable ==
    \A c \in Clients : client[c] = "failed" => conf.flaky \/ ~Reachable

\* The addresses of the configuration are what can be reached.
LEMMA ReachableIs == Reachable <=> \E i \in DOMAIN conf.a : GetsThrough(conf, conf.a[i])
BY Zenon DEF Reachable, GetsThrough

\* What a client or its request does is nothing to the other clients.
LEMMA FallbackFrame ==
  ASSUME FallbacksOK, UNCHANGED conf, NEW c \in Clients,
         \A d \in Clients : d # c =>
            pc'[d] = pc[d] /\ client'[d] = client[d] /\ todo'[d] = todo[d],
         FallbackOK(c)'
  PROVE  FallbacksOK'
<1>1. Reachable' <=> Reachable
  BY Zenon DEF Reachable
<1>2. ASSUME NEW d \in Clients, d # c PROVE FallbackOK(d)'
  <2>1. pc'[d] = pc[d] /\ client'[d] = client[d] /\ todo'[d] = todo[d] /\ FallbackOK(d)
    BY <1>2, Zenon DEF FallbacksOK
  <2>2. Hopeful(d) => Hopeful(d)'
    BY <2>1, Zenon DEF Hopeful
  <2>. HIDE DEF GetsThrough, Reachable, Hopeful
  <2>. QED BY <1>1, <2>1, <2>2 DEF FallbackOK
<1>. QED BY <1>2, Zenon DEF FallbacksOK

\* A list whose first address is of no use has the useful one in the rest.
LEMMA HopeInTail ==
  ASSUME Trying, NEW c \in Clients, todo[c] # <<>>, Hopeful(c),
         ~GetsThrough(conf, Head(todo[c])), todo'[c] = Tail(todo[c]), UNCHANGED conf
  PROVE  Hopeful(c)'
<1>1. PICK k \in 1 .. Len(todo[c]) : GetsThrough(conf, todo[c][k])
  BY Zenon DEF Hopeful
<1>2. todo[c] \in Seq(IP)
  BY Zenon DEF Trying
<1>3. k # 1
  <2>1. Head(todo[c]) = todo[c][1]
    BY <1>2
  <2>. QED BY <1>1, <2>1, Zenon
<1>4. k - 1 \in 1 .. Len(Tail(todo[c])) /\ Tail(todo[c])[k - 1] = todo[c][k]
  BY <1>2, <1>3
<1>. QED BY <1>1, <1>4, Zenon DEF Hopeful

\* The addresses that a look-up finds end with all of the IPv4 ones.
LEMMA HopeFound ==
  ASSUME Seen, NEW c \in Clients, NEW x \in Seq(IP), todo'[c] = x \o conf.a, UNCHANGED conf,
         Reachable
  PROVE  Hopeful(c)'
<1>1. conf.a \in Seq(IP)
  BY ConfigsAssumption DEF Seen
<1>2. PICK i \in DOMAIN conf.a : GetsThrough(conf, conf.a[i])
  BY ReachableIs, Zenon
<1>3. Len(x) + i \in 1 .. Len(x \o conf.a) /\ (x \o conf.a)[Len(x) + i] = conf.a[i]
  BY <1>1
<1>. QED BY <1>2, <1>3, Zenon DEF Hopeful

\* A step of one client or of its request, which leaves the rest alone.
LEMMA OneClient ==
  ASSUME HandlersTyped, Trying, NEW c \in Clients,
         Ask(c) \/ Connect(c) \/ GiveUp(c) \/ HandlePacket(c) \/ Handle(c)
  PROVE  /\ UNCHANGED conf
         /\ \A d \in Clients : d # c =>
              pc'[d] = pc[d] /\ client'[d] = client[d] /\ todo'[d] = todo[d]
<1>1. UNCHANGED conf
  BY Zenon DEF Ask, Connect, GiveUp, HandlePacket, Handle, Dial, Refuse,
       CreateEndpoint, CreateEndpointFails, CompleteOk, CompleteErr, CloseLocal, CloseDst
<1>2. UNCHANGED pc \/ \E v : pc' = [pc EXCEPT ![c] = v]
  BY Zenon DEF Ask, Connect, GiveUp, HandlePacket, Handle, Dial, Refuse,
       CreateEndpoint, CreateEndpointFails, CompleteOk, CompleteErr, CloseLocal, CloseDst
<1>3. UNCHANGED client \/ \E v : client' = [client EXCEPT ![c] = v]
  BY Zenon DEF Ask, Connect, GiveUp, HandlePacket, Handle, Dial, Refuse, Complete,
       CreateEndpoint, CreateEndpointFails, CompleteOk, CompleteErr, CloseLocal, CloseDst
<1>4. UNCHANGED todo \/ \E v : todo' = [todo EXCEPT ![c] = v]
  BY Zenon DEF Ask, Connect, GiveUp, HandlePacket, Handle, Dial, Refuse, Complete,
       CreateEndpoint, CreateEndpointFails, CompleteOk, CompleteErr, CloseLocal, CloseDst
<1>. QED BY <1>1, <1>2, <1>3, <1>4, Zenon DEF HandlersTyped, Trying

\* A program looks up its name and goes through the addresses: it skips one
\* only for want of a route, which an IPv4 address has.
LEMMA ClientFallback ==
  ASSUME HandlersTyped, Trying, Seen, FallbacksOK, NEW c \in Clients,
         Ask(c) \/ Connect(c) \/ GiveUp(c)
  PROVE  FallbackOK(c)'
<1>1. FallbackOK(c) /\ UNCHANGED <<conf, pc>>
  BY Zenon DEF FallbacksOK, Ask, Connect, GiveUp
<1>2. Reachable' <=> Reachable
  BY <1>1, Zenon DEF Reachable
<1>3. ASSUME UNCHANGED todo PROVE Hopeful(c) => Hopeful(c)'
  BY <1>1, <1>3, Zenon DEF Hopeful
<1>. HIDE DEF Reachable, Hopeful, GetsThrough
<1>4. CASE Ask(c)
  <2>. DEFINE x == IF conf.dns /\ ~VisibleAAAA(conf, {conf.aaaa[i] : i \in DOMAIN conf.aaaa})
                   THEN <<>> ELSE conf.aaaa
  <2>1. x \in Seq(IP)
    BY ConfigsAssumption DEF Seen
  <2>2. client[c] = "ask" /\ client'[c] = "try" /\ todo'[c] = x \o conf.a
    BY <1>4, Zenon DEF Ask, HandlersTyped, Trying
  <2>. HIDE DEF x
  <2>3. Reachable => Hopeful(c)'
    BY <1>1, <2>1, <2>2, HopeFound, Zenon
  <2>. QED BY <1>1, <1>2, <2>2, <2>3 DEF FallbackOK
<1>5. CASE Connect(c)
  <2>0. client[c] = "try"
    BY <1>5, Zenon DEF Connect
  <2>1. CASE todo[c] = <<>>
    <3>1. UNCHANGED todo /\ client'[c] = "failed"
      BY <1>5, <2>1, Zenon DEF Connect, HandlersTyped
    <3>2. ~Hopeful(c)
      <4>1. \A k \in 1 .. Len(todo[c]) : FALSE
        BY <2>1
      <4>. QED BY <4>1, Zenon DEF Hopeful
    <3>. QED BY <1>1, <1>2, <2>0, <3>1, <3>2 DEF FallbackOK
  <2>2. CASE todo[c] # <<>> /\ (conf.ipv6 \/ Head(todo[c]) \in V4)
    <3>1. UNCHANGED todo /\ client'[c] = "syn"
      BY <1>5, <2>2, Zenon DEF Connect, HandlersTyped
    <3>. QED BY <1>1, <1>2, <1>3, <2>0, <3>1 DEF FallbackOK
  <2>3. CASE todo[c] # <<>> /\ ~(conf.ipv6 \/ Head(todo[c]) \in V4)
    <3>1. todo'[c] = Tail(todo[c]) /\ UNCHANGED client
      BY <1>5, <2>3, Zenon DEF Connect, Trying
    <3>2. ~GetsThrough(conf, Head(todo[c]))
      BY <2>3, Zenon DEF GetsThrough
    <3>3. Hopeful(c) => Hopeful(c)'
      BY <1>1, <2>3, <3>1, <3>2, HopeInTail, Zenon
    <3>. QED BY <1>1, <1>2, <2>0, <3>1, <3>3 DEF FallbackOK
  <2>. QED BY <2>1, <2>2, <2>3
<1>6. CASE GiveUp(c)
  <2>1. UNCHANGED todo /\ client[c] = "syn" /\ client'[c] = "gone"
    BY <1>6, Zenon DEF GiveUp, HandlersTyped
  <2>. QED BY <1>1, <1>2, <2>1 DEF FallbackOK
<1>. QED BY <1>4, <1>5, <1>6

\* The request of a client, up to Complete: only a dial that cannot get
\* through is refused.
LEMMA HandlerFallback ==
  ASSUME HandlersTyped, Trying, FallbacksOK, UpstreamOK, NEW c \in Clients,
         \/ HandlePacket(c) \/ Dial(c) \/ CreateEndpoint(c) \/ CreateEndpointFails(c)
         \/ CloseLocal(c) \/ CloseDst(c)
  PROVE  FallbackOK(c)'
<1>1. FallbackOK(c) /\ UNCHANGED <<conf, todo>>
  BY Zenon DEF FallbacksOK, HandlePacket, Dial, CreateEndpoint, CreateEndpointFails,
       CloseLocal, CloseDst
<1>2. (Reachable' <=> Reachable) /\ (Hopeful(c) => Hopeful(c)')
  BY <1>1, Zenon DEF Reachable, Hopeful
<1>. HIDE DEF Reachable, Hopeful, GetsThrough
<1>3. CASE HandlePacket(c)
  <2>1. client[c] = "syn" /\ UNCHANGED client /\ pc'[c] = "dial"
    BY <1>3, Zenon DEF HandlePacket, HandlersTyped
  <2>. QED BY <1>1, <1>2, <2>1 DEF FallbackOK
<1>4. CASE Dial(c)
  <2>1. /\ pc[c] = "dial" /\ UNCHANGED client
        /\ \/ pc'[c] = "endpoint"
           \/ pc'[c] = "refuse" /\ ~GetsThrough(conf, Head(todo[c]))
    BY <1>4, Zenon DEF Dial, HandlersTyped, GetsThrough, Decided
  <2>. QED BY <1>1, <1>2, <2>1 DEF FallbackOK
<1>5. CASE CreateEndpoint(c)
  <2>1. client'[c] = "open" /\ pc'[c] = "complete"
    BY <1>5, Zenon DEF CreateEndpoint, HandlersTyped
  <2>. QED BY <1>1, <1>2, <2>1 DEF FallbackOK
<1>6. CASE CreateEndpointFails(c)
  <2>1. /\ pc[c] = "endpoint" /\ pc'[c] = "completeErr" /\ UNCHANGED client
        /\ client[c] = "gone" \/ conf.flaky
    BY <1>6, Zenon DEF CreateEndpointFails, HandlersTyped
  <2>. QED BY <1>1, <1>2, <2>1 DEF FallbackOK
<1>7. CASE CloseLocal(c)
  <2>1. client'[c] = "done" /\ pc'[c] = "closeDst"
    BY <1>7, Zenon DEF CloseLocal, HandlersTyped
  <2>. QED BY <1>1, <1>2, <2>1 DEF FallbackOK
<1>8. CASE CloseDst(c)
  <2>1. UNCHANGED client /\ pc'[c] = "returned"
    BY <1>8, Zenon DEF CloseDst, HandlersTyped
  <2>. QED BY <1>1, <1>2, <2>1 DEF FallbackOK
<1>. QED BY <1>3, <1>4, <1>5, <1>6, <1>7, <1>8

\* A reset makes a program skip an address that cannot be reached, unless
\* gVisor failed.
LEMMA CompleteFallback ==
  ASSUME HandlersTyped, Trying, FallbacksOK, NEW c \in Clients,
         Refuse(c) \/ CompleteOk(c) \/ CompleteErr(c)
  PROVE  FallbackOK(c)'
<1>1. FallbackOK(c) /\ UNCHANGED conf
  BY Zenon DEF FallbacksOK, Refuse, CompleteOk, CompleteErr
<1>2. Reachable' <=> Reachable
  BY <1>1, Zenon DEF Reachable
<1>3. ASSUME UNCHANGED todo PROVE Hopeful(c) => Hopeful(c)'
  BY <1>1, <1>3, Zenon DEF Hopeful
<1>. HIDE DEF Reachable, Hopeful, GetsThrough
<1>4. \/ pc[c] = "refuse" /\ pc'[c] = "returned"
      \/ pc[c] = "complete" /\ pc'[c] = "relay" /\ Complete(c, FALSE)
      \/ pc[c] = "completeErr" /\ pc'[c] = "closeDst"
  BY Zenon DEF Refuse, CompleteOk, CompleteErr, HandlersTyped
<1>5. \/ UNCHANGED <<client, todo>> /\ (client[c] # "syn" \/ Complete(c, FALSE))
      \/ client[c] = "syn" /\ client'[c] = "try" /\ todo'[c] = Tail(todo[c])
  BY Zenon DEF Refuse, CompleteOk, CompleteErr, Complete, HandlersTyped, Trying
<1>6. CASE UNCHANGED <<client, todo>>
  <2>1. pc'[c] \in {"returned", "relay", "closeDst"}
    BY <1>4, Zenon
  <2>2. UNCHANGED client /\ (Hopeful(c) => Hopeful(c)')
    BY <1>3, <1>6, Zenon
  <2>. QED BY <1>1, <1>2, <2>1, <2>2 DEF FallbackOK
<1>7. CASE client[c] = "syn" /\ client'[c] = "try" /\ todo'[c] = Tail(todo[c])
  <2>1. todo[c] # <<>>
    BY <1>7, Zenon DEF Trying
  <2>2. pc[c] # "complete"
    <3>1. Complete(c, FALSE) => UNCHANGED client
      BY Zenon DEF Complete
    <3>2. client' # client
      BY <1>7, Zenon
    <3>3. pc[c] = "complete" => CompleteOk(c)
      BY DEF Refuse, CompleteErr
    <3>. QED BY <3>1, <3>2, <3>3, Zenon DEF CompleteOk
  <2>3. CASE pc[c] = "refuse"
    <3>1. ~GetsThrough(conf, Head(todo[c]))
      BY <1>1, <1>7, <2>3 DEF FallbackOK
    <3>2. Hopeful(c) => Hopeful(c)'
      BY <1>1, <1>7, <2>1, <3>1, HopeInTail, Zenon
    <3>. QED BY <1>1, <1>2, <1>4, <1>7, <2>3, <3>2 DEF FallbackOK
  <2>4. CASE pc[c] = "completeErr"
    BY <1>1, <1>2, <1>4, <1>7, <2>4 DEF FallbackOK
  <2>. QED BY <1>4, <2>2, <2>3, <2>4, Zenon
<1>. QED BY <1>5, <1>6, <1>7, Zenon

\* A program gives up only when no IPv4 address of its name can be reached
\* (the comment on handleTCP: the reset "keeps happy-eyeballs style fallbacks
\* working"), for any number of clients and addresses and any limit.  This is
\* the safety half of FallsBack.
THEOREM FailsTheorem == Spec => []FailsOnlyUnreachable
<1>1. Init => Types /\ FallbacksOK
  BY DEF Init, Types, Trying, Counted, Seen, FallbacksOK, FallbackOK
<1>2. IInv /\ Types /\ FallbacksOK /\ [Next]_vars => FallbacksOK'
  <2>. SUFFICES ASSUME IInv, Types, FallbacksOK, [Next]_vars PROVE FallbacksOK'
    OBVIOUS
  <2>0. HandlersTyped /\ UpstreamOK /\ Trying /\ Seen
    BY Zenon DEF IInv, Types
  <2>1. ASSUME NEW c \in Clients,
               Ask(c) \/ Connect(c) \/ GiveUp(c) \/ HandlePacket(c) \/ Handle(c)
        PROVE  FallbacksOK'
    <3>1. FallbackOK(c)'
      BY <2>0, <2>1, ClientFallback, HandlerFallback, CompleteFallback, Zenon DEF Handle
    <3>. QED BY <2>0, <2>1, <3>1, OneClient, FallbackFrame, Zenon
  <2>2. ASSUME UNCHANGED <<conf, client, todo, pc>> PROVE FallbacksOK'
    BY <2>2, Zenon DEF FallbacksOK, FallbackOK, Reachable, Hopeful
  <2>3. ASSUME NEW kind \in Kinds, HandleICMP(kind) PROVE FallbacksOK'
    BY <2>2, <2>3, Zenon DEF HandleICMP
  <2>4. CASE UNCHANGED vars
    BY <2>2, <2>4, Zenon DEF vars
  <2>. QED BY <2>1, <2>3, <2>4, Zenon DEF Next
<1>3. FallbacksOK => FailsOnlyUnreachable
  BY Zenon DEF FallbacksOK, FallbackOK, FailsOnlyUnreachable
<1>. QED BY <1>1, <1>2, <1>3, Invariance, TypesInvariance, PTL DEF Spec

=============================================================================
