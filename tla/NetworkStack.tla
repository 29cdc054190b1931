---------------------------- MODULE NetworkStack ----------------------------
(***************************************************************************)
(* The user-space stack behind the TUN (network_stack.go): the packet      *)
(* filter, the echo handler, gVisor's TCP forwarder with its limit on      *)
(* requests in flight, and handleTCP, with clients that resolve a name and *)
(* try its addresses one after another.                                    *)
(*                                                                         *)
(* A configuration has c.written, the mappings -L gives, and says what the *)
(* world is like: c.dns (-D is given), c.aaaa and c.a (the addresses of    *)
(* the name the clients look up), c.port, c.reach, the pairs <<means,      *)
(* address>> that answer a dial, and c.flaky: gVisor may fail to create an *)
(* endpoint for a client that still waits.                                 *)
(***************************************************************************)
EXTENDS Mapping

CONSTANTS Clients, MaxInFlight, Configs

ASSUME InFlightAssumption == MaxInFlight \in Nat \ {0}

\* A name has lists of addresses, and -L a list of texts.
ASSUME ConfigsAssumption ==
    \A c \in Configs :
       /\ c.aaaa \in Seq(IP) /\ c.a \in Seq(IP)
       /\ c.written \in Seq(Mappings) /\ c.nat = parseAddressMapper(WrittenAll(c.written))

VARIABLES
    conf,        \* the configuration, fixed for the run
    client,      \* client -> what its program sees
    todo,        \* client -> addresses still to try, the current one first
    pc,          \* client -> where handleTCP of its request is
    completes,   \* client -> calls of Complete on its request
    inFlight,    \* the forwarder's requests in flight
    dst,         \* client -> dstConn
    icmp         \* the last datagram of the ICMP handler, and whether it answered

vars == <<conf, client, todo, pc, completes, inFlight, dst, icmp>>

----------------------------------------------------------------------------
(* defaultIPTables: the first rule that matches from the start of the      *)
(* hook's chain decides.                                                   *)
Kinds == {"tcp", "udp", "echo", "echoReply", "unreachable", "sctp"}

icmpAnyMatcher(kind) == kind \in {"echo", "echoReply", "unreachable"}

icmpEchoMatcher(kind) == kind \in {"echo", "echoReply"}

Rules == <<[match |-> {"tcp"}, verdict |-> "accept"],
           [match |-> {"udp"}, verdict |-> "accept"],
           [match |-> {k \in Kinds : icmpEchoMatcher(k)}, verdict |-> "accept"],
           [match |-> Kinds, verdict |-> "drop"],
           [match |-> Kinds, verdict |-> "accept"]>>

BuiltinChains == [Prerouting |-> 1, Input |-> 1, Output |-> 1, Postrouting |-> 5]

Accepts(hook, kind) ==
    \E i \in BuiltinChains[hook] .. Len(Rules) :
       /\ kind \in Rules[i].match /\ Rules[i].verdict = "accept"
       /\ \A j \in BuiltinChains[hook] .. i - 1 : kind \notin Rules[j].match

Arrives(kind) == Accepts("Prerouting", kind) /\ Accepts("Input", kind)

Leaves(kind) == Accepts("Output", kind) /\ Accepts("Postrouting", kind)

----------------------------------------------------------------------------
Init ==
    /\ conf \in Configs
    /\ client = [c \in Clients |-> "ask"]
    /\ todo = [c \in Clients |-> <<>>]
    /\ pc = [c \in Clients |-> "idle"]
    /\ completes = [c \in Clients |-> 0]
    /\ inFlight = {}
    /\ dst = [c \in Clients |-> "none"]
    /\ icmp = [kind |-> "none", answered |-> FALSE]

\* A program looks its name up: with -D through the policy, else unfiltered.
Ask(c) ==
    /\ client[c] = "ask"
    /\ client' = [client EXCEPT ![c] = "try"]
    /\ todo' = [todo EXCEPT ![c] =
         (IF conf.dns /\ ~VisibleAAAA(conf, {conf.aaaa[i] : i \in DOMAIN conf.aaaa})
          THEN <<>> ELSE conf.aaaa) \o conf.a]
    /\ UNCHANGED <<conf, pc, completes, inFlight, dst, icmp>>

\* connect() to the next address: a SYN, or at once no route, when the
\* container has no IPv6 (setupIPNetwork), or no address left.
Connect(c) ==
    /\ client[c] = "try"
    /\ IF todo[c] = <<>>
       THEN /\ client' = [client EXCEPT ![c] = "failed"]
            /\ UNCHANGED todo
       ELSE IF conf.ipv6 \/ Head(todo[c]) \in V4
            THEN /\ client' = [client EXCEPT ![c] = "syn"]
                 /\ UNCHANGED todo
            ELSE /\ todo' = [todo EXCEPT ![c] = Tail(@)]
                 /\ UNCHANGED client
    /\ UNCHANGED <<conf, pc, completes, inFlight, dst, icmp>>

\* A program that stops waiting for its SYN to be answered.
GiveUp(c) ==
    /\ client[c] = "syn"
    /\ client' = [client EXCEPT ![c] = "gone"]
    /\ UNCHANGED <<conf, todo, pc, completes, inFlight, dst, icmp>>

\* Forwarder.HandlePacket: a SYN, or its retransmission, starts a handler;
\* beyond the limit it is ignored.
HandlePacket(c) ==
    /\ client[c] = "syn" /\ pc[c] \in {"idle", "returned"} /\ Arrives("tcp")
    /\ Cardinality(inFlight) < MaxInFlight
    /\ inFlight' = inFlight \cup {c}
    /\ completes' = [completes EXCEPT ![c] = 0]
    /\ pc' = [pc EXCEPT ![c] = "dial"]
    /\ UNCHANGED <<conf, client, todo, dst, icmp>>

Decided(c) == DialContext(conf, "tcp", Head(todo[c]), conf.port)

DialLater(c) ==
    /\ pc[c] = "dial"
    /\ pc' = [pc EXCEPT ![c] = "endpoint"]
    /\ UNCHANGED <<conf, client, todo, completes, inFlight, dst, icmp>>

Dial(c) ==
    /\ pc[c] = "dial"
    /\ IF Decided(c).means # "refuse" /\ <<Decided(c).means, Decided(c).to>> \in conf.reach
       THEN /\ dst' = [dst EXCEPT ![c] = "open"]
            /\ pc' = [pc EXCEPT ![c] = "endpoint"]
       ELSE /\ pc' = [pc EXCEPT ![c] = "refuse"]
            /\ UNCHANGED dst
    /\ UNCHANGED <<conf, client, todo, completes, inFlight, icmp>>

\* ForwarderRequest.Complete; a reset reaches a client that still waits,
\* whose program then moves on to its next address.
Complete(c, sendReset) ==
    /\ completes' = [completes EXCEPT ![c] = @ + 1]
    /\ inFlight' = inFlight \ {c}
    /\ IF sendReset /\ client[c] = "syn"
       THEN /\ client' = [client EXCEPT ![c] = "try"]
            /\ todo' = [todo EXCEPT ![c] = Tail(@)]
       ELSE UNCHANGED <<client, todo>>

RefuseSilently(c) ==
    /\ pc[c] = "refuse"
    /\ pc' = [pc EXCEPT ![c] = "returned"]
    /\ UNCHANGED <<conf, client, todo, completes, inFlight, dst, icmp>>

RefuseWithoutReset(c) ==
    /\ pc[c] = "refuse"
    /\ Complete(c, FALSE)
    /\ pc' = [pc EXCEPT ![c] = "returned"]
    /\ UNCHANGED <<conf, dst, icmp>>

\* The dial failed: the SYN is answered with a reset.
Refuse(c) ==
    /\ pc[c] = "refuse"
    /\ Complete(c, TRUE)
    /\ pc' = [pc EXCEPT ![c] = "returned"]
    /\ UNCHANGED <<conf, dst, icmp>>

\* CreateEndpoint completes the handshake with a client that still waits.
CreateEndpoint(c) ==
    /\ pc[c] = "endpoint" /\ client[c] = "syn"
    /\ client' = [client EXCEPT ![c] = "open"]
    /\ pc' = [pc EXCEPT ![c] = "complete"]
    /\ UNCHANGED <<conf, todo, completes, inFlight, dst, icmp>>

CreateEndpointFails(c) ==
    /\ pc[c] = "endpoint" /\ (client[c] = "gone" \/ conf.flaky)
    /\ pc' = [pc EXCEPT ![c] = "completeErr"]
    /\ UNCHANGED <<conf, client, todo, completes, inFlight, dst, icmp>>

CompleteOk(c) ==
    /\ pc[c] = "complete"
    /\ Complete(c, FALSE)
    /\ pc' = [pc EXCEPT ![c] = "relay"]
    /\ UNCHANGED <<conf, dst, icmp>>

CompleteErrRefuses(c) ==
    /\ pc[c] = "completeErr"
    /\ Complete(c, TRUE)
    /\ pc' = [pc EXCEPT ![c] = "refuse"]
    /\ UNCHANGED <<conf, dst, icmp>>

\* Complete(true), then throwTCPIP unwinds to the deferred dstConn.Close.
CompleteErr(c) ==
    /\ pc[c] = "completeErr"
    /\ Complete(c, TRUE)
    /\ pc' = [pc EXCEPT ![c] = "closeDst"]
    /\ UNCHANGED <<conf, dst, icmp>>

\* Transport returns (see Relay) and localConn is closed first.
CloseLocal(c) ==
    /\ pc[c] = "relay"
    /\ client' = [client EXCEPT ![c] = "done"]
    /\ pc' = [pc EXCEPT ![c] = "closeDst"]
    /\ UNCHANGED <<conf, todo, completes, inFlight, dst, icmp>>

CloseDst(c) ==
    /\ pc[c] = "closeDst"
    /\ dst' = [dst EXCEPT ![c] = "closed"]
    /\ pc' = [pc EXCEPT ![c] = "returned"]
    /\ UNCHANGED <<conf, client, todo, completes, inFlight, icmp>>

----------------------------------------------------------------------------
\* A datagram that the filter hands to the ICMP handler, which answers an
\* echo request, past the filter, and leaves the rest alone.
HandleICMP(kind) ==
    /\ kind \notin {"tcp", "udp"} /\ Arrives(kind)
    /\ icmp' = [kind |-> kind, answered |-> kind = "echo" /\ Leaves("echoReply")]
    /\ UNCHANGED <<conf, client, todo, pc, completes, inFlight, dst>>

----------------------------------------------------------------------------
Handle(c) ==
    \/ Dial(c) \/ Refuse(c) \/ CreateEndpoint(c) \/ CreateEndpointFails(c)
    \/ CompleteOk(c) \/ CompleteErr(c) \/ CloseLocal(c) \/ CloseDst(c)

Next ==
    \/ \E c \in Clients :
         Ask(c) \/ Connect(c) \/ GiveUp(c) \/ HandlePacket(c) \/ Handle(c)
    \/ \E kind \in Kinds : HandleICMP(kind)

Spec == Init /\ [][Next]_vars

\* Go runs every handler, the connect timeout ends every dial, a client sends
\* its SYN again until it is answered; a relay may last for ever.
FairSpec ==
    /\ Spec
    /\ \A c \in Clients :
         /\ WF_vars(Ask(c) \/ Connect(c)) /\ SF_vars(HandlePacket(c))
         /\ WF_vars(Handle(c) /\ pc[c] # "relay")

----------------------------------------------------------------------------
Waiting == {"dial", "refuse", "endpoint", "complete", "completeErr"}

Dialed == {"endpoint", "complete", "completeErr", "relay", "closeDst"}

TypeOK ==
    /\ client \in [Clients -> {"ask", "try", "syn", "open", "gone", "done", "failed"}]
    /\ todo \in [Clients -> Seq(IP)]
    /\ pc \in [Clients -> {"idle", "returned"} \cup Waiting \cup Dialed]
    /\ completes \in [Clients -> 0 .. 1]
    /\ inFlight \subseteq Clients
    /\ dst \in [Clients -> {"none", "open", "closed"}]
    /\ icmp \in [kind : Kinds \cup {"none"}, answered : BOOLEAN]

\* Complete is called exactly once on every path of handleTCP: a request
\* holds its place in the forwarder until then, and gives it back.
CompletedOnce ==
    \A c \in Clients :
       /\ c \in inFlight <=> pc[c] \in Waiting
       /\ c \in inFlight => completes[c] = 0
       /\ pc[c] \in {"relay", "closeDst", "returned"} => completes[c] = 1

\* handleTCP dials before it completes the handshake, closes localConn before
\* dstConn, and dstConn on every path after the dial: a program whose
\* connect() succeeded has an upstream, and no upstream outlives its handler.
UpstreamHeld ==
    \A c \in Clients : /\ client[c] = "open" => dst[c] = "open"
                       /\ dst[c] = "open" => pc[c] \in Dialed

\* Under -nat64 a synthesized address takes the route of the IPv4 address in
\* it, and an IPv4 one that -B lets out is dialed through the prefix.
SameRouteEitherForm ==
    conf.nat64 =>
      \A network \in Networks, a \in V4, port \in Ports :
         LET r == DialContext(conf, network, a, port) IN
         /\ DialContext(conf, network, Embed[a], port) = r
         /\ r.means = "proxy" => r.to = a
         /\ r.means = "direct" /\ MapAddress(conf.nat, network, a, port) = NotMapped
              => r.to = Embed[a]

\* The -B networks keep off the TUN networks that an AAAA answer can name.
BypassOffTun ==
    \A n \in conf.bypass : n \cap TunV6 = {} /\ (conf.nat64 => n \cap TunV4 = {})

\* The resolver and the router agree: an AAAA answer is shown only if one of
\* its addresses goes out directly, and when one is hidden nothing but a -L
\* mapping would have let an address of it out directly (allowsAAAA against
\* DialContext).
PolicyAgreesWithRoute ==
    BypassOffTun =>
    \A port \in Ports :
       LET Direct == {ip \in V6 \cup Synthesized :
              DialContext(conf, "tcp", ip, port).means = "direct"}
           Mapped == {ip \in V6 \cup Synthesized :
              MapAddress(conf.nat, "tcp", nat64Unmap(conf, ip), port) # NotMapped}
       IN  \A answer \in SUBSET (V6 \cup Synthesized) :
             IF VisibleAAAA(conf, answer)
             THEN answer \cap Direct # {}
             ELSE conf.ipv6 => answer \cap Direct \subseteq Mapped

\* The filter's rule numbers let no ICMP but echo through to the handler, and
\* let the answer to every echo request out (defaultIPTables, replyEcho).
OnlyEcho ==
    /\ icmp.kind \in {"none", "echo", "echoReply"}
    /\ icmp.answered <=> icmp.kind = "echo"

Reachable ==
    \E i \in DOMAIN conf.a :
       /\ conf.a[i] \in V4
       /\ LET r == DialContext(conf, "tcp", conf.a[i], conf.port) IN
           r.means # "refuse" /\ <<r.means, r.to>> \in conf.reach

\* Every program gets an answer, however many SYNs the limit held back, and
\* gets through to the IPv4 address that can be reached, whatever became of
\* the addresses it tried first (the comment on handleTCP).
FallsBack ==
    \A c \in Clients :
       <>(\/ client[c] \in {"open", "done", "gone"}
          \/ client[c] = "failed" /\ (conf.flaky \/ ~Reachable))

\* Whatever the list of -L texts, the table that parseMapping and
\* AddAddressMapping build leads every destination to the target its writer
\* meant: the last mapping of the address, else the last one of the port.
MappedAsWritten ==
    \A network \in Networks, ip \in IP, port \in Ports :
       MapAddress(conf.nat, network, ip, port) = Meant(conf.written, network, ip, port)
=============================================================================
