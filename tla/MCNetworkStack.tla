--------------------------- MODULE MCNetworkStack ---------------------------
(* Instances of NetworkStack for TLC: configurations built from -L texts.  *)
EXTENDS NetworkStack

CONSTANTS pub, lan, peer, x6, lan6, tun6, spub, slan, speer

MCV4 == {pub, lan, peer}
MCV6 == {x6, lan6, tun6}
MCEmbed == pub :> spub @@ lan :> slan @@ peer :> speer
MCTunV4 == {peer}
MCTunV6 == {tun6}

MCText ==
    [ip \in IP |-> CASE ip = pub -> <<"pub">> [] ip = lan -> <<"lan">>
                     [] ip = peer -> <<"peer">>
                     [] ip = x6 -> <<"x6", ":", ":", "1">>
                     [] ip = lan6 -> <<"lan6", ":", "80">>
                     [] ip = tun6 -> <<"tun6", ":", ":">>
                     [] ip = spub -> <<"64", ":", ":", "pub">>
                     [] ip = slan -> <<"64", ":", ":", "lan">>
                     [] ip = speer -> <<"64", ":", ":", "peer">>]

MCLiterals == {MCText[ip] : ip \in V6 \cup Synthesized} \cup {<<":", ":">>}

MCWords == Ports \cup {"pub", "lan", "peer", "x6", "1", "lan6", "tun6", "64",
                       "0.0.0.0", "h1", "h2", "h3"}

MCHosts == MCLiterals \cup {<<"0.0.0.0">>, <<"peer">>, <<"h1">>, <<"h2">>, <<"h3">>}

L(source, port, host, hostport, proto) ==
    [source |-> source, port |-> port, host |-> host, hostport |-> hostport, proto |-> proto]

\* A bare port, the same port for any host, one address, IPv6 on both sides.
Ls == {L(<<>>, "80", <<"h1">>, "81", ""), L(<<"0.0.0.0">>, "80", <<"h2">>, "80", "tcp"),
       L(<<":", ":">>, "81", <<":", ":">>, "80", "udp"),
       L(MCText[peer], "80", <<"h3">>, "80", ""),
       L(MCText[lan6], "80", MCText[x6], "81", "")}

LLists == {<<>>} \cup {<<m>> : m \in Ls} \cup Ls \X Ls

Targets == {<<m.host, m.hostport>> : m \in Ls}

\* What answers a dial: the proxy reaches IPv4 only.
ByProxy == {"proxy"} \X V4
AllReach == ByProxy \cup ({"direct"} \X (Targets \cup (IP \ {tun6, peer})))

Conf(ls, bypass, nat64, ipv6, dns, http, aaaa, a, reach, flaky) ==
    [nat |-> parseAddressMapper(WrittenAll(ls)), written |-> ls,
     bypass |-> bypass, nat64 |-> nat64, ipv6 |-> ipv6, dns |-> dns, http |-> http,
     aaaa |-> aaaa, a |-> a, port |-> "80", reach |-> reach, flaky |-> flaky]

\* A direct IPv6 route that leads nowhere, and IPv6 left to the proxy.
Worlds == {[bypass |-> {{lan}, {lan6}}, reach |-> ByProxy],
           [bypass |-> {{lan}}, reach |-> AllReach]}

Answers == {<<x6, lan6>>, <<spub, slan>>}

MCConfigs ==
    {Conf(ls, {{lan}, {lan6}}, Len(ls) < 2, TRUE, TRUE, Len(ls) = 1, <<>>, <<peer>>, AllReach, FALSE) :
        ls \in LLists}
    \cup
    {Conf(<<>>, w.bypass, n, v, d, FALSE, aaaa, <<pub>>, w.reach, FALSE) :
        w \in Worlds, n \in BOOLEAN, v \in BOOLEAN, d \in BOOLEAN, aaaa \in Answers}
    \cup
    {Conf(<<>>, {{lan, peer}, {lan6}}, n, TRUE, TRUE, FALSE, <<lan6>>, <<lan>>, AllReach, TRUE) :
        n \in BOOLEAN}
=============================================================================
