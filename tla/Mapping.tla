------------------------------ MODULE Mapping ------------------------------
(***************************************************************************)
(* The -L mappings, [target_host:]port:host:hostport[/proto]: parseMapping *)
(* and its helpers (config.go) and the table they fill (addressMapper,     *)
(* connect.go).  A text is a sequence of tokens: the separators ":", "["   *)
(* and "]", and words (a host name, an IPv4 address, a port, a group of an *)
(* IPv6 address).  The part after "/" is a field of its own, "" if absent. *)
(***************************************************************************)
EXTENDS Routing, SequencesExt

CONSTANTS Literals,        \* the texts net.ParseIP takes for an address
          Words,           \* the tokens that are not separators
          Hosts            \* the host names and addresses -L may name

Separators == {":", "[", "]"}

Tokens == Words \cup Separators

ASSUME WordsAssumption == Ports \subseteq Words /\ Words \cap Separators = {}

\* A host is not empty and has no bracket, and only an IP literal has a colon.
ASSUME HostsAssumption ==
    \A h \in Hosts :
       /\ h \in Seq(Tokens) /\ h # <<>>
       /\ \A i \in DOMAIN h : h[i] \in Separators => h[i] = ":" /\ h \in Literals

Fails == [ok |-> FALSE]

LastIndex(text, token) ==
    SelectLastInSeq(text, LAMBDA t : t = token)

Before(text, i) == SubSeq(text, 1, i - 1)

After(text, i) == SubSeq(text, i + 1, Len(text))

\* The last port of a text and what is left of it; ParseUint may throw.
takeLastPort(text) ==
    LET i == LastIndex(text, ":")
        port == After(text, i)
    IN  IF \E p \in Ports : port = <<p>>
        THEN [ok |-> TRUE, port |-> port[1], rest |-> Before(text, i)]
        ELSE Fails

takeLastIPv6Host(text) ==
    LET i == LastIndex(text, "[")
        literal == SubSeq(text, i + 1, Len(text) - 1)
    IN  IF \/ i = 0
           \/ i > 1 /\ text[i - 1] # ":"
           \/ literal \notin Literals
        THEN Fails
        ELSE [ok |-> TRUE, host |-> literal, rest |-> Before(text, i - 1)]

takeLastHost(text) ==
    LET i == LastIndex(text, ":") IN
    IF text # <<>> /\ text[Len(text)] = "]" THEN takeLastIPv6Host(text)
    ELSE [ok |-> TRUE, host |-> After(text, i), rest |-> Before(text, i)]

\* parseMapping: from right to left, target port and host, then the source.
parseMapping(text, proto) ==
    LET to     == takeLastPort(text)
        host   == takeLastHost(to.rest)
        from   == takeLastPort(host.rest)
        source == takeLastHost(from.rest)
    IN  IF /\ proto \in {"", "tcp", "udp"}
           /\ to.ok /\ host.ok /\ host.host # <<>>
           /\ from.ok /\ source.ok /\ source.rest = <<>>
        THEN [ok       |-> TRUE,
              network  |-> IF proto = "" THEN "tcp" ELSE proto,
              fromHost |-> source.host, fromPort |-> from.port,
              target   |-> <<host.host, to.port>>]
        ELSE Fails

----------------------------------------------------------------------------
AnyTexts == {<<>>, <<"0.0.0.0">>, <<":", ":">>}

\* No connection of the container is to an unspecified address.
ASSUME TextAssumption == \A ip \in IP : Text[ip] \notin AnyTexts

KeyHost(host) == IF host \in AnyTexts THEN AnyHost ELSE host

AddAddressMappingKeepsFirst(nat, m) ==
    LET key == <<m.network, KeyHost(m.fromHost), m.fromPort>> IN
    [k \in DOMAIN nat \cup {key} |-> IF k \in DOMAIN nat THEN nat[k] ELSE m.target]

\* A later mapping of the same key replaces an earlier one.
AddAddressMapping(nat, m) ==
    LET key == <<m.network, KeyHost(m.fromHost), m.fromPort>> IN
    [k \in DOMAIN nat \cup {key} |-> IF k = key THEN m.target ELSE nat[k]]

\* The table of a list of -L texts that all parse.
parseAddressMapper(mappings) ==
    LET nat[n \in 0 .. Len(mappings)] ==
          IF n = 0 THEN <<>>
          ELSE AddAddressMapping(nat[n - 1],
                                 parseMapping(mappings[n].text, mappings[n].proto))
    IN  nat[Len(mappings)]

----------------------------------------------------------------------------
(* What a user writes: a mapping m from a source host (possibly none) and  *)
(* port to a target, an IPv6 host in brackets, and what it means.          *)
Mappings == [source : Hosts \cup {<<>>}, port : Ports, host : Hosts, hostport : Ports,
             proto : {""} \cup Networks]

Bracketed(host) ==
    IF \E i \in DOMAIN host : host[i] = ":"
    THEN <<"[">> \o host \o <<"]">> ELSE host

Written(m) ==
    [text  |-> (IF m.source = <<>> THEN <<>> ELSE Bracketed(m.source) \o <<":">>)
               \o <<m.port, ":">> \o Bracketed(m.host) \o <<":", m.hostport>>,
     proto |-> m.proto]

\* The last mapping written for the address, else the last one written for
\* the port alone (README: "host:port, or a bare port for any host").
Meant(ms, network, ip, port) ==
    LET For(hosts) == {i \in DOMAIN ms :
                         /\ ms[i].port = port /\ ms[i].source \in hosts
                         /\ network = IF ms[i].proto = "" THEN "tcp" ELSE ms[i].proto}
        Target(I) == <<ms[Max(I)].host, ms[Max(I)].hostport>>
        exact == For({Text[ip]})
        any == For(AnyTexts)
    IN  IF exact # {} THEN Target(exact)
        ELSE IF any # {} THEN Target(any) ELSE NotMapped

WrittenAll(ms) == [i \in DOMAIN ms |-> Written(ms[i])]
============================================================================
