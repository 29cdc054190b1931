----------------------------- MODULE ProxyChain -----------------------------
(***************************************************************************)
(* The dial of one TCP connection through the chain of -F proxies          *)
(* (socks5.go: socks5Connector; httpproxy.go: httpConnector; run.go:       *)
(* buildProxyChain).  All hops talk over one transport connection: hop k   *)
(* asks its proxy for a tunnel to proxy k + 1, the last one to the         *)
(* destination.                                                            *)
(*                                                                         *)
(* A token stands for the bytes of one read of the handshake, or for a     *)
(* chunk of what the destination says.  buf[0] is what has arrived on the  *)
(* transport connection, buf[k] what the bufio.Reader of the HTTP hop k    *)
(* has taken from the layer below it.                                      *)
(***************************************************************************)
EXTENDS Naturals, Sequences

CONSTANTS
  N,           \* how many -F proxies there are
  Named,       \* the hops whose proxy is given by a host name
  MaxChunks    \* bound: chunks the destination sends

ASSUME ProxyChainAssumption ==
  N \in Nat \ {0} /\ Named \subseteq 1..N /\ MaxChunks \in Nat

Hops == 1..N

VARIABLES
  scheme, auth,  \* per hop: its scheme; its credentials, if any
  hop, pc,       \* the hop that negotiates, and what it waits for
  conn,          \* the transport connection
  deadline,      \* whether the connection has a deadline
  expired,       \* whether the connect context is done
  asked,         \* what the proxy of this hop has been sent and not answered
  refused,       \* whether some proxy refused, or asked for what the hop has not
  buf,           \* per layer: what has arrived there and was not read
  reached,       \* whether the destination is connected
  said, heard    \* chunks it has sent, and which the relay has read

chainVars == <<scheme, auth>>
destVars == <<reached, said, heard>>
vars == <<chainVars, hop, pc, conn, deadline, expired, asked, refused, buf, destVars>>

Schemes == {"socks5", "http"}
Credentials == {"none", "short", "long"}
\* What a hop reads, and what each read may find.
Stages == {"method", "auth", "head", "addr", "line", "header"}
Values == {"ok", "userpass", "bad"}
Answers == [what : Stages, value : Values, chunk : {0}]
Chunks == [what : {"data"}, value : {"ok"}, chunk : 1..MaxChunks]
Tokens == Answers \cup Chunks

Init ==
  /\ scheme \in [Hops -> Schemes]
  /\ auth \in [Hops -> Credentials]
  /\ hop = 1 /\ pc = "dial"
  /\ conn = "none" /\ deadline = FALSE /\ expired = FALSE
  /\ asked = "nothing" /\ refused = FALSE
  /\ buf = [k \in 0..N |-> <<>>]
  /\ reached = FALSE /\ said = 0 /\ heard = <<>>

\* The layer a Read of the connection that hop k - 1 returned reads from: the
\* reader of the last HTTP hop below k, or the transport connection.
HTTPBelow(k) == {j \in 1..(k - 1) : scheme[j] = "http"}
\* Fault: the connection is returned, not the httpTunnel.
BelowUntunneled(k) == 0
Below(k) ==
  IF HTTPBelow(k) = {} THEN 0 ELSE CHOOSE j \in HTTPBelow(k) : \A i \in HTTPBelow(k) : i <= j

\* The layer from which the next read is served.
Source ==
  IF pc = "up" THEN Below(N + 1) ELSE IF scheme[hop] = "http" THEN hop ELSE Below(hop)
Arrived == Head(buf[Source])
-----------------------------------------------------------------------------
(* The dial of the transport connection, and the end of a dial.            *)

Dialed ==
  /\ pc = "dial" /\ ~expired
  /\ conn' = "open" /\ pc' = "begin"
  /\ UNCHANGED <<chainVars, hop, deadline, expired, asked, refused, buf, destVars>>

DialFails ==
  /\ pc = "dial"
  /\ pc' = "failed" /\ refused' = TRUE
  /\ UNCHANGED <<chainVars, hop, conn, deadline, expired, asked, buf, destVars>>

\* A throw after the connection was made: CloseOnThrow of this hop closes it;
\* the hops above have no connection yet.
Throw == pc' = "failed" /\ conn' = "closed"

\* The context of the dial is done.
Expire ==
  /\ pc \notin {"up", "failed"} /\ ~expired
  /\ expired' = TRUE
  /\ UNCHANGED <<chainVars, hop, pc, conn, deadline, asked, refused, buf, destVars>>

TimedOut == deadline /\ expired

\* A read or write past the deadline, or on a connection that broke.
IOFails ==
  /\ pc \in Stages /\ (TimedOut \/ conn = "broken")
  /\ Throw
  /\ UNCHANGED <<chainVars, hop, deadline, expired, asked, refused, buf, destVars>>

Breaks ==
  /\ conn = "open"
  /\ conn' = "broken"
  /\ UNCHANGED <<chainVars, hop, pc, deadline, expired, asked, refused, buf, destVars>>
-----------------------------------------------------------------------------
(* The handshake of a hop.                                                 *)

\* The hop writes a message and waits for its answer; past the deadline, or
\* on a connection that broke, nothing is sent and IOFails follows.
Write(message, stage) ==
  /\ asked' = IF expired \/ conn # "open" THEN "nothing" ELSE message
  /\ pc' = stage
  /\ UNCHANGED conn

\* Fault: the handshake has no deadline.
BeginUnbounded ==
  /\ pc = "begin"
  /\ IF scheme[hop] = "http" THEN Write("connect", "line") ELSE Write("greeting", "method")
  /\ UNCHANGED <<chainVars, hop, deadline, expired, refused, buf, destVars>>
\* applyDeadline, then the first message.
Begin ==
  /\ pc = "begin"
  /\ deadline' = TRUE
  /\ IF scheme[hop] = "http" THEN Write("connect", "line") ELSE Write("greeting", "method")
  /\ UNCHANGED <<chainVars, hop, expired, refused, buf, destVars>>

\* A Read of layer k returns what is there; of the transport connection only
\* before the deadline.
Readable(k) == buf[k] # <<>> /\ (k = 0 => ~TimedOut)

\* The read of a stage gets its bytes.
Reads(stage) ==
  /\ pc = stage /\ Readable(Source)
  /\ buf' = [buf EXCEPT ![Source] = Tail(@)]
  /\ UNCHANGED <<chainVars, expired, refused, destVars>>

\* socks5Request for the next proxy or the destination: socks5AppendAddr takes
\* nothing but an IP address.
Request ==
  IF hop + 1 \in Named THEN Throw /\ UNCHANGED asked ELSE Write("request", "head")

\* Fault: a hop with credentials insists on them.
ReadMethodStrict ==
  /\ Reads("method")
  /\ CASE Arrived.value = "ok" /\ auth[hop] = "none" -> Request
       [] Arrived.value = "userpass" /\ auth[hop] = "short" -> Write("credentials", "auth")
       [] OTHER -> Throw /\ UNCHANGED asked
  /\ UNCHANGED <<hop, deadline>>
\* socks5Handshake reads the method the proxy chose.
ReadMethod ==
  /\ Reads("method")
  /\ CASE Arrived.value = "ok" -> Request
       [] Arrived.value = "userpass" /\ auth[hop] = "short" -> Write("credentials", "auth")
       [] OTHER -> Throw /\ UNCHANGED asked
  /\ UNCHANGED <<hop, deadline>>

ReadAuth ==
  /\ Reads("auth")
  /\ IF Arrived.value = "ok" THEN Request ELSE Throw /\ UNCHANGED asked
  /\ UNCHANGED <<hop, deadline>>

\* A read that only decides whether to go on.
Check(stage, next) ==
  /\ Reads(stage)
  /\ IF Arrived.value = "bad" THEN Throw ELSE pc' = next /\ UNCHANGED conn
  /\ UNCHANGED <<hop, deadline, asked>>

\* Fault: the deadline of the handshake stays on the connection.
TunnelsUncleared(stage) ==
  /\ Reads(stage)
  /\ IF Arrived.value = "ok"
     THEN /\ hop' = IF hop = N THEN N ELSE hop + 1
          /\ pc' = IF hop = N THEN "up" ELSE "begin"
          /\ UNCHANGED <<conn, deadline>>
     ELSE Throw /\ UNCHANGED <<hop, deadline>>
  /\ UNCHANGED asked
\* The last read of a hop: its tunnel is up, the deadline is cleared, and the
\* next hop, if any, begins.
Tunnels(stage) ==
  /\ Reads(stage)
  /\ IF Arrived.value = "ok"
     THEN /\ deadline' = FALSE
          /\ hop' = IF hop = N THEN N ELSE hop + 1
          /\ pc' = IF hop = N THEN "up" ELSE "begin"
          /\ UNCHANGED conn
     ELSE Throw /\ UNCHANGED <<hop, deadline>>
  /\ UNCHANGED asked

\* Fault: the bound address of the reply is left unread.
ReadHeadOnly == Tunnels("head")
ReadHead == Check("head", "addr")
ReadAddr == Tunnels("addr")

\* The status line; one that is no HTTP ends the dial, any other status is
\* looked at after the headers.
ReadLine == Check("line", "header")
ReadHeader == Tunnels("header")

\* A pending read finds the reader of HTTP hop k empty, which takes whatever
\* the layer below has, up to its size.
Fill(k) ==
  /\ pc \in Stages \cup {"up"} /\ scheme[k] = "http" /\ k <= Source
  /\ (\A j \in k..Source : buf[j] = <<>>) /\ Readable(Below(k))
  /\ \E n \in 1..Len(buf[Below(k)]) :
       buf' = [buf EXCEPT ![k] = SubSeq(buf[Below(k)], 1, n),
                          ![Below(k)] = SubSeq(@, n + 1, Len(@))]
  /\ UNCHANGED <<chainVars, hop, pc, conn, deadline, expired, asked, refused, destVars>>

\* The relay reads from the tunnel.
Hear ==
  /\ pc = "up" /\ Readable(Source)
  /\ heard' = Append(heard, Arrived.chunk)
  /\ buf' = [buf EXCEPT ![Source] = Tail(@)]
  /\ UNCHANGED <<chainVars, hop, pc, conn, deadline, expired, asked, refused, reached, said>>
-----------------------------------------------------------------------------
(* The proxies and the destination.                                        *)

Token(what, value) == [what |-> what, value |-> value, chunk |-> 0]

\* The proxy of this hop answers message with the given tokens.
Answer(message, tokens) ==
  /\ asked = message /\ conn = "open"
  /\ asked' = "nothing"
  /\ buf' = [buf EXCEPT ![0] = @ \o tokens]
  /\ UNCHANGED <<chainVars, hop, pc, conn, deadline, expired, said, heard>>

\* The proxy agrees to a tunnel, or does not.
Agrees(value) ==
  /\ reached' = (reached \/ (value = "ok" /\ hop = N))
  /\ refused' = (refused \/ value # "ok")

AnswerGreeting(value) ==
  /\ Answer("greeting", <<Token("method", value)>>)
  /\ refused' = (refused \/ value = "bad" \/ (value = "userpass" /\ auth[hop] # "short"))
  /\ UNCHANGED reached

AnswerCredentials(value) ==
  /\ value # "userpass"
  /\ Answer("credentials", <<Token("auth", value)>>)
  /\ refused' = (refused \/ value = "bad")
  /\ UNCHANGED reached

\* A refusal of a request, in the reply code or with an address of no type.
AnswerRequest(head, addr) ==
  /\ head # "userpass" /\ addr # "userpass"
  /\ Answer("request", <<Token("head", head), Token("addr", addr)>>)
  /\ Agrees(IF head = "ok" THEN addr ELSE head)

AnswerConnect(line, status) ==
  /\ line # "userpass" /\ status # "userpass"
  /\ Answer("connect", <<Token("line", line), Token("header", status)>>)
  /\ Agrees(IF line = "ok" THEN status ELSE line)

\* The destination speaks, before or after the dial has returned.
Say ==
  /\ reached /\ conn = "open" /\ said < MaxChunks
  /\ said' = said + 1
  /\ buf' = [buf EXCEPT ![0] = Append(@, [what |-> "data", value |-> "ok", chunk |-> said + 1])]
  /\ UNCHANGED <<chainVars, hop, pc, conn, deadline, expired, asked, refused, reached, heard>>
-----------------------------------------------------------------------------
Handshake ==
  \/ Begin
  \/ ReadMethod \/ ReadAuth \/ ReadHead \/ ReadAddr
  \/ ReadLine \/ ReadHeader
  \/ \E k \in Hops : Fill(k)

Proxies ==
  \E v, w \in Values :
    \/ AnswerGreeting(v) \/ AnswerCredentials(v)
    \/ AnswerRequest(v, w) \/ AnswerConnect(v, w)

Next ==
  \/ Dialed \/ DialFails \/ Expire \/ IOFails \/ Breaks
  \/ Handshake \/ Hear
  \/ Proxies \/ Say

Spec == Init /\ [][Next]_vars

(***************************************************************************)
(* Fairness: the context of the dial expires, the dial of the transport    *)
(* connection obeys it, a call whose data has arrived or whose deadline    *)
(* has passed returns.  The proxies need not answer.                       *)
(***************************************************************************)
FairSpec ==
  Spec /\ WF_vars(Expire) /\ WF_vars(Dialed \/ DialFails) /\ WF_vars(IOFails) /\ WF_vars(Handshake)
-----------------------------------------------------------------------------
(* Types of all variables.                                                 *)
TypeOK ==
  /\ scheme \in [Hops -> Schemes] /\ auth \in [Hops -> Credentials]
  /\ hop \in Hops /\ pc \in Stages \cup {"dial", "begin", "up", "failed"}
  /\ conn \in {"none", "open", "broken", "closed"}
  /\ deadline \in BOOLEAN /\ expired \in BOOLEAN
  /\ asked \in {"nothing", "greeting", "credentials", "request", "connect"}
  /\ refused \in BOOLEAN
  /\ buf \in [0..N -> Seq(Tokens)]
  /\ reached \in BOOLEAN /\ said \in 0..MaxChunks /\ heard \in Seq(1..MaxChunks)

\* The dial and the tunnel, as the relay sees them.
T == INSTANCE Tunnel WITH
  status <- IF pc \in {"up", "failed"} THEN pc ELSE "dialing"

(* Through any chain the relay gets what the destination says, from the     *)
(* first byte on and in order, although a destination may speak before the  *)
(* dial has returned and its bytes may be read ahead by the reader of any   *)
(* HTTP hop (socks5.go:18, httpproxy.go:46).                                *)
TunnelSpec == T!Spec

(* A failed dial leaves no connection open, at whatever hop it failed       *)
(* (throw.go, CloseOnThrow); the connection handed to the relay has no      *)
(* deadline of the handshake left on it, while every read of a handshake    *)
(* has one (connect.go, applyDeadline).                                     *)
EndsClean ==
  /\ pc = "failed" => conn \in {"none", "closed"}
  /\ pc \in Stages => deadline
  /\ pc = "up" => ~deadline

(* A dial fails only when a proxy refused it, the connection broke or the   *)
(* time ran out: any list of proxies that -F takes makes a chain            *)
(* (README.md:69, "host:port ... repeat to chain").                         *)
FailsForCause == [][pc # "failed" /\ pc' = "failed" => refused' \/ expired \/ conn = "broken"]_vars

(* A dial ends, also when a proxy never answers (network_stack.go,          *)
(* ConnectTimeout bounds a dial, proxy handshakes included).                *)
DialEnds == <>(pc \in {"up", "failed"})
=============================================================================
