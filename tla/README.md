# A TLA+ verification of wirez

wirez runs a program in a network namespace of its own and carries everything
the program sends through a chain of SOCKS5 and HTTP proxies. This directory
holds TLA+ models of the parts of wirez whose correctness depends on the order
in which things happen, the TLC instances that model-check them, and proofs
checked by TLAPS. `PROJECT.json` is the index: components, runs, mutants, the
map from definitions to source lines, findings, hazards and theorems.

## The system

    program --- TUN --- gVisor stack --- handleTCP / handleUDP --- Transport --- proxy chain
       |                (network_stack.go)                        (transport.go)  (socks5.go, httpproxy.go)
       +--- 127.0.0.1:53 --- resolver (resolver.go) --- upstream DNS servers

| Part | Source | State and concurrency | Module |
| --- | --- | --- | --- |
| SOCKS5 UDP connector | `socks5.go` 245-389 | `c.slots` under `c.mu`, slots with a `ready` channel, one goroutine per dial and a watcher per control connection | `UDPAssociation` |
| UDP association and flows | `udp_assoc.go` | `a.flows`, `a.closed` under `a.mu`, a read loop per association, a queue per flow | `UDPAssociation` |
| Relay and idle timeouts | `transport.go` | two goroutines per connection, an error channel, four deadlines on two connections | `Relay` |
| Handlers | `network_stack.go` 241-306 | dial, relay, deferred closes | `UDPAssociation`, `Relay` |
| DNS resolver | `resolver.go` | a goroutine per UDP query and per TCP client, an atomic preferred index, deadlines | `Resolver` |
| Proxy chain | `socks5.go` 46-243, `httpproxy.go`, `run.go` 204-234 | hops over one transport connection, deadlines, `CloseOnThrow` | `ProxyChain` |
| TCP handler and forwarder | `network_stack.go` 137-153, 241-279 | a goroutine per request, a limit on requests in flight | `NetworkStack` |
| Packet filter, ICMP echo | `network_stack.go` 192-234, 310-401 | a rule table; a handler called by the stack | `NetworkStack` |
| Routing | `connect.go`, `run.go` 204-234, `resolver.go` 97-144 | a pure decision: mapping, refusal, bypass, NAT64, and the AAAA answers that have to agree with it | `Routing` |
| `-L` mappings | `config.go` 52-180, `connect.go` 199-229 | the table of the mapper | `Mapping` |
| Start-up and exit | `run.go`, `run_container.go`, `root.go` | three processes, a control socket, file descriptors, mounts, exit statuses | `Startup` |

## Modules

### UDPAssociation: the flows of one source share one association

`handleUDP` runs once for each pair of endpoints and dials through
`socks5UDPConnector`. The first dial of a source creates a slot and negotiates
an association; the others wait for the slot. Each association has a read loop,
which sorts replies to flows, and a watcher of its control connection.

* Handlers walk through `pc`: `association` (the lookup under `c.mu`), `wait`
  (the select on `slot.ready`), `associate`, `assign` (`slot.assoc = ...`, under
  no mutex), `publish` (`close(slot.ready)`), `open`, `relay`, `closeFlow`,
  `closeConns`, `closeLocal`.
* A critical section is one action. What runs between two critical sections,
  the send to the queue after the unlock in `readLoop`, the closes after the
  unlock in `closeFlow` and `shutdown`, is an action of its own.
* `slot[t]` folds `ready`, `assoc` and `exc` into one value: `pending`,
  `assigned` (assoc set, ready not closed), `ready`, `failing`, `failed`.
* The handshake and the requests of `associate` are one step that succeeds or
  fails; the two connections it opens are closed together by every path and are
  one variable, `conns`.
* A slot is reused when nothing refers to it. That is what the collector does,
  and it keeps the model finite without a bound on how often the system fails.
* A relay may spell an IPv4 address in plain or IPv4-mapped form
  (`Spellings`); `udpFlowKey` maps both to one key. A datagram that does not
  parse, or whose address is no flow's, changes nothing.

`UDPNat` is the promise of the doc comment of `DialContext`, "as a NAT shares
one external port": per source a binding that is requested, granted or refused,
joined and left by destinations, given up with its last user, or dropped by the
proxy. `NATSpec` is `UDPNat` under the refinement mapping that reads the binding
off the open association of the source.

### Relay: one connection

One goroutine per direction copies; `Transport` waits for one report, or two
when the first is nil; the handler closes both connections. A stream is
represented by how many chunks passed a point, since a copy loop cannot reorder
them. A chunk is handed to the kernel in `Pieces` pieces, so a `Write` may be
under way for a while. `armed[s]` is the time left to the deadline of side s,
set by the `Read` and by the `Write` of `TimeoutConn`; `seen[s]` is what was left
when the pending `Read` started, which is what `udpFlow.Read` obeys
(`Snapshotting`). Time passes only when every goroutine waits for a peer.
`idle` is the time since data last moved, not counting data at this very instant.

### Resolver: the DNS server

A goroutine per UDP query and one per TCP client run `forward`: start at the
preferred upstream, ask one after the other over UDP and, when truncated, over
TCP with a deadline for the dial and one for the exchange; store the index of
the one that answered if it is not the one the walk started with. Upstreams die
and come back at any time. `deadline` is the deadline on the client's
connection, `quiet` the time since the client sent something.

### ProxyChain: the dial through the -F proxies

All hops of a TCP dial talk over one transport connection. A token stands for
the bytes of one read: the method a SOCKS5 proxy chose, the status of the
authentication, the head and the address of its reply, the status line and the
headers of an HTTP proxy, a chunk of what the destination says. SOCKS5 hops read
exactly their tokens; the `bufio.Reader` of an HTTP hop takes any non-empty
prefix of what the layer below has (`Fill`), so it may read ahead into the
destination's first bytes, and the tunnel of each HTTP hop has to hand them on.
The schemes and credentials of the chain are chosen in `Init`, so one run covers
all chains of a length. The proxies answer yes, no or nonsense, or not at all;
the connection may break at any time.

`Tunnel` is what the relay expects: a dial that ends up or failed, and a
connection that carries the destination's chunks in order from the first one on.

### Routing, Mapping, NetworkStack: from a name to a connection

`Routing` is the decision about one destination: `nat64Unmap`, the `-L` table, the
refusal of TUN addresses, `-B`, the chain. An address is a model value of one of
three kinds (IPv4, IPv6, IPv6 that embeds an IPv4 address in the NAT64 prefix),
a network is a set of addresses. `allowsAAAA` and `VisibleAAAA` are the
resolver's copy of part of that decision.

`Mapping` parses `-L` texts, as sequences of tokens, from right to left the way
`parseMapping` does, and builds the table; `Written` and `Meant` are what a user
writes and what the last matching mapping means. A source host is kept in the
spelling it was written in: a text that `endpointAddress` would spell otherwise
(`[::0:1]`) stays in the table and is never found.

`NetworkStack` puts them to work. A client looks a name up (through the
resolver's policy with `-D`), tries the addresses in order, and moves on when one
is refused; gVisor's forwarder takes a SYN when it has a place free and drops it
otherwise; `handleTCP` is one action per step that changes what others see:
the dial, the refusal, the handshake, `Complete` after either outcome, the relay's
end, the deferred close. What the world is like (what answers a dial, whether
gVisor fails to make endpoints) is part of the configuration chosen in `Init`. A
client has one attempt at a time, and its next SYN waits for the previous
handler's return; in gVisor the two may overlap, on different ports, and share
nothing but the limit. The packet filter is the rule table by kind of packet, and
the echo handler is one action.

### Startup: wirez, the container, the program

Three processes walk through `runRun`, `runContainer` and the program. The control
socket is two queues and the set of processes that hold each end: end of file is
what a reader sees when the queue is empty and nobody holds the other end, so a
descriptor too many shows up as a process that waits for ever. Any call may throw
(`Throws`), which leaves through `main`; anybody may be killed at any point
(`Kill`); a process whose parent is gone is killed by the kernel (`Pdeathsig`).
`bindMountFile` is four steps, since a throw or a kill in between matters to the
host. Of `resolv.conf` only the set of lines matters; `hosts` is searched in
order and stays a sequence.

## Runs

| Run | Instance | Shows |
| --- | --- | --- |
| `udp_safety` | 1 source, 2 destinations, 2 handlers, 2 slots, queue of 1, symmetric handlers and slots | the five safety invariants and the refinement of `UDPNat` |
| `udp_liveness` | the same with 1 slot | `DialEnds`, `HangUpEndsFlows` |
| `udp_stale_slot` | 1 handler, 1 slot | counterexample to `ClosedIsForgotten` |
| `relay_streams` | timeout 2, 1 chunk each way in 2 pieces, half-closing and slow peers | `CleanEOF`, `HalfCloseLasts`, `IdleEnds`, `GoroutinesEnd` |
| `relay_idle` | timeout 3, 2 chunks each way | `OnlyIdleEnds` for directly dialed UDP flows |
| `relay_udp_flow` | the same through a `udpFlow` | counterexample to `OnlyIdleEnds` |
| `dns_failover` | 1 UDP query, 1 TCP client, 2 upstreams, round trip 1, stream idle 2 | `AllAsked`, `BoundedResolve`, `DeadIsAbandoned` |
| `dns_stream_deadline` | 1 TCP client, 2 upstreams, round trip 2, stream idle 4 (the 5 s and 10 s of the code) | counterexample to `StreamStaysOpen` |
| `proxy_chain` | all chains of 3 hops, 2 chunks from the destination | refinement of `Tunnel`, `EndsClean`, `FailsForCause`, `DialEnds` |
| `proxy_by_name` | 2 hops, the second given by its name | counterexample to `FailsForCause` |
| `network_stack` | 2 clients, 1 place in the forwarder, 65 configurations (`MCConfigs`) | `CompletedOnce`, `UpstreamHeld`, `OnlyEcho`, `SameRouteEitherForm`, `PolicyAgreesWithRoute`, `MappedAsWritten`, `FallsBack` |
| `startup` | exit codes 0, 1, 3, SIGKILL and SIGTERM, with and without `-D`, empty and non-empty host files | `ReadyBeforeRun`, `HostEntriesStay`, `NothingInherited`, `HostUntouched`, `StatusPassedOn`, `StartUpEnds`, `EndTogether` |

Why the bounds are enough. Sources do not interact except through the map
`c.slots`, so one source suffices for TLC, and the proofs cover any number. Two
handlers and two slots are the least for which a flow can outlive, wait for, or
be confused with another, and for which an association can be replaced while
the old one is still closing. A queue of one is full after one datagram. In the
relay, two chunks and a timeout of three let one direction move while the other
waits, and let the deadlines of the two sides differ; half-close and slow
writes only need one chunk in two pieces. Two upstreams make the walk wrap
around. Three hops give every pair of neighbours in both orders and a hop between two
others; two chunks tell a lost chunk from a late one. Two clients and one place
are the least for which the forwarder turns a SYN away. The configurations of
`network_stack` are every list of up to two of five kinds of `-L` text; every
combination of `-nat64`, `-6`, `-D` and two answers in two worlds (`Worlds`: `-B`
names an IPv6 network that cannot be reached, or leaves IPv6 to a proxy that
reaches IPv4 only); and a `-B` network that overlaps the TUN's, with endpoints that
may fail. The start-up has no bound:
its state space is finite.

Deadlock is checked in all runs except those of the relay and of the dial, which
end.

## Fairness

* UDP: goroutines that can run do (the Go scheduler); the deadline of the connect
  context passes; `associate` returns, since its connections carry that
  deadline; a read of a closed connection fails; a flow whose `done` is closed
  stops relaying. `WaitExpires` is strongly fair because a select whose context
  branch is ready again and again takes it some time. The lookup of a slot is
  strongly fair because the code never blocks there: only the model may lack a
  free element of `Slots`. Nothing is assumed of the proxy, of the traffic, or of
  flows ending by themselves.
* Relay: a goroutine whose call returned, or whose deadline passed, goes on. The
  peers owe nothing; a `Write` to a slow peer need never finish.
* Resolver: a goroutine whose exchange was answered, refused or timed out goes
  on. Clients and upstreams owe nothing.
* Proxy chain: the context expires, the dial of the transport connection obeys
  it, and a call whose data arrived or whose deadline passed returns. The proxies
  need not answer.
* Network stack: a handler goes on, since the connect timeout bounds its dial; a
  program looks up and connects. `HandlePacket` is strongly fair: a client sends
  its SYN again until it is answered, and the place it needs is free again and
  again. A relay may last for ever.
* Start-up: both halves go on, or throw where a call fails every time; the kernel
  delivers the death signals. The program may run for ever.

## Proofs

`UDPAssociationProofs` proves for any sets of sources, destinations, handlers
and slots, and any queue bound:

| Theorem | Statement |
| --- | --- |
| `TypeCorrect` | `Spec => []TypeOK` |
| `Sharing` | `Spec => []OneAssociationPerSource` |
| `NotCutOff` | `Spec => []NoFlowCutOff` |
| `RightDelivery` | `Spec => []NoMisdelivery` |
| `NotIdle` | `Spec => []NoIdleAssociation` |
| `NoLeak` | `Spec => []NoConnectionLeak` |
| `NotStranded` | `Spec => []NobodyStranded` |
| `ImplementsNAT` | `Spec => NATSpec` |

The assumptions are two: `QueueCap` is positive (`udpFlowQueue` is 1024), and
`None`, which stands for nil, is not an element of the other sets.

None of the invariants is inductive alone. `IInv` (`UDPAssociationDials`) adds

* `HandlersOK`: what a handler has in hand belongs to its source, and no two
  handlers serve the same pair of endpoints;
* `SetupOK`: a slot being set up has one creator, is the one in `c.slots`, and has
  an association exactly when it has got that far;
* `SlotsOK`: every open association is in `c.slots` under its source. This is the
  heart of `Sharing`: two open associations of one source would be the same
  entry. It holds although `slot.assoc` is assigned without the mutex, because
  the race can only leave a closed association in the map, never lose an open one;
* `FlowsOK`: `a.flows` holds exactly the flows of the handlers that use the
  association, and a relaying flow of a closed one is on the list of `shutdown`;
* `DeliveryOK`: the flow the read loop carries across the unlock is the one the
  datagram is for, or is past its relay;
* `ConnsOK`: whoever closed an association is on the way to close its connections.

`UDPAssociationDials` states the invariant and proves that the steps of a dial keep
it, up to `open`; `UDPAssociationProofs` does the rest of a flow's life, the read loop
and the watcher, one lemma per action. It then shows for each action which step of
`UDPNat` it is, or that it leaves the binding and its users unchanged, and combines
them.

`NobodyStranded` is the safety that `DialEnds` and `HangUpEndsFlows` rest on: a dial
in the select on `slot.ready` always has another dial that is still setting that slot
up, and a relay whose `done` is open has a read loop that has not ended. Three facts
on top of `IInv` give it: a slot that is neither ready nor failed has a creator
(`MadeBy`), a slot that `c.slots` or a handler names has been taken into use (`InUse`),
and a read loop with flows to wake is still inside `shutdown` (`WakeOK`).

`RelayProofs`, `ResolverProofs` and `ProxyChainProofs` prove, for any timeout and
number of chunks, any number of upstreams, queries and connections, and any chain:

| Module | Theorem | Statement |
| --- | --- | --- |
| `RelayProofs` | `TypesHold` | `Spec => []TypeOK` |
| | `HalfCloseIsTrue` | `Spec => []CleanEOF` |
| | `RelayOutlastsHalfClose` | `Spec => []HalfCloseLasts` |
| | `IdleRelayEnds` | `Spec => []IdleEnds` |
| | `NobodyIsLeftBehind` | `Spec => []NobodyBlocks` |
| | `OnlyIdleRelaysEnd` | `Spec => OnlyIdleEnds`, if `Snapshotting = {}` and `SlowPeers = {}` |
| `ResolverProofs` | `TypesHold` | `Spec => []TypeOK` |
| | `EveryUpstreamIsAsked` | `Spec => []AllAsked` |
| | `ResolveIsBounded` | `Spec => []BoundedResolve` |
| `ProxyChainProofs` | `TypesHold` | `Spec => []TypeOK` |
| | `DialsEndClean` | `Spec => []EndsClean` |
| | `ChainIsTunnel` | `Spec => TunnelSpec` |
| | `FailuresHaveCauses` | `Spec /\ Routable => FailsForCause` |

They assume no more than that the constants are numbers in range
(`RelayAssumption`, `ResolverAssumption`, `ProxyChainAssumption`).

*The relay.* `CopyOK` says what a goroutine has in hand: at most one chunk between
what it took from its side and what the other side got, and a nil to report exactly
when it has half-closed. `ReportsOK` says what is in the error channel, so that
`HalfCloseLasts` survives the second receive. `DeadlinesOK` is the argument for
`IdleEnds`: no deadline ends later than the timeout after data last moved, because a
goroutine arms one only at an instant at which data moves. `OnlyIdleEnds` needs the
converse, `Fresh`: no deadline of a pending read ends *earlier*, because every move of
data arms both sides. That is true only where a pending read sees the new deadline and
no write waits; with a `udpFlow` on one side it is false, and `relay_udp_flow` is the
counterexample, so the two hypotheses are those of the run `relay_idle`.
`NobodyBlocks`, under `GoroutinesEnd`, says why no goroutine is left at the channel
when `Transport` returns after one report: `Room` counts a place in `errc` for every
goroutine that has yet to report, and a receive only adds to them.

*The resolver.* `QueryOK` says that a query has asked exactly the upstreams from its
start to the current one, counted around the ring, and has spent at most three round
trips on each. That the walk meets every upstream from any start is `RingIsComplete`.
Nothing in it mentions the preferred index after the start: that is why the other
goroutines' stores do no harm.

*The chain.* The difficulty is that the bytes after a handshake are spread over the
buffered readers of the HTTP hops and the connection below. `Place` numbers the tokens
that may follow the last message of a hop, and `InOrder(b, lo, hi)` says that the
layers hold each place from `lo` to `hi` once, higher layers the earlier ones. Reading
from the highest layer, reading ahead into it and appending below each keep it
(`ReadInOrder`, `FillInOrder`, `ArriveInOrder`). `StreamOK` is that for the state of
the dial, and gives the refinement: the next byte of a tunnel is the next chunk of the
destination. `TidyOK` says which layers may hold anything, `ProperOK` which tokens may
be there at all and what excuses a refusing one, `HopsOK` where the handshake is and `ConnOK` when a connection is open
and has a deadline. `FailsForCause` is proved for chains in which no SOCKS5 hop is to
reach a proxy by its name (`Routable`, which is a matter of `Init`: no step changes
the schemes); without it the run `proxy_by_name` is the counterexample.

`NetworkStackProofs`, `MappingProofs` and `StartupProofs` prove, for all values of the
constants:

| Theorem | Statement |
| --- | --- |
| `CompletedOnceTheorem` | `Spec => []CompletedOnce` |
| `UpstreamTheorem` | `Spec => []UpstreamHeld` |
| `OnlyEchoTheorem` | `Spec => []OnlyEcho` |
| `SameRouteTheorem` | `Spec => []SameRouteEitherForm` |
| `PolicyTheorem` | `Spec => []PolicyAgreesWithRoute` |
| `TypesTheorem` (`NetworkStackProofs`) | `Spec => []TypeOK` |
| `FailsTheorem` | `Spec => []FailsOnlyUnreachable` |
| `ParseWritten` | `parseMapping(Written(m).text, m.proto)` is `m`, for every mapping `m` |
| `MappedTheorem` | `Spec => []MappedAsWritten` |
| `ReadyTheorem` | `Spec => []ReadyBeforeRun` |
| `InheritTheorem` | `Spec => []NothingInherited` |
| `HostTheorem` | `Spec => []HostUntouched` |
| `StatusTheorem` | `Spec => []StatusPassedOn` |
| `HostsTheorem` | `Spec => []HostEntriesStay` |
| `TypesTheorem` (`StartupProofs`) | `Spec => []TypeOK` |
| `WaitsTheorem` | `Spec => []NoVainWait` |

The routing theorems rest on `FamilyAssumption` (an address has one family, and
different IPv4 addresses are embedded differently) and `TunAssumption`, and hold of
every configuration, not only those of `MCConfigs`. `DialContextRules` says what
`DialContext` decides in terms of the options; `PolicyTheorem` follows from it and
from `BypassOffTun`. The handler's invariant adds to `CompletedOnce` that `dstConn`
is open exactly between the dial and the deferred close (`UpstreamOK`): without it
nothing says that the handshake of an `endpoint` step has an upstream. Its types need
two more facts: a program that sent a SYN has the address it sent it to (`Trying`,
from `ConfigsAssumption`: a name has lists of addresses), and only a request in flight
is completed (`Counted`).

`FailsOnlyUnreachable` is the safety half of `FallsBack`: a program that has given up
had no IPv4 address that the router lets out and the world answers, unless gVisor
fails to make endpoints. Its invariant, `FallbackOK`, says that as long as such an
address exists it is still on the program's list, whose head is the one being tried
(`Hopeful`). A refusal takes away only an address that could not be reached, because
`handleTCP` completes the request with a reset after the dial has failed and not before;
that the look-up puts all of the IPv4 addresses on the list is `HopeFound`.

`MappingProofs` is about texts. `ParseWritten` takes a mapping as a user writes it,
with or without a source host, an IPv6 address in brackets, and shows that the four
cuts from the right find its parts again: a port is never taken for a group of an IPv6
address, nor a colon inside brackets for a separator. It assumes of the texts that
ports and words are not separators (`WordsAssumption`) and that a host is not empty,
has no bracket, and has a colon only if it is an IP literal (`HostsAssumption`): what
`-L` cannot express otherwise. `MappedAsMeant` is about the table of a whole list: a
key leads to the target of the last mapping that has it. The table is built by
recursion over the list, and the induction over its length is one over the set of the
lengths for which the claim holds (`UpTo`): the least number missing from it exists by
`LeastOf`, as strict inclusion on finite sets is well-founded. `TextAssumption` says that
no destination is an unspecified address, whose text would be the key of a bare port,
and `ConfigsAssumption` that the table of a configuration is the one built from its
`-L` texts.

The invariant of the start-up says what the ACK stands for. `OrderOK`: once it is
sent, read or acted on, wirez waits, and the stack, and under `-D` the resolver, are
there. `FdsOK`: what the container holds is a subset of what an exec closes.
`MountsOK`: which files are shadowed at each step of the two `bindMountFile` calls.
`StatusOK` adds what is known of the statuses: a wirez that was not killed and had
sent the ACK left after the container did and with its status; the container, if it
was not killed, left after the program and with its status. It needs the exit codes
and signals to be in range (`StatusAssumption`). `Ended` and `Messages`, for the types,
say that what `exitCode` makes of a status fits a byte again and how much the control
socket can hold at each step of the container.

`NoVainWait` is the safety that `StartUpEnds` rests on. A process blocks in a read of
the control socket when nothing is there, not even the end of file; whenever wirez
does, the container is alive and on its way to the message, and whenever the container
does, wirez is on its way to the ACK. `Handshake` says that what wirez has read and
what is left in the socket is what the container has sent, at every pair of places;
`EndsOK` says who holds the ends of the socket: wirez no longer the container's once it
reads, the container never wirez's, and nobody who has ended any. Together with
`FdsOK`, by which the program inherits neither, the end of file shows up as soon as
the other half is gone, however it went.

`HostsTheorem` is about a search: `First` takes the first line of a name. `LeastOf`
gets the existence of one from the well-foundedness of strict inclusion on finite
sets, `FirstIs` its uniqueness, and `OwnLast` that appending wirez's own lines leaves
it where it was. It assumes that a hosts file is a list of lines (`FilesAssumption`).

Only model-checked: the liveness properties (`DialEnds`, `HangUpEndsFlows`,
`GoroutinesEnd`, `DeadIsAbandoned`, the `DialEnds` of the chain, `FallsBack`,
`StartUpEnds`, `EndTogether`), which are beyond the prover. For five of them the
safety part is proved: `NobodyStranded`, `NobodyBlocks`, `FailsOnlyUnreachable` and
`NoVainWait` say that whoever waits has somebody to wait for; that they are then
scheduled is what the runs add.

## What the models disagree with

1. **A closed association can stay in `c.slots`** (`udp_stale_slot`,
   `socks5.go:328`). The read loop starts inside `newUDPAssociation`, before
   `slot.assoc` is assigned. If the relay fails in between, `forget` does not
   recognise the slot; the dial then retries on the closed association until its
   context expires, and so does every later flow of the source. `udp_assoc.go:58`
   and `socks5.go:298` say the caller starts a fresh one.
2. **A UDP flow through a proxy that only sends is ended as idle**
   (`relay_udp_flow`, `udp_assoc.go:190`), against `network_stack.go:47`.
3. **A DNS client over TCP is cut off while its query is being resolved**
   (`dns_stream_deadline`, `resolver.go:222`), against `resolver.go:22` and `218`.
4. **A chain cannot name its second proxy** (`proxy_by_name`, `socks5.go:63`): a
   SOCKS5 hop sends only IP addresses, and the dial fails before anybody refused
   it, against `README.md:69`.

`OnlyIdleEnds` is about flows whose writes do not block. `TimeoutConn.Write` arms
one deadline for a buffer of up to 64 KiB, so a stream whose peer takes less than
a buffer in a whole `TCPIdleTimeout` is closed while data moves. `IdleEnds` and
the other relay properties do cover such peers (`SlowPeers`).

Smaller remarks, which no run is about:

* With concurrent queries the preferred upstream need not be the one that answered
  last (`resolver.go:82`): the stores of two walks may come in either order.
  `DeadIsAbandoned` shows that what the sentence at `resolver.go:56` is for still
  holds in the end.
* A `bindMountFile` that throws, or a container killed inside it, leaves the
  directory `wirez-*` on the host. `HostUntouched` says only that no program runs
  with one there. The tmpfs of 4 KiB makes a longer `hosts` file such a throw.
* A `-B` network that contains an address of the TUN shows AAAA answers whose dial
  is then refused, because the router refuses TUN addresses before it looks at
  `-B`. `PolicyAgreesWithRoute` assumes that no such network is given
  (`BypassOffTun`).

## Not modelled

* gVisor's TCP and IP, the Go runtime, netlink, mount and the kernel's sockets: they
  are external, and appear as the steps wirez sees of them.
* The bytes of SOCKS5, HTTP and DNS messages and of the ICMP reply. A message is
  what the code decides on; the encoders and decoders are straight-line code that a
  unit test covers better than a model.
* Flags, usage text, logging, and the identities (`-uid`, `-gid`, the user
  namespace maps), which are handed to the kernel and decide nothing in wirez. The
  flags other than `-L` are one call each of a parser of the standard library.
* `throw.go` as such: it is a calling convention, and every throw is the error path
  of the action that throws.
* The TUN device itself (`run_container.go`, `tun`): opening it and setting its
  addresses is one step that succeeds or fails.
