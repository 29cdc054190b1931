------------------------------ MODULE Resolver ------------------------------
(***************************************************************************)
(* The local DNS resolver (resolver.go): serveDNS starts a goroutine per   *)
(* UDP query, serveDNSTCP one per TCP connection; all of them share the    *)
(* list of upstreams and the index of the preferred one.                   *)
(*                                                                         *)
(* Names and addresses are left out: a query is one the resolver forwards, *)
(* or an AAAA query it answers itself.  Time counts in units of which      *)
(* RoundTrip is dnsUpstreamTimeout and StreamIdle dnsStreamIdleTimeout;    *)
(* work takes none of it, only waiting does.                               *)
(***************************************************************************)
EXTENDS Naturals

CONSTANTS
  Queries,     \* goroutines of UDP queries
  Streams,     \* goroutines of TCP connections
  N,           \* how many upstreams the -D list has
  RoundTrip,   \* dnsUpstreamTimeout
  StreamIdle   \* dnsStreamIdleTimeout

ASSUME ResolverAssumption ==
  N \in Nat \ {0} /\ RoundTrip \in Nat \ {0} /\ StreamIdle \in Nat \ {0}

Goroutines == Queries \cup Streams
Upstreams == 0..(N - 1)

VARIABLES
  preferred,   \* u.preferred
  alive,       \* the upstreams that answer
  pc,          \* where each goroutine is
  start, i,    \* the locals of forward
  asked,       \* the upstreams this query has been sent to
  left,        \* time left to the deadline of the exchange with the upstream
  spent,       \* time the query has taken so far
  deadline,    \* time left to the deadline of the client's connection
  quiet,       \* time since the client of the connection sent a query
  why          \* how the connection ended, last time

upstreamVars == <<preferred, alive>>
queryVars == <<start, i, asked, left, spent>>
streamVars == <<deadline, quiet, why>>
vars == <<upstreamVars, pc, queryVars, streamVars>>

Asking == {"udp", "dial", "tcp"}
PCs == Asking \cup {"idle", "read", "load", "store", "reply", "throw"}
\* Fault: the index does not wrap around.
IdxAtUnwrapped(g, k) == start[g] + k
IdxAt(g, k) == (start[g] + k) % N
Idx(g) == IdxAt(g, i[g])

Init ==
  /\ preferred = 0
  /\ alive \in SUBSET Upstreams
  /\ pc = [g \in Goroutines |-> "idle"]
  /\ start = [g \in Goroutines |-> 0]
  /\ i = [g \in Goroutines |-> 0]
  /\ asked = [g \in Goroutines |-> {}]
  /\ left = [g \in Goroutines |-> 0]
  /\ spent = [g \in Goroutines |-> 0]
  /\ deadline = [c \in Streams |-> 0]
  /\ quiet = [c \in Streams |-> 0]
  /\ why = [c \in Streams |-> "none"]

Goto(g, label) == pc' = [pc EXCEPT ![g] = label]

\* An upstream dies or comes back.
Flip(u) ==
  /\ alive' = IF u \in alive THEN alive \ {u} ELSE alive \cup {u}
  /\ UNCHANGED <<preferred, pc, queryVars, streamVars>>
-----------------------------------------------------------------------------
(* The clients, and the loops that serve them.                             *)

\* serveDNS reads a query that has to be forwarded; one it answers itself, an
\* AAAA query without IPv6, changes nothing.
UDPQuery(q) ==
  /\ pc[q] = "idle"
  /\ Goto(q, "load")
  /\ UNCHANGED <<upstreamVars, queryVars, streamVars>>

\* The top of the loop of handleDNSStream.
Listen(c) ==
  /\ deadline' = [deadline EXCEPT ![c] = StreamIdle]
  /\ Goto(c, "read")

Accept(c) ==
  /\ pc[c] = "idle"
  /\ Listen(c)
  /\ quiet' = [quiet EXCEPT ![c] = 0]
  /\ why' = [why EXCEPT ![c] = "none"]
  /\ UNCHANGED <<upstreamVars, queryVars>>

StreamQuery(c) ==
  /\ pc[c] = "read" /\ deadline[c] > 0
  /\ Goto(c, "load")
  /\ quiet' = [quiet EXCEPT ![c] = 0]
  /\ UNCHANGED <<upstreamVars, queryVars, deadline, why>>

\* An AAAA query without IPv6 gets an empty answer at once.
StreamQueryAnswered(c) ==
  /\ pc[c] = "read" /\ deadline[c] > 0
  /\ Listen(c)
  /\ quiet' = [quiet EXCEPT ![c] = 0]
  /\ UNCHANGED <<upstreamVars, queryVars, why>>

\* The goroutine is done with its client.
Leave(g, reason) ==
  /\ Goto(g, "idle")
  /\ why' = IF g \in Streams THEN [why EXCEPT ![g] = reason] ELSE why

ClientCloses(c) ==
  /\ pc[c] = "read"
  /\ Leave(c, "client")
  /\ UNCHANGED <<upstreamVars, queryVars, deadline, quiet>>

ClientIdle(c) ==
  /\ pc[c] = "read" /\ deadline[c] = 0
  /\ Leave(c, "deadline")
  /\ UNCHANGED <<upstreamVars, queryVars, deadline, quiet>>

\* The answer is written; on a connection past its deadline that fails.
Reply(g) ==
  /\ pc[g] = "reply"
  /\ \/ g \in Queries /\ Goto(g, "idle") /\ UNCHANGED streamVars
     \/ g \in Streams /\ deadline[g] > 0 /\ Listen(g) /\ UNCHANGED <<quiet, why>>
     \/ g \in Streams /\ deadline[g] = 0 /\ Leave(g, "deadline") /\ UNCHANGED <<deadline, quiet>>
  /\ UNCHANGED <<upstreamVars, queryVars>>

\* Every upstream failed: the goroutine ends without an answer.
Throw(g) ==
  /\ pc[g] = "throw"
  /\ Leave(g, "failed")
  /\ UNCHANGED <<upstreamVars, queryVars, deadline, quiet>>
-----------------------------------------------------------------------------
(* forward: one upstream after the other, from the preferred one on.       *)

Load(g) ==
  /\ pc[g] = "load"
  /\ start' = [start EXCEPT ![g] = preferred]
  /\ i' = [i EXCEPT ![g] = 0]
  /\ asked' = [asked EXCEPT ![g] = {preferred}]
  /\ left' = [left EXCEPT ![g] = RoundTrip]
  /\ spent' = [spent EXCEPT ![g] = 0]
  /\ Goto(g, "udp")
  /\ UNCHANGED <<upstreamVars, streamVars>>

\* The upstream answered: forward stores an index other than start.
Answered(g) ==
  /\ Goto(g, IF Idx(g) # start[g] THEN "store" ELSE "reply")
  /\ UNCHANGED <<upstreamVars, queryVars, streamVars>>

AnswerUDP(g) == pc[g] = "udp" /\ left[g] > 0 /\ Idx(g) \in alive /\ Answered(g)
AnswerTCP(g) == pc[g] = "tcp" /\ left[g] > 0 /\ Idx(g) \in alive /\ Answered(g)

\* A truncated answer is fetched again over TCP, with a deadline for the dial
\* and another for the exchange.
Exchange(g, from, to) ==
  /\ pc[g] = from /\ left[g] > 0 /\ Idx(g) \in alive
  /\ left' = [left EXCEPT ![g] = RoundTrip]
  /\ Goto(g, to)
  /\ UNCHANGED <<upstreamVars, start, i, asked, spent, streamVars>>

AnswerTruncated(g) == Exchange(g, "udp", "dial")
Connected(g) == Exchange(g, "dial", "tcp")

NextUpstream(g, k) ==
  /\ pc[g] \in Asking
  /\ IF k < N
     THEN /\ i' = [i EXCEPT ![g] = k]
          /\ asked' = [asked EXCEPT ![g] = @ \cup {IdxAt(g, k)}]
          /\ left' = [left EXCEPT ![g] = RoundTrip]
          /\ Goto(g, "udp")
     ELSE UNCHANGED <<i, asked, left>> /\ Goto(g, "throw")
  /\ UNCHANGED <<upstreamVars, start, spent, streamVars>>

\* Fault: a failure over TCP does not count.
FailsOverUDPOnly(g) == NextUpstream(g, IF pc[g] = "udp" THEN i[g] + 1 ELSE i[g])
\* Fault: the loop counter moves twice.
FailsSkipping(g) == NextUpstream(g, i[g] + 2)
\* A refusal, or the deadline: on to the next upstream, if there is one.
Fails(g) == NextUpstream(g, i[g] + 1)
\* A live upstream may refuse TCP.
Refused(g) == left[g] > 0 /\ (Idx(g) \notin alive \/ pc[g] # "udp") /\ Fails(g)
TimesOut(g) == left[g] = 0 /\ Fails(g)

StoreIndex(g, index) ==
  /\ pc[g] = "store"
  /\ preferred' = index
  /\ Goto(g, "reply")
  /\ UNCHANGED <<alive, queryVars, streamVars>>

\* Fault: nothing is stored.
StoreNothing(g) == StoreIndex(g, preferred)
Store(g) == StoreIndex(g, Idx(g))
-----------------------------------------------------------------------------
Waits(g) ==
  \/ pc[g] = "idle"
  \/ pc[g] = "read" /\ deadline[g] > 0
  \/ pc[g] \in Asking /\ left[g] > 0

Less(n) == IF n > 0 THEN n - 1 ELSE 0

Tick ==
  /\ \A g \in Goroutines : Waits(g)
  /\ left' = [g \in Goroutines |-> IF pc[g] \in Asking THEN left[g] - 1 ELSE left[g]]
  /\ spent' = [g \in Goroutines |-> IF pc[g] \in Asking THEN spent[g] + 1 ELSE spent[g]]
  /\ deadline' = [c \in Streams |-> Less(deadline[c])]
  /\ quiet' = [c \in Streams |-> IF pc[c] # "idle" THEN quiet[c] + 1 ELSE quiet[c]]
  /\ UNCHANGED <<upstreamVars, pc, start, i, asked, why>>

Forward(g) ==
  \/ Load(g)
  \/ AnswerUDP(g) \/ AnswerTruncated(g) \/ Connected(g) \/ AnswerTCP(g)
  \/ Refused(g) \/ TimesOut(g)
  \/ Store(g)

Next ==
  \/ \E u \in Upstreams : Flip(u)
  \/ \E q \in Queries : UDPQuery(q)
  \/ \E c \in Streams :
       Accept(c) \/ StreamQuery(c) \/ StreamQueryAnswered(c) \/ ClientCloses(c) \/ ClientIdle(c)
  \/ \E g \in Goroutines : Forward(g) \/ Reply(g) \/ Throw(g)
  \/ Tick

Spec == Init /\ [][Next]_vars

(***************************************************************************)
(* Fairness: a goroutine whose exchange was answered, refused or timed out *)
(* goes on.  Clients and upstreams owe nothing.                            *)
(***************************************************************************)
FairSpec == Spec /\ \A g \in Goroutines : WF_vars(Forward(g)) /\ WF_vars(Reply(g) \/ Throw(g))
-----------------------------------------------------------------------------
(* Types of all variables.                                                 *)
TypeOK ==
  /\ preferred \in Upstreams
  /\ alive \subseteq Upstreams
  /\ pc \in [Goroutines -> PCs]
  /\ start \in [Goroutines -> Upstreams]
  /\ i \in [Goroutines -> Upstreams]
  /\ asked \in [Goroutines -> SUBSET Upstreams]
  /\ left \in [Goroutines -> 0..RoundTrip]
  /\ spent \in [Goroutines -> Nat]
  /\ deadline \in [Streams -> 0..StreamIdle]
  /\ quiet \in [Streams -> Nat]
  /\ why \in [Streams -> {"none", "client", "deadline", "failed"}]

(* A query is given up only after every upstream was asked, whichever one   *)
(* was preferred when it started (resolver.go, forward).                    *)
AllAsked == \A g \in Goroutines : pc[g] = "throw" => asked[g] = Upstreams

(* A query takes at most three dnsUpstreamTimeouts for each upstream: the   *)
(* UDP exchange, the dial and the exchange over TCP (resolver.go,           *)
(* forwardDNS); every failure moves on to the next one.                     *)
BoundedResolve == \A g \in Goroutines : spent[g] <= 3 * N * RoundTrip

(* A TCP client is cut off at the deadline only when it sent nothing for    *)
(* dnsStreamIdleTimeout (resolver.go:218, "until the client closes it or    *)
(* goes idle").                                                             *)
StreamStaysOpen == \A c \in Streams : why[c] = "deadline" => quiet[c] >= StreamIdle

(* An upstream that stays dead stops being asked first, as long as queries  *)
(* get answers, even when a goroutine that it answered long ago stores its  *)
(* index late (resolver.go:56, "a dead server costs one timeout").          *)
DeadIsAbandoned ==
  \A u \in Upstreams :
    <>[](u \notin alive) /\ []<>(\E g \in Goroutines : pc[g] = "reply") => <>[](preferred # u)
=============================================================================
