--------------------------- MODULE ResolverProofs ---------------------------
(***************************************************************************)
(* That forward gives up only after it asked every upstream, and how long  *)
(* it may take to get there, for any number of upstreams, queries and      *)
(* connections, and whatever the other goroutines do to the preferred      *)
(* index in between.                                                       *)
(***************************************************************************)
EXTENDS Resolver, TLAPS

\* The exchanges with the current upstream, up to the one under way.
Stage(label) == CASE label = "udp" -> 1 [] label = "dial" -> 2 [] OTHER -> 3

\* forward has asked the upstreams from start to the current one, and paid at
\* most three round trips for each one before.
QueryOK(g) ==
  /\ pc[g] \in Asking =>
       /\ asked[g] = {IdxAt(g, k) : k \in 0..i[g]}
       /\ spent[g] + left[g] <= (3 * i[g] + Stage(pc[g])) * RoundTrip
  /\ pc[g] = "throw" => asked[g] = Upstreams
  /\ spent[g] <= (3 * i[g] + 3) * RoundTrip

IInv == TypeOK /\ \A g \in Goroutines : QueryOK(g)
-----------------------------------------------------------------------------
(* The arithmetic of the ring of upstreams and of the deadlines.            *)

(* The index forward asks is one of an upstream: "% N" wraps it around.     *)
LEMMA Wraps ==
  ASSUME NEW a \in Nat
  PROVE  a % N \in Upstreams
  BY ResolverAssumption, SMTT(30) DEF Upstreams

(* Counting on from any start, the wrapped index meets every upstream in N  *)
(* steps (the loop of forward).                                             *)
LEMMA RingIsComplete ==
  ASSUME NEW s \in Upstreams
  PROVE  {(s + k) % N : k \in 0..(N - 1)} = Upstreams
<1>1. ASSUME NEW u \in Upstreams
      PROVE  \E k \in 0..(N - 1) : (s + k) % N = u
  <2>1. CASE s <= u
    <3>1. u - s \in 0..(N - 1) /\ (s + (u - s)) % N = u
      BY <2>1, ResolverAssumption, SMTT(30) DEF Upstreams
    <3>. QED  BY <3>1
  <2>2. CASE s > u
    <3>1. u + N - s \in 0..(N - 1) /\ s + (u + N - s) = u + N
      BY <2>2, ResolverAssumption, SMTT(30) DEF Upstreams
    <3>2. (u + N) % N = u
      BY ResolverAssumption, SMTT(30) DEF Upstreams
    <3>. QED  BY <3>1, <3>2
  <2>. QED  BY <2>1, <2>2, ResolverAssumption, SMTT(30) DEF Upstreams
<1>2. ASSUME NEW k \in 0..(N - 1)
      PROVE  (s + k) % N \in Upstreams
  <2>1. s + k \in Nat
    BY ResolverAssumption, SMTT(30) DEF Upstreams
  <2>. QED  BY <2>1, Wraps
<1>. QED  BY <1>1, <1>2, Zenon

(* The upstreams asked so far: the one forward starts with, and one more    *)
(* with every failure.                                                      *)
LEMMA FirstAsked ==
  ASSUME NEW s \in Upstreams
  PROVE  {(s + k) % N : k \in 0..0} = {s}
<1>1. 0..0 = {0}
  BY SMTT(30)
<1>2. s \in Nat /\ s < N /\ s + 0 = s
  BY ResolverAssumption, SMTT(30) DEF Upstreams
<1>3. s % N = s
  BY <1>2, ResolverAssumption, SMTT(30)
<1>4. {(s + k) % N : k \in {0}} = {s}
  BY <1>2, <1>3, SMTT(30)
<1>. QED  BY <1>1, <1>4

LEMMA NextAsked ==
  ASSUME NEW s \in Nat, NEW n \in Nat
  PROVE  {(s + k) % N : k \in 0..(n + 1)} = {(s + k) % N : k \in 0..n} \cup {(s + (n + 1)) % N}
<1>1. 0..(n + 1) = (0..n) \cup {n + 1}
  BY SMTT(30)
<1>2. \A T : {(s + k) % N : k \in T \cup {n + 1}} = {(s + k) % N : k \in T} \cup {(s + (n + 1)) % N}
  BY Zenon
<1>. QED  BY <1>1, <1>2, Zenon

(* A round trip more is one more in the count of exchanges.                 *)
LEMMA OneMore ==
  ASSUME NEW n \in Nat
  PROVE  (n + 1) * RoundTrip = n * RoundTrip + RoundTrip
  BY ResolverAssumption, SMTT(30)

(* More exchanges take no less time.                                        *)
LEMMA Longer ==
  ASSUME NEW m \in Nat, NEW n \in Nat, m <= n
  PROVE  m * RoundTrip <= n * RoundTrip
<1>1. n - m \in Nat /\ (n - m) * RoundTrip >= 0
  BY ResolverAssumption, SMTT(30)
<1>2. n * RoundTrip = m * RoundTrip + (n - m) * RoundTrip
  BY ResolverAssumption, SMTT(30)
<1>3. m * RoundTrip \in Nat /\ n * RoundTrip \in Nat /\ (n - m) * RoundTrip \in Nat
  BY <1>1, ResolverAssumption, SMTT(30)
<1>. QED  BY <1>1, <1>2, <1>3, SMTT(30)
-----------------------------------------------------------------------------
(* Every step keeps the invariant.                                          *)

(* A goroutine whose forward does not move keeps what it has asked and      *)
(* spent, also when it answers its client or reads its next query.          *)
LEMMA KeepsQuery ==
  ASSUME NEW g \in Goroutines, QueryOK(g),
         start'[g] = start[g], i'[g] = i[g], asked'[g] = asked[g],
         left'[g] = left[g], spent'[g] = spent[g],
         pc'[g] = pc[g] \/ pc'[g] \in {"idle", "read", "load", "store", "reply"}
  PROVE  QueryOK(g)'
<1>1. pc'[g] \in Asking \cup {"throw"} => pc'[g] = pc[g]
  BY Zenon DEF Asking
<1>2. \A k : IdxAt(g, k)' = IdxAt(g, k)
  BY Zenon DEF IdxAt
<1>. QED  BY <1>1, <1>2, Zenon DEF QueryOK

(* A step that leaves all the locals of forward alone, and takes no one     *)
(* into an exchange or out of the list, keeps every query.                  *)
LEMMA KeepsQueries ==
  ASSUME IInv, UNCHANGED queryVars, NEW g,
         \A h \in Goroutines \ {g} : pc'[h] = pc[h],
         g \in Goroutines => pc'[g] \in {"idle", "read", "load", "store", "reply"}
  PROVE  \A h \in Goroutines : QueryOK(h)'
<1>. SUFFICES ASSUME NEW h \in Goroutines PROVE QueryOK(h)'
  OBVIOUS
<1>1. QueryOK(h)
  BY DEF IInv
<1>2. start' = start /\ i' = i /\ asked' = asked /\ left' = left /\ spent' = spent
  BY DEF queryVars
<1>. QED  BY <1>1, <1>2, KeepsQuery, Zenon

(* forward starts with the preferred upstream, and with nothing spent.      *)
LEMMA LoadInv ==
  ASSUME IInv, NEW g \in Goroutines, Load(g)
  PROVE  IInv'
<1>. USE DEF IInv, TypeOK, Load
<1>1. TypeOK'
  BY ResolverAssumption, SMTT(30) DEF Goto, PCs, Asking, Upstreams, upstreamVars, streamVars
<1>2. ASSUME NEW h \in Goroutines, h # g PROVE QueryOK(h)'
  <2>1. /\ start'[h] = start[h] /\ i'[h] = i[h] /\ asked'[h] = asked[h]
        /\ left'[h] = left[h] /\ spent'[h] = spent[h] /\ pc'[h] = pc[h]
    BY <1>2, Zenon DEF Goto
  <2>. QED  BY <2>1, KeepsQuery, Zenon
<1>3. QueryOK(g)'
  <2>1. /\ pc'[g] = "udp" /\ start'[g] = preferred /\ i'[g] = 0 /\ asked'[g] = {preferred}
        /\ left'[g] = RoundTrip /\ spent'[g] = 0
    BY Zenon DEF Goto
  <2>3. {IdxAt(g, k)' : k \in 0..0} = {preferred}
    BY <2>1, FirstAsked, Zenon DEF IdxAt
  <2>4. spent'[g] + left'[g] <= (3 * i'[g] + Stage("udp")) * RoundTrip
    BY <2>1, ResolverAssumption, SMTT(30) DEF Stage
  <2>5. spent'[g] <= (3 * i'[g] + 3) * RoundTrip
    BY <2>1, ResolverAssumption, SMTT(30)
  <2>. QED  BY <2>1, <2>3, <2>4, <2>5, Zenon DEF QueryOK
<1>. QED  BY <1>1, <1>2, <1>3, Zenon

(* A truncated answer and a connection each open an exchange more with the  *)
(* same upstream, with a deadline of its own.                               *)
LEMMA ExchangeInv ==
  ASSUME IInv, NEW g \in Goroutines, NEW from, NEW to, Exchange(g, from, to),
         <<from, to>> \in {<<"udp", "dial">>, <<"dial", "tcp">>}
  PROVE  IInv'
<1>. USE DEF IInv, TypeOK, Exchange
<1>1. TypeOK'
  BY ResolverAssumption, SMTT(30) DEF Goto, PCs, Asking, Upstreams, upstreamVars, streamVars
<1>2. ASSUME NEW h \in Goroutines, h # g PROVE QueryOK(h)'
  <2>1. /\ start'[h] = start[h] /\ i'[h] = i[h] /\ asked'[h] = asked[h]
        /\ left'[h] = left[h] /\ spent'[h] = spent[h] /\ pc'[h] = pc[h]
    BY <1>2, Zenon DEF Goto
  <2>. QED  BY <2>1, KeepsQuery, Zenon
<1>3. QueryOK(g)'
  <2>1. /\ pc[g] = from /\ pc'[g] = to /\ start'[g] = start[g] /\ i'[g] = i[g]
        /\ asked'[g] = asked[g] /\ left'[g] = RoundTrip /\ spent'[g] = spent[g]
    BY Zenon DEF Goto
  <2>2. from \in Asking /\ to \in Asking /\ Stage(to) = Stage(from) + 1 /\ Stage(from) \in 1..2
    BY SMTT(30) DEF Asking, Stage
  <2>3. \A k : IdxAt(g, k)' = IdxAt(g, k)
    BY <2>1, Zenon DEF IdxAt
  <2>4. asked'[g] = {IdxAt(g, k)' : k \in 0..i'[g]}
    <3>1. asked[g] = {IdxAt(g, k) : k \in 0..i[g]}
      BY <2>1, <2>2, Zenon DEF QueryOK
    <3>. HIDE DEF IInv, TypeOK, Exchange
    <3>. QED  BY <2>1, <2>3, <3>1, Zenon
  <2>5. spent[g] + left[g] <= (3 * i[g] + Stage(from)) * RoundTrip /\ left[g] > 0
    BY <2>1, <2>2, Zenon DEF QueryOK
  <2>6. 3 * i[g] + Stage(from) \in Nat
    BY <2>2, ResolverAssumption, SMTT(30) DEF Upstreams
  <2>7. spent'[g] + left'[g] <= (3 * i'[g] + Stage(to)) * RoundTrip
    <3>1. (3 * i[g] + Stage(from) + 1) * RoundTrip
            = (3 * i[g] + Stage(from)) * RoundTrip + RoundTrip
      BY <2>6, OneMore
    <3>2. 3 * i'[g] + Stage(to) = 3 * i[g] + Stage(from) + 1
      BY <2>1, <2>2, ResolverAssumption, SMTT(30) DEF Upstreams
    <3>3. (3 * i[g] + Stage(from)) * RoundTrip \in Nat
      BY <2>6, ResolverAssumption, SMTT(30)
    <3>. HIDE DEF TypeOK, Exchange, IInv
    <3>4. spent[g] \in Nat /\ left[g] \in Nat /\ RoundTrip \in Nat
      BY ResolverAssumption, SMTT(30) DEF TypeOK, IInv
    <3>. QED  BY <2>1, <2>5, <3>1, <3>2, <3>3, <3>4, SMTT(30)
  <2>8. spent'[g] <= (3 * i'[g] + 3) * RoundTrip
    BY <2>1, Zenon DEF QueryOK
  <2>9. pc'[g] # "throw"
    BY <2>1
  <2>. QED  BY <2>1, <2>4, <2>7, <2>8, <2>9, Zenon DEF QueryOK
<1>. QED  BY <1>1, <1>2, <1>3, Zenon

(* A failure moves on to the next upstream, which then has been asked too;  *)
(* past the last one, all of them have been.                                *)
LEMMA FailsInv ==
  ASSUME IInv, NEW g \in Goroutines, Fails(g)
  PROVE  IInv'
<1>. USE DEF IInv, TypeOK, Fails, NextUpstream
<1>a. i[g] \in Nat /\ i[g] + 1 \in Nat /\ i[g] < N /\ start[g] \in Upstreams /\ start[g] \in Nat
  BY ResolverAssumption, SMTT(30) DEF Upstreams
<1>b. IdxAt(g, i[g] + 1) \in Upstreams
  <2>1. start[g] + (i[g] + 1) \in Nat
    BY <1>a, SMTT(30)
  <2>. QED  BY <2>1, Wraps, Zenon DEF IdxAt
<1>1. TypeOK'
  BY <1>a, <1>b, ResolverAssumption, SMTT(30) DEF Goto, PCs, Asking, Upstreams, upstreamVars, streamVars
<1>2. ASSUME NEW h \in Goroutines, h # g PROVE QueryOK(h)'
  <2>1. /\ start'[h] = start[h] /\ i'[h] = i[h] /\ asked'[h] = asked[h]
        /\ left'[h] = left[h] /\ spent'[h] = spent[h] /\ pc'[h] = pc[h]
    BY <1>2, SMTT(30) DEF Goto
  <2>. QED  BY <2>1, KeepsQuery, Zenon
<1>3. QueryOK(g)'
  <2>1. /\ pc[g] \in Asking /\ start'[g] = start[g] /\ spent'[g] = spent[g]
        /\ asked[g] = {IdxAt(g, k) : k \in 0..i[g]}
        /\ spent[g] <= (3 * i[g] + 3) * RoundTrip
    BY Zenon DEF QueryOK
  <2>3. CASE i[g] + 1 < N
    <3>1. /\ pc'[g] = "udp" /\ i'[g] = i[g] + 1 /\ left'[g] = RoundTrip
          /\ asked'[g] = asked[g] \cup {IdxAt(g, i[g] + 1)}
      BY <2>3, SMTT(30) DEF Goto
    <3>3. asked'[g] = {IdxAt(g, k)' : k \in 0..i'[g]}
      <4>1. /\ IdxAt(g, i[g] + 1) = (start[g] + (i[g] + 1)) % N
            /\ {IdxAt(g, k) : k \in 0..i[g]} = {(start[g] + k) % N : k \in 0..i[g]}
            /\ {IdxAt(g, k)' : k \in 0..i'[g]} = {(start[g] + k) % N : k \in 0..(i[g] + 1)}
        BY <2>1, <3>1, Zenon DEF IdxAt
      <4>2. {(start[g] + k) % N : k \in 0..(i[g] + 1)}
              = {(start[g] + k) % N : k \in 0..i[g]} \cup {(start[g] + (i[g] + 1)) % N}
        BY <1>a, NextAsked
      <4>. HIDE DEF IInv, TypeOK, Fails, NextUpstream
      <4>. QED  BY <2>1, <3>1, <4>1, <4>2, Zenon
    <3>4. 3 * i[g] + 3 \in Nat /\ (3 * i[g] + 3) * RoundTrip \in Nat
      BY <1>a, ResolverAssumption, SMTT(30)
    <3>5. (3 * i[g] + 3 + 1) * RoundTrip = (3 * i[g] + 3) * RoundTrip + RoundTrip
      BY <3>4, OneMore
    <3>6. 3 * i'[g] + Stage("udp") = 3 * i[g] + 3 + 1
      BY <1>a, <3>1, SMTT(30) DEF Stage
    <3>7. spent'[g] + left'[g] <= (3 * i'[g] + Stage("udp")) * RoundTrip
      <4>. HIDE DEF IInv, TypeOK, Fails, NextUpstream
      <4>1. spent[g] \in Nat /\ RoundTrip \in Nat
        BY ResolverAssumption, SMTT(30) DEF TypeOK, IInv
      <4>. QED  BY <2>1, <3>1, <3>4, <3>5, <3>6, <4>1, SMTT(30)
    <3>8. (3 * i[g] + 3) * RoundTrip <= (3 * i'[g] + 3) * RoundTrip
      <4>1. 3 * i'[g] + 3 \in Nat /\ 3 * i[g] + 3 <= 3 * i'[g] + 3
        BY <1>a, <3>1, SMTT(30)
      <4>. QED  BY <3>4, <4>1, Longer
    <3>9. spent'[g] <= (3 * i'[g] + 3) * RoundTrip
      <4>. HIDE DEF IInv, TypeOK, Fails, NextUpstream
      <4>1. spent[g] \in Nat /\ RoundTrip \in Nat /\ (3 * i'[g] + 3) * RoundTrip \in Nat
        BY <1>a, <3>1, ResolverAssumption, SMTT(30) DEF TypeOK, IInv
      <4>. QED  BY <2>1, <3>4, <3>8, <4>1, SMTT(30)
    <3>. QED  BY <3>1, <3>3, <3>7, <3>9, Zenon DEF QueryOK
  <2>4. CASE ~(i[g] + 1 < N)
    <3>1. pc'[g] = "throw" /\ i'[g] = i[g] /\ asked'[g] = asked[g]
      BY <2>4, Zenon DEF Goto
    <3>2. i[g] = N - 1
      BY <1>a, <2>4, ResolverAssumption, SMTT(30)
    <3>3. asked'[g] = Upstreams
      BY <1>a, <2>1, <3>1, <3>2, RingIsComplete, Zenon DEF IdxAt
    <3>. QED  BY <2>1, <3>1, <3>3, Zenon DEF QueryOK, Asking
  <2>. QED  BY <2>3, <2>4
<1>. QED  BY <1>1, <1>2, <1>3, Zenon

(* Waiting takes from the exchange under way what it adds to the query.     *)
LEMMA TickInv ==
  ASSUME IInv, Tick
  PROVE  IInv'
<1>. USE DEF IInv, TypeOK, Tick
<1>1. TypeOK'
  BY ResolverAssumption, SMTT(30) DEF Waits, Less, PCs, Asking, Upstreams, upstreamVars
<1>2. ASSUME NEW g \in Goroutines PROVE QueryOK(g)'
  <2>0. pc'[g] = pc[g] /\ start'[g] = start[g] /\ i'[g] = i[g] /\ asked'[g] = asked[g]
    OBVIOUS
  <2>1. CASE pc[g] \in Asking
    <3>1. left[g] > 0 /\ left'[g] = left[g] - 1 /\ spent'[g] = spent[g] + 1
      BY <2>1, Zenon DEF Waits, Asking
    <3>2. \A k : IdxAt(g, k)' = IdxAt(g, k)
      BY <2>0, Zenon DEF IdxAt
    <3>3. /\ asked[g] = {IdxAt(g, k) : k \in 0..i[g]}
          /\ spent[g] + left[g] <= (3 * i[g] + Stage(pc[g])) * RoundTrip
      BY <2>1, Zenon DEF QueryOK
    <3>4. spent[g] \in Nat /\ left[g] \in Nat /\ i[g] \in Nat /\ Stage(pc[g]) \in 1..3
      BY ResolverAssumption, SMTT(30) DEF Upstreams, Stage
    <3>. HIDE DEF IInv, TypeOK, Tick
    <3>5. /\ 3 * i[g] + Stage(pc[g]) \in Nat /\ 3 * i[g] + 3 \in Nat
          /\ 3 * i[g] + Stage(pc[g]) <= 3 * i[g] + 3
      BY <3>4, SMTT(30)
    <3>6. (3 * i[g] + Stage(pc[g])) * RoundTrip <= (3 * i[g] + 3) * RoundTrip
      BY <3>5, Longer
    <3>7. (3 * i[g] + Stage(pc[g])) * RoundTrip \in Nat /\ (3 * i[g] + 3) * RoundTrip \in Nat
      BY <3>5, ResolverAssumption, SMTT(30)
    <3>8. /\ spent'[g] + left'[g] <= (3 * i[g] + Stage(pc[g])) * RoundTrip
          /\ spent'[g] <= (3 * i[g] + 3) * RoundTrip
      BY <3>1, <3>3, <3>4, <3>6, <3>7, SMTT(30)
    <3>. QED  BY <2>0, <2>1, <3>2, <3>3, <3>8, Zenon DEF QueryOK, Asking
  <2>2. CASE pc[g] \notin Asking
    <3>1. left'[g] = left[g] /\ spent'[g] = spent[g]
      BY <2>2, Zenon
    <3>. QED  BY <2>0, <3>1, KeepsQuery, Zenon
  <2>. QED  BY <2>1, <2>2
<1>. QED  BY <1>1, <1>2, Zenon

(* The steps that move neither the locals of forward nor a deadline of its  *)
(* exchanges: the clients, the upstreams, and what is done with an answer.  *)
LEMMA OtherInv ==
  ASSUME IInv,
         \/ \E u \in Upstreams : Flip(u)
         \/ \E q \in Queries : UDPQuery(q)
         \/ \E c \in Streams :
              Accept(c) \/ StreamQuery(c) \/ StreamQueryAnswered(c) \/ ClientCloses(c) \/ ClientIdle(c)
         \/ \E g \in Goroutines : AnswerUDP(g) \/ AnswerTCP(g) \/ Store(g) \/ Reply(g) \/ Throw(g)
         \/ UNCHANGED vars
  PROVE  IInv'
<1>. USE DEF IInv, TypeOK
<1>a. \A c \in Streams : c \in Goroutines
  BY DEF Goroutines
<1>b. \A q \in Queries : q \in Goroutines
  BY DEF Goroutines
<1>1. CASE UNCHANGED vars
  <2>1. TypeOK'
    BY <1>1, SMTT(30) DEF vars, upstreamVars, queryVars, streamVars
  <2>2. UNCHANGED <<pc, queryVars>>
    BY <1>1 DEF vars
  <2>3. \A h \in Goroutines : QueryOK(h)'
    BY <2>2, KeepsQuery, Zenon DEF queryVars
  <2>. QED  BY <2>1, <2>3
<1>2. CASE \E u \in Upstreams : Flip(u)
  <2>1. TypeOK'
    BY <1>2, SMTT(30) DEF Flip, queryVars, streamVars
  <2>2. UNCHANGED <<pc, queryVars>>
    BY <1>2 DEF Flip
  <2>3. \A h \in Goroutines : QueryOK(h)'
    BY <2>2, KeepsQuery, Zenon DEF queryVars
  <2>. QED  BY <2>1, <2>3
<1>3. CASE \E q \in Queries : UDPQuery(q)
  <2>. PICK q \in Queries : UDPQuery(q)
    BY <1>3
  <2>1. TypeOK'
    BY <1>b, SMTT(30) DEF UDPQuery, Goto, PCs, upstreamVars, queryVars, streamVars
  <2>2. UNCHANGED queryVars /\ pc'[q] = "load" /\ \A h \in Goroutines \ {q} : pc'[h] = pc[h]
    BY <1>b, Zenon DEF UDPQuery, Goto
  <2>3. \A h \in Goroutines : QueryOK(h)'
    BY <2>2, KeepsQueries, Zenon
  <2>. QED  BY <2>1, <2>3
<1>4. ASSUME NEW c \in Streams,
             Accept(c) \/ StreamQuery(c) \/ StreamQueryAnswered(c) \/ ClientCloses(c) \/ ClientIdle(c)
      PROVE  IInv'
  <2>. USE DEF Accept, StreamQuery, StreamQueryAnswered, ClientCloses, ClientIdle, Listen, Leave
  <2>1. TypeOK'
    BY <1>4, <1>a, ResolverAssumption, SMTT(30) DEF Goto, PCs, upstreamVars, queryVars
  <2>2. /\ UNCHANGED queryVars
        /\ pc'[c] \in {"idle", "read", "load"}
        /\ \A h \in Goroutines \ {c} : pc'[h] = pc[h]
    BY <1>4, <1>a, Zenon DEF Goto
  <2>3. \A h \in Goroutines : QueryOK(h)'
    BY <2>2, KeepsQueries, Zenon
  <2>. QED  BY <2>1, <2>3
<1>5. ASSUME NEW g \in Goroutines, AnswerUDP(g) \/ AnswerTCP(g)
      PROVE  IInv'
  <2>. USE DEF AnswerUDP, AnswerTCP, Answered
  <2>1. TypeOK'
    BY <1>5, SMTT(30) DEF Goto, PCs, upstreamVars, queryVars, streamVars
  <2>2. /\ UNCHANGED queryVars /\ pc'[g] \in {"store", "reply"}
        /\ \A h \in Goroutines \ {g} : pc'[h] = pc[h]
    BY <1>5, Zenon DEF Goto
  <2>3. \A h \in Goroutines : QueryOK(h)'
    BY <2>2, KeepsQueries, Zenon
  <2>. QED  BY <2>1, <2>3
<1>6. ASSUME NEW g \in Goroutines, Store(g)
      PROVE  IInv'
  <2>. USE DEF Store, StoreIndex
  <2>0. Idx(g) \in Upstreams
    <3>1. start[g] + i[g] \in Nat
      BY ResolverAssumption, SMTT(30) DEF Upstreams
    <3>. QED  BY <3>1, Wraps, Zenon DEF Idx, IdxAt
  <2>1. TypeOK'
    BY <1>6, <2>0, SMTT(30) DEF Goto, PCs, queryVars, streamVars
  <2>2. /\ UNCHANGED queryVars /\ pc'[g] = "reply"
        /\ \A h \in Goroutines \ {g} : pc'[h] = pc[h]
    BY <1>6, Zenon DEF Goto
  <2>3. \A h \in Goroutines : QueryOK(h)'
    BY <2>2, KeepsQueries, Zenon
  <2>. QED  BY <2>1, <2>3
<1>7. ASSUME NEW g \in Goroutines, Reply(g) \/ Throw(g)
      PROVE  IInv'
  <2>. USE DEF Reply, Throw, Leave, Listen
  <2>1. TypeOK'
    BY <1>7, ResolverAssumption, SMTT(30) DEF Goto, PCs, upstreamVars, queryVars, streamVars
  <2>2. /\ UNCHANGED queryVars /\ pc'[g] \in {"idle", "read"}
        /\ \A h \in Goroutines \ {g} : pc'[h] = pc[h]
    BY <1>7, Zenon DEF Goto
  <2>3. \A h \in Goroutines : QueryOK(h)'
    BY <2>2, KeepsQueries, Zenon
  <2>. QED  BY <2>1, <2>3
<1>. QED  BY <1>1, <1>2, <1>3, <1>4, <1>5, <1>6, <1>7

(* The invariant holds from the first query on.                             *)
LEMMA InductiveInv == Spec => []IInv
<1>1. Init => IInv
  <2>. SUFFICES ASSUME Init PROVE IInv
    OBVIOUS
  <2>1. TypeOK
    BY ResolverAssumption, SMTT(30) DEF Init, TypeOK, PCs, Upstreams
  <2>2. ASSUME NEW g \in Goroutines PROVE QueryOK(g)
    <3>1. pc[g] = "idle" /\ spent[g] = 0 /\ i[g] = 0
      BY DEF Init
    <3>. QED  BY <3>1, ResolverAssumption, SMTT(30) DEF QueryOK, Asking
  <2>. QED  BY <2>1, <2>2 DEF IInv
<1>2. IInv /\ [Next]_vars => IInv'
  <2>. SUFFICES ASSUME IInv, [Next]_vars PROVE IInv'
    OBVIOUS
  <2>1. ASSUME NEW g \in Goroutines, Forward(g) PROVE IInv'
    <3>1. CASE AnswerUDP(g) \/ AnswerTCP(g) \/ Store(g)
      BY <3>1, OtherInv
    <3>2. CASE Load(g)
      BY <3>2, LoadInv
    <3>3. CASE AnswerTruncated(g) \/ Connected(g)
      BY <3>3, ExchangeInv, Zenon DEF AnswerTruncated, Connected
    <3>4. CASE Refused(g) \/ TimesOut(g)
      BY <3>4, FailsInv DEF Refused, TimesOut
    <3>. QED  BY <2>1, <3>1, <3>2, <3>3, <3>4 DEF Forward
  <2>2. CASE Tick
    BY <2>2, TickInv
  <2>. QED  BY <2>1, <2>2, OtherInv, Zenon DEF Next
<1>. QED  BY <1>1, <1>2, PTL DEF Spec
-----------------------------------------------------------------------------
(* The theorems.                                                            *)

(* All variables keep their types: every index forward stores is one of an  *)
(* upstream (resolver.go, forward).                                         *)
THEOREM TypesHold == Spec => []TypeOK
<1>1. IInv => TypeOK
  BY DEF IInv
<1>. QED  BY <1>1, InductiveInv, PTL

(* A query is given up only after every upstream was asked, whichever one   *)
(* was preferred when it started (resolver.go, forward).                    *)
THEOREM EveryUpstreamIsAsked == Spec => []AllAsked
<1>1. IInv => AllAsked
  BY DEF IInv, QueryOK, AllAsked
<1>. QED  BY <1>1, InductiveInv, PTL

(* A query takes at most three round trips for each upstream (resolver.go,  *)
(* forward and forwardDNS).                                                 *)
THEOREM ResolveIsBounded == Spec => []BoundedResolve
<1>1. IInv => BoundedResolve
  <2>. SUFFICES ASSUME IInv, NEW g \in Goroutines PROVE spent[g] <= 3 * N * RoundTrip
    BY DEF BoundedResolve
  <2>1. /\ spent[g] <= (3 * i[g] + 3) * RoundTrip
        /\ spent[g] \in Nat /\ i[g] \in 0..(N - 1)
    BY DEF IInv, QueryOK, TypeOK, Upstreams
  <2>2. 3 * i[g] + 3 \in Nat /\ 3 * N \in Nat /\ 3 * i[g] + 3 <= 3 * N
    BY <2>1, ResolverAssumption, SMTT(30)
  <2>3. (3 * i[g] + 3) * RoundTrip <= (3 * N) * RoundTrip
    BY <2>2, Longer
  <2>4. (3 * i[g] + 3) * RoundTrip \in Nat /\ (3 * N) * RoundTrip \in Nat
    BY <2>2, ResolverAssumption, SMTT(30)
  <2>. QED  BY <2>1, <2>3, <2>4, SMTT(30)
<1>. QED  BY <1>1, InductiveInv, PTL
=============================================================================
