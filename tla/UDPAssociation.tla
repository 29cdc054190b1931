--------------------------- MODULE UDPAssociation ---------------------------
(***************************************************************************)
(* The SOCKS5 UDP connector: flows of one source endpoint share one UDP    *)
(* association with the proxy (socks5.go: socks5UDPConnector; udp_assoc.go:*)
(* udpAssociation, udpFlow), driven by the goroutines that serve UDP flows *)
(* (network_stack.go: handleUDP).                                          *)
(*                                                                         *)
(* Goroutines: the handlers, and for each association a read loop and the  *)
(* watcher of its control connection.  A section under c.mu or a.mu is one *)
(* step: closed and flows are only seen under a.mu, slots only under c.mu, *)
(* and forget takes c.mu inside a.mu.  The assignment of slot.assoc is     *)
(* under no mutex and is a step of its own.                                *)
(*                                                                         *)
(* A slot and the association it comes to hold are one element of Slots, a *)
(* handler and the flow it opens one element of Handlers.  An element that *)
(* nothing refers to any more is reused, as the garbage collector would.   *)
(***************************************************************************)
EXTENDS Naturals, Sequences

CONSTANTS
  Sources,    \* source endpoints inside the container
  Dests,      \* destination addresses, in their canonical spelling
  Handlers,   \* handleUDP goroutines, each with the udpFlow it opens
  Slots,      \* associationSlot objects, each with its udpAssociation
  QueueCap,   \* udpFlowQueue
  None        \* nil

ASSUME QueueCapAssumption == QueueCap \in Nat \ {0}
ASSUME NoneAssumption == None \notin Sources \cup Dests \cup Handlers \cup Slots

VARIABLES
  pc, src, dst, \* per handler: where it is, the endpoint it serves,
  held,         \* the slot, later the association, it has in hand,
  expired,      \* whether its connect context is done,
  done, in,     \* flow.done is closed, flow.in
  slots,        \* c.slots
  slot, asrc,   \* per slot: its ready, assoc and exc; a.src,
  state, flows, \* the association: not created, open or closed; a.flows,
  conns,        \* its control connection and relay, always closed together,
  reader,       \* where its read loop is,
  rflow, rfrom, \* the flow and the source address the read loop has in hand,
  wake          \* the flows shutdown has yet to wake

flowVars   == <<done, in>>
slotVars   == <<slots, slot, asrc>>
assocVars  == <<state, flows, conns>>
readerVars == <<reader, rflow, rfrom, wake>>
vars == <<pc, src, dst, held, expired, flowVars, slotVars, assocVars, readerVars>>

Dialing == {"association", "wait", "associate", "assign", "publish", "open"}
PCs == Dialing \cup {"idle", "relay", "closeFlow", "closeConns", "closeLocal"}
Packets == [via : Sources, from : Dests]
NoFlows == [d \in Dests |-> None]

\* How a relay may spell an address: an IPv4 address also comes IPv4-mapped.
Spellings == Dests \X {"plain", "mapped"}

Init ==
  /\ pc = [h \in Handlers |-> "idle"]
  /\ src = [h \in Handlers |-> None]
  /\ dst = [h \in Handlers |-> None]
  /\ held = [h \in Handlers |-> None]
  /\ expired = [h \in Handlers |-> FALSE]
  /\ done = [h \in Handlers |-> FALSE]
  /\ in = [h \in Handlers |-> <<>>]
  /\ slots = [s \in Sources |-> None]
  /\ slot = [t \in Slots |-> "free"]
  /\ asrc = [t \in Slots |-> None]
  /\ state = [t \in Slots |-> "none"]
  /\ flows = [t \in Slots |-> NoFlows]
  /\ conns = [t \in Slots |-> "none"]
  /\ reader = [t \in Slots |-> "off"]
  /\ rflow = [t \in Slots |-> None]
  /\ rfrom = [t \in Slots |-> None]
  /\ wake = [t \in Slots |-> {}]

Goto(h, label) == pc' = [pc EXCEPT ![h] = label]
FlowsOf(t) == {flows[t][d] : d \in Dests} \ {None}
-----------------------------------------------------------------------------
(* The dial of a handler.                                                  *)

\* The first datagram from s to d: the forwarder registers an endpoint before
\* its callback returns, so a flow has one handler, and starts the goroutine.
Datagram(h, s, d) ==
  /\ pc[h] = "idle"
  /\ \A g \in Handlers : pc[g] # "idle" => ~(src[g] = s /\ dst[g] = d)
  /\ \A t \in Slots : rflow[t] # h /\ h \notin wake[t]
  /\ Goto(h, "association")
  /\ src' = [src EXCEPT ![h] = s]
  /\ dst' = [dst EXCEPT ![h] = d]
  /\ UNCHANGED <<held, expired, flowVars, slotVars, assocVars, readerVars>>

\* The deadline of the handler's connect context passes.
Expire(h) ==
  /\ pc[h] \in Dialing /\ ~expired[h]
  /\ expired' = [expired EXCEPT ![h] = TRUE]
  /\ UNCHANGED <<pc, src, dst, held, flowVars, slotVars, assocVars, readerVars>>

\* association finds a slot for the source.
FindSlot(h) ==
  /\ pc[h] = "association" /\ slots[src[h]] # None
  /\ held' = [held EXCEPT ![h] = slots[src[h]]]
  /\ Goto(h, "wait")
  /\ UNCHANGED <<src, dst, expired, flowVars, slotVars, assocVars, readerVars>>

\* No goroutine has the association: an "eof" is the watcher's to handle.
Unreferenced(t) ==
  /\ \A s \in Sources : slots[s] # t
  /\ \A h \in Handlers : held[h] # t
  /\ reader[t] \in {"off", "done"} /\ conns[t] # "eof"

NewSlot(h, t) ==
  /\ pc[h] = "association" /\ slots[src[h]] = None
  /\ Unreferenced(t)
  /\ slot' = [slot EXCEPT ![t] = "pending"]
  /\ asrc' = [asrc EXCEPT ![t] = src[h]]
  /\ held' = [held EXCEPT ![h] = t]
  /\ Goto(h, "associate")
  /\ state' = [state EXCEPT ![t] = "none"]
  /\ flows' = [flows EXCEPT ![t] = NoFlows]
  /\ conns' = [conns EXCEPT ![t] = "none"]
  /\ reader' = [reader EXCEPT ![t] = "off"]
  /\ UNCHANGED <<src, dst, expired, flowVars, rflow, rfrom, wake>>

\* Fault: the slot is not in c.slots while the association is being set up.
CreateSlotUnregistered(h, t) == NewSlot(h, t) /\ UNCHANGED slots
\* association creates the slot: later flows of the source wait for it.
CreateSlot(h, t) == NewSlot(h, t) /\ slots' = [slots EXCEPT ![src[h]] = t]

\* The select on a slot that exists: it became ready, or the context is done.
WaitReady(h) ==
  /\ pc[h] = "wait" /\ slot[held[h]] \in {"ready", "failed"}
  /\ Goto(h, IF slot[held[h]] = "failed" THEN "closeLocal" ELSE "open")
  /\ UNCHANGED <<src, dst, held, expired, flowVars, slotVars, assocVars, readerVars>>

\* Fault: the wait for the slot ignores the context.
WaitForever(h) == FALSE /\ UNCHANGED vars
WaitExpires(h) ==
  /\ pc[h] = "wait" /\ expired[h]
  /\ Goto(h, "closeLocal")
  /\ UNCHANGED <<src, dst, held, expired, flowVars, slotVars, assocVars, readerVars>>

\* associate succeeds: both connections are up, the watcher runs, and
\* newUDPAssociation has started the read loop.
Associate(h) ==
  /\ pc[h] = "associate" /\ ~expired[h]
  /\ state' = [state EXCEPT ![held[h]] = "open"]
  /\ conns' = [conns EXCEPT ![held[h]] = "open"]
  /\ reader' = [reader EXCEPT ![held[h]] = "read"]
  /\ Goto(h, "assign")
  /\ UNCHANGED <<src, dst, held, expired, flowVars, slotVars, flows, rflow, rfrom, wake>>

\* slot.assoc = newUDPAssociation(...), outside c.mu.
Assign(h) ==
  /\ pc[h] = "assign"
  /\ slot' = [slot EXCEPT ![held[h]] = "assigned"]
  /\ Goto(h, "publish")
  /\ UNCHANGED <<src, dst, held, expired, flowVars, slots, asrc, assocVars, readerVars>>

\* associate throws, having closed what it opened; the slot is dropped.
AssociateFails(h) ==
  /\ pc[h] = "associate"
  /\ slots' = [slots EXCEPT ![src[h]] = None]
  /\ slot' = [slot EXCEPT ![held[h]] = "failing"]
  /\ Goto(h, "publish")
  /\ UNCHANGED <<src, dst, held, expired, flowVars, asrc, assocVars, readerVars>>

\* close(slot.ready), then return the association or throw slot.exc.
Publish(h) ==
  LET failed == slot[held[h]] = "failing" IN
  /\ pc[h] = "publish"
  /\ slot' = [slot EXCEPT ![held[h]] = IF failed THEN "failed" ELSE "ready"]
  /\ Goto(h, IF failed THEN "closeLocal" ELSE "open")
  /\ UNCHANGED <<src, dst, held, expired, flowVars, slots, asrc, assocVars, readerVars>>
-----------------------------------------------------------------------------
(* The flow of a handler.                                                  *)

\* Fault: the key leaves out the host.
udpFlowKeyPortOnly(spelling) == CHOOSE d \in Dests : TRUE
udpFlowKey(spelling) == spelling[1]

\* The flow key of handler h; the stack spells addresses canonically.
KeyOf(h) == udpFlowKey(<<dst[h], "plain">>)

AddFlow(h) ==
  /\ flows' = [flows EXCEPT ![held[h]] = [@ EXCEPT ![KeyOf(h)] = h]]
  /\ done' = [done EXCEPT ![h] = FALSE]
  /\ in' = [in EXCEPT ![h] = <<>>]
  /\ Goto(h, "relay")
  /\ UNCHANGED <<src, dst, held, expired, slotVars, state, conns, readerVars>>

\* Fault: open does not look at a.closed.
OpenUnchecked(h) == pc[h] = "open" /\ AddFlow(h)
Open(h) == pc[h] = "open" /\ state[held[h]] # "closed" /\ AddFlow(h)

\* open fails on a closed association, and dial starts over.
OpenFails(h) ==
  /\ pc[h] = "open" /\ state[held[h]] = "closed"
  /\ held' = [held EXCEPT ![h] = None]
  /\ Goto(h, "association")
  /\ UNCHANGED <<src, dst, expired, flowVars, slotVars, assocVars, readerVars>>

\* udpFlow.Read takes a datagram from the queue.
FlowRead(h) ==
  /\ pc[h] = "relay" /\ in[h] # <<>>
  /\ in' = [in EXCEPT ![h] = Tail(@)]
  /\ UNCHANGED <<pc, src, dst, held, expired, done, slotVars, assocVars, readerVars>>

\* The relay of the handler ends: flow.done, the idle timeout, a failed write
\* or the local side.  udpFlow.Close then closes done.
RelayEnds(h) ==
  /\ pc[h] = "relay"
  /\ done' = [done EXCEPT ![h] = TRUE]
  /\ Goto(h, "closeFlow")
  /\ UNCHANGED <<src, dst, held, expired, in, slotVars, assocVars, readerVars>>

\* forget, as the new value of c.slots: slot.assoc == a once it is assigned.
forget(t) ==
  IF slots[asrc[t]] = t /\ slot[t] \in {"assigned", "ready"}
  THEN [slots EXCEPT ![asrc[t]] = None]
  ELSE slots

\* a.flows without the flow of h, unless another one has taken its key.
FlowsWithout(h) ==
  IF flows[held[h]][KeyOf(h)] = h
  THEN [flows[held[h]] EXCEPT ![KeyOf(h)] = None]
  ELSE flows[held[h]]
IsLast(h) == (\A d \in Dests : FlowsWithout(h)[d] = None) /\ state[held[h]] # "closed"

\* closeFlow under a.mu; next is where a flow that is the last one goes.
RemoveFlow(h, last, next) ==
  /\ pc[h] = "closeFlow"
  /\ flows' = [flows EXCEPT ![held[h]] = FlowsWithout(h)]
  /\ state' = IF last THEN [state EXCEPT ![held[h]] = "closed"] ELSE state
  /\ slots' = IF last THEN forget(held[h]) ELSE slots
  /\ Goto(h, IF last THEN next ELSE "closeLocal")
  /\ UNCHANGED <<src, dst, held, expired, flowVars, slot, asrc, conns, readerVars>>

\* Fault: the last flow leaves the association open.
CloseFlowKeepsAssociation(h) == RemoveFlow(h, FALSE, "closeConns")
\* Fault: the last flow closes the association and leaves its connections.
CloseFlowLeaksConns(h) == RemoveFlow(h, IsLast(h), "closeLocal")
CloseFlow(h) == RemoveFlow(h, IsLast(h), "closeConns")

\* a.relay.Close() and a.control.Close().
CloseConns(h) ==
  /\ pc[h] = "closeConns"
  /\ conns' = [conns EXCEPT ![held[h]] = "closed"]
  /\ Goto(h, "closeLocal")
  /\ UNCHANGED <<src, dst, held, expired, flowVars, slotVars, state, flows, readerVars>>

\* The last deferred call of the handler: the endpoint is unregistered.
CloseLocal(h) ==
  /\ pc[h] = "closeLocal"
  /\ Goto(h, "idle")
  /\ src' = [src EXCEPT ![h] = None]
  /\ dst' = [dst EXCEPT ![h] = None]
  /\ held' = [held EXCEPT ![h] = None]
  /\ expired' = [expired EXCEPT ![h] = FALSE]
  /\ done' = [done EXCEPT ![h] = FALSE]
  /\ in' = [in EXCEPT ![h] = <<>>]
  /\ UNCHANGED <<slotVars, assocVars, readerVars>>
-----------------------------------------------------------------------------
(* The goroutines of an association.                                       *)

\* The read loop takes a datagram and looks up its flow under a.mu.  A
\* datagram that does not parse or has no flow changes nothing.
ReadDatagram(t, spelling) ==
  LET f == flows[t][udpFlowKey(spelling)] IN
  /\ reader[t] = "read" /\ conns[t] # "closed"
  /\ f # None
  /\ rflow' = [rflow EXCEPT ![t] = f]
  /\ rfrom' = [rfrom EXCEPT ![t] = spelling[1]]
  /\ reader' = [reader EXCEPT ![t] = "deliver"]
  /\ UNCHANGED <<pc, src, dst, held, expired, flowVars, slotVars, assocVars, wake>>

\* The send after the unlock; room says whether it goes through.
Send(t, room) ==
  /\ reader[t] = "deliver"
  /\ in' = IF room
           THEN [in EXCEPT ![rflow[t]] = Append(@, [via |-> asrc[t], from |-> rfrom[t]])]
           ELSE in
  /\ reader' = [reader EXCEPT ![t] = "read"]
  /\ rflow' = [rflow EXCEPT ![t] = None]
  /\ rfrom' = [rfrom EXCEPT ![t] = None]
  /\ UNCHANGED <<pc, src, dst, held, expired, done, slotVars, assocVars, wake>>

\* Fault: the send does not drop when the queue is full.
DeliverUnbounded(t) == Send(t, TRUE)
Deliver(t) == Send(t, Len(in[rflow[t]]) < QueueCap)

\* relay.Read fails, because the relay was closed or on an error of the
\* socket, and shutdown finds the association closed by its last flow.
ReadFailsClosed(t) ==
  /\ reader[t] = "read" /\ state[t] = "closed"
  /\ reader' = [reader EXCEPT ![t] = "done"]
  /\ UNCHANGED <<pc, src, dst, held, expired, flowVars, slotVars, assocVars, rflow, rfrom, wake>>

\* relay.Read fails, and shutdown closes the association under a.mu.
EndAssociation(t, saved) ==
  /\ reader[t] = "read" /\ state[t] # "closed"
  /\ state' = [state EXCEPT ![t] = "closed"]
  /\ wake' = [wake EXCEPT ![t] = saved]
  /\ flows' = [flows EXCEPT ![t] = NoFlows]
  /\ slots' = forget(t)
  /\ reader' = [reader EXCEPT ![t] = "closeConns"]
  /\ UNCHANGED <<pc, src, dst, held, expired, flowVars, slot, asrc, conns, rflow, rfrom>>

\* Fault: a.flows is replaced before it is saved.
ShutdownLosesFlows(t) == EndAssociation(t, {})
Shutdown(t) == EndAssociation(t, FlowsOf(t))

ShutdownConns(t) ==
  /\ reader[t] = "closeConns"
  /\ conns' = [conns EXCEPT ![t] = "closed"]
  /\ reader' = [reader EXCEPT ![t] = "wake"]
  /\ UNCHANGED <<pc, src, dst, held, expired, flowVars, slotVars, state, flows, rflow, rfrom, wake>>

\* shutdown closes done of every flow it found.
WakeFlows(t) ==
  /\ reader[t] = "wake"
  /\ done' = [h \in Handlers |-> done[h] \/ h \in wake[t]]
  /\ wake' = [wake EXCEPT ![t] = {}]
  /\ reader' = [reader EXCEPT ![t] = "done"]
  /\ UNCHANGED <<pc, src, dst, held, expired, in, slotVars, assocVars, rflow, rfrom>>

\* The proxy closes the control connection.
ProxyHangsUp(t) ==
  /\ conns[t] = "open"
  /\ conns' = [conns EXCEPT ![t] = "eof"]
  /\ UNCHANGED <<pc, src, dst, held, expired, flowVars, slotVars, state, flows, readerVars>>

\* Fault: nobody reads the control connection.
WatchNothing(t) == FALSE /\ UNCHANGED vars
\* io.Copy on the control connection returns; both connections are closed.
WatchControl(t) ==
  /\ conns[t] = "eof"
  /\ conns' = [conns EXCEPT ![t] = "closed"]
  /\ UNCHANGED <<pc, src, dst, held, expired, flowVars, slotVars, state, flows, readerVars>>
-----------------------------------------------------------------------------
HandlerNext(h) ==
  \/ \E s \in Sources, d \in Dests : Datagram(h, s, d)
  \/ Expire(h)
  \/ FindSlot(h) \/ \E t \in Slots : CreateSlot(h, t)
  \/ WaitReady(h) \/ WaitExpires(h)
  \/ Associate(h) \/ AssociateFails(h) \/ Assign(h) \/ Publish(h)
  \/ Open(h) \/ OpenFails(h)
  \/ FlowRead(h) \/ RelayEnds(h)
  \/ CloseFlow(h) \/ CloseConns(h) \/ CloseLocal(h)

AssociationNext(t) ==
  \/ \E spelling \in Spellings : ReadDatagram(t, spelling)
  \/ Deliver(t)
  \/ ReadFailsClosed(t) \/ Shutdown(t) \/ ShutdownConns(t) \/ WakeFlows(t)
  \/ ProxyHangsUp(t) \/ WatchControl(t)

Next == (\E h \in Handlers : HandlerNext(h)) \/ (\E t \in Slots : AssociationNext(t))

Spec == Init /\ [][Next]_vars

(***************************************************************************)
(* Fairness: a runnable goroutine runs; a dial returns, since its          *)
(* connections carry the deadline of the context; the deadline passes; a   *)
(* Read of a closed connection fails; a select that keeps finding the      *)
(* context done takes that branch some time, as Go chooses at random.      *)
(* The lookup of a slot never blocks in the code, only for want of an      *)
(* element of Slots in the model, hence its strong fairness.               *)
(***************************************************************************)
Fairness ==
  /\ \A h \in Handlers :
       /\ WF_vars(Expire(h))
       /\ SF_vars(FindSlot(h) \/ \E t \in Slots : CreateSlot(h, t))
       /\ WF_vars(WaitReady(h) \/ WaitExpires(h))
       /\ SF_vars(WaitExpires(h))
       /\ WF_vars(Associate(h) \/ AssociateFails(h))
       /\ WF_vars(Assign(h) \/ Publish(h) \/ Open(h) \/ OpenFails(h))
       /\ WF_vars(done[h] /\ RelayEnds(h))
       /\ WF_vars(CloseFlow(h) \/ CloseConns(h) \/ CloseLocal(h))
  /\ \A t \in Slots :
       /\ WF_vars(Deliver(t) \/ ShutdownConns(t) \/ WakeFlows(t))
       /\ WF_vars(conns[t] = "closed" /\ (ReadFailsClosed(t) \/ Shutdown(t)))
       /\ WF_vars(WatchControl(t))

FairSpec == Spec /\ Fairness
-----------------------------------------------------------------------------
(* Types of all variables; a flow buffers at most udpFlowQueue datagrams   *)
(* (udp_assoc.go, readLoop drops what does not fit).                       *)
TypeOK ==
  /\ pc \in [Handlers -> PCs]
  /\ src \in [Handlers -> Sources \cup {None}]
  /\ dst \in [Handlers -> Dests \cup {None}]
  /\ held \in [Handlers -> Slots \cup {None}]
  /\ expired \in [Handlers -> BOOLEAN]
  /\ done \in [Handlers -> BOOLEAN]
  /\ in \in [Handlers -> Seq(Packets)]
  /\ \A h \in Handlers : Len(in[h]) <= QueueCap
  /\ slots \in [Sources -> Slots \cup {None}]
  /\ slot \in [Slots -> {"free", "pending", "assigned", "ready", "failing", "failed"}]
  /\ asrc \in [Slots -> Sources \cup {None}]
  /\ state \in [Slots -> {"none", "open", "closed"}]
  /\ flows \in [Slots -> [Dests -> Handlers \cup {None}]]
  /\ conns \in [Slots -> {"none", "open", "eof", "closed"}]
  /\ reader \in [Slots -> {"off", "read", "deliver", "closeConns", "wake", "done"}]
  /\ rflow \in [Slots -> Handlers \cup {None}]
  /\ rfrom \in [Slots -> Dests \cup {None}]
  /\ wake \in [Slots -> SUBSET Handlers]

\* Slot t is the open association of source s, or is being negotiated for it.
Serves(t, s) ==
  \/ asrc[t] = s /\ state[t] = "open"
  \/ \E h \in Handlers : pc[h] = "associate" /\ held[h] = t /\ src[h] = s

(* Flows of one source share a single association (socks5.go, association): *)
(* at no time are two of them open, or being negotiated, for one source,    *)
(* however dials, failures, last closes and proxy hang-ups interleave.      *)
OneAssociationPerSource ==
  \A s \in Sources : \A t, u \in Slots : Serves(t, s) /\ Serves(u, s) => t = u

(* A relaying flow is never cut off silently: while its association is open *)
(* it is the flow registered under its key, so replies reach it; once the   *)
(* association is closed, shutdown has woken it or has it on its list       *)
(* (udp_assoc.go, open against shutdown and closeFlow).                     *)
NoFlowCutOff ==
  \A h \in Handlers : pc[h] = "relay" /\ ~done[h] =>
    IF state[held[h]] = "open" THEN flows[held[h]][dst[h]] = h ELSE h \in wake[held[h]]

(* A flow only ever holds datagrams its own destination sent to its own     *)
(* source, although readLoop sends to the queue after it released a.mu and  *)
(* flows come and go in between.                                            *)
NoMisdelivery ==
  \A h \in Handlers : pc[h] = "relay" =>
    \A i \in 1..Len(in[h]) : in[h][i] = [via |-> src[h], from |-> dst[h]]

\* Association t is open and has no flow; handler h is about to open one.
Unused(t) == state[t] = "open" /\ \A d \in Dests : flows[t][d] = None
AboutToUse(h, t) == held[h] = t /\ pc[h] \in {"assign", "publish", "open"}

(* An open association has a flow, or the dial that created it is still on  *)
(* its way to open one: closeFlow leaves no association without users.      *)
NoIdleAssociation ==
  \A t \in Slots : Unused(t) => \E h \in Handlers : AboutToUse(h, t)

(* When the last goroutine lets go of an association, its connections are   *)
(* closed: neither closeFlow nor shutdown nor the watcher leaks them.       *)
NoConnectionLeak ==
  \A t \in Slots : Unreferenced(t) => conns[t] # "open"

(* A slot that is ready holds an association a dial can use: dial starts    *)
(* over when open reports a closed one, so the closed one must be gone from *)
(* c.slots by then (udp_assoc.go:58, socks5.go:298).                        *)
ClosedIsForgotten ==
  \A s \in Sources : slots[s] # None /\ slot[slots[s]] = "ready" => state[slots[s]] # "closed"

\* The NAT seen by the proxy: a binding per source, and the flows that use it.
OpenFor(s) == {t \in Slots : asrc[t] = s /\ state[t] = "open"}
Requested(s) == \E h \in Handlers : pc[h] = "associate" /\ src[h] = s
Binding(s) ==
  IF OpenFor(s) # {} THEN "bound" ELSE IF Requested(s) THEN "requested" ELSE "none"
Users(s) == {d \in Dests : \E t \in OpenFor(s) : flows[t][d] # None}
NAT == INSTANCE UDPNat WITH
  binding <- [s \in Sources |-> Binding(s)], users <- [s \in Sources |-> Users(s)]

(* The connector implements the NAT its doc comment promises                *)
(* (socks5.go, DialContext: "as a NAT shares one external port").           *)
NATSpec == NAT!Spec

(* Every dial ends, with a flow or without: neither the wait for another    *)
(* dial's association nor the retry on a closed one lasts for ever          *)
(* (socks5.go, dial and association).                                       *)
DialEnds == \A h \in Handlers : pc[h] \in Dialing ~> pc[h] \notin Dialing

(* When the proxy hangs up the control connection, every flow of the        *)
(* association ends (socks5.go, associate's watcher; udp_assoc.go,          *)
(* shutdown), so its next datagram asks for a new association.              *)
HangUpEndsFlows ==
  \A h \in Handlers : (pc[h] = "relay" /\ conns[held[h]] # "open") ~> pc[h] # "relay"
=============================================================================
