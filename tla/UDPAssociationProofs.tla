------------------------ MODULE UDPAssociationProofs ------------------------
(***************************************************************************)
(* The safety properties of UDPAssociation hold for any sets of sources,   *)
(* destinations, goroutines and associations and any queue length, and the *)
(* connector implements UDPNat: the steps of a flow, of the read loop and  *)
(* of the watcher preserve the invariant, as those of a dial do, and what  *)
(* follows from it.                                                        *)
(***************************************************************************)
EXTENDS UDPAssociationDials

\* Leaves go to Zenon unless they name another prover.
USE ZenonT(20)

-----------------------------------------------------------------------------
(* The steps of a flow, from its relay to its end.                         *)

\* Taking a datagram from the queue disturbs its contents only.
LEMMA FlowReadStep ==
  ASSUME IInv, NEW h \in Handlers, FlowRead(h)
  PROVE  IInv'
<1>1. UNCHANGED <<pc, src, dst, held, done, slots, slot, asrc, state, flows, conns, reader,
                   rflow, rfrom, wake>>
  BY DEF slotVars, assocVars, readerVars, FlowRead
<1>2. HandlersOK' /\ SetupOK' /\ SlotsOK' /\ FlowsOK' /\ DeliveryOK' /\ NoIdleAssociation'
      /\ ConnsOK'
  BY <1>1, HandlersFrame, SetupFrame, SlotsFrame, FlowsFrame, DeliveryFrame,
     UnusedFrame, ConnsFrame DEF IInv
<1>. USE DEF IInv, flowVars, slotVars, assocVars, readerVars, Goto, FlowRead
<1>3. TypeOK'
  <2>1. in[h] \in Seq(Packets) /\ Len(in[h]) <= QueueCap
    BY DEF TypeOK
  <2>2. Tail(in[h]) \in Seq(Packets) /\ Len(Tail(in[h])) <= QueueCap
    BY SMTT(30), <2>1, QueueCapAssumption
  <2>3. in' \in [Handlers -> Seq(Packets)] /\ \A g \in Handlers : Len(in'[g]) <= QueueCap
    BY SMTT(30), QueueCapAssumption DEF TypeOK
  <2>. QED BY SMTT(30), QueueCapAssumption DEF TypeOK
<1>4. NoMisdelivery'
  BY SMTT(30) DEF NoMisdelivery
<1>. QED BY <1>2, <1>3, <1>4

\* The flow stays registered until closeFlow.
LEMMA RelayEndsStep ==
  ASSUME IInv, NEW h \in Handlers, RelayEnds(h)
  PROVE  IInv'
<1>1. UNCHANGED <<slots, asrc, state>>
  BY DEF slotVars, assocVars, RelayEnds
<1>2. SlotsOK'
  BY <1>1, SlotsFrame DEF IInv
<1>. USE DEF IInv, flowVars, slotVars, assocVars, readerVars, Goto, RelayEnds
<1>3. TypeOK'
  BY DEF TypeOK, PCs
<1>4. HandlersOK'
  BY SMTT(30) DEF HandlersOK, Holding
<1>5. SetupOK'
  BY SMTT(30) DEF SetupOK, Creating, Using
<1>6. FlowsOK'
  BY SMTT(30) DEF FlowsOK, Using
<1>7. DeliveryOK'
  BY SMTT(30) DEF DeliveryOK, Dialing
<1>8. NoMisdelivery'
  BY DEF TypeOK, NoMisdelivery
<1>9. NoIdleAssociation'
  <2>1. \A u \in Slots : Unused(u)' => Unused(u)
    BY DEF Unused
  <2>2. \A u \in Slots, g \in Handlers : Unused(u)' /\ AboutToUse(g, u) => AboutToUse(g, u)'
    BY SMTT(30) DEF AboutToUse
  <2>. QED BY <2>1, <2>2, IdleFrame
<1>10. ConnsOK'
  BY SMTT(30) DEF ConnsOK
<1>. QED BY <1>2, <1>3, <1>4, <1>5, <1>6, <1>7, <1>8, <1>9, <1>10

\* When the association closes, no other handler can be relaying on it: its
\* flow would be registered.
LEMMA CloseFlowStep ==
  ASSUME IInv, NEW h \in Handlers, CloseFlow(h)
  PROVE  IInv'
<1>. USE DEF IInv
<1> DEFINE t == held[h]
<1>1. pc[h] = "closeFlow" /\ UNCHANGED <<src, dst, held, expired, done, in, slot, asrc, conns,
                                         reader, rflow, rfrom, wake>>
  BY DEF CloseFlow, RemoveFlow, flowVars, readerVars
<1>2. t \in Slots /\ dst[h] \in Dests /\ src[h] \in Sources /\ asrc[t] = src[h]
  BY <1>1 DEF HandlersOK, Holding
<1>3. state[t] # "none" /\ state[t] \in {"none", "open", "closed"}
  BY <1>1, <1>2 DEF SetupOK, TypeOK, Using
<1>4. FlowsWithout(h) \in [Dests -> Handlers \cup {None}]
  BY <1>2, Zenon DEF TypeOK, FlowsWithout
<1>5. flows' = [flows EXCEPT ![t] = FlowsWithout(h)]
  BY DEF CloseFlow, RemoveFlow
<1>6. flows' \in [Slots -> [Dests -> Handlers \cup {None}]]
  BY <1>4, <1>5, Zenon DEF TypeOK
<1>7. \A d \in Dests : FlowsWithout(h)[d] =
                         IF d = dst[h] /\ flows[t][d] = h THEN None ELSE flows[t][d]
  BY <1>2 DEF TypeOK, FlowsWithout, KeyOf, udpFlowKey
<1>8. \A u \in Slots, d \in Dests :
        flows'[u][d] = IF u = t /\ d = dst[h] /\ flows[u][d] = h THEN None ELSE flows[u][d]
  BY <1>5, <1>7 DEF TypeOK
<1>9. NoMisdelivery' /\ DeliveryOK'
  <2>1. pc' = [pc EXCEPT ![h] = pc'[h]] /\ pc'[h] \in {"closeConns", "closeLocal"}
    BY DEF CloseFlow, RemoveFlow, Goto, TypeOK
  <2>2. NoMisdelivery'
    <3>1. \A g \in Handlers : pc'[g] = "relay" => pc[g] = "relay"
      BY <2>1 DEF TypeOK
    <3>. QED BY <1>1, <3>1 DEF NoMisdelivery
  <2>3. DeliveryOK'
    BY SMTT(30), <1>1, <2>1 DEF TypeOK, DeliveryOK, Dialing
  <2>. QED BY <2>2, <2>3
<1>10. CASE IsLast(h)
  <2>1. state[t] = "open" /\ \A d \in Dests : flows'[t][d] = None
    BY <1>2, <1>3, <1>5, <1>10 DEF IsLast, TypeOK
  <2>2. state' = [state EXCEPT ![t] = "closed"] /\ pc' = [pc EXCEPT ![h] = "closeConns"]
    BY <1>10 DEF CloseFlow, RemoveFlow, Goto
  <2>3. /\ slots' \in [Sources -> Slots \cup {None}]
        /\ \A s \in Sources : slots'[s] = slots[s] \/ (slots[s] = t /\ slots'[s] = None)
    BY Zenon DEF CloseFlow, RemoveFlow, forget, TypeOK
  <2>4. TypeOK'
    BY <1>1, <1>6, <2>2, <2>3, Zenon DEF TypeOK, PCs
  <2>5. HandlersOK'
    BY SMTT(30), <1>1, <2>2 DEF HandlersOK, Holding
  <2>6. SetupOK'
    BY SMTT(30), <1>1, <2>1, <2>2, <2>3 DEF HandlersOK, SetupOK, Creating
  <2>7. SlotsOK'
    BY SMTT(30), <1>1, <2>2, <2>3 DEF TypeOK, SlotsOK
  <2>8. FlowsOK'
    <3>1. ASSUME NEW u \in Slots, NEW d \in Dests, flows'[u][d] # None
          PROVE  /\ pc'[flows'[u][d]] \in Using
                 /\ held'[flows'[u][d]] = u /\ dst'[flows'[u][d]] = d
                 /\ state'[u] = "open"
      <4>1. u # t /\ flows[u][d] = flows'[u][d]
        BY <1>8, <2>1, <3>1
      <4>. QED BY SMTT(30), <1>1, <2>2, <3>1, <4>1 DEF FlowsOK
    <3>2. ASSUME NEW g \in Handlers, pc'[g] \in Using
          PROVE  held[g] # t
      <4>1. g # h /\ pc[g] \in Using /\ held[g] \in Slots /\ dst[g] \in Dests
        BY <2>2, <3>2 DEF TypeOK, HandlersOK, Holding, Using
      <4>. QED BY SMTT(30), <1>8, <2>1, <4>1, NoneAssumption DEF FlowsOK
    <3>3. ASSUME NEW g \in Handlers, pc'[g] \in Using
          PROVE  /\ pc[g] = pc'[g] /\ held[g] \in Slots /\ dst[g] \in Dests
                 /\ state'[held[g]] = state[held[g]]
                 /\ flows'[held[g]][dst[g]] = flows[held[g]][dst[g]]
      BY SMTT(30), <1>1, <1>8, <2>2, <3>2, <3>3 DEF HandlersOK, Holding, Using
    <3>4. ASSUME NEW g \in Handlers, pc'[g] \in Using, state'[held[g]] = "open"
          PROVE  flows'[held[g]][dst[g]] = g
      BY SMTT(30), <3>3, <3>4, NoneAssumption DEF FlowsOK
    <3>5. ASSUME NEW g \in Handlers, pc'[g] = "relay", state'[held[g]] = "closed"
          PROVE  done[g] \/ g \in wake[held[g]]
      BY SMTT(30), <3>3, <3>5 DEF FlowsOK, Using
    <3>. QED BY <1>1, <3>1, <3>4, <3>5 DEF FlowsOK
  <2>9. NoIdleAssociation'
    <3>1. \A u \in Slots : Unused(u)' => u # t /\ Unused(u)
      <4>1. \A u \in Slots : state'[u] = IF u = t THEN "closed" ELSE state[u]
        BY <2>2 DEF TypeOK
      <4>. QED BY <1>8, <4>1 DEF Unused
    <3>2. \A u \in Slots, g \in Handlers : Unused(u)' /\ AboutToUse(g, u) => AboutToUse(g, u)'
      BY SMTT(30), <1>1, <2>2 DEF AboutToUse
    <3>. QED BY <3>1, <3>2, IdleFrame
  <2>10. ConnsOK'
    BY SMTT(30), <1>1, <2>2 DEF TypeOK, ConnsOK
  <2>. QED BY <1>9, <2>4, <2>5, <2>6, <2>7, <2>8, <2>9, <2>10
<1>11. CASE ~IsLast(h)
  <2>1. state' = state /\ slots' = slots /\ pc' = [pc EXCEPT ![h] = "closeLocal"]
    BY <1>11 DEF CloseFlow, RemoveFlow, Goto
  <2>2. state[t] = "closed" \/ \E d \in Dests : flows'[t][d] # None
    BY <1>2, <1>5, <1>11 DEF IsLast, TypeOK
  <2>3. TypeOK'
    BY <1>1, <1>6, <2>1 DEF TypeOK, PCs
  <2>4. HandlersOK'
    BY SMTT(30), <1>1, <2>1 DEF HandlersOK, Holding
  <2>5. SetupOK' /\ SlotsOK'
    BY SMTT(30), <1>1, <2>1 DEF SetupOK, SlotsOK, Creating, Using
  <2>6. FlowsOK'
    <3>1. ASSUME NEW u \in Slots, NEW d \in Dests, flows'[u][d] # None
          PROVE  /\ pc'[flows'[u][d]] \in Using
                 /\ held'[flows'[u][d]] = u /\ dst'[flows'[u][d]] = d
                 /\ state'[u] = "open"
      <4>1. flows[u][d] = flows'[u][d] /\ ~(u = t /\ d = dst[h] /\ flows[u][d] = h)
        BY <1>8, <3>1
      <4>. QED BY SMTT(30), <1>1, <2>1, <3>1, <4>1 DEF FlowsOK
    <3>2. ASSUME NEW g \in Handlers, pc'[g] \in Using
          PROVE  g # h /\ pc[g] = pc'[g] /\ held[g] \in Slots /\ dst[g] \in Dests
      BY <2>1, <3>2 DEF TypeOK, HandlersOK, Holding, Using
    <3>3. ASSUME NEW g \in Handlers, pc'[g] \in Using, state[held[g]] = "open"
          PROVE  flows'[held[g]][dst[g]] = g
      <4>1. flows[held[g]][dst[g]] = g
        BY <3>2, <3>3 DEF FlowsOK
      <4>. QED BY <1>8, <3>2, <3>3, <4>1
    <3>4. ASSUME NEW g \in Handlers, pc'[g] = "relay", state[held[g]] = "closed"
          PROVE  done[g] \/ g \in wake[held[g]]
      BY <3>2, <3>4 DEF FlowsOK, Using
    <3>. QED BY <1>1, <2>1, <3>1, <3>3, <3>4 DEF FlowsOK
  <2>7. NoIdleAssociation'
    <3>1. \A u \in Slots : Unused(u)' => u # t /\ Unused(u)
      BY <1>8, <2>1, <2>2 DEF Unused
    <3>2. \A u \in Slots, g \in Handlers : Unused(u)' /\ AboutToUse(g, u) => AboutToUse(g, u)'
      BY SMTT(30), <1>1, <2>1 DEF AboutToUse
    <3>. QED BY <3>1, <3>2, IdleFrame
  <2>8. ConnsOK'
    BY SMTT(30), <1>1, <2>1 DEF ConnsOK
  <2>. QED BY <1>9, <2>3, <2>4, <2>5, <2>6, <2>7, <2>8
<1>. QED BY <1>10, <1>11

\* The connections are closed by the handler that closed the association.
LEMMA CloseConnsStep ==
  ASSUME IInv, NEW h \in Handlers, CloseConns(h)
  PROVE  IInv'
<1>1. UNCHANGED <<slots, asrc, state>>
  BY DEF slotVars, CloseConns
<1>2. SlotsOK'
  BY <1>1, SlotsFrame DEF IInv
<1>. USE DEF IInv, flowVars, slotVars, assocVars, readerVars, Goto, CloseConns
<1>3. TypeOK'
  BY Zenon DEF TypeOK, PCs
<1>4. HandlersOK'
  BY SMTT(30) DEF TypeOK, HandlersOK, Holding
<1>5. SetupOK'
  BY SMTT(30) DEF SetupOK, Creating
<1>6. FlowsOK'
  BY SMTT(30) DEF FlowsOK, Using
<1>7. DeliveryOK'
  BY SMTT(30), NoneAssumption, QueueCapAssumption DEF TypeOK, HandlersOK, SetupOK, FlowsOK, DeliveryOK,
       ConnsOK, Holding, Using, Dialing
<1>8. NoMisdelivery'
  BY SMTT(30) DEF TypeOK, HandlersOK, NoMisdelivery
<1>9. NoIdleAssociation'
  <2>1. \A u \in Slots : Unused(u)' => Unused(u)
    BY DEF Unused
  <2>2. \A u \in Slots, g \in Handlers : Unused(u)' /\ AboutToUse(g, u) => AboutToUse(g, u)'
    BY SMTT(30) DEF AboutToUse
  <2>. QED BY <2>1, <2>2, IdleFrame
<1>10. ConnsOK'
  BY SMTT(30), NoneAssumption DEF TypeOK, SetupOK, ConnsOK, Holding, Creating
<1>. QED BY <1>2, <1>3, <1>4, <1>5, <1>6, <1>7, <1>8, <1>9, <1>10

\* The handler has let go of its association.
LEMMA CloseLocalStep ==
  ASSUME IInv, NEW h \in Handlers, CloseLocal(h)
  PROVE  IInv'
<1>1. UNCHANGED <<slots, asrc, state>>
  BY DEF slotVars, assocVars, CloseLocal
<1>2. SlotsOK'
  BY <1>1, SlotsFrame DEF IInv
<1>. USE DEF IInv, flowVars, slotVars, assocVars, readerVars, Goto, CloseLocal
<1>3. TypeOK'
  <2>1. in' \in [Handlers -> Seq(Packets)] /\ \A g \in Handlers : Len(in'[g]) <= QueueCap
    BY SMTT(30), QueueCapAssumption DEF TypeOK
  <2>. QED BY SMTT(30), QueueCapAssumption DEF TypeOK, PCs
<1>4. HandlersOK'
  BY SMTT(30) DEF TypeOK, HandlersOK, Holding
<1>5. SetupOK'
  BY SMTT(30), NoneAssumption DEF SetupOK, Creating, Using
<1>6. FlowsOK'
  BY SMTT(30) DEF FlowsOK, Using
<1>7. DeliveryOK'
  BY SMTT(30), NoneAssumption DEF TypeOK, SetupOK, DeliveryOK, Dialing
<1>8. NoMisdelivery'
  BY DEF TypeOK, NoMisdelivery
<1>9. NoIdleAssociation'
  <2>1. \A u \in Slots : Unused(u)' => Unused(u)
    BY DEF Unused
  <2>2. \A u \in Slots, g \in Handlers : Unused(u)' /\ AboutToUse(g, u) => AboutToUse(g, u)'
    BY SMTT(30) DEF AboutToUse
  <2>. QED BY <2>1, <2>2, IdleFrame
<1>10. ConnsOK'
  BY SMTT(30) DEF ConnsOK
<1>. QED BY <1>2, <1>3, <1>4, <1>5, <1>6, <1>7, <1>8, <1>9, <1>10

-----------------------------------------------------------------------------
(* The read loop and the watcher of an association.                        *)

\* The flow found under the key of a datagram is the flow it is for.
LEMMA ReadDatagramStep ==
  ASSUME IInv, NEW t \in Slots, NEW spelling \in Spellings, ReadDatagram(t, spelling)
  PROVE  IInv'
<1>1. UNCHANGED <<pc, src, dst, held, done, in, slots, slot, asrc, state, flows, wake>>
  BY DEF flowVars, slotVars, assocVars, ReadDatagram
<1>2. HandlersOK' /\ SetupOK' /\ SlotsOK' /\ FlowsOK' /\ NoMisdelivery' /\ NoIdleAssociation'
  BY <1>1, HandlersFrame, SetupFrame, SlotsFrame, FlowsFrame, MisdeliveryFrame,
     UnusedFrame DEF IInv
<1>. USE DEF IInv, flowVars, slotVars, assocVars, readerVars, Goto, ReadDatagram, udpFlowKey, Spellings
<1>3. TypeOK'
  <2>1. spelling[1] \in Dests /\ flows[t][spelling[1]] \in Handlers \cup {None}
    BY SMTT(30) DEF TypeOK
  <2>. QED BY <2>1 DEF TypeOK
<1>4. DeliveryOK'
  BY SMTT(30), NoneAssumption DEF TypeOK, HandlersOK, FlowsOK, DeliveryOK, Holding, Using, Dialing
<1>5. ConnsOK'
  BY SMTT(30) DEF ConnsOK
<1>. QED BY <1>2, <1>3, <1>4, <1>5

\* The flow may be past its relay, but it cannot have started another.
LEMMA DeliverStep ==
  ASSUME IInv, NEW t \in Slots, Deliver(t)
  PROVE  IInv'
<1>1. UNCHANGED <<pc, src, dst, held, done, slots, slot, asrc, state, flows, wake>>
  BY DEF slotVars, assocVars, Deliver, Send
<1>2. HandlersOK' /\ SetupOK' /\ SlotsOK' /\ FlowsOK' /\ NoIdleAssociation'
  BY <1>1, HandlersFrame, SetupFrame, SlotsFrame, FlowsFrame, UnusedFrame DEF IInv
<1>. USE DEF IInv, flowVars, slotVars, assocVars, readerVars, Goto, Deliver, Send
<1>3. TypeOK'
  <2> DEFINE p == [via |-> asrc[t], from |-> rfrom[t]]
  <2>1. rflow[t] \in Handlers /\ p \in Packets
    BY SMTT(30) DEF TypeOK, DeliveryOK, Packets
  <2>2. CASE Len(in[rflow[t]]) < QueueCap
    <3> HIDE DEF p
    <3>1. in[rflow[t]] \in Seq(Packets)
      BY <2>1 DEF TypeOK
    <3>2. Append(in[rflow[t]], p) \in Seq(Packets) /\ Len(Append(in[rflow[t]], p)) <= QueueCap
      BY SMTT(30), <2>1, <2>2, <3>1, QueueCapAssumption
    <3>3. in' = [in EXCEPT ![rflow[t]] = Append(in[rflow[t]], p)]
      BY <2>2 DEF p
    <3>4. in' \in [Handlers -> Seq(Packets)]
      BY SMTT(30), <2>1, <3>3 DEF TypeOK
    <3>5. ASSUME NEW g \in Handlers PROVE Len(in'[g]) <= QueueCap
      BY SMTT(30), QueueCapAssumption DEF TypeOK
    <3>. QED BY SMTT(30), <3>4, QueueCapAssumption DEF TypeOK
  <2>3. CASE ~(Len(in[rflow[t]]) < QueueCap)
    BY <2>3 DEF TypeOK
  <2>. QED BY <2>2, <2>3
<1>4. DeliveryOK'
  BY SMTT(30) DEF TypeOK, HandlersOK, DeliveryOK
<1>5. NoMisdelivery'
  BY SMTT(30), QueueCapAssumption DEF DeliveryOK, NoMisdelivery
<1>6. ConnsOK'
  BY SMTT(30) DEF ConnsOK
<1>. QED BY <1>2, <1>3, <1>4, <1>5, <1>6

\* The last flow has closed the association, and its connections are its to
\* close.
LEMMA ReadFailsClosedStep ==
  ASSUME IInv, NEW t \in Slots, ReadFailsClosed(t)
  PROVE  IInv'
<1>1. UNCHANGED <<pc, src, dst, held, done, in, slots, slot, asrc, state, flows, wake>>
  BY DEF flowVars, slotVars, assocVars, ReadFailsClosed
<1>2. HandlersOK' /\ SetupOK' /\ SlotsOK' /\ FlowsOK' /\ NoMisdelivery' /\ NoIdleAssociation'
  BY <1>1, HandlersFrame, SetupFrame, SlotsFrame, FlowsFrame, MisdeliveryFrame,
     UnusedFrame DEF IInv
<1>. USE DEF IInv, flowVars, slotVars, assocVars, readerVars, Goto, ReadFailsClosed
<1>3. TypeOK'
  BY DEF TypeOK
<1>4. DeliveryOK'
  BY SMTT(30) DEF DeliveryOK
<1>5. ConnsOK'
  BY SMTT(30) DEF ConnsOK
<1>. QED BY <1>2, <1>3, <1>4, <1>5

\* The flows that lose their registration are all on the list to wake.
LEMMA ShutdownStep ==
  ASSUME IInv, NEW t \in Slots, Shutdown(t)
  PROVE  IInv'
<1>1. UNCHANGED <<pc, src, dst, held, in, asrc>>
  BY DEF flowVars, Shutdown, EndAssociation
<1>2. HandlersOK' /\ NoMisdelivery'
  BY <1>1, HandlersFrame, MisdeliveryFrame DEF IInv
<1>. USE DEF IInv, flowVars, slotVars, assocVars, readerVars, Goto, Shutdown, EndAssociation, FlowsOf, forget
<1>3. TypeOK'
  <2>1. FlowsOf(t) \in SUBSET Handlers
    BY SMTT(30) DEF TypeOK
  <2>2. forget(t) \in [Sources -> Slots \cup {None}]
    BY Zenon DEF TypeOK
  <2>3. slots' \in [Sources -> Slots \cup {None}] /\ wake' \in [Slots -> SUBSET Handlers]
    BY SMTT(30), <2>2 DEF TypeOK
  <2>4. flows' \in [Slots -> [Dests -> Handlers \cup {None}]]
    BY SMTT(30) DEF TypeOK, NoFlows
  <2>. QED BY <2>3, <2>4 DEF TypeOK
<1>4. SetupOK'
  BY SMTT(30) DEF HandlersOK, SetupOK, ConnsOK, Holding, Creating, Using
<1>5. SlotsOK'
  BY SMTT(30) DEF TypeOK, SlotsOK
<1>6. FlowsOK'
  BY SMTT(30), NoneAssumption DEF TypeOK, HandlersOK, FlowsOK, ConnsOK, Using, NoFlows
<1>7. DeliveryOK'
  BY SMTT(30) DEF DeliveryOK
<1>8. NoIdleAssociation'
  <2>1. \A u \in Slots : Unused(u)' => Unused(u)
    BY DEF TypeOK, Unused
  <2>2. \A u \in Slots, g \in Handlers : Unused(u)' /\ AboutToUse(g, u) => AboutToUse(g, u)'
    BY DEF AboutToUse
  <2>. QED BY <2>1, <2>2, IdleFrame
<1>9. ConnsOK'
  BY SMTT(30) DEF TypeOK, ConnsOK
<1>. QED BY <1>2, <1>3, <1>4, <1>5, <1>6, <1>7, <1>8, <1>9

\* The read loop closes the connections of the association it closed.
LEMMA ShutdownConnsStep ==
  ASSUME IInv, NEW t \in Slots, ShutdownConns(t)
  PROVE  IInv'
<1>1. UNCHANGED <<pc, src, dst, held, done, in, slots, slot, asrc, state, flows, wake>>
  BY DEF flowVars, slotVars, ShutdownConns
<1>2. HandlersOK' /\ SetupOK' /\ SlotsOK' /\ FlowsOK' /\ NoMisdelivery' /\ NoIdleAssociation'
  BY <1>1, HandlersFrame, SetupFrame, SlotsFrame, FlowsFrame, MisdeliveryFrame,
     UnusedFrame DEF IInv
<1>. USE DEF IInv, flowVars, slotVars, assocVars, readerVars, Goto, ShutdownConns
<1>3. TypeOK'
  BY SMTT(30) DEF TypeOK
<1>4. DeliveryOK'
  BY SMTT(30) DEF HandlersOK, DeliveryOK
<1>5. ConnsOK'
  BY SMTT(30) DEF TypeOK, ConnsOK
<1>. QED BY <1>2, <1>3, <1>4, <1>5

\* Whoever was on the list is woken.
LEMMA WakeFlowsStep ==
  ASSUME IInv, NEW t \in Slots, WakeFlows(t)
  PROVE  IInv'
<1>1. UNCHANGED <<pc, src, dst, held, in, slots, slot, asrc, state, flows>>
  BY DEF slotVars, assocVars, WakeFlows
<1>2. HandlersOK' /\ SetupOK' /\ SlotsOK' /\ NoMisdelivery' /\ NoIdleAssociation'
  BY <1>1, HandlersFrame, SetupFrame, SlotsFrame, MisdeliveryFrame, UnusedFrame DEF IInv
<1>. USE DEF IInv, flowVars, slotVars, assocVars, readerVars, Goto, WakeFlows
<1>3. TypeOK'
  BY SMTT(30) DEF TypeOK
<1>4. FlowsOK'
  <2>1. ASSUME NEW g \in Handlers, pc[g] = "relay", state[held[g]] = "closed"
        PROVE  done'[g] \/ g \in wake'[held[g]]
    <3>1. done[g] \/ g \in wake[held[g]]
      BY <2>1 DEF FlowsOK
    <3>2. CASE held[g] = t
      <4>1. done'[g] = (done[g] \/ g \in wake[t])
        OBVIOUS
      <4>. QED BY <3>1, <3>2, Zenon
    <3>3. CASE held[g] # t
      <4>1. wake'[held[g]] = wake[held[g]]
        BY SMTT(30), <3>3
      <4>2. done'[g] = (done[g] \/ g \in wake[t])
        OBVIOUS
      <4>. QED BY <3>1, <4>1, Zenon
    <3>. QED BY <3>2, <3>3
  <2>. QED BY SMTT(30), <2>1 DEF FlowsOK
<1>5. DeliveryOK'
  BY SMTT(30) DEF DeliveryOK
<1>6. ConnsOK'
  BY SMTT(30) DEF ConnsOK
<1>. QED BY <1>2, <1>3, <1>4, <1>5, <1>6

\* A connection at its end is not closed yet.
LEMMA ProxyHangsUpStep ==
  ASSUME IInv, NEW t \in Slots, ProxyHangsUp(t)
  PROVE  IInv'
<1>1. UNCHANGED <<pc, src, dst, held, done, in, slots, slot, asrc, state, flows, reader, rflow,
                   rfrom, wake>>
  BY DEF flowVars, slotVars, readerVars, ProxyHangsUp
<1>2. HandlersOK' /\ SetupOK' /\ SlotsOK' /\ FlowsOK' /\ DeliveryOK' /\ NoMisdelivery'
      /\ NoIdleAssociation'
  BY <1>1, HandlersFrame, SetupFrame, SlotsFrame, FlowsFrame, DeliveryFrame,
     MisdeliveryFrame, UnusedFrame DEF IInv
<1>. USE DEF IInv, flowVars, slotVars, assocVars, readerVars, Goto, ProxyHangsUp
<1>3. TypeOK'
  BY DEF TypeOK
<1>4. ConnsOK'
  BY SMTT(30) DEF HandlersOK, SetupOK, SlotsOK, ConnsOK, Creating
<1>. QED BY <1>2, <1>3, <1>4

\* Closing the connections leaves the association to its read loop.
LEMMA WatchControlStep ==
  ASSUME IInv, NEW t \in Slots, WatchControl(t)
  PROVE  IInv'
<1>1. UNCHANGED <<pc, src, dst, held, done, in, slots, slot, asrc, state, flows, reader, rflow,
                   rfrom, wake>>
  BY DEF flowVars, slotVars, readerVars, WatchControl
<1>2. HandlersOK' /\ SetupOK' /\ SlotsOK' /\ FlowsOK' /\ DeliveryOK' /\ NoMisdelivery'
      /\ NoIdleAssociation'
  BY <1>1, HandlersFrame, SetupFrame, SlotsFrame, FlowsFrame, DeliveryFrame,
     MisdeliveryFrame, UnusedFrame DEF IInv
<1>. USE DEF IInv, flowVars, slotVars, assocVars, readerVars, Goto, WatchControl
<1>3. TypeOK'
  BY DEF TypeOK
<1>4. ConnsOK'
  BY SMTT(30) DEF ConnsOK
<1>. QED BY <1>2, <1>3, <1>4

-----------------------------------------------------------------------------
(* The invariant holds, and what it implies.                               *)

\* The invariant holds before the first datagram.
LEMMA InitIInv == Init => IInv
<1>. SUFFICES ASSUME Init PROVE IInv
  OBVIOUS
<1>. USE NoneAssumption, QueueCapAssumption DEF Init
<1>1. TypeOK
  <2>1. flows \in [Slots -> [Dests -> Handlers \cup {None}]]
    BY DEF NoFlows
  <2>2. in \in [Handlers -> Seq(Packets)] /\ \A h \in Handlers : Len(in[h]) <= QueueCap
    BY SMTT(30)
  <2>. QED BY <2>1, <2>2 DEF TypeOK, PCs, Dialing
<1>2. HandlersOK /\ SetupOK /\ SlotsOK
  BY DEF HandlersOK, SetupOK, SlotsOK, Holding, Creating, Using
<1>3. FlowsOK /\ DeliveryOK /\ NoMisdelivery
  BY DEF FlowsOK, DeliveryOK, NoMisdelivery, NoFlows, Using, Dialing
<1>4. NoIdleAssociation /\ ConnsOK
  BY DEF NoIdleAssociation, Unused, ConnsOK
<1>. QED BY <1>1, <1>2, <1>3, <1>4 DEF IInv

\* No step, and no stuttering, breaks the invariant.
LEMMA NextIInv == IInv /\ [Next]_vars => IInv'
<1>. SUFFICES ASSUME IInv, [Next]_vars PROVE IInv'
  OBVIOUS
<1>1. ASSUME NEW h \in Handlers, HandlerNext(h) PROVE IInv'
  BY <1>1, DatagramStep, ExpireStep, FindSlotStep, CreateSlotStep, WaitReadyStep,
     WaitExpiresStep, AssociateStep, AssociateFailsStep, AssignStep, PublishStep,
     OpenStep, OpenFailsStep, FlowReadStep, RelayEndsStep, CloseFlowStep,
     CloseConnsStep, CloseLocalStep DEF HandlerNext
<1>2. ASSUME NEW t \in Slots, AssociationNext(t) PROVE IInv'
  BY <1>2, ReadDatagramStep, DeliverStep, ReadFailsClosedStep, ShutdownStep,
     ShutdownConnsStep, WakeFlowsStep, ProxyHangsUpStep, WatchControlStep DEF AssociationNext
<1>3. CASE UNCHANGED vars
  <2>1. UNCHANGED <<pc, src, dst, held, expired, done, in, slots, slot, asrc, state, flows, conns,
                    reader, rflow, rfrom, wake>>
    BY <1>3 DEF vars, flowVars, slotVars, assocVars, readerVars
  <2>2. TypeOK'
    BY <2>1 DEF IInv, TypeOK
  <2>3. HandlersOK' /\ SetupOK' /\ SlotsOK' /\ FlowsOK' /\ DeliveryOK' /\ NoMisdelivery'
        /\ NoIdleAssociation' /\ ConnsOK'
    BY <2>1, HandlersFrame, SetupFrame, SlotsFrame, FlowsFrame, DeliveryFrame,
       MisdeliveryFrame, UnusedFrame, ConnsFrame DEF IInv
  <2>. QED BY <2>2, <2>3 DEF IInv
<1>. QED BY <1>1, <1>2, <1>3 DEF Next

\* IInv is an inductive invariant of the connector.
THEOREM Invariance == Spec => []IInv
BY InitIInv, NextIInv, PTL DEF Spec

\* All variables keep their types, and no flow ever buffers more than
\* QueueCap datagrams (udp_assoc.go, readLoop's send).
THEOREM TypeCorrect == Spec => []TypeOK
<1>1. IInv => TypeOK
  BY DEF IInv
<1>. QED BY <1>1, Invariance, PTL

\* An association and a negotiation of the same source are the same slot.
LEMMA ServesSlot ==
  ASSUME IInv, NEW s \in Sources, NEW t \in Slots, Serves(t, s)
  PROVE  slots[s] = t
<1>1. CASE asrc[t] = s /\ state[t] = "open"
  BY <1>1 DEF IInv, SlotsOK
<1>2. CASE \E h \in Handlers : pc[h] = "associate" /\ held[h] = t /\ src[h] = s
  BY <1>2 DEF IInv, SetupOK
<1>. QED BY <1>1, <1>2 DEF Serves

\* Flows of one source share one association (socks5.go, association).
THEOREM Sharing == Spec => []OneAssociationPerSource
<1>1. IInv => OneAssociationPerSource
  BY ServesSlot DEF OneAssociationPerSource
<1>. QED BY <1>1, Invariance, PTL

\* No relaying flow is cut off silently (udp_assoc.go, open, shutdown).
THEOREM NotCutOff == Spec => []NoFlowCutOff
<1>1. IInv => NoFlowCutOff
  <2>. SUFFICES ASSUME IInv, NEW h \in Handlers, pc[h] = "relay", ~done[h]
                PROVE  IF state[held[h]] = "open"
                       THEN flows[held[h]][dst[h]] = h ELSE h \in wake[held[h]]
    BY DEF NoFlowCutOff
  <2>1. held[h] \in Slots /\ state[held[h]] \in {"open", "closed"}
    BY SMTT(30) DEF IInv, TypeOK, HandlersOK, SetupOK, Holding, Using
  <2>2. CASE state[held[h]] = "open"
    BY <2>2 DEF IInv, FlowsOK, Using
  <2>3. CASE state[held[h]] = "closed"
    BY <2>3 DEF IInv, FlowsOK
  <2>. QED BY <2>1, <2>2, <2>3
<1>. QED BY <1>1, Invariance, PTL

\* A flow only gets datagrams of its own destination (udp_assoc.go, readLoop).
THEOREM RightDelivery == Spec => []NoMisdelivery
<1>1. IInv => NoMisdelivery
  BY DEF IInv
<1>. QED BY <1>1, Invariance, PTL

\* No open association is left without users (udp_assoc.go, closeFlow).
THEOREM NotIdle == Spec => []NoIdleAssociation
<1>1. IInv => NoIdleAssociation
  BY DEF IInv
<1>. QED BY <1>1, Invariance, PTL

\* Nobody lets go of open connections (udp_assoc.go, closeFlow, shutdown).
THEOREM NoLeak == Spec => []NoConnectionLeak
<1>1. IInv => NoConnectionLeak
  <2>. SUFFICES ASSUME IInv, NEW t \in Slots, Unreferenced(t)
                PROVE  conns[t] # "open"
    BY DEF NoConnectionLeak
  <2>1. state[t] \in {"none", "open", "closed"}
    BY DEF IInv, TypeOK
  <2>2. state[t] # "open"
    BY DEF IInv, SlotsOK, Unreferenced
  <2>. QED BY <2>1, <2>2 DEF IInv, ConnsOK, Unreferenced
<1>. QED BY <1>1, Invariance, PTL

\* No dial waits for a slot that nobody will publish, whatever dials expire
\* or fail meanwhile (socks5.go, association), and no relay waits for a
\* done that no read loop is left to close (udp_assoc.go, readLoop and
\* shutdown): the safety that DialEnds and HangUpEndsFlows rest on.
THEOREM NotStranded == Spec => []NobodyStranded
<1>1. Init => MadeBy /\ InUse /\ WakeOK
  <2>. SUFFICES ASSUME Init PROVE MadeBy /\ InUse /\ WakeOK
    OBVIOUS
  <2>1. MadeBy
    BY SMTT(30) DEF Init, MadeBy, Unmade
  <2>2. InUse
    BY SMTT(30) DEF Init, InUse, Holding
  <2>3. WakeOK
    BY SMTT(30) DEF Init, WakeOK
  <2>. QED BY <2>1, <2>2, <2>3
<1>2. IInv /\ MadeBy /\ InUse /\ WakeOK => NobodyStranded
  <2>. SUFFICES ASSUME IInv, MadeBy, InUse, WakeOK, NEW h \in Handlers
       PROVE /\ pc[h] = "wait" /\ slot[held[h]] \notin {"ready", "failed"} =>
                  \E g \in Handlers : pc[g] \in Creating /\ held[g] = held[h]
             /\ pc[h] = "relay" /\ ~done[h] => reader[held[h]] \notin {"off", "done"}
    BY DEF NobodyStranded
  <2>1. ASSUME pc[h] = "wait", slot[held[h]] \notin {"ready", "failed"}
        PROVE  \E g \in Handlers : pc[g] \in Creating /\ held[g] = held[h]
    <3>1. held[h] \in Slots /\ slot[held[h]] # "free"
      BY <2>1 DEF IInv, HandlersOK, InUse, Holding
    <3>2. slot[held[h]] \in Unmade
      BY SMTT(30), <2>1, <3>1 DEF IInv, TypeOK, Unmade
    <3>. QED BY <3>1, <3>2 DEF MadeBy
  <2>2. ASSUME pc[h] = "relay", ~done[h] PROVE reader[held[h]] \notin {"off", "done"}
    <3>1. held[h] \in Slots /\ state[held[h]] \in {"open", "closed"}
      BY SMTT(30), <2>2 DEF IInv, TypeOK, HandlersOK, SetupOK, Holding, Using
    <3>2. CASE state[held[h]] = "open"
      BY SMTT(30), <3>1, <3>2 DEF IInv, ConnsOK
    <3>3. CASE state[held[h]] = "closed"
      <4>1. h \in wake[held[h]]
        BY <2>2, <3>3 DEF IInv, FlowsOK
      <4>. QED BY SMTT(30), <3>1, <4>1 DEF WakeOK
    <3>. QED BY <3>1, <3>2, <3>3
  <2>. QED BY <2>1, <2>2
<1>. QED BY <1>1, <1>2, MadeStep, InUseStep, WakeStep, Invariance, PTL DEF Spec

-----------------------------------------------------------------------------
(* The steps of UDPAssociation that the proxy sees are steps of UDPNat.    *)

\* What UDPNat sees of a state: the open associations with their flows, and
\* the negotiations.  A step that changes none of it is a stuttering step.
LEMMA NATFrame ==
  ASSUME NEW s \in Sources,
         \A t \in Slots : (asrc[t] = s /\ state[t] = "open") <=> (asrc'[t] = s /\ state'[t] = "open"),
         \A t \in Slots : asrc[t] = s /\ state[t] = "open" => flows'[t] = flows[t],
         Requested(s) <=> Requested(s)'
  PROVE  Binding(s)' = Binding(s) /\ Users(s)' = Users(s)
<1>1. OpenFor(s)' = OpenFor(s)
  BY DEF OpenFor
<1>2. Users(s)' = Users(s)
  BY <1>1 DEF Users, OpenFor
<1>. QED BY <1>1, <1>2 DEF Binding

\* A source has at most the one open association c.slots names, and none
\* while one is being negotiated.
LEMMA OpenForSlot ==
  ASSUME IInv, NEW s \in Sources
  PROVE  /\ \A t \in Slots : asrc[t] = s /\ state[t] = "open" => OpenFor(s) = {t}
         /\ Requested(s) => OpenFor(s) = {}
         /\ Requested(s) \/ OpenFor(s) # {} => slots[s] # None
<1>1. \A t \in OpenFor(s) : t \in Slots /\ slots[s] = t
  BY DEF OpenFor, IInv, SlotsOK
<1>2. ASSUME Requested(s)
      PROVE  slots[s] \in Slots /\ state[slots[s]] = "none"
  BY SMTT(30), <1>2 DEF Requested, IInv, SetupOK, HandlersOK, Holding
<1>3. ASSUME NEW t \in Slots, asrc[t] = s, state[t] = "open"
      PROVE  OpenFor(s) = {t}
  BY <1>1, <1>3 DEF OpenFor
<1>4. Requested(s) => OpenFor(s) = {}
  BY <1>1, <1>2 DEF OpenFor
<1>5. Requested(s) \/ OpenFor(s) # {} => slots[s] # None
  BY <1>1, <1>2, NoneAssumption
<1>. QED BY <1>3, <1>4, <1>5

\* A step that changes no association and starts or ends no negotiation.
LEMMA QuietStep ==
  ASSUME UNCHANGED <<asrc, state, flows>>,
         \A h \in Handlers : (pc[h] = "associate") <=> (pc'[h] = "associate"),
         \A h \in Handlers : pc[h] = "associate" => src'[h] = src[h]
  PROVE  UNCHANGED NAT!vars
<1>1. ASSUME NEW s \in Sources
      PROVE  Binding(s)' = Binding(s) /\ Users(s)' = Users(s)
  <2>1. Requested(s) <=> Requested(s)'
    BY DEF Requested
  <2>. QED BY <2>1, NATFrame
<1>. QED BY <1>1 DEF NAT!vars

\* A step that concerns one source changes its binding and its users only.
LEMMA OneSourceStep ==
  ASSUME NEW s \in Sources,
         \A r \in Sources : r # s => Binding(r)' = Binding(r) /\ Users(r)' = Users(r)
  PROVE  /\ [r \in Sources |-> Binding(r)]' = [[r \in Sources |-> Binding(r)] EXCEPT ![s] = Binding(s)']
         /\ [r \in Sources |-> Users(r)]' = [[r \in Sources |-> Users(r)] EXCEPT ![s] = Users(s)']
BY Zenon

\* association creates a slot: a binding is requested.
LEMMA CreateSlotRefines ==
  ASSUME IInv, NEW h \in Handlers, NEW t \in Slots, CreateSlot(h, t),
         NEW s \in Sources, src[h] = s
  PROVE  NAT!Request(s)
<1>1. slots[s] = None
  BY DEF CreateSlot, NewSlot
<1>2. state[t] # "open"
  BY DEF IInv, SlotsOK, CreateSlot, NewSlot, Unreferenced
<1>3. state'[t] = "none" /\ \A u \in Slots : u # t =>
        state'[u] = state[u] /\ asrc'[u] = asrc[u] /\ flows'[u] = flows[u]
  BY DEF IInv, TypeOK, CreateSlot, NewSlot
<1>4. \A r \in Sources, u \in Slots :
        (asrc[u] = r /\ state[u] = "open") <=> (asrc'[u] = r /\ state'[u] = "open")
  BY <1>2, <1>3
<1>5. \A g \in Handlers : /\ src'[g] = src[g]
                          /\ pc'[g] = "associate" <=> (g = h \/ pc[g] = "associate")
  BY DEF IInv, TypeOK, CreateSlot, NewSlot, Goto
<1>6. ASSUME NEW r \in Sources, r # s
      PROVE  Binding(r)' = Binding(r) /\ Users(r)' = Users(r)
  <2>1. Requested(r) <=> Requested(r)'
    BY <1>5, <1>6 DEF Requested
  <2>. QED BY <1>2, <1>3, <1>4, <2>1, NATFrame
<1>7. OpenFor(s) = {} /\ ~Requested(s)
  BY <1>1, OpenForSlot, Zenon
<1>8. OpenFor(s)' = {} /\ Requested(s)'
  BY SMTT(30), <1>4, <1>5, <1>7 DEF OpenFor, Requested
<1>9. Binding(s) = "none" /\ Binding(s)' = "requested"
  BY <1>7, <1>8 DEF Binding
<1>10. Users(s) = {} /\ Users(s)' = {}
  BY <1>7, <1>8 DEF Users
<1>11. \A r \in Sources : Users(r)' = Users(r)
  BY <1>6, <1>10
<1>. QED BY <1>6, <1>9, <1>11, OneSourceStep, Zenon DEF NAT!Request

\* associate succeeds: the binding is granted, without users.
LEMMA AssociateRefines ==
  ASSUME IInv, NEW h \in Handlers, Associate(h), NEW s \in Sources, src[h] = s,
         NEW t \in Slots, held[h] = t
  PROVE  NAT!Grant(s)
<1>1. asrc[t] = s /\ state[t] = "none" /\ slots[s] = t /\ \A d \in Dests : flows[t][d] = None
  BY SMTT(30) DEF IInv, TypeOK, HandlersOK, SetupOK, FlowsOK, Associate, Holding
<1>2. UNCHANGED <<asrc, flows, src>> /\ state' = [state EXCEPT ![t] = "open"]
  BY DEF Associate, slotVars
<1>3. \A g \in Handlers : pc'[g] = "associate" <=> (g # h /\ pc[g] = "associate")
  BY DEF IInv, TypeOK, Associate, Goto
<1>4. ASSUME NEW r \in Sources, r # s
      PROVE  Binding(r)' = Binding(r) /\ Users(r)' = Users(r)
  <2>1. Requested(r) <=> Requested(r)'
    BY <1>2, <1>3, <1>4 DEF Requested
  <2>2. \A u \in Slots : (asrc[u] = r /\ state[u] = "open") <=> (asrc'[u] = r /\ state'[u] = "open")
    BY <1>1, <1>2, <1>4 DEF IInv, TypeOK
  <2>. QED BY <1>2, <2>1, <2>2, NATFrame, Zenon
<1>5. Requested(s) /\ OpenFor(s) = {}
  <2>1. Requested(s)
    BY DEF Requested, Associate
  <2>. QED BY <2>1, OpenForSlot
<1>6. OpenFor(s)' = {t}
  BY SMTT(30), <1>1, <1>2, <1>5 DEF OpenFor, IInv, TypeOK
<1>7. Binding(s) = "requested" /\ Binding(s)' = "bound"
  BY <1>5, <1>6 DEF Binding
<1>8. Users(s) = {} /\ Users(s)' = {}
  BY <1>1, <1>2, <1>5, <1>6 DEF Users
<1>9. \A r \in Sources : Users(r)' = Users(r)
  BY <1>4, <1>8
<1>. QED BY <1>4, <1>7, <1>9, OneSourceStep, Zenon DEF NAT!Grant

\* associate throws: the binding is refused.  No other dial negotiates for
\* the source, so the request is gone.
LEMMA AssociateFailsRefines ==
  ASSUME IInv, NEW h \in Handlers, AssociateFails(h), NEW s \in Sources, src[h] = s
  PROVE  NAT!Refuse(s)
<1>1. UNCHANGED <<asrc, state, flows, src>>
  BY DEF AssociateFails, assocVars
<1>2. \A g \in Handlers : pc'[g] = "associate" <=> (g # h /\ pc[g] = "associate")
  BY DEF IInv, TypeOK, AssociateFails, Goto
<1>3. \A g \in Handlers : pc[g] = "associate" /\ src[g] = s => g = h
  BY SMTT(30) DEF IInv, SetupOK, AssociateFails, Creating
<1>4. ASSUME NEW r \in Sources, r # s
      PROVE  Binding(r)' = Binding(r) /\ Users(r)' = Users(r)
  <2>1. Requested(r) <=> Requested(r)'
    BY <1>1, <1>2, <1>4 DEF Requested
  <2>. QED BY <1>1, <2>1, NATFrame
<1>5. Requested(s) /\ OpenFor(s) = {}
  <2>1. Requested(s)
    BY DEF Requested, AssociateFails
  <2>. QED BY <2>1, OpenForSlot
<1>6. ~Requested(s)' /\ OpenFor(s)' = {}
  BY <1>1, <1>2, <1>3, <1>5 DEF Requested, OpenFor
<1>7. Binding(s) = "requested" /\ Binding(s)' = "none"
  BY <1>5, <1>6 DEF Binding
<1>8. Users(s) = {} /\ Users(s)' = {}
  BY <1>5, <1>6 DEF Users
<1>9. \A r \in Sources : Users(r)' = Users(r)
  BY <1>4, <1>8
<1>. QED BY <1>4, <1>7, <1>9, OneSourceStep, Zenon DEF NAT!Refuse

\* open registers a flow: its destination joins the binding, where it was not.
LEMMA OpenRefines ==
  ASSUME IInv, NEW h \in Handlers, Open(h), NEW s \in Sources, src[h] = s,
         NEW d \in Dests, dst[h] = d, NEW t \in Slots, held[h] = t
  PROVE  NAT!Join(s, d)
<1>1. asrc[t] = s /\ state[t] = "open"
  BY SMTT(30) DEF IInv, TypeOK, HandlersOK, SetupOK, Open, Holding, Using
<1>2. flows[t][d] = None
  <2>. SUFFICES ASSUME flows[t][d] # None PROVE FALSE
    OBVIOUS
  <2>1. PICK g \in Handlers : g = flows[t][d]
    BY SMTT(30) DEF IInv, TypeOK
  <2>2. pc[g] \in Using /\ held[g] = t /\ dst[g] = d
    BY SMTT(30), <2>1 DEF IInv, FlowsOK
  <2>3. g = h
    BY <1>1, <2>2 DEF IInv, HandlersOK, Open, Holding, Using
  <2>. QED BY <2>2, <2>3, Zenon DEF Open, Using
<1>3. UNCHANGED <<asrc, state, src>> /\ \A r \in Sources : Requested(r)' <=> Requested(r)
  BY DEF IInv, TypeOK, Open, AddFlow, slotVars, Goto, Requested
<1>4. /\ \A u \in Slots : u # t => flows'[u] = flows[u]
      /\ \A e \in Dests : flows'[t][e] = IF e = d THEN h ELSE flows[t][e]
  BY DEF IInv, TypeOK, Open, AddFlow, KeyOf, udpFlowKey
<1>5. \A r \in Sources : OpenFor(r)' = OpenFor(r)
  BY <1>3 DEF OpenFor
<1>6. \A r \in Sources : Binding(r)' = Binding(r)
  BY <1>3, <1>5 DEF Binding
<1>7. ASSUME NEW r \in Sources, r # s PROVE Users(r)' = Users(r)
  <2>1. \A u \in OpenFor(r) : u \in Slots /\ u # t
    BY <1>1, <1>7 DEF OpenFor
  <2>. QED BY SMTT(30), <1>4, <1>5, <2>1 DEF Users
<1>8. OpenFor(s) = {t}
  BY <1>1, OpenForSlot, Zenon
<1>9. d \notin Users(s) /\ Users(s)' = Users(s) \cup {d}
  BY SMTT(30), <1>2, <1>4, <1>5, <1>8, NoneAssumption DEF Users
<1>10. Binding(s) = "bound"
  BY <1>8 DEF Binding
<1>. QED BY <1>6, <1>7, <1>9, <1>10, OneSourceStep, Zenon DEF NAT!Join

\* closeFlow on an open association: a user leaves, and the last one gives
\* the binding up.
LEMMA CloseFlowRefines ==
  ASSUME IInv, NEW h \in Handlers, CloseFlow(h), NEW s \in Sources, src[h] = s,
         NEW d \in Dests, dst[h] = d, NEW t \in Slots, held[h] = t, state[t] = "open"
  PROVE  NAT!Leave(s, d)
<1>1. asrc[t] = s /\ flows[t][d] = h
  BY DEF IInv, HandlersOK, FlowsOK, CloseFlow, RemoveFlow, Holding, Using
<1>2. UNCHANGED <<asrc, src>> /\ \A r \in Sources : Requested(r)' <=> Requested(r)
  BY DEF IInv, TypeOK, CloseFlow, RemoveFlow, Goto, Requested
<1>3. FlowsWithout(h) \in [Dests -> Handlers \cup {None}] /\
        \A e \in Dests : FlowsWithout(h)[e] = IF e = d THEN None ELSE flows[t][e]
  BY <1>1 DEF IInv, TypeOK, FlowsWithout, KeyOf, udpFlowKey
<1>4. flows' = [flows EXCEPT ![t] = FlowsWithout(h)]
  BY Zenon DEF CloseFlow, RemoveFlow
<1>5. state' = IF IsLast(h) THEN [state EXCEPT ![t] = "closed"] ELSE state
  BY Zenon DEF CloseFlow, RemoveFlow
<1>6. ASSUME NEW r \in Sources, r # s
      PROVE  Binding(r)' = Binding(r) /\ Users(r)' = Users(r)
  <2>1. \A u \in Slots : (asrc[u] = r /\ state[u] = "open") <=> (asrc'[u] = r /\ state'[u] = "open")
    BY <1>1, <1>2, <1>5, <1>6 DEF IInv, TypeOK
  <2>2. \A u \in Slots : asrc[u] = r /\ state[u] = "open" => flows'[u] = flows[u]
    BY <1>1, <1>4, <1>6 DEF IInv, TypeOK
  <2>. QED BY <1>2, <2>1, <2>2, NATFrame, Zenon
<1>7. OpenFor(s) = {t} /\ ~Requested(s)
  BY <1>1, OpenForSlot, Zenon
<1>8. Users(s) = {e \in Dests : flows[t][e] # None} /\ d \in Users(s) /\ Binding(s) = "bound"
  BY <1>1, <1>7, NoneAssumption DEF Users, Binding
<1>9. IsLast(h) <=> Users(s) = {d}
  BY SMTT(30), <1>3, <1>8 DEF IsLast
<1>10. CASE IsLast(h)
  <2>1. OpenFor(s)' = {}
    BY <1>2, <1>5, <1>7, <1>10 DEF OpenFor, IInv, TypeOK
  <2>2. Binding(s)' = "none" /\ Users(s)' = {}
    BY <1>2, <1>7, <2>1 DEF Binding, Users
  <2>3. Users(s)' = Users(s) \ {d}
    BY <1>9, <1>10, <2>2
  <2>. QED BY <1>6, <1>8, <1>9, <1>10, <2>2, <2>3, OneSourceStep, Zenon DEF NAT!Leave
<1>11. CASE ~IsLast(h)
  <2>1. OpenFor(s)' = {t}
    BY <1>2, <1>5, <1>7, <1>11 DEF OpenFor
  <2>2. flows'[t] = FlowsWithout(h)
    BY <1>4 DEF IInv, TypeOK
  <2>3. Binding(s)' = "bound" /\ Users(s)' = Users(s) \ {d}
    BY SMTT(30), <1>3, <1>8, <2>1, <2>2 DEF Binding, Users
  <2>. QED BY <1>6, <1>8, <1>9, <1>11, <2>3, OneSourceStep, Zenon DEF NAT!Leave
<1>. QED BY <1>10, <1>11

\* closeFlow on an association that shutdown closed leaves no trace.
LEMMA CloseFlowStutters ==
  ASSUME IInv, NEW h \in Handlers, CloseFlow(h), state[held[h]] # "open"
  PROVE  UNCHANGED NAT!vars
<1>1. held[h] \in Slots /\ dst[h] \in Dests /\ state[held[h]] = "closed"
  BY SMTT(30) DEF IInv, TypeOK, HandlersOK, SetupOK, CloseFlow, RemoveFlow, Holding, Using
<1>2. FlowsWithout(h) = flows[held[h]]
  BY SMTT(30), <1>1, NoneAssumption DEF IInv, TypeOK, FlowsOK, FlowsWithout, KeyOf, udpFlowKey
<1>3. UNCHANGED <<asrc, state, flows, src>>
  BY SMTT(30), <1>1, <1>2 DEF IInv, TypeOK, CloseFlow, RemoveFlow, IsLast
<1>4. \A g \in Handlers : (pc[g] = "associate") <=> (pc'[g] = "associate")
  BY DEF IInv, TypeOK, CloseFlow, RemoveFlow, Goto
<1>. QED BY <1>3, <1>4, QuietStep

\* shutdown: the proxy dropped the binding with all its users.
LEMMA ShutdownRefines ==
  ASSUME IInv, NEW t \in Slots, Shutdown(t), NEW s \in Sources, asrc[t] = s
  PROVE  NAT!Drop(s)
<1>1. state[t] = "open"
  BY SMTT(30) DEF IInv, TypeOK, ConnsOK, Shutdown, EndAssociation
<1>2. UNCHANGED <<asrc, src, pc>> /\ state' = [state EXCEPT ![t] = "closed"]
      /\ flows' = [flows EXCEPT ![t] = NoFlows]
  BY Zenon DEF Shutdown, EndAssociation
<1>3. \A r \in Sources : Requested(r)' <=> Requested(r)
  BY <1>2 DEF Requested
<1>4. ASSUME NEW r \in Sources, r # s
      PROVE  Binding(r)' = Binding(r) /\ Users(r)' = Users(r)
  <2>1. \A u \in Slots : (asrc[u] = r /\ state[u] = "open") <=> (asrc'[u] = r /\ state'[u] = "open")
    BY <1>2, <1>4 DEF IInv, TypeOK
  <2>2. \A u \in Slots : asrc[u] = r /\ state[u] = "open" => flows'[u] = flows[u]
    BY <1>2, <1>4 DEF IInv, TypeOK
  <2>. QED BY <1>3, <2>1, <2>2, NATFrame, Zenon
<1>5. OpenFor(s) = {t} /\ ~Requested(s)
  BY <1>1, OpenForSlot, Zenon
<1>6. OpenFor(s)' = {}
  BY <1>2, <1>5 DEF OpenFor, IInv, TypeOK
<1>7. Binding(s) = "bound" /\ Binding(s)' = "none" /\ Users(s)' = {}
  BY <1>3, <1>5, <1>6 DEF Binding, Users
<1>. QED BY <1>4, <1>7, OneSourceStep, Zenon DEF NAT!Drop

-----------------------------------------------------------------------------
(* Refinement: every step of the connector is a step of UDPNat or leaves   *)
(* the bindings and their users alone.                                     *)

\* Every step of a handler maps to a step of UDPNat or a stuttering step.
LEMMA HandlerRefines ==
  ASSUME IInv, NEW h \in Handlers, HandlerNext(h)
  PROVE  [NAT!Next]_NAT!vars
<1>1. CASE \/ \E s \in Sources, d \in Dests : Datagram(h, s, d)
           \/ Expire(h) \/ FindSlot(h) \/ WaitReady(h) \/ WaitExpires(h)
           \/ Assign(h) \/ Publish(h) \/ OpenFails(h) \/ FlowRead(h) \/ RelayEnds(h)
           \/ CloseConns(h) \/ CloseLocal(h)
  <2>1. UNCHANGED <<asrc, state, flows>>
    BY <1>1, Zenon DEF Datagram, Expire, FindSlot, WaitReady, WaitExpires, Assign, Publish, OpenFails,
                FlowRead, RelayEnds, CloseConns, CloseLocal, slotVars, assocVars
  <2>2. \A g \in Handlers : /\ (pc[g] = "associate") <=> (pc'[g] = "associate")
                            /\ pc[g] = "associate" => src'[g] = src[g]
    <3>1. CASE \E s \in Sources, d \in Dests : Datagram(h, s, d)
      BY SMTT(30), <3>1 DEF IInv, TypeOK, Datagram, Goto
    <3>2. CASE Expire(h) \/ FlowRead(h)
      BY <3>2 DEF Expire, FlowRead
    <3>3. CASE FindSlot(h) \/ WaitReady(h) \/ WaitExpires(h) \/ Assign(h) \/ Publish(h) \/ OpenFails(h)
      BY SMTT(30), <3>3 DEF IInv, TypeOK, FindSlot, WaitReady, WaitExpires, Assign, Publish, OpenFails, Goto
    <3>4. CASE RelayEnds(h) \/ CloseConns(h) \/ CloseLocal(h)
      BY SMTT(30), <3>4 DEF IInv, TypeOK, RelayEnds, CloseConns, CloseLocal, Goto
    <3>. QED BY <1>1, <3>1, <3>2, <3>3, <3>4, Zenon
  <2>. QED BY <2>1, <2>2, QuietStep
<1>2. CASE \E t \in Slots : CreateSlot(h, t)
  <2>1. src[h] \in Sources
    BY <1>2 DEF IInv, HandlersOK, CreateSlot, NewSlot
  <2>. QED BY <1>2, <2>1, CreateSlotRefines DEF NAT!Next
<1>3. ASSUME pc[h] \in Holding
      PROVE  src[h] \in Sources /\ dst[h] \in Dests /\ held[h] \in Slots
  BY <1>3 DEF IInv, HandlersOK, Holding
<1>4. CASE Associate(h) \/ AssociateFails(h)
  <2>1. pc[h] \in Holding
    BY <1>4 DEF Associate, AssociateFails, Holding
  <2>. QED BY <1>3, <1>4, <2>1, AssociateRefines, AssociateFailsRefines DEF NAT!Next
<1>5. CASE Open(h)
  <2>1. pc[h] \in Holding
    BY <1>5 DEF Open, Holding
  <2>. QED BY <1>3, <1>5, <2>1, OpenRefines DEF NAT!Next
<1>6. CASE CloseFlow(h)
  <2>1. pc[h] \in Holding
    BY <1>6 DEF CloseFlow, RemoveFlow, Holding
  <2>. QED BY <1>3, <1>6, <2>1, CloseFlowRefines, CloseFlowStutters DEF NAT!Next
<1>. QED BY <1>1, <1>2, <1>4, <1>5, <1>6 DEF HandlerNext

\* Every step of an association's goroutines does, too.
LEMMA AssociationRefines ==
  ASSUME IInv, NEW t \in Slots, AssociationNext(t)
  PROVE  [NAT!Next]_NAT!vars
<1>1. CASE Shutdown(t)
  <2>1. asrc[t] \in Sources
    BY SMTT(30), <1>1 DEF IInv, TypeOK, ConnsOK, SlotsOK, Shutdown, EndAssociation
  <2>. QED BY <1>1, <2>1, ShutdownRefines DEF NAT!Next
<1>2. CASE \/ \E spelling \in Spellings : ReadDatagram(t, spelling)
           \/ Deliver(t) \/ ReadFailsClosed(t) \/ ShutdownConns(t) \/ WakeFlows(t)
           \/ ProxyHangsUp(t) \/ WatchControl(t)
  <2>1. UNCHANGED <<asrc, state, flows, pc, src>>
    BY <1>2 DEF ReadDatagram, Deliver, Send, ReadFailsClosed, ShutdownConns, WakeFlows,
                ProxyHangsUp, WatchControl, slotVars, assocVars
  <2>. QED BY <2>1, QuietStep
<1>. QED BY <1>1, <1>2 DEF AssociationNext

\* The connector implements the NAT its doc comment promises: one binding per
\* source, shared by its flows (socks5.go, DialContext).
THEOREM ImplementsNAT == Spec => NATSpec
<1>1. Init => NAT!Init
  <2>. SUFFICES ASSUME Init PROVE NAT!Init
    OBVIOUS
  <2>1. ASSUME NEW s \in Sources PROVE OpenFor(s) = {} /\ ~Requested(s)
    BY DEF Init, OpenFor, Requested
  <2>. QED BY <2>1 DEF NAT!Init, Binding, Users
<1>2. IInv /\ [Next]_vars => [NAT!Next]_NAT!vars
  <2>. SUFFICES ASSUME IInv, [Next]_vars PROVE [NAT!Next]_NAT!vars
    OBVIOUS
  <2>1. CASE Next
    BY <2>1, HandlerRefines, AssociationRefines DEF Next
  <2>2. CASE UNCHANGED vars
    <3>1. UNCHANGED <<asrc, state, flows, pc, src>>
      BY <2>2 DEF vars, slotVars, assocVars
    <3>. QED BY <3>1, QuietStep
  <2>. QED BY <2>1, <2>2
<1>. QED BY <1>1, <1>2, Invariance, PTL DEF Spec, NATSpec, NAT!Spec
=============================================================================
