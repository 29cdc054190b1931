------------------------ MODULE UDPAssociationDials ------------------------
(***************************************************************************)
(* The inductive invariant of UDPAssociation, that every step of a dial    *)
(* preserves it, and who waits for whom.                                   *)
(***************************************************************************)
EXTENDS UDPAssociation, TLAPS

\* Leaves go to Zenon unless they name another prover.
USE ZenonT(20)

-----------------------------------------------------------------------------
(* The inductive invariant, and the steps of a dial.                       *)

Holding == {"wait", "associate", "assign", "publish", "open", "relay", "closeFlow", "closeConns"}
Creating == {"associate", "assign", "publish"}
Using == {"relay", "closeFlow"}

\* What a handler knows at each place: the endpoint it serves is its own, and
\* the slot it has in hand belongs to its source.
HandlersOK ==
  /\ \A h \in Handlers :
       /\ pc[h] # "idle" => src[h] \in Sources /\ dst[h] \in Dests
       /\ pc[h] \in Holding => held[h] \in Slots /\ asrc[held[h]] = src[h]
       /\ pc[h] \in {"idle", "association"} => held[h] = None
  /\ \A g, h \in Handlers :
       pc[g] # "idle" /\ pc[h] # "idle" /\ src[g] = src[h] /\ dst[g] = dst[h] => g = h

\* The set-up of a slot: one handler has it, and what it has reached.
SetupOK ==
  /\ \A h \in Handlers :
       /\ pc[h] = "associate" =>
            slots[src[h]] = held[h] /\ slot[held[h]] = "pending" /\ state[held[h]] = "none"
       /\ pc[h] = "assign" => slot[held[h]] = "pending" /\ state[held[h]] # "none"
       /\ pc[h] = "publish" => \/ slot[held[h]] = "assigned" /\ state[held[h]] # "none"
                               \/ slot[held[h]] = "failing" /\ state[held[h]] = "none"
       /\ pc[h] \in Using \cup {"open", "closeConns"} => state[held[h]] # "none"
  /\ \A g, h \in Handlers :
       pc[g] \in Creating /\ pc[h] \in Creating /\ held[g] = held[h] => g = h
  /\ \A t \in Slots : slot[t] \in {"assigned", "ready"} => state[t] # "none"

\* c.slots has every open association, under its source.
SlotsOK ==
  /\ \A s \in Sources : slots[s] # None => asrc[slots[s]] = s
  /\ \A t \in Slots : state[t] = "open" => asrc[t] \in Sources /\ slots[asrc[t]] = t

\* a.flows holds exactly the flows of the handlers that use the association.
FlowsOK ==
  /\ \A t \in Slots, d \in Dests : flows[t][d] # None =>
       /\ pc[flows[t][d]] \in Using
       /\ held[flows[t][d]] = t /\ dst[flows[t][d]] = d
       /\ state[t] = "open"
  /\ \A h \in Handlers :
       /\ pc[h] \in Using /\ state[held[h]] = "open" => flows[held[h]][dst[h]] = h
       /\ pc[h] = "relay" /\ state[held[h]] = "closed" => done[h] \/ h \in wake[held[h]]

\* The flow the read loop has in hand is the one the datagram is for, or is
\* past its relay.
DeliveryOK ==
  \A t \in Slots :
    /\ reader[t] = "deliver" => rflow[t] # None
    /\ rflow[t] # None =>
         /\ rfrom[t] # None /\ asrc[t] # None /\ reader[t] = "deliver"
         /\ pc[rflow[t]] \notin Dialing
         /\ pc[rflow[t]] # "idle" => src[rflow[t]] = asrc[t] /\ dst[rflow[t]] = rfrom[t]

\* Whoever closes an association is about to close its connections.
ConnsOK ==
  \A t \in Slots :
    /\ state[t] = "none" => conns[t] = "none" /\ reader[t] = "off"
    /\ state[t] = "open" => reader[t] \in {"read", "deliver"}
    /\ state[t] = "closed" =>
         \/ reader[t] = "closeConns"
         \/ \E h \in Handlers : held[h] = t /\ pc[h] = "closeConns"
         \/ conns[t] = "closed"

IInv ==
  /\ TypeOK /\ HandlersOK /\ SetupOK /\ SlotsOK /\ FlowsOK
  /\ DeliveryOK /\ NoMisdelivery /\ NoIdleAssociation /\ ConnsOK

-----------------------------------------------------------------------------
\* What handlers know survives a step that leaves them and a.src alone.
LEMMA HandlersFrame ==
  ASSUME HandlersOK, UNCHANGED <<pc, src, dst, held, asrc>>
  PROVE  HandlersOK'
BY DEF HandlersOK

\* So does what is known of the set-up of slots,
LEMMA SetupFrame ==
  ASSUME SetupOK, UNCHANGED <<pc, src, held, slots, slot, state>>
  PROVE  SetupOK'
BY DEF SetupOK

\* of c.slots,
LEMMA SlotsFrame ==
  ASSUME SlotsOK, UNCHANGED <<slots, asrc, state>>
  PROVE  SlotsOK'
BY DEF SlotsOK

\* of a.flows,
LEMMA FlowsFrame ==
  ASSUME FlowsOK, UNCHANGED <<pc, dst, held, done, state, flows, wake>>
  PROVE  FlowsOK'
BY SMTT(30) DEF FlowsOK

\* of the datagram the read loop has in hand,
LEMMA DeliveryFrame ==
  ASSUME DeliveryOK, UNCHANGED <<pc, src, dst, asrc, reader, rflow, rfrom>>
  PROVE  DeliveryOK'
BY DEF DeliveryOK

\* of the queues,
LEMMA MisdeliveryFrame ==
  ASSUME NoMisdelivery, UNCHANGED <<pc, src, dst, in>>
  PROVE  NoMisdelivery'
BY DEF NoMisdelivery

\* of unused associations,
LEMMA UnusedFrame ==
  ASSUME NoIdleAssociation, UNCHANGED <<pc, held, state, flows>>
  PROVE  NoIdleAssociation'
BY DEF NoIdleAssociation, Unused, AboutToUse

\* and of the connections.
LEMMA ConnsFrame ==
  ASSUME ConnsOK, UNCHANGED <<pc, held, state, conns, reader>>
  PROVE  ConnsOK'
BY SMTT(30) DEF ConnsOK

\* A step keeps NoIdleAssociation when it makes no association unused and
\* takes no handler away from one that stays unused.
LEMMA IdleFrame ==
  ASSUME NoIdleAssociation,
         \A t \in Slots : Unused(t)' => Unused(t),
         \A t \in Slots, h \in Handlers : Unused(t)' /\ AboutToUse(h, t) => AboutToUse(h, t)'
  PROVE  NoIdleAssociation'
BY DEF NoIdleAssociation

\* A new handler serves an endpoint that no other handler has.
LEMMA DatagramStep ==
  ASSUME IInv, NEW h \in Handlers, NEW s \in Sources, NEW d \in Dests, Datagram(h, s, d)
  PROVE  IInv'
<1>1. UNCHANGED <<slots, asrc, state>>
  BY DEF slotVars, assocVars, Datagram
<1>2. SlotsOK'
  BY <1>1, SlotsFrame DEF IInv
<1>. USE DEF IInv, flowVars, slotVars, assocVars, readerVars, Goto, Datagram
<1>3. TypeOK'
  BY DEF TypeOK, PCs, Dialing
<1>4. HandlersOK'
  BY SMTT(30) DEF TypeOK, HandlersOK, Holding
<1>5. SetupOK'
  BY SMTT(30) DEF SetupOK, Creating, Using
<1>6. FlowsOK'
  BY SMTT(30) DEF SetupOK, FlowsOK, Using
<1>7. DeliveryOK'
  BY SMTT(30) DEF DeliveryOK
<1>8. NoMisdelivery'
  BY DEF TypeOK, NoMisdelivery
<1>9. NoIdleAssociation'
  <2>1. \A u \in Slots : Unused(u)' => Unused(u)
    BY DEF Unused
  <2>2. \A u \in Slots, g \in Handlers : Unused(u)' /\ AboutToUse(g, u) => AboutToUse(g, u)'
    BY SMTT(30) DEF AboutToUse
  <2>. QED BY <2>1, <2>2, IdleFrame
<1>10. ConnsOK'
  BY SMTT(30) DEF ConnsOK
<1>. QED BY <1>2, <1>3, <1>4, <1>5, <1>6, <1>7, <1>8, <1>9, <1>10

\* Only the context of a dial changes.
LEMMA ExpireStep ==
  ASSUME IInv, NEW h \in Handlers, Expire(h)
  PROVE  IInv'
<1>1. UNCHANGED <<pc, src, dst, held, done, in, slots, slot, asrc, state, flows, conns, reader,
                   rflow, rfrom, wake>>
  BY DEF flowVars, slotVars, assocVars, readerVars, Expire
<1>2. HandlersOK' /\ SetupOK' /\ SlotsOK' /\ FlowsOK' /\ DeliveryOK' /\ NoMisdelivery'
      /\ NoIdleAssociation' /\ ConnsOK'
  BY <1>1, HandlersFrame, SetupFrame, SlotsFrame, FlowsFrame, DeliveryFrame,
     MisdeliveryFrame, UnusedFrame, ConnsFrame DEF IInv
<1>. USE DEF IInv, flowVars, slotVars, assocVars, readerVars, Goto, Expire
<1>3. TypeOK'
  BY DEF TypeOK
<1>. QED BY <1>2, <1>3

\* The slot a dial finds in c.slots belongs to its source.
LEMMA FindSlotStep ==
  ASSUME IInv, NEW h \in Handlers, FindSlot(h)
  PROVE  IInv'
<1>1. UNCHANGED <<slots, asrc, state>>
  BY DEF slotVars, assocVars, FindSlot
<1>2. SlotsOK'
  BY <1>1, SlotsFrame DEF IInv
<1>. USE DEF IInv, flowVars, slotVars, assocVars, readerVars, Goto, FindSlot
<1>3. TypeOK'
  <2>1. slots[src[h]] \in Slots
    BY SMTT(30) DEF TypeOK, HandlersOK
  <2>. QED BY <2>1 DEF TypeOK, PCs, Dialing
<1>4. HandlersOK'
  BY SMTT(30) DEF TypeOK, HandlersOK, SlotsOK
<1>5. SetupOK'
  BY SMTT(30) DEF TypeOK, SetupOK, Holding, Creating, Using
<1>6. FlowsOK'
  BY SMTT(30) DEF HandlersOK, FlowsOK, Using
<1>7. DeliveryOK'
  BY SMTT(30) DEF DeliveryOK, Dialing
<1>8. NoMisdelivery'
  BY SMTT(30) DEF NoMisdelivery
<1>9. NoIdleAssociation'
  <2>1. \A u \in Slots : Unused(u)' => Unused(u)
    BY DEF Unused
  <2>2. \A u \in Slots, g \in Handlers : Unused(u)' /\ AboutToUse(g, u) => AboutToUse(g, u)'
    BY SMTT(30) DEF AboutToUse
  <2>. QED BY <2>1, <2>2, IdleFrame
<1>10. ConnsOK'
  BY SMTT(30) DEF ConnsOK
<1>. QED BY <1>2, <1>3, <1>4, <1>5, <1>6, <1>7, <1>8, <1>9, <1>10

\* The slot was unreferenced, so no handler and no open association has it.
LEMMA CreateSlotStep ==
  ASSUME IInv, NEW h \in Handlers, NEW t \in Slots, CreateSlot(h, t)
  PROVE  IInv'
<1>. USE DEF IInv, flowVars, slotVars, assocVars, readerVars, Goto, CreateSlot, NewSlot, Unreferenced
<1>1. TypeOK'
  BY Zenon DEF TypeOK, PCs, Dialing, NoFlows
<1>2. HandlersOK'
  BY SMTT(30) DEF TypeOK, HandlersOK
<1>3. SetupOK'
  BY SMTT(30), NoneAssumption DEF TypeOK, HandlersOK, SetupOK, SlotsOK, ConnsOK, Holding, Creating,
       Using
<1>4. SlotsOK'
  BY SMTT(30), NoneAssumption DEF TypeOK, SlotsOK
<1>5. FlowsOK'
  BY SMTT(30) DEF FlowsOK, ConnsOK, Using, NoFlows
<1>6. DeliveryOK'
  BY SMTT(30) DEF DeliveryOK, Dialing
<1>7. NoMisdelivery'
  BY SMTT(30) DEF TypeOK, NoMisdelivery
<1>8. NoIdleAssociation'
  <2>1. \A u \in Slots : Unused(u)' => Unused(u)
    BY DEF TypeOK, Unused
  <2>2. \A u \in Slots, g \in Handlers : Unused(u)' /\ AboutToUse(g, u) => AboutToUse(g, u)'
    BY SMTT(30) DEF AboutToUse
  <2>. QED BY <2>1, <2>2, IdleFrame
<1>9. ConnsOK'
  BY SMTT(30) DEF TypeOK, ConnsOK, Creating
<1>. QED BY <1>1, <1>2, <1>3, <1>4, <1>5, <1>6, <1>7, <1>8, <1>9

\* A slot is ready with an association, open or closed by now.
LEMMA WaitReadyStep ==
  ASSUME IInv, NEW h \in Handlers, WaitReady(h)
  PROVE  IInv'
<1>1. UNCHANGED <<slots, asrc, state>>
  BY DEF slotVars, assocVars, WaitReady
<1>2. SlotsOK'
  BY <1>1, SlotsFrame DEF IInv
<1>. USE DEF IInv, flowVars, slotVars, assocVars, readerVars, Goto, WaitReady
<1>3. TypeOK'
  BY DEF TypeOK, PCs, Dialing
<1>4. HandlersOK'
  BY SMTT(30) DEF HandlersOK, Holding
<1>5. SetupOK'
  BY SMTT(30) DEF HandlersOK, SetupOK, Holding, Creating, Using
<1>6. FlowsOK'
  BY SMTT(30) DEF FlowsOK, Using
<1>7. DeliveryOK'
  BY SMTT(30) DEF HandlersOK, DeliveryOK, Dialing
<1>8. NoMisdelivery'
  BY SMTT(30) DEF NoMisdelivery
<1>9. NoIdleAssociation'
  <2>1. \A u \in Slots : Unused(u)' => Unused(u)
    BY DEF Unused
  <2>2. \A u \in Slots, g \in Handlers : Unused(u)' /\ AboutToUse(g, u) => AboutToUse(g, u)'
    BY SMTT(30) DEF AboutToUse
  <2>. QED BY <2>1, <2>2, IdleFrame
<1>10. ConnsOK'
  BY SMTT(30) DEF ConnsOK
<1>. QED BY <1>2, <1>3, <1>4, <1>5, <1>6, <1>7, <1>8, <1>9, <1>10, Zenon

\* A dial that gives up waiting leaves the slot to its creator.
LEMMA WaitExpiresStep ==
  ASSUME IInv, NEW h \in Handlers, WaitExpires(h)
  PROVE  IInv'
<1>1. UNCHANGED <<slots, asrc, state>>
  BY DEF slotVars, assocVars, WaitExpires
<1>2. SlotsOK'
  BY <1>1, SlotsFrame DEF IInv
<1>. USE DEF IInv, flowVars, slotVars, assocVars, readerVars, Goto, WaitExpires
<1>3. TypeOK'
  BY DEF TypeOK, PCs
<1>4. HandlersOK'
  BY SMTT(30) DEF TypeOK, HandlersOK, Holding
<1>5. SetupOK'
  BY SMTT(30) DEF SetupOK, Creating, Using
<1>6. FlowsOK'
  BY SMTT(30), QueueCapAssumption DEF TypeOK, SetupOK, FlowsOK, Holding, Using, NoFlows
<1>7. DeliveryOK'
  BY SMTT(30) DEF TypeOK, HandlersOK, DeliveryOK, Dialing
<1>8. NoMisdelivery'
  BY SMTT(30) DEF TypeOK, NoMisdelivery
<1>9. NoIdleAssociation'
  <2>1. \A u \in Slots : Unused(u)' => Unused(u)
    BY DEF Unused
  <2>2. \A u \in Slots, g \in Handlers : Unused(u)' /\ AboutToUse(g, u) => AboutToUse(g, u)'
    BY SMTT(30) DEF AboutToUse
  <2>. QED BY <2>1, <2>2, IdleFrame
<1>10. ConnsOK'
  BY SMTT(30) DEF ConnsOK
<1>. QED BY <1>2, <1>3, <1>4, <1>5, <1>6, <1>7, <1>8, <1>9, <1>10

-----------------------------------------------------------------------------
(* Setting up an association and opening a flow of it.                    *)

\* The new association is the one c.slots names, and its creator will use it.
LEMMA AssociateStep ==
  ASSUME IInv, NEW h \in Handlers, Associate(h)
  PROVE  IInv'
<1>. USE DEF IInv, flowVars, slotVars, assocVars, readerVars, Goto, Associate
<1>1. TypeOK'
  BY Zenon DEF TypeOK, PCs, Dialing
<1>2. HandlersOK'
  BY SMTT(30) DEF HandlersOK, Holding
<1>3. SetupOK'
  BY SMTT(30) DEF TypeOK, HandlersOK, SetupOK, Holding, Creating, Using
<1>4. SlotsOK'
  BY SMTT(30), NoneAssumption DEF TypeOK, HandlersOK, SetupOK, SlotsOK, Holding
<1>5. FlowsOK'
  BY SMTT(30), NoneAssumption, QueueCapAssumption DEF TypeOK, HandlersOK, SetupOK, FlowsOK, SlotsOK,
       Using, NoFlows
<1>6. DeliveryOK'
  BY SMTT(30) DEF SetupOK, DeliveryOK, ConnsOK, Dialing
<1>7. NoMisdelivery'
  BY DEF TypeOK, NoMisdelivery
<1>8. NoIdleAssociation'
  <2>1. AboutToUse(h, held[h])'
    BY DEF TypeOK, AboutToUse
  <2>2. ASSUME NEW u \in Slots, u # held[h], Unused(u)'
        PROVE  \E g \in Handlers : AboutToUse(g, u)'
    <3>1. Unused(u)
      BY SMTT(30), <2>2 DEF Unused
    <3>2. PICK g \in Handlers : AboutToUse(g, u)
      BY <3>1 DEF NoIdleAssociation
    <3>. QED BY SMTT(30), <3>2 DEF AboutToUse
  <2>. QED BY <2>1, <2>2, Zenon DEF NoIdleAssociation
<1>9. ConnsOK'
  BY SMTT(30) DEF TypeOK, ConnsOK
<1>. QED BY <1>1, <1>2, <1>3, <1>4, <1>5, <1>6, <1>7, <1>8, <1>9

\* Only the slot of this dial leaves c.slots, and it has no association.
LEMMA AssociateFailsStep ==
  ASSUME IInv, NEW h \in Handlers, AssociateFails(h)
  PROVE  IInv'
<1>. USE DEF IInv, flowVars, slotVars, assocVars, readerVars, Goto, AssociateFails
<1>1. TypeOK'
  BY Zenon DEF TypeOK, PCs, Dialing
<1>2. HandlersOK'
  BY SMTT(30) DEF HandlersOK, Holding
<1>3. SetupOK'
  BY SMTT(30) DEF TypeOK, HandlersOK, SetupOK, Holding, Creating, Using
<1>4. SlotsOK'
  BY SMTT(30) DEF SetupOK, SlotsOK
<1>5. FlowsOK'
  BY SMTT(30), QueueCapAssumption DEF TypeOK, FlowsOK, Using
<1>6. DeliveryOK'
  BY SMTT(30) DEF DeliveryOK, Dialing
<1>7. NoMisdelivery'
  BY DEF TypeOK, NoMisdelivery
<1>8. NoIdleAssociation'
  <2>1. \A u \in Slots : Unused(u)' => Unused(u)
    BY DEF Unused
  <2>2. \A u \in Slots, g \in Handlers : Unused(u)' /\ AboutToUse(g, u) => AboutToUse(g, u)'
    BY SMTT(30) DEF AboutToUse
  <2>. QED BY <2>1, <2>2, IdleFrame
<1>9. ConnsOK'
  BY SMTT(30) DEF ConnsOK
<1>. QED BY <1>1, <1>2, <1>3, <1>4, <1>5, <1>6, <1>7, <1>8, <1>9, Zenon

\* Only the creator of a slot assigns it.
LEMMA AssignStep ==
  ASSUME IInv, NEW h \in Handlers, Assign(h)
  PROVE  IInv'
<1>1. UNCHANGED <<slots, asrc, state>>
  BY DEF assocVars, Assign
<1>2. SlotsOK'
  BY <1>1, SlotsFrame DEF IInv
<1>. USE DEF IInv, flowVars, slotVars, assocVars, readerVars, Goto, Assign
<1>3. TypeOK'
  BY Zenon DEF TypeOK, PCs, Dialing
<1>4. HandlersOK'
  BY SMTT(30) DEF HandlersOK, Holding
<1>5. SetupOK'
  BY SMTT(30) DEF TypeOK, HandlersOK, SetupOK, Holding, Creating
<1>6. FlowsOK'
  BY SMTT(30) DEF TypeOK, FlowsOK, Using
<1>7. DeliveryOK'
  BY SMTT(30) DEF TypeOK, DeliveryOK, Dialing
<1>8. NoMisdelivery'
  BY DEF TypeOK, NoMisdelivery
<1>9. NoIdleAssociation'
  <2>1. \A u \in Slots : Unused(u)' => Unused(u)
    BY DEF Unused
  <2>2. \A u \in Slots, g \in Handlers : Unused(u)' /\ AboutToUse(g, u) => AboutToUse(g, u)'
    BY SMTT(30) DEF AboutToUse
  <2>. QED BY <2>1, <2>2, IdleFrame
<1>10. ConnsOK'
  BY SMTT(30) DEF ConnsOK
<1>. QED BY <1>2, <1>3, <1>4, <1>5, <1>6, <1>7, <1>8, <1>9, <1>10

\* What is published is an association, or a failure without one.
LEMMA PublishStep ==
  ASSUME IInv, NEW h \in Handlers, Publish(h)
  PROVE  IInv'
<1>1. UNCHANGED <<slots, asrc, state>>
  BY DEF assocVars, Publish
<1>2. SlotsOK'
  BY <1>1, SlotsFrame DEF IInv
<1>. USE DEF IInv, flowVars, slotVars, assocVars, readerVars, Goto, Publish
<1>3. TypeOK'
  BY Zenon DEF TypeOK, PCs, Dialing
<1>4. HandlersOK'
  BY SMTT(30) DEF HandlersOK, Holding
<1>5. SetupOK'
  BY SMTT(30) DEF TypeOK, SetupOK, Creating, Using
<1>6. FlowsOK'
  BY SMTT(30) DEF TypeOK, FlowsOK, Using
<1>7. DeliveryOK'
  BY SMTT(30) DEF TypeOK, DeliveryOK, Dialing
<1>8. NoMisdelivery'
  BY SMTT(30) DEF HandlersOK, NoMisdelivery
<1>9. NoIdleAssociation'
  <2>1. \A u \in Slots : Unused(u)' => Unused(u)
    BY DEF Unused
  <2>2. \A u \in Slots, g \in Handlers : Unused(u)' /\ AboutToUse(g, u) => AboutToUse(g, u)'
    BY SMTT(30) DEF SetupOK, Unused, AboutToUse
  <2>. QED BY <2>1, <2>2, IdleFrame
<1>10. ConnsOK'
  BY SMTT(30) DEF ConnsOK
<1>. QED BY <1>2, <1>3, <1>4, <1>5, <1>6, <1>7, <1>8, <1>9, <1>10

\* No other handler has this source and destination, so the key was free.
LEMMA OpenFlows ==
  ASSUME IInv, NEW h \in Handlers, Open(h)
  PROVE  FlowsOK'
<1>. USE DEF IInv
<1>1. /\ pc[h] = "open" /\ held[h] \in Slots /\ dst[h] \in Dests
      /\ asrc[held[h]] = src[h] /\ state[held[h]] = "open"
  BY SMTT(30) DEF Open, TypeOK, HandlersOK, SetupOK, Holding
<1>2. /\ UNCHANGED <<src, dst, held, state, wake>>
      /\ pc' = [pc EXCEPT ![h] = "relay"] /\ done' = [done EXCEPT ![h] = FALSE]
  BY DEF Open, AddFlow, Goto, readerVars
<1>3. \A t \in Slots, d \in Dests :
        flows'[t][d] = IF t = held[h] /\ d = dst[h] THEN h ELSE flows[t][d]
  BY <1>1 DEF Open, AddFlow, KeyOf, udpFlowKey, TypeOK
<1>4. ASSUME NEW t \in Slots, NEW d \in Dests, flows'[t][d] # None
      PROVE  /\ pc'[flows'[t][d]] \in Using
             /\ held'[flows'[t][d]] = t /\ dst'[flows'[t][d]] = d /\ state'[t] = "open"
  BY SMTT(30), <1>1, <1>2, <1>3, <1>4 DEF TypeOK, FlowsOK, Using
<1>5. ASSUME NEW g \in Handlers, pc'[g] \in Using, state[held[g]] = "open"
      PROVE  flows'[held[g]][dst[g]] = g
  <2>1. CASE g = h
    BY SMTT(30), <1>1, <1>3, <2>1
  <2>2. CASE g # h
    <3>1. pc[g] \in Using /\ held[g] \in Slots /\ dst[g] \in Dests /\ asrc[held[g]] = src[g]
      BY <1>2, <1>5, <2>2 DEF TypeOK, HandlersOK, Holding, Using
    <3>2. ~(held[g] = held[h] /\ dst[g] = dst[h])
      BY <1>1, <2>2, <3>1 DEF HandlersOK, Using
    <3>. QED BY SMTT(30), <1>3, <1>5, <3>1, <3>2 DEF FlowsOK
  <2>. QED BY <2>1, <2>2
<1>6. ASSUME NEW g \in Handlers, pc'[g] = "relay", state[held[g]] = "closed"
      PROVE  done'[g] \/ g \in wake[held[g]]
  BY SMTT(30), <1>1, <1>2, <1>6 DEF TypeOK, FlowsOK
<1>. QED BY <1>2, <1>4, <1>5, <1>6 DEF FlowsOK

\* The rest of the invariant does not notice the new flow.
LEMMA OpenStep ==
  ASSUME IInv, NEW h \in Handlers, Open(h)
  PROVE  IInv'
<1>1. UNCHANGED <<slots, asrc, state>>
  BY DEF slotVars, Open, AddFlow
<1>2. SlotsOK'
  BY <1>1, SlotsFrame DEF IInv
<1>6. FlowsOK'
  BY OpenFlows
<1>. USE DEF IInv, flowVars, slotVars, assocVars, readerVars, Goto, Open, AddFlow, KeyOf, udpFlowKey
<1>3. TypeOK'
  <2>1. held[h] \in Slots /\ dst[h] \in Dests
    BY DEF HandlersOK, Holding
  <2>2. flows' \in [Slots -> [Dests -> Handlers \cup {None}]]
    BY Zenon DEF TypeOK
  <2>3. in' \in [Handlers -> Seq(Packets)] /\ \A g \in Handlers : Len(in'[g]) <= QueueCap
    BY SMTT(30), QueueCapAssumption DEF TypeOK
  <2>. QED BY <2>3, Zenon DEF TypeOK, PCs
<1>4. HandlersOK'
  BY SMTT(30) DEF HandlersOK, Holding
<1>5. SetupOK'
  BY SMTT(30) DEF SetupOK, Creating
<1>7. DeliveryOK'
  BY SMTT(30) DEF DeliveryOK, Dialing
<1>8. NoMisdelivery'
  BY SMTT(30) DEF TypeOK, NoMisdelivery
<1>9. NoIdleAssociation'
  <2>1. \A u \in Slots : Unused(u)' => Unused(u)
    BY SMTT(30), NoneAssumption DEF Unused
  <2>2. \A u \in Slots, g \in Handlers : Unused(u)' /\ AboutToUse(g, u) => AboutToUse(g, u)'
    BY SMTT(30), NoneAssumption DEF TypeOK, HandlersOK, Unused, AboutToUse
  <2>. QED BY <2>1, <2>2, IdleFrame
<1>10. ConnsOK'
  BY DEF TypeOK, ConnsOK
<1>. QED BY <1>2, <1>3, <1>4, <1>5, <1>6, <1>7, <1>8, <1>9, <1>10

\* The dial lets go of a closed association and starts over.
LEMMA OpenFailsStep ==
  ASSUME IInv, NEW h \in Handlers, OpenFails(h)
  PROVE  IInv'
<1>1. UNCHANGED <<slots, asrc, state>>
  BY DEF slotVars, assocVars, OpenFails
<1>2. SlotsOK'
  BY <1>1, SlotsFrame DEF IInv
<1>. USE DEF IInv, flowVars, slotVars, assocVars, readerVars, Goto, OpenFails
<1>3. TypeOK'
  BY DEF TypeOK, PCs, Dialing
<1>4. HandlersOK'
  BY SMTT(30) DEF TypeOK, HandlersOK, Holding
<1>5. SetupOK'
  BY SMTT(30) DEF TypeOK, SetupOK, Creating, Using
<1>6. FlowsOK'
  BY SMTT(30) DEF TypeOK, FlowsOK, Using
<1>7. DeliveryOK'
  BY SMTT(30) DEF TypeOK, DeliveryOK, Dialing
<1>8. NoMisdelivery'
  BY SMTT(30), NoneAssumption DEF TypeOK, NoMisdelivery
<1>9. NoIdleAssociation'
  <2>1. \A u \in Slots : Unused(u)' => Unused(u)
    BY DEF TypeOK, Unused
  <2>2. \A u \in Slots, g \in Handlers : Unused(u)' /\ AboutToUse(g, u) => AboutToUse(g, u)'
    BY SMTT(30) DEF Unused, AboutToUse
  <2>. QED BY <2>1, <2>2, IdleFrame
<1>10. ConnsOK'
  BY SMTT(30) DEF ConnsOK
<1>. QED BY <1>2, <1>3, <1>4, <1>5, <1>6, <1>7, <1>8, <1>9, <1>10

-----------------------------------------------------------------------------
(* Nobody waits for a goroutine that is gone.                              *)

\* A dial that waits for a slot has somebody to wait for, the dial that sets
\* the slot up; a flow that nobody has woken has a read loop that will.
NobodyStranded ==
  \A h \in Handlers :
    /\ pc[h] = "wait" /\ slot[held[h]] \notin {"ready", "failed"} =>
         \E g \in Handlers : pc[g] \in Creating /\ held[g] = held[h]
    /\ pc[h] = "relay" /\ ~done[h] => reader[held[h]] \notin {"off", "done"}

\* A slot that is being set up has a dial that does it; ...
Unmade == {"pending", "assigned", "failing"}
MadeBy == \A t \in Slots : slot[t] \in Unmade => \E g \in Handlers : pc[g] \in Creating /\ held[g] = t

\* ... a slot that can be reached has been taken into use; ...
InUse ==
  /\ \A s \in Sources : slots[s] # None => slot[slots[s]] # "free"
  /\ \A h \in Handlers : pc[h] \in Holding => slot[held[h]] # "free"

\* ... and the read loop does not end before it has woken the flows it saved.
WakeOK == \A t \in Slots : wake[t] # {} => reader[t] \in {"closeConns", "wake"}

\* The dial that sets a slot up leaves it ready or failed.
LEMMA MadeStep == ASSUME IInv, MadeBy, [Next]_vars PROVE MadeBy'
<1>. DEFINE Keeps == /\ \A t \in Slots : slot'[t] \in Unmade => slot[t] \in Unmade
                     /\ \A g \in Handlers : pc[g] \in Creating => pc'[g] \in Creating /\ held'[g] = held[g]
<1>1. Keeps => MadeBy'
  BY DEF MadeBy
<1>2. ASSUME NEW t \in Slots, AssociationNext(t) PROVE Keeps
  BY <1>2 DEF AssociationNext, ReadDatagram, Deliver, Send, ReadFailsClosed, Shutdown,
     EndAssociation, ShutdownConns, WakeFlows, ProxyHangsUp, WatchControl, slotVars
<1>3. ASSUME NEW h \in Handlers, HandlerNext(h) PROVE MadeBy'
  <2>1. CASE \E t \in Slots : CreateSlot(h, t)
    <3>1. PICK t \in Slots : CreateSlot(h, t)
      BY <2>1
    <3>2. /\ pc'[h] \in Creating /\ held'[h] = t
          /\ \A u \in Slots : u # t => slot'[u] = slot[u]
          /\ \A g \in Handlers : pc[g] \in Creating => pc'[g] \in Creating /\ held'[g] = held[g]
      BY SMTT(30), <3>1 DEF CreateSlot, NewSlot, Goto, IInv, TypeOK, Creating
    <3>. QED BY <3>2 DEF MadeBy
  <2>2. CASE Associate(h) \/ AssociateFails(h) \/ Assign(h)
    <3>1. held[h] \in Slots /\ slot[held[h]] \in Unmade
      BY SMTT(30), <2>2 DEF Associate, AssociateFails, Assign, IInv, HandlersOK, SetupOK, Holding, Unmade
    <3>2. \A t \in Slots : t # held[h] => slot'[t] = slot[t]
      BY SMTT(30), <2>2 DEF Associate, AssociateFails, Assign, slotVars, IInv, TypeOK
    <3>3. UNCHANGED held /\ \E label \in Creating : Goto(h, label)
      BY <2>2 DEF Associate, AssociateFails, Assign, Creating
    <3>4. \A g \in Handlers : pc[g] \in Creating => pc'[g] \in Creating
      BY SMTT(30), <3>3 DEF Goto, IInv, TypeOK
    <3>5. Keeps
      BY <3>1, <3>2, <3>3, <3>4
    <3>. QED BY <1>1, <3>5
  <2>3. CASE Publish(h)
    <3>1. /\ held[h] \in Slots /\ slot'[held[h]] \in {"ready", "failed"} /\ UNCHANGED held
          /\ \A t \in Slots : t # held[h] => slot'[t] = slot[t]
          /\ \A g \in Handlers : g # h => pc'[g] = pc[g]
      BY SMTT(30), <2>3 DEF Publish, Goto, IInv, TypeOK, HandlersOK, Holding
    <3>. QED BY SMTT(30), <3>1 DEF MadeBy, Unmade
  <2>4. CASE \/ \E s \in Sources, d \in Dests : Datagram(h, s, d)
             \/ Expire(h) \/ FindSlot(h) \/ WaitReady(h) \/ WaitExpires(h)
    <3>1. Keeps
      BY SMTT(30), <2>4 DEF Datagram, Expire, FindSlot, WaitReady, WaitExpires, Goto, slotVars,
         IInv, TypeOK, Creating
    <3>. QED BY <1>1, <3>1
  <2>5. CASE Open(h) \/ OpenFails(h) \/ FlowRead(h) \/ RelayEnds(h)
    <3>1. Keeps
      BY SMTT(30), <2>5 DEF Open, AddFlow, OpenFails, FlowRead, RelayEnds, Goto, slotVars,
         IInv, TypeOK, Creating
    <3>. QED BY <1>1, <3>1
  <2>6. CASE CloseFlow(h) \/ CloseConns(h) \/ CloseLocal(h)
    <3>1. Keeps
      BY SMTT(30), <2>6 DEF CloseFlow, RemoveFlow, CloseConns, CloseLocal, Goto, slotVars,
         IInv, TypeOK, Creating
    <3>. QED BY <1>1, <3>1
  <2>. QED BY <1>3, <2>1, <2>2, <2>3, <2>4, <2>5, <2>6 DEF HandlerNext
<1>4. CASE UNCHANGED vars
  BY <1>1, <1>4 DEF vars, slotVars
<1>. QED BY <1>1, <1>2, <1>3, <1>4 DEF Next

\* A dial gets a slot from c.slots or creates it.
LEMMA InUseStep == ASSUME IInv, InUse, [Next]_vars PROVE InUse'
<1>. DEFINE Keeps == /\ \A t \in Slots : slot[t] # "free" => slot'[t] # "free"
                     /\ \A s \in Sources : slots'[s] \in {slots[s], None}
                     /\ \A g \in Handlers : pc'[g] \in Holding => pc[g] \in Holding /\ held'[g] = held[g]
<1>1. Keeps => InUse'
  <2>. SUFFICES ASSUME Keeps PROVE InUse'
    OBVIOUS
  <2>1. \A s \in Sources : slots[s] # None => slots[s] \in Slots
    BY DEF IInv, TypeOK
  <2>2. \A g \in Handlers : pc[g] \in Holding => held[g] \in Slots
    BY DEF IInv, HandlersOK
  <2>. QED BY SMTT(30), <2>1, <2>2 DEF InUse
<1>2. ASSUME NEW t \in Slots, AssociationNext(t) PROVE Keeps
  <2>1. UNCHANGED <<pc, held, slot>>
    BY <1>2 DEF AssociationNext, ReadDatagram, Deliver, Send, ReadFailsClosed, Shutdown,
       EndAssociation, ShutdownConns, WakeFlows, ProxyHangsUp, WatchControl, slotVars
  <2>2. slots' = slots \/ slots' = forget(t)
    BY <1>2 DEF AssociationNext, ReadDatagram, Deliver, Send, ReadFailsClosed, Shutdown,
       EndAssociation, ShutdownConns, WakeFlows, ProxyHangsUp, WatchControl, slotVars
  <2>3. \A s \in Sources : slots'[s] \in {slots[s], None}
    BY SMTT(30), <2>2 DEF forget, IInv, TypeOK
  <2>. QED BY <2>1, <2>3
<1>3. ASSUME NEW h \in Handlers, HandlerNext(h) PROVE InUse'
  <2>1. CASE \E t \in Slots : CreateSlot(h, t)
    <3>1. PICK t \in Slots : CreateSlot(h, t)
      BY <2>1
    <3>. QED BY SMTT(30), <3>1 DEF CreateSlot, NewSlot, Goto, IInv, TypeOK, InUse, Holding
  <2>2. CASE FindSlot(h)
    <3>1. slots[src[h]] # None /\ src[h] \in Sources /\ UNCHANGED <<slots, slot>>
      BY <2>2 DEF FindSlot, slotVars, IInv, HandlersOK
    <3>. QED BY SMTT(30), <2>2, <3>1 DEF FindSlot, Goto, IInv, TypeOK, InUse
  <2>3. CASE Associate(h) \/ AssociateFails(h) \/ Assign(h) \/ Publish(h)
    <3>1. Keeps
      BY SMTT(30), <2>3 DEF Associate, AssociateFails, Assign, Publish, Goto, slotVars, IInv, TypeOK,
         Holding
    <3>. QED BY <1>1, <3>1
  <2>4. CASE \/ \E s \in Sources, d \in Dests : Datagram(h, s, d)
             \/ Expire(h) \/ WaitReady(h) \/ WaitExpires(h)
    <3>1. Keeps
      BY SMTT(30), <2>4 DEF Datagram, Expire, WaitReady, WaitExpires, Goto, slotVars,
         IInv, TypeOK, Holding
    <3>. QED BY <1>1, <3>1
  <2>5. CASE Open(h) \/ OpenFails(h) \/ FlowRead(h) \/ RelayEnds(h)
    <3>1. Keeps
      BY SMTT(30), <2>5 DEF Open, AddFlow, OpenFails, FlowRead, RelayEnds, Goto, slotVars,
         IInv, TypeOK, Holding
    <3>. QED BY <1>1, <3>1
  <2>6. CASE CloseFlow(h) \/ CloseConns(h) \/ CloseLocal(h)
    <3>1. Keeps
      BY SMTT(30), <2>6 DEF CloseFlow, RemoveFlow, CloseConns, CloseLocal, Goto, slotVars, forget,
         IInv, TypeOK, Holding
    <3>. QED BY <1>1, <3>1
  <2>. QED BY <1>3, <2>1, <2>2, <2>3, <2>4, <2>5, <2>6 DEF HandlerNext
<1>4. CASE UNCHANGED vars
  BY <1>1, <1>4 DEF vars, slotVars
<1>. QED BY <1>1, <1>2, <1>3, <1>4 DEF Next

\* Only shutdown has flows to wake, and it wakes them all.
LEMMA WakeStep == ASSUME IInv, WakeOK, [Next]_vars PROVE WakeOK'
<1>1. UNCHANGED <<reader, wake>> => WakeOK'
  BY DEF WakeOK
<1>2. ASSUME NEW t \in Slots, AssociationNext(t) PROVE WakeOK'
  <2>1. CASE (\E spelling \in Spellings : ReadDatagram(t, spelling)) \/ Deliver(t) \/ ReadFailsClosed(t)
    <3>1. UNCHANGED wake /\ reader[t] \in {"read", "deliver"} /\ \E label : reader' = [reader EXCEPT ![t] = label]
      BY <2>1 DEF ReadDatagram, Deliver, Send, ReadFailsClosed
    <3>. QED BY SMTT(30), <3>1 DEF IInv, TypeOK, WakeOK
  <2>2. CASE Shutdown(t) \/ ShutdownConns(t) \/ WakeFlows(t)
    <3>1. \A u \in Slots : u # t => reader'[u] = reader[u] /\ wake'[u] = wake[u]
      BY <2>2 DEF Shutdown, EndAssociation, ShutdownConns, WakeFlows, IInv, TypeOK
    <3>2. reader'[t] \in {"closeConns", "wake"} \/ wake'[t] = {}
      BY <2>2 DEF Shutdown, EndAssociation, ShutdownConns, WakeFlows, IInv, TypeOK
    <3>. QED BY <3>1, <3>2 DEF WakeOK
  <2>3. CASE ProxyHangsUp(t) \/ WatchControl(t)
    BY <1>1, <2>3 DEF ProxyHangsUp, WatchControl, readerVars
  <2>. QED BY <1>2, <2>1, <2>2, <2>3 DEF AssociationNext
<1>3. ASSUME NEW h \in Handlers, HandlerNext(h) PROVE WakeOK'
  <2>1. CASE \E t \in Slots : CreateSlot(h, t)
    BY SMTT(30), <2>1 DEF CreateSlot, NewSlot, Unreferenced, IInv, TypeOK, WakeOK
  <2>2. CASE Associate(h)
    <3>1. held[h] \in Slots /\ reader[held[h]] = "off"
      BY <2>2 DEF Associate, IInv, HandlersOK, SetupOK, ConnsOK, Holding
    <3>. QED BY SMTT(30), <2>2, <3>1 DEF Associate, IInv, TypeOK, WakeOK
  <2>3. CASE ~Associate(h) /\ ~\E t \in Slots : CreateSlot(h, t)
    BY <1>1, <1>3, <2>3 DEF HandlerNext, Datagram, Expire, FindSlot, WaitReady, WaitExpires,
       AssociateFails, Assign, Publish, Open, AddFlow, OpenFails, FlowRead, RelayEnds, CloseFlow,
       RemoveFlow, CloseConns, CloseLocal, readerVars
  <2>. QED BY <2>1, <2>2, <2>3
<1>4. CASE UNCHANGED vars
  BY <1>1, <1>4 DEF vars, readerVars
<1>. QED BY <1>2, <1>3, <1>4 DEF Next

=============================================================================
