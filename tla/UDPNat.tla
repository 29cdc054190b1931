------------------------------- MODULE UDPNat -------------------------------
(***************************************************************************)
(* What the SOCKS5 UDP connector promises (socks5.go, DialContext): "flows *)
(* from one source share a single UDP association, as a NAT shares one     *)
(* external port".  A binding is requested once, used by any number of     *)
(* flows, and ends with its last flow or when the proxy drops it.          *)
(***************************************************************************)
CONSTANTS Sources, Dests

VARIABLES
  binding,  \* per source: none, requested from the proxy, or bound
  users     \* per source: the destinations whose flows use the binding

vars == <<binding, users>>

Init ==
  /\ binding = [s \in Sources |-> "none"]
  /\ users = [s \in Sources |-> {}]

\* The first flow of a source asks the proxy for a binding.
Request(s) ==
  /\ binding[s] = "none"
  /\ binding' = [binding EXCEPT ![s] = "requested"]
  /\ UNCHANGED users

Grant(s) ==
  /\ binding[s] = "requested"
  /\ binding' = [binding EXCEPT ![s] = "bound"]
  /\ UNCHANGED users

Refuse(s) ==
  /\ binding[s] = "requested"
  /\ binding' = [binding EXCEPT ![s] = "none"]
  /\ UNCHANGED users

\* A flow joins the binding of its source; its destination was not in use.
Join(s, d) ==
  /\ binding[s] = "bound" /\ d \notin users[s]
  /\ users' = [users EXCEPT ![s] = @ \cup {d}]
  /\ UNCHANGED binding

\* A flow ends; the last one gives the binding up.
Leave(s, d) ==
  /\ d \in users[s]
  /\ users' = [users EXCEPT ![s] = @ \ {d}]
  /\ binding' = [binding EXCEPT ![s] = IF users[s] = {d} THEN "none" ELSE @]

\* The proxy drops the binding with all its flows.
Drop(s) ==
  /\ binding[s] = "bound"
  /\ binding' = [binding EXCEPT ![s] = "none"]
  /\ users' = [users EXCEPT ![s] = {}]

Next ==
  \E s \in Sources :
    \/ Request(s) \/ Grant(s) \/ Refuse(s) \/ Drop(s)
    \/ \E d \in Dests : Join(s, d) \/ Leave(s, d)

Spec == Init /\ [][Next]_vars
=============================================================================
