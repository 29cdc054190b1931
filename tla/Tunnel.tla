------------------------------- MODULE Tunnel -------------------------------
(***************************************************************************)
(* What a chain of proxies promises the relay: a connection that carries   *)
(* what the destination says from the first byte on, in order and with     *)
(* nothing added, or a dial that fails.                                    *)
(***************************************************************************)
EXTENDS Naturals, Sequences

VARIABLES
  status,  \* dialing, up or failed
  said,    \* chunks the destination has sent
  heard    \* the chunks the relay has read

vars == <<status, said, heard>>

Init == status = "dialing" /\ said = 0 /\ heard = <<>>

Connect == status = "dialing" /\ status' = "up" /\ UNCHANGED <<said, heard>>
Fail == status = "dialing" /\ status' = "failed" /\ UNCHANGED <<said, heard>>

\* The destination may speak as soon as it is reached, which is before the
\* dial returns.
Say == said' = said + 1 /\ UNCHANGED <<status, heard>>

\* The relay reads the next chunk.
Hear ==
  /\ status = "up" /\ Len(heard) < said
  /\ heard' = Append(heard, Len(heard) + 1)
  /\ UNCHANGED <<status, said>>

Next == Connect \/ Fail \/ Say \/ Hear

Spec == Init /\ [][Next]_vars
=============================================================================
