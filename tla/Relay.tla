-------------------------------- MODULE Relay --------------------------------
(***************************************************************************)
(* The relay of one connection (transport.go: Transport, relay,            *)
(* TimeoutConn) and the end of the handler that runs it (network_stack.go: *)
(* handleTCP, handleUDP).                                                  *)
(*                                                                         *)
(* Two goroutines copy, one per direction; the one named s reads from side *)
(* s and writes to the other side.  A byte stream is the number of chunks  *)
(* that have passed a point of it: a copy loop neither reorders nor        *)
(* invents them.  Time counts in units of which Timeout is the idle        *)
(* timeout; work takes none of it, only waiting for a peer does.           *)
(***************************************************************************)
EXTENDS Naturals, Sequences

CONSTANTS
  Timeout,      \* the idle timeout; 0: the connections have no TimeoutConn
  MaxChunks,    \* bound: chunks a peer sends
  Pieces,       \* pieces in which the kernel takes a chunk from a Write
  HalfClosing,  \* the sides whose connection implements closeWriter
  Snapshotting, \* the sides whose Read sees the deadline it started with (udpFlow)
  SlowPeers     \* the sides whose peer may let a Write wait

Sides == {"local", "remote"}
Other(s) == IF s = "local" THEN "remote" ELSE "local"

ASSUME RelayAssumption ==
  /\ Timeout \in Nat /\ MaxChunks \in Nat /\ Pieces \in Nat \ {0}
  /\ HalfClosing \subseteq Sides /\ Snapshotting \subseteq Sides /\ SlowPeers \subseteq Sides

VARIABLES
  sent, fin,   \* per side: chunks the peer has sent, and that it sends no more
  broken,      \* the connection of the side failed
  taken,       \* chunks the relay has read from the side
  pieces,      \* pieces of the chunk in hand that are still to be written
  got, eof,    \* chunks written to the side, and that it was half-closed
  closed,      \* the handler closed the connection of the side
  copy,        \* where the goroutine that reads the side is
  err,         \* what it has to report
  errc,        \* the channel of reports
  main,        \* where Transport, and then the handler, is
  armed, seen, \* time left to the deadline of the side, and to the one its Read saw
  idle, moved  \* time since data last moved, and whether it moves at this instant

peerVars == <<sent, fin, broken>>
dataVars == <<taken, pieces, got, eof>>
timeVars == <<armed, seen, idle, moved>>
vars == <<peerVars, dataVars, closed, copy, err, errc, main, timeVars>>

Results == {"nil", "EOF", "timeout", "error"}

Init ==
  /\ sent = [s \in Sides |-> 0]
  /\ fin = [s \in Sides |-> FALSE]
  /\ broken = [s \in Sides |-> FALSE]
  /\ taken = [s \in Sides |-> 0]
  /\ pieces = [s \in Sides |-> 0]
  /\ got = [s \in Sides |-> 0]
  /\ eof = [s \in Sides |-> FALSE]
  /\ closed = [s \in Sides |-> FALSE]
  /\ copy = [s \in Sides |-> "arm"]
  /\ err = [s \in Sides |-> "none"]
  /\ errc = <<>>
  /\ main = "first"
  /\ armed = [s \in Sides |-> Timeout]
  /\ seen = [s \in Sides |-> Timeout]
  /\ idle = 0
  /\ moved = FALSE

Goto(s, label) == copy' = [copy EXCEPT ![s] = label]
\* The goroutine of s is done copying, with result e.
Ends(s, e) == Goto(s, "report") /\ err' = [err EXCEPT ![s] = e]
-----------------------------------------------------------------------------
(* The peers.                                                              *)

PeerSends(s) ==
  /\ ~fin[s] /\ ~broken[s] /\ ~closed[s] /\ sent[s] < MaxChunks
  /\ sent' = [sent EXCEPT ![s] = @ + 1]
  /\ UNCHANGED <<fin, broken, dataVars, closed, copy, err, errc, main, timeVars>>

PeerFinishes(s) ==
  /\ ~fin[s] /\ ~broken[s] /\ ~closed[s]
  /\ fin' = [fin EXCEPT ![s] = TRUE]
  /\ UNCHANGED <<sent, broken, dataVars, closed, copy, err, errc, main, timeVars>>

PeerBreaks(s) ==
  /\ ~broken[s] /\ ~closed[s]
  /\ broken' = [broken EXCEPT ![s] = TRUE]
  /\ UNCHANGED <<sent, fin, dataVars, closed, copy, err, errc, main, timeVars>>
-----------------------------------------------------------------------------
(* io.CopyBuffer in the goroutine that reads side s.                       *)

\* TimeoutConn.Read arms the deadline of both directions of its connection.
Arm(s) ==
  /\ copy[s] = "arm"
  /\ armed' = [armed EXCEPT ![s] = Timeout]
  /\ seen' = [seen EXCEPT ![s] = Timeout]
  /\ Goto(s, "read")
  /\ UNCHANGED <<peerVars, dataVars, closed, err, errc, main, idle, moved>>

\* Fault: only the local connection is a TimeoutConn.
LeftLocalOnly(s) == IF s = "local" THEN armed[s] ELSE Timeout
\* The deadline a pending Read of s obeys: an armed one reaches a Read that is
\* already waiting, except in a udpFlow.
Left(s) == IF s \in Snapshotting THEN seen[s] ELSE armed[s]
ReadReady(s) == broken[s] \/ closed[s] \/ taken[s] < sent[s] \/ fin[s]

ReadChunk(s) ==
  /\ copy[s] = "read" /\ ~closed[s] /\ taken[s] < sent[s]
  /\ taken' = [taken EXCEPT ![s] = @ + 1]
  /\ pieces' = [pieces EXCEPT ![s] = Pieces]
  /\ moved' = TRUE
  /\ Goto(s, "write")
  /\ UNCHANGED <<peerVars, got, eof, closed, err, errc, main, armed, seen, idle>>

SeesEOF(s) ==
  /\ copy[s] = "read" /\ ~closed[s] /\ ~broken[s] /\ fin[s]
  /\ Goto(s, "closeWrite")
  /\ UNCHANGED <<peerVars, dataVars, closed, err, errc, main, timeVars>>

\* Fault: EOF overtakes the data before it.
ReadEOFEarly(s) == SeesEOF(s)
ReadEOF(s) == SeesEOF(s) /\ taken[s] = sent[s]

ReadFails(s) ==
  /\ copy[s] = "read" /\ (broken[s] \/ closed[s])
  /\ Ends(s, "error")
  /\ UNCHANGED <<peerVars, dataVars, closed, errc, main, timeVars>>

ReadTimesOut(s) ==
  /\ copy[s] = "read" /\ Timeout > 0 /\ Left(s) = 0
  /\ Ends(s, "timeout")
  /\ UNCHANGED <<peerVars, dataVars, closed, errc, main, timeVars>>

\* Fault: only Read arms the deadline.
StartWriteUnarmed(s) ==
  /\ copy[s] = "write"
  /\ Goto(s, "writing")
  /\ UNCHANGED <<peerVars, dataVars, closed, err, errc, main, timeVars>>
\* TimeoutConn.Write arms the deadline of the connection it writes to, once for
\* the whole buffer.
StartWrite(s) ==
  /\ copy[s] = "write"
  /\ armed' = [armed EXCEPT ![Other(s)] = Timeout]
  /\ Goto(s, "writing")
  /\ UNCHANGED <<peerVars, dataVars, closed, err, errc, main, seen, idle, moved>>

\* The peer makes room for a piece of the chunk; the last one ends the Write.
WritePiece(s) ==
  /\ copy[s] = "writing" /\ ~closed[Other(s)] /\ ~broken[Other(s)]
  /\ pieces' = [pieces EXCEPT ![s] = @ - 1]
  /\ IF pieces[s] = 1
     THEN got' = [got EXCEPT ![Other(s)] = @ + 1] /\ Goto(s, "arm")
     ELSE UNCHANGED <<got, copy>>
  /\ moved' = TRUE
  /\ UNCHANGED <<peerVars, taken, eof, closed, err, errc, main, armed, seen, idle>>

WriteFails(s) ==
  /\ copy[s] = "writing" /\ (closed[Other(s)] \/ broken[Other(s)])
  /\ Ends(s, "error")
  /\ UNCHANGED <<peerVars, dataVars, closed, errc, main, timeVars>>

WriteTimesOut(s) ==
  /\ copy[s] = "writing" /\ Timeout > 0 /\ armed[Other(s)] = 0
  /\ Ends(s, "timeout")
  /\ UNCHANGED <<peerVars, dataVars, closed, errc, main, timeVars>>

\* EOF becomes a half-close of the other side, where that works.
CloseWrite(s) ==
  LET ok == Other(s) \in HalfClosing /\ ~closed[Other(s)] /\ ~broken[Other(s)] IN
  /\ copy[s] = "closeWrite"
  /\ eof' = [eof EXCEPT ![Other(s)] = ok]
  /\ Ends(s, IF ok THEN "nil" ELSE "EOF")
  /\ UNCHANGED <<peerVars, taken, pieces, got, closed, errc, main, timeVars>>

SendReport(s, next) ==
  /\ copy[s] = "report"
  /\ errc' = Append(errc, err[s])
  /\ Goto(s, next)
  /\ UNCHANGED <<peerVars, dataVars, closed, err, main, timeVars>>

\* Fault: the channel has no buffer, so a send needs a receiver.
ReportUnbuffered(s) == main \in {"first", "second"} /\ errc = <<>> /\ SendReport(s, "done")
\* Fault: the goroutine does not end with its report.
ReportAgain(s) == SendReport(s, "report")
Report(s) == Len(errc) < 2 /\ SendReport(s, "done")
-----------------------------------------------------------------------------
(* Transport and the deferred calls of the handler.                        *)

Receive(from, to) ==
  /\ main = from /\ errc # <<>>
  /\ errc' = Tail(errc)
  /\ main' = to
  /\ UNCHANGED <<peerVars, dataVars, closed, copy, err, timeVars>>

\* Fault: the first direction to finish ends the relay.
FirstReportEnds == Receive("first", "close")
\* The first report: nil means one direction is half-closed, wait for the other.
FirstReport == Receive("first", IF Head(errc) = "nil" THEN "second" ELSE "close")
SecondReport == Receive("second", "close")

\* The deferred Close of the connections; handleTCP closes the local one first,
\* handleUDP the other.
Close(s) ==
  /\ main = "close" /\ ~closed[s]
  /\ closed' = [closed EXCEPT ![s] = TRUE]
  /\ main' = IF closed[Other(s)] THEN "closed" ELSE "close"
  /\ UNCHANGED <<peerVars, dataVars, copy, err, errc, timeVars>>
-----------------------------------------------------------------------------
\* The goroutine of s waits for a peer, with time left.
Waits(s) ==
  \/ copy[s] = "done"
  \/ copy[s] = "read" /\ ~ReadReady(s) /\ Left(s) > 0
  \/ copy[s] = "writing" /\ Other(s) \in SlowPeers /\ armed[Other(s)] > 0
                         /\ ~closed[Other(s)] /\ ~broken[Other(s)]

Less(n) == IF n > 0 THEN n - 1 ELSE 0

Tick ==
  /\ Timeout > 0 /\ \A s \in Sides : Waits(s)
  /\ main \in {"first", "second"} /\ errc = <<>>
  /\ armed' = [s \in Sides |-> Less(armed[s])]
  /\ seen' = [s \in Sides |-> Less(seen[s])]
  /\ idle' = IF moved THEN 1 ELSE idle + 1
  /\ moved' = FALSE
  /\ UNCHANGED <<peerVars, dataVars, closed, copy, err, errc, main>>

Copy(s) ==
  \/ Arm(s) \/ ReadChunk(s) \/ ReadEOF(s) \/ ReadFails(s) \/ ReadTimesOut(s)
  \/ StartWrite(s) \/ WritePiece(s) \/ WriteFails(s) \/ WriteTimesOut(s)
  \/ CloseWrite(s) \/ Report(s)

Peer(s) == PeerSends(s) \/ PeerFinishes(s) \/ PeerBreaks(s)

Next ==
  \/ \E s \in Sides : Peer(s) \/ Copy(s) \/ Close(s)
  \/ FirstReport \/ SecondReport
  \/ Tick

Spec == Init /\ [][Next]_vars

(***************************************************************************)
(* Fairness: a goroutine whose call has returned, or whose deadline has    *)
(* passed, goes on.  Nothing is assumed of the peers: a Write to a slow    *)
(* peer need never complete.                                               *)
(***************************************************************************)
Fairness ==
  /\ \A s \in Sides :
       /\ WF_vars(Arm(s) \/ ReadChunk(s) \/ ReadEOF(s) \/ ReadFails(s) \/ ReadTimesOut(s))
       /\ WF_vars(StartWrite(s) \/ WriteFails(s) \/ WriteTimesOut(s) \/ CloseWrite(s))
       /\ WF_vars(Report(s))
       /\ WF_vars(Close(s))
  /\ WF_vars(FirstReport \/ SecondReport)

FairSpec == Spec /\ Fairness
-----------------------------------------------------------------------------
(* Types of all variables; at most Timeout is left to a deadline.          *)
TypeOK ==
  /\ sent \in [Sides -> 0..MaxChunks]
  /\ fin \in [Sides -> BOOLEAN]
  /\ broken \in [Sides -> BOOLEAN]
  /\ taken \in [Sides -> Nat]
  /\ pieces \in [Sides -> 0..Pieces]
  /\ got \in [Sides -> Nat]
  /\ eof \in [Sides -> BOOLEAN]
  /\ closed \in [Sides -> BOOLEAN]
  /\ copy \in [Sides -> {"arm", "read", "write", "writing", "closeWrite", "report", "done"}]
  /\ err \in [Sides -> Results \cup {"none"}]
  /\ errc \in Seq(Results) /\ Len(errc) <= 2
  /\ main \in {"first", "second", "close", "closed"}
  /\ armed \in [Sides -> 0..Timeout]
  /\ seen \in [Sides -> 0..Timeout]
  /\ idle \in Nat
  /\ moved \in BOOLEAN

(* A half-close says the truth: the relay half-closes a side only when the  *)
(* other peer has finished and everything it sent has been written          *)
(* (transport.go, relay).                                                   *)
CleanEOF == \A s \in Sides : eof[Other(s)] => fin[s] /\ got[Other(s)] = sent[s]

(* Transport returns only when both directions were half-closed, or one of  *)
(* them failed: a protocol that shuts down its sending side and waits for   *)
(* the reply gets all of it (transport.go, Transport).                      *)
HalfCloseLasts ==
  main \in {"close", "closed"} =>
    (\A s \in Sides : eof[s]) \/ (\E s \in Sides : err[s] \notin {"none", "nil"})

(* The relay of a connection that carried no data either way for the idle   *)
(* timeout ends there and then (network_stack.go:44, TCPIdleTimeout).       *)
IdleEnds == Timeout > 0 => idle <= Timeout

(* Nothing but idleness runs into the deadlines: when a Read or a Write of  *)
(* the relay times out, no data has moved either way for the idle timeout   *)
(* (transport.go, TimeoutConn; network_stack.go:44 and 47).  Data that      *)
(* arrives at the instant of the deadline may be too late.                  *)
OnlyIdleEnds ==
  [][\A s \in Sides : err[s] # "timeout" /\ err'[s] = "timeout" => idle >= Timeout]_vars

(* When Transport has returned, the deferred closes release both goroutines *)
(* of the relay, and neither is left behind at the channel.                 *)
GoroutinesEnd == main = "close" ~> main = "closed" /\ \A s \in Sides : copy[s] = "done"
=============================================================================
