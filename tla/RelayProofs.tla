---------------------------- MODULE RelayProofs ----------------------------
(***************************************************************************)
(* What the relay promises both peers, for any idle timeout, any number of *)
(* chunks and any split of a Write into pieces, whichever connections      *)
(* half-close: a half-close says the truth, Transport does not return      *)
(* while a half-closed connection still works, an idle relay ends, and     *)
(* only an idle one does.                                                  *)
(***************************************************************************)
EXTENDS Relay, SequenceTheorems, TLAPS

\* Leaves go to Zenon unless they name another prover.
USE Zenon

Labels == {"arm", "read", "write", "writing", "closeWrite", "report", "done"}

\* The goroutine of s has at most one chunk in hand, and reports a nil exactly
\* when it has half-closed the other side.
CopyOK(s) ==
  /\ taken[s] <= sent[s]
  /\ copy[s] \in {"write", "writing"} => pieces[s] \in 1..Pieces /\ got[Other(s)] + 1 = taken[s]
  /\ copy[s] \in {"arm", "read", "closeWrite"} => got[Other(s)] = taken[s]
  /\ copy[s] = "closeWrite" => fin[s] /\ taken[s] = sent[s]
  /\ err[s] = "none" <=> copy[s] \notin {"report", "done"}
  /\ eof[Other(s)] <=> err[s] = "nil"
  /\ eof[Other(s)] => fin[s] /\ got[Other(s)] = sent[s]

\* The report of s, once the goroutine has sent it.
InChannel(s) == IF copy[s] = "done" THEN <<err[s]>> ELSE <<>>

\* The channel holds the reports that were sent and not received; the one that
\* Transport waits beyond was a nil.
ReportsOK ==
  /\ main = "first" => \E s \in Sides : errc = InChannel(s) \o InChannel(Other(s))
  /\ main = "second" =>
       \E s \in Sides : copy[s] = "done" /\ err[s] = "nil" /\ errc = InChannel(Other(s))

\* Time since data last moved, as of the next tick.
Quiet == IF moved THEN 0 ELSE idle

\* No deadline ends later than the idle timeout after the last move of data: a
\* goroutine sets one only at an instant at which data moves, or at the start.
DeadlinesOK ==
  /\ idle <= Timeout
  /\ \A s \in Sides :
       /\ Quiet + armed[s] <= Timeout /\ Quiet + seen[s] <= Timeout
       /\ copy[s] \in {"arm", "write"} => Quiet = 0

IInv ==
  /\ TypeOK
  /\ \A s \in Sides : CopyOK(s)
  /\ ReportsOK
  /\ HalfCloseLasts
  /\ DeadlinesOK

\* Where a Write does not wait, no deadline of a pending Read ends earlier
\* either: every move of data sets both.
Fresh(s) ==
  /\ copy[s] = "read" => armed[s] + idle >= Timeout
  /\ moved /\ copy[s] = "read" => armed[s] = Timeout \/ copy[Other(s)] = "write"
  /\ copy[s] \in {"write", "writing"} => moved
  /\ copy[s] = "writing" => armed[Other(s)] = Timeout
-----------------------------------------------------------------------------
(* There are two sides.                                                     *)
LEMMA TwoSides ==
  ASSUME NEW s \in Sides
  PROVE  /\ Other(s) \in Sides /\ Other(s) # s /\ Other(Other(s)) = s
         /\ \A t \in Sides : t = s \/ t = Other(s)
  BY DEF Sides, Other

(* What the invariant says of a goroutine is about its own side, and about  *)
(* what it alone has written to the other one.                              *)
LEMMA KeepsCopy ==
  ASSUME NEW s \in Sides, CopyOK(s),
         sent'[s] = sent[s], fin'[s] = fin[s], taken'[s] = taken[s], pieces'[s] = pieces[s],
         copy'[s] = copy[s], err'[s] = err[s],
         got'[Other(s)] = got[Other(s)], eof'[Other(s)] = eof[Other(s)]
  PROVE  CopyOK(s)'
  BY DEF CopyOK

(* A goroutine that is still copying, or just ends, says nothing to         *)
(* Transport yet.                                                           *)
LEMMA KeepsReports ==
  ASSUME IInv, NEW s \in Sides, copy[s] \notin {"report", "done"}, copy'[s] # "done",
         main' = main, errc' = errc,
         copy'[Other(s)] = copy[Other(s)], err'[Other(s)] = err[Other(s)], eof'[s] = eof[s]
  PROVE  ReportsOK' /\ HalfCloseLasts'
<1>. Other(s) \in Sides /\ Other(s) # s /\ Other(Other(s)) = s /\ \A t \in Sides : t = s \/ t = Other(s)
  BY TwoSides
<1>1. err[s] = "none" /\ ~eof[Other(s)]
  BY DEF IInv, CopyOK
<1>2. \A t \in Sides : InChannel(t)' = InChannel(t)
  BY DEF InChannel
<1>3. ReportsOK'
  BY <1>2 DEF ReportsOK, IInv
<1>4. HalfCloseLasts'
  BY <1>1 DEF HalfCloseLasts, IInv
<1>. QED  BY <1>3, <1>4
-----------------------------------------------------------------------------
(* Every step keeps the invariant: first the goroutines, ...                *)

(* The other goroutine keeps its part of the invariant while s copies.      *)
LEMMA OtherCopies ==
  ASSUME IInv, NEW s \in Sides,
         UNCHANGED <<sent, fin>>,
         taken'[Other(s)] = taken[Other(s)], pieces'[Other(s)] = pieces[Other(s)],
         copy'[Other(s)] = copy[Other(s)], err'[Other(s)] = err[Other(s)],
         got'[s] = got[s], eof'[s] = eof[s],
         CopyOK(s)'
  PROVE  \A t \in Sides : CopyOK(t)'
<1>1. Other(s) \in Sides /\ Other(Other(s)) = s /\ \A t \in Sides : t = s \/ t = Other(s)
  BY TwoSides
<1>2. CopyOK(Other(s))
  BY <1>1 DEF IInv
<1>3. CopyOK(Other(s))'
  BY <1>1, <1>2, KeepsCopy
<1>. QED  BY <1>1, <1>3

(* Before its Read a goroutine sets the deadline of its side.               *)
LEMMA ArmInv ==
  ASSUME IInv, NEW s \in Sides, Arm(s)
  PROVE  IInv'
<1>. USE DEF IInv, TypeOK, Arm, Goto, peerVars, dataVars
<1>. Other(s) \in Sides /\ Other(s) # s /\ Other(Other(s)) = s
  BY TwoSides
<1>1. TypeOK'
  <2>1. Timeout \in 0..Timeout
    BY RelayAssumption, SMTT(30)
  <2>. QED  BY <2>1
<1>2. CopyOK(s)'
  BY DEF CopyOK
<1>3. \A t \in Sides : CopyOK(t)'
  BY <1>2, OtherCopies
<1>4. ReportsOK' /\ HalfCloseLasts'
  <2>1. /\ copy[s] \notin {"report", "done"} /\ copy'[s] # "done" /\ UNCHANGED <<main, errc>>
        /\ copy'[Other(s)] = copy[Other(s)] /\ err'[Other(s)] = err[Other(s)] /\ eof'[s] = eof[s]
    OBVIOUS
  <2>. HIDE DEF TypeOK, Arm
  <2>. QED  BY <2>1, KeepsReports
<1>5. DeadlinesOK'
  <2>1. Quiet = 0 /\ Quiet' = Quiet
    BY DEF DeadlinesOK, Quiet
  <2>2. \A t \in Sides : Quiet' + armed'[t] <= Timeout /\ Quiet' + seen'[t] <= Timeout
    <3>1. /\ Timeout \in Nat /\ armed \in [Sides -> 0..Timeout] /\ seen \in [Sides -> 0..Timeout]
          /\ armed' = [armed EXCEPT ![s] = Timeout] /\ seen' = [seen EXCEPT ![s] = Timeout]
      BY RelayAssumption
    <3>. HIDE DEF IInv, TypeOK, Arm
    <3>. QED  BY <2>1, <3>1, SMTT(30)
  <2>. QED  BY <2>1, <2>2 DEF DeadlinesOK
<1>. QED  BY <1>1, <1>3, <1>4, <1>5

(* A chunk read is in hand until it is written.                             *)
LEMMA ReadChunkInv ==
  ASSUME IInv, NEW s \in Sides, ReadChunk(s)
  PROVE  IInv'
<1>. USE DEF IInv, TypeOK, ReadChunk, Goto, peerVars
<1>. Other(s) \in Sides /\ Other(s) # s /\ Other(Other(s)) = s
  BY TwoSides
<1>0. /\ taken[s] + 1 \in Nat /\ Pieces \in 0..Pieces /\ Pieces \in 1..Pieces
      /\ taken[s] + 1 <= sent[s]
  <2>1. taken[s] \in Nat /\ sent[s] \in 0..MaxChunks /\ taken[s] < sent[s]
    OBVIOUS
  <2>. HIDE DEF IInv, TypeOK, ReadChunk
  <2>. QED  BY <2>1, RelayAssumption, SMTT(30)
<1>1. TypeOK'
  BY <1>0
<1>2. CopyOK(s)'
  BY <1>0 DEF CopyOK
<1>3. \A t \in Sides : CopyOK(t)'
  BY <1>2, OtherCopies
<1>4. ReportsOK' /\ HalfCloseLasts'
  <2>1. /\ copy[s] \notin {"report", "done"} /\ copy'[s] # "done" /\ UNCHANGED <<main, errc>>
        /\ copy'[Other(s)] = copy[Other(s)] /\ err'[Other(s)] = err[Other(s)] /\ eof'[s] = eof[s]
    OBVIOUS
  <2>. HIDE DEF TypeOK, ReadChunk
  <2>. QED  BY <2>1, KeepsReports
<1>5. DeadlinesOK'
  <2>1. Quiet' = 0 /\ idle' = idle
    BY DEF Quiet
  <2>2. \A t \in Sides : Quiet' + armed'[t] <= Timeout /\ Quiet' + seen'[t] <= Timeout
    <3>1. /\ Timeout \in Nat /\ armed \in [Sides -> 0..Timeout] /\ seen \in [Sides -> 0..Timeout]
          /\ UNCHANGED <<armed, seen>>
      BY RelayAssumption
    <3>. HIDE DEF IInv, TypeOK, ReadChunk
    <3>. QED  BY <2>1, <3>1, SMTT(30)
  <2>. QED  BY <2>1, <2>2 DEF DeadlinesOK
<1>. QED  BY <1>1, <1>3, <1>4, <1>5

(* EOF comes after the last chunk.                                          *)
LEMMA ReadEOFInv ==
  ASSUME IInv, NEW s \in Sides, ReadEOF(s)
  PROVE  IInv'
<1>. USE DEF IInv, TypeOK, ReadEOF, SeesEOF, Goto, peerVars, dataVars, timeVars
<1>. Other(s) \in Sides /\ Other(s) # s /\ Other(Other(s)) = s
  BY TwoSides
<1>1. TypeOK'
  OBVIOUS
<1>2. CopyOK(s)'
  BY DEF CopyOK
<1>3. \A t \in Sides : CopyOK(t)'
  BY <1>2, OtherCopies
<1>4. ReportsOK' /\ HalfCloseLasts'
  <2>1. /\ copy[s] \notin {"report", "done"} /\ copy'[s] # "done" /\ UNCHANGED <<main, errc>>
        /\ copy'[Other(s)] = copy[Other(s)] /\ err'[Other(s)] = err[Other(s)] /\ eof'[s] = eof[s]
    OBVIOUS
  <2>. HIDE DEF TypeOK, ReadEOF
  <2>. QED  BY <2>1, KeepsReports
<1>5. DeadlinesOK'
  BY DEF DeadlinesOK, Quiet
<1>. QED  BY <1>1, <1>3, <1>4, <1>5

(* A goroutine that fails or times out ends without a nil.                  *)
LEMMA FailsInv ==
  ASSUME IInv, NEW s \in Sides,
         ReadFails(s) \/ ReadTimesOut(s) \/ WriteFails(s) \/ WriteTimesOut(s)
  PROVE  IInv'
<1>. USE DEF IInv, TypeOK
<1>. Other(s) \in Sides /\ Other(s) # s /\ Other(Other(s)) = s
  BY TwoSides
<1>0. /\ copy[s] \in {"read", "writing"}
      /\ copy' = [copy EXCEPT ![s] = "report"]
      /\ \E e \in {"error", "timeout"} : err' = [err EXCEPT ![s] = e]
      /\ UNCHANGED <<peerVars, dataVars, closed, errc, main, timeVars>>
  BY DEF ReadFails, ReadTimesOut, WriteFails, WriteTimesOut, Ends, Goto
<1>. USE <1>0 DEF peerVars, dataVars, timeVars
<1>1. TypeOK'
  BY DEF Results
<1>2. CopyOK(s)'
  <2>1. /\ copy[s] \in {"read", "writing"} /\ copy'[s] = "report" /\ err'[s] \in {"error", "timeout"}
        /\ UNCHANGED <<sent, fin, taken, got, eof>>
    OBVIOUS
  <2>. HIDE <1>0 DEF TypeOK
  <2>. QED  BY <2>1 DEF CopyOK
<1>3. \A t \in Sides : CopyOK(t)'
  BY <1>2, OtherCopies
<1>4. ReportsOK' /\ HalfCloseLasts'
  <2>1. /\ copy[s] \notin {"report", "done"} /\ copy'[s] # "done" /\ UNCHANGED <<main, errc>>
        /\ copy'[Other(s)] = copy[Other(s)] /\ err'[Other(s)] = err[Other(s)] /\ eof'[s] = eof[s]
    OBVIOUS
  <2>. HIDE <1>0 DEF TypeOK
  <2>. QED  BY <2>1, KeepsReports
<1>5. DeadlinesOK'
  BY DEF DeadlinesOK, Quiet
<1>. QED  BY <1>1, <1>3, <1>4, <1>5

(* A Write sets the deadline of the side it writes to.                      *)
LEMMA StartWriteInv ==
  ASSUME IInv, NEW s \in Sides, StartWrite(s)
  PROVE  IInv'
<1>. USE DEF IInv, TypeOK, StartWrite, Goto, peerVars, dataVars
<1>. Other(s) \in Sides /\ Other(s) # s /\ Other(Other(s)) = s
  BY TwoSides
<1>1. TypeOK'
  <2>1. Timeout \in 0..Timeout
    BY RelayAssumption, SMTT(30)
  <2>. QED  BY <2>1
<1>2. CopyOK(s)'
  BY DEF CopyOK
<1>3. \A t \in Sides : CopyOK(t)'
  BY <1>2, OtherCopies
<1>4. ReportsOK' /\ HalfCloseLasts'
  <2>1. /\ copy[s] \notin {"report", "done"} /\ copy'[s] # "done" /\ UNCHANGED <<main, errc>>
        /\ copy'[Other(s)] = copy[Other(s)] /\ err'[Other(s)] = err[Other(s)] /\ eof'[s] = eof[s]
    OBVIOUS
  <2>. HIDE DEF TypeOK, StartWrite
  <2>. QED  BY <2>1, KeepsReports
<1>5. DeadlinesOK'
  <2>1. Quiet = 0 /\ Quiet' = Quiet
    BY DEF DeadlinesOK, Quiet
  <2>2. \A t \in Sides : Quiet' + armed'[t] <= Timeout
    <3>1. /\ Timeout \in Nat /\ armed \in [Sides -> 0..Timeout]
          /\ armed' = [armed EXCEPT ![Other(s)] = Timeout]
      BY RelayAssumption
    <3>. HIDE DEF IInv, TypeOK, StartWrite
    <3>. QED  BY <2>1, <3>1, SMTT(30)
  <2>. QED  BY <2>1, <2>2 DEF DeadlinesOK
<1>. QED  BY <1>1, <1>3, <1>4, <1>5

(* The last piece of a chunk completes what the other side got.             *)
LEMMA WritePieceInv ==
  ASSUME IInv, NEW s \in Sides, WritePiece(s)
  PROVE  IInv'
<1>. USE DEF IInv, TypeOK, WritePiece, Goto, peerVars
<1>. Other(s) \in Sides /\ Other(s) # s /\ Other(Other(s)) = s
  BY TwoSides
<1>0. pieces[s] \in 1..Pieces /\ got[Other(s)] + 1 = taken[s] /\ err[s] = "none" /\ ~eof[Other(s)]
  BY DEF CopyOK
<1>a. /\ pieces[s] - 1 \in 0..Pieces
      /\ pieces[s] # 1 => pieces[s] - 1 \in 1..Pieces
      /\ got[Other(s)] + 1 \in Nat
  <2>1. got[Other(s)] \in Nat
    OBVIOUS
  <2>. HIDE DEF IInv, TypeOK, WritePiece
  <2>. QED  BY <1>0, <2>1, RelayAssumption, SMTT(30)
<1>b. \/ /\ pieces[s] = 1 /\ got' = [got EXCEPT ![Other(s)] = got[Other(s)] + 1]
         /\ copy' = [copy EXCEPT ![s] = "arm"]
      \/ pieces[s] # 1 /\ UNCHANGED <<got, copy>>
  OBVIOUS
<1>1. TypeOK'
  <2>1. got' \in [Sides -> Nat] /\ copy' \in [Sides -> Labels]
    <3>1. got \in [Sides -> Nat] /\ copy \in [Sides -> Labels]
      BY DEF Labels
    <3>2. "arm" \in Labels
      BY DEF Labels
    <3>. HIDE DEF IInv, TypeOK, WritePiece
    <3>. QED  BY <1>a, <1>b, <3>1, <3>2
  <2>2. pieces' \in [Sides -> 0..Pieces] /\ moved' \in BOOLEAN
    BY <1>a
  <2>3. UNCHANGED <<peerVars, taken, eof, closed, err, errc, main, armed, seen, idle>>
    OBVIOUS
  <2>. HIDE DEF WritePiece
  <2>. QED  BY <2>1, <2>2, <2>3 DEF Labels
<1>2. CopyOK(s)'
  <2>1. /\ taken[s] <= sent[s] /\ copy[s] = "writing" /\ UNCHANGED <<sent, fin, taken, err, eof>>
        /\ pieces'[s] = pieces[s] - 1
    BY DEF CopyOK
  <2>2. \/ got'[Other(s)] = taken[s] /\ copy'[s] = "arm"
        \/ pieces[s] # 1 /\ got'[Other(s)] = got[Other(s)] /\ copy'[s] = "writing"
    <3>1. got \in [Sides -> Nat] /\ copy \in [Sides -> Labels]
      BY DEF Labels
    <3>. HIDE DEF IInv, TypeOK, WritePiece
    <3>. QED  BY <1>0, <1>b, <2>1, <3>1
  <2>. HIDE DEF IInv, TypeOK, WritePiece
  <2>. QED  BY <1>0, <1>a, <2>1, <2>2 DEF CopyOK
<1>3. \A t \in Sides : CopyOK(t)'
  <2>1. /\ taken'[Other(s)] = taken[Other(s)] /\ pieces'[Other(s)] = pieces[Other(s)]
        /\ copy'[Other(s)] = copy[Other(s)] /\ err'[Other(s)] = err[Other(s)]
        /\ got'[s] = got[s] /\ eof'[s] = eof[s]
    OBVIOUS
  <2>. QED  BY <1>2, <2>1, OtherCopies
<1>4. ReportsOK' /\ HalfCloseLasts'
  <2>1. copy'[s] # "done" /\ copy'[Other(s)] = copy[Other(s)]
    OBVIOUS
  <2>. QED  BY <2>1, KeepsReports
<1>5. DeadlinesOK'
  <2>1. Quiet' = 0 /\ idle' = idle
    BY DEF Quiet
  <2>2. \A t \in Sides : Quiet' + armed'[t] <= Timeout /\ Quiet' + seen'[t] <= Timeout
    <3>1. /\ Timeout \in Nat /\ armed \in [Sides -> 0..Timeout] /\ seen \in [Sides -> 0..Timeout]
          /\ UNCHANGED <<armed, seen>>
      BY RelayAssumption
    <3>. HIDE DEF IInv, TypeOK, WritePiece
    <3>. QED  BY <2>1, <3>1, SMTT(30)
  <2>. QED  BY <2>1, <2>2 DEF DeadlinesOK
<1>. QED  BY <1>1, <1>3, <1>4, <1>5

(* A half-close that works is reported as a nil, one that does not as EOF.  *)
LEMMA CloseWriteInv ==
  ASSUME IInv, NEW s \in Sides, CloseWrite(s)
  PROVE  IInv'
<1>. USE DEF IInv, TypeOK, CloseWrite, Ends, Goto, peerVars, timeVars
<1>. Other(s) \in Sides /\ Other(s) # s /\ Other(Other(s)) = s
  BY TwoSides
<1>1. TypeOK'
  BY DEF Results
<1>2. CopyOK(s)'
  BY DEF CopyOK
<1>3. \A t \in Sides : CopyOK(t)'
  BY <1>2, OtherCopies
<1>4. ReportsOK' /\ HalfCloseLasts'
  <2>1. /\ copy[s] \notin {"report", "done"} /\ copy'[s] # "done" /\ UNCHANGED <<main, errc>>
        /\ copy'[Other(s)] = copy[Other(s)] /\ err'[Other(s)] = err[Other(s)] /\ eof'[s] = eof[s]
    OBVIOUS
  <2>. HIDE DEF TypeOK, CloseWrite
  <2>. QED  BY <2>1, KeepsReports
<1>5. DeadlinesOK'
  BY DEF DeadlinesOK, Quiet
<1>. QED  BY <1>1, <1>3, <1>4, <1>5
-----------------------------------------------------------------------------
(* ... then the channel between them and Transport, ...                     *)

(* What the channel does to at most two reports.                            *)
LEMMA Pair ==
  ASSUME NEW x, NEW y
  PROVE  Append(<<x>>, y) = <<x, y>> /\ <<x>> \o <<y>> = <<x, y>>
<1>1. <<x>> \in Seq({x, y}) /\ <<y>> \in Seq({x, y}) /\ <<x, y>> \in Seq({x, y})
  BY SMTT(30)
<1>2. /\ <<x>> \o <<y>> \in Seq({x, y}) /\ Len(<<x>> \o <<y>>) = 2 /\ Len(<<x, y>>) = 2
      /\ Append(<<x>>, y) \in Seq({x, y}) /\ Len(Append(<<x>>, y)) = 2
  BY <1>1, SMTT(30)
<1>3. (<<x>> \o <<y>>)[1] = x /\ (<<x>> \o <<y>>)[2] = y
  BY <1>1, SMTT(30)
<1>4. Append(<<x>>, y)[1] = x /\ Append(<<x>>, y)[2] = y
  BY <1>1, SMTT(30)
<1>5. \A i \in 1..2 : i = 1 \/ i = 2
  BY SMTT(30)
<1>6. <<x, y>>[1] = x /\ <<x, y>>[2] = y
  OBVIOUS
<1>7. <<x>> \o <<y>> = <<x, y>>
  BY <1>1, <1>2, <1>3, <1>5, <1>6, SeqEqual
<1>8. Append(<<x>>, y) = <<x, y>>
  BY <1>1, <1>2, <1>4, <1>5, <1>6, SeqEqual
<1>. QED  BY <1>7, <1>8

(* One report in the channel, put there or taken.                           *)
LEMMA OneReport ==
  /\ \A x : Append(<<>>, x) = <<x>> /\ <<>> \o <<x>> = <<x>> /\ <<x>> \o <<>> = <<x>>
  /\ \A x : Head(<<x>>) = x /\ Tail(<<x>>) = <<>> /\ <<x>> # <<>>
  /\ <<>> \o <<>> = <<>>
<1>1. \A x : Append(<<>>, x) = <<x>> /\ <<>> \o <<x>> = <<x>> /\ <<x>> \o <<>> = <<x>>
  BY SMTT(30)
<1>2. \A x : Head(<<x>>) = x /\ Tail(<<x>>) = <<>> /\ <<x>> # <<>>
  BY SMTT(30)
<1>3. <<>> \o <<>> = <<>>
  BY SMTT(30)
<1>. QED  BY <1>1, <1>2, <1>3

LEMMA TwoReports ==
  ASSUME NEW x, NEW y
  PROVE  /\ Append(<<x>>, y) = <<x>> \o <<y>>
         /\ Head(<<x>> \o <<y>>) = x /\ Tail(<<x>> \o <<y>>) = <<y>> /\ <<x>> \o <<y>> # <<>>
<1>1. Append(<<x>>, y) = <<x, y>> /\ <<x>> \o <<y>> = <<x, y>>
  BY Pair
<1>2. Head(<<x, y>>) = x /\ Tail(<<x, y>>) = <<y>> /\ <<x, y>> # <<>>
  BY SMTT(30)
<1>. QED  BY <1>1, <1>2

(* While Transport waits for its first report, the oldest one in the        *)
(* channel is that of a goroutine that is done, and the rest is what the    *)
(* other one has sent.                                                      *)
LEMMA Oldest ==
  ASSUME IInv, main = "first", errc # <<>>
  PROVE  \E s \in Sides : /\ copy[s] = "done"
                          /\ Head(errc) = err[s] /\ Tail(errc) = InChannel(Other(s))
<1>. PICK a \in Sides : errc = InChannel(a) \o InChannel(Other(a))
  BY DEF IInv, ReportsOK
<1>. Other(a) \in Sides /\ Other(Other(a)) = a
  BY TwoSides
<1>1. CASE copy[a] = "done" /\ copy[Other(a)] = "done"
  <2>1. errc = <<err[a]>> \o <<err[Other(a)]>> /\ InChannel(Other(a)) = <<err[Other(a)]>>
    BY <1>1 DEF InChannel
  <2>2. Head(errc) = err[a] /\ Tail(errc) = InChannel(Other(a))
    BY <2>1, TwoReports
  <2>. QED  BY <1>1, <2>2
<1>2. CASE copy[a] = "done" /\ copy[Other(a)] # "done"
  BY <1>2, OneReport DEF InChannel
<1>3. CASE copy[a] # "done" /\ copy[Other(a)] = "done"
  <2>1. InChannel(a) = <<>> /\ errc = <<err[Other(a)]>>
    BY <1>3, OneReport DEF InChannel
  <2>. QED  BY <1>3, <2>1, OneReport
<1>4. CASE copy[a] # "done" /\ copy[Other(a)] # "done"
  BY <1>4, OneReport DEF InChannel
<1>. QED  BY <1>1, <1>2, <1>3, <1>4

(* A report joins the channel, which has room for both.                     *)
LEMMA ReportInv ==
  ASSUME IInv, NEW s \in Sides, Report(s)
  PROVE  IInv'
<1>. Other(s) \in Sides /\ Other(s) # s /\ Other(Other(s)) = s /\ \A t \in Sides : t = s \/ t = Other(s)
  BY TwoSides
<1>0. /\ copy[s] = "report" /\ copy' = [copy EXCEPT ![s] = "done"]
      /\ Len(errc) < 2 /\ errc' = Append(errc, err[s])
      /\ UNCHANGED <<sent, fin, broken, taken, pieces, got, eof, closed, err, main, armed, seen, idle, moved>>
  BY DEF Report, SendReport, Goto, peerVars, dataVars, timeVars
<1>1. TypeOK'
  <2>1. err[s] \in Results
    BY <1>0 DEF IInv, TypeOK, CopyOK
  <2>2. errc' \in Seq(Results) /\ Len(errc') <= 2
    <3>1. errc \in Seq(Results)
      BY DEF IInv, TypeOK
    <3>. QED  BY <1>0, <2>1, <3>1, SMTT(30)
  <2>3. copy' \in [Sides -> Labels]
    BY <1>0 DEF IInv, TypeOK, Labels
  <2>. QED  BY <1>0, <2>2, <2>3 DEF IInv, TypeOK, Labels
<1>2. copy'[s] = "done" /\ copy'[Other(s)] = copy[Other(s)]
  BY <1>0 DEF IInv, TypeOK
<1>3. \A t \in Sides : CopyOK(t)'
  <2>1. CopyOK(s)'
    BY <1>0, <1>2 DEF IInv, CopyOK
  <2>. QED  BY <1>0, <1>2, <2>1, OtherCopies
<1>4. /\ InChannel(s) = <<>> /\ InChannel(s)' = <<err[s]>>
      /\ InChannel(Other(s))' = InChannel(Other(s))
  BY <1>0, <1>2 DEF InChannel
<1>5. ReportsOK'
  <2>1. CASE main = "first"
    <3>1. errc = InChannel(Other(s))
      <4>1. PICK a \in Sides : errc = InChannel(a) \o InChannel(Other(a))
        BY <2>1 DEF IInv, ReportsOK
      <4>2. errc = <<>> \o InChannel(Other(s)) \/ errc = InChannel(Other(s)) \o <<>>
        BY <1>4, <4>1
      <4>. QED  BY <4>2, OneReport DEF InChannel
    <3>2. errc' = InChannel(Other(s)) \o <<err[s]>>
      BY <1>0, <3>1, OneReport, TwoReports DEF InChannel
    <3>3. errc' = InChannel(Other(s))' \o InChannel(Other(Other(s)))'
      BY <1>4, <3>2
    <3>. QED  BY <1>0, <2>1, <3>3 DEF ReportsOK
  <2>2. CASE main = "second"
    <3>1. PICK a \in Sides : copy[a] = "done" /\ err[a] = "nil" /\ errc = InChannel(Other(a))
      BY <2>2 DEF IInv, ReportsOK
    <3>2. a = Other(s)
      BY <1>0, <3>1
    <3>3. errc' = InChannel(Other(a))'
      BY <1>0, <1>4, <3>1, <3>2, OneReport
    <3>. QED  BY <1>0, <1>2, <2>2, <3>1, <3>2, <3>3 DEF ReportsOK
  <2>. QED  BY <1>0, <2>1, <2>2 DEF ReportsOK
<1>6. HalfCloseLasts'
  BY <1>0 DEF IInv, HalfCloseLasts
<1>7. DeadlinesOK'
  BY <1>0, <1>2 DEF IInv, DeadlinesOK, Quiet
<1>. QED  BY <1>1, <1>3, <1>5, <1>6, <1>7 DEF IInv

(* A report received leaves the channel; what the goroutines did stays.     *)
LEMMA ReceiveInv ==
  ASSUME IInv, NEW from, NEW to \in {"second", "close"}, Receive(from, to)
  PROVE  TypeOK' /\ (\A t \in Sides : CopyOK(t)') /\ DeadlinesOK'
<1>0. /\ errc # <<>> /\ errc' = Tail(errc) /\ main' = to
      /\ UNCHANGED <<sent, fin, broken, taken, pieces, got, eof, closed, copy, err, armed, seen, idle, moved>>
  BY DEF Receive, peerVars, dataVars, timeVars
<1>1. errc' \in Seq(Results) /\ Len(errc') <= 2
  <2>1. errc \in Seq(Results) /\ Len(errc) <= 2
    BY DEF IInv, TypeOK
  <2>. QED  BY <1>0, <2>1, SMTT(30)
<1>2. TypeOK'
  BY <1>0, <1>1 DEF IInv, TypeOK
<1>3. \A t \in Sides : CopyOK(t)'
  BY <1>0, KeepsCopy DEF IInv
<1>4. DeadlinesOK'
  BY <1>0 DEF IInv, DeadlinesOK, Quiet
<1>. QED  BY <1>2, <1>3, <1>4

(* After a first report that is nil Transport waits for the other           *)
(* goroutine; any other one is a failure.                                   *)
LEMMA FirstReportInv ==
  ASSUME IInv, FirstReport
  PROVE  IInv'
<1>. DEFINE to == IF Head(errc) = "nil" THEN "second" ELSE "close"
<1>0. /\ Receive("first", to) /\ main = "first" /\ errc # <<>> /\ errc' = Tail(errc) /\ main' = to
      /\ UNCHANGED <<copy, err, eof>> /\ to \in {"second", "close"}
  BY DEF FirstReport, Receive, dataVars
<1>1. PICK s \in Sides : copy[s] = "done" /\ Head(errc) = err[s] /\ Tail(errc) = InChannel(Other(s))
  BY <1>0, Oldest
<1>2. \A t \in Sides : InChannel(t)' = InChannel(t)
  BY <1>0 DEF InChannel
<1>3. ReportsOK'
  <2>1. InChannel(Other(s))' = InChannel(Other(s))
    BY <1>2, TwoSides
  <2>2. main' = "second" => copy'[s] = "done" /\ err'[s] = "nil" /\ errc' = InChannel(Other(s))'
    BY <1>0, <1>1, <2>1
  <2>. QED  BY <1>0, <2>2 DEF ReportsOK
<1>4. HalfCloseLasts'
  BY <1>0, <1>1 DEF IInv, CopyOK, HalfCloseLasts
<1>5. TypeOK' /\ (\A t \in Sides : CopyOK(t)') /\ DeadlinesOK'
  BY <1>0, ReceiveInv
<1>. QED  BY <1>3, <1>4, <1>5 DEF IInv

(* With the second report both directions are half-closed, or the second    *)
(* one failed.                                                              *)
LEMMA SecondReportInv ==
  ASSUME IInv, SecondReport
  PROVE  IInv'
<1>0. /\ Receive("second", "close") /\ main = "second" /\ errc # <<>> /\ main' = "close"
      /\ UNCHANGED <<copy, err, eof>>
  BY DEF SecondReport, Receive, dataVars
<1>1. PICK s \in Sides : copy[s] = "done" /\ err[s] = "nil" /\ errc = InChannel(Other(s))
  BY <1>0 DEF IInv, ReportsOK
<1>2. Other(s) \in Sides /\ Other(Other(s)) = s /\ \A t \in Sides : t = s \/ t = Other(s)
  BY TwoSides
<1>3. copy[Other(s)] = "done"
  BY <1>0, <1>1 DEF InChannel
<1>4. err[Other(s)] # "none" /\ eof[Other(s)] /\ (eof[s] <=> err[Other(s)] = "nil")
  BY <1>1, <1>2, <1>3 DEF IInv, CopyOK
<1>5. HalfCloseLasts'
  BY <1>0, <1>2, <1>4 DEF HalfCloseLasts
<1>6. ReportsOK'
  BY <1>0 DEF ReportsOK
<1>7. TypeOK' /\ (\A t \in Sides : CopyOK(t)') /\ DeadlinesOK'
  BY <1>0, ReceiveInv
<1>. QED  BY <1>5, <1>6, <1>7 DEF IInv
-----------------------------------------------------------------------------
(* ... then the handler, the peers and time.                                *)

(* The deferred closes come after Transport's return.                       *)
LEMMA CloseInv ==
  ASSUME IInv, NEW s \in Sides, Close(s)
  PROVE  IInv'
<1>0. /\ main = "close" /\ main' \in {"close", "closed"} /\ closed' = [closed EXCEPT ![s] = TRUE]
      /\ UNCHANGED <<sent, fin, broken, taken, pieces, got, eof, copy, err, errc, armed, seen, idle, moved>>
  BY DEF Close, peerVars, dataVars, timeVars
<1>1. TypeOK'
  BY <1>0 DEF IInv, TypeOK
<1>2. \A t \in Sides : CopyOK(t)'
  BY <1>0, KeepsCopy DEF IInv
<1>3. ReportsOK' /\ HalfCloseLasts'
  BY <1>0 DEF IInv, ReportsOK, HalfCloseLasts
<1>4. DeadlinesOK'
  BY <1>0 DEF IInv, DeadlinesOK, Quiet
<1>. QED  BY <1>1, <1>2, <1>3, <1>4 DEF IInv

(* A peer that has finished sends no more, so a half-close stays true.      *)
LEMMA PeerInv ==
  ASSUME IInv, NEW s \in Sides, Peer(s)
  PROVE  IInv'
<1>0. /\ ~fin[s]
         \/ UNCHANGED <<sent, fin>>
      /\ sent' = sent \/ (sent' = [sent EXCEPT ![s] = sent[s] + 1] /\ sent[s] < MaxChunks)
      /\ fin' = fin \/ fin' = [fin EXCEPT ![s] = TRUE]
      /\ broken' = broken \/ broken' = [broken EXCEPT ![s] = TRUE]
      /\ UNCHANGED <<dataVars, closed, copy, err, errc, main, timeVars>>
  BY DEF Peer, PeerSends, PeerFinishes, PeerBreaks
<1>a. UNCHANGED <<taken, pieces, got, eof, closed, copy, err, errc, main, armed, seen, idle, moved>>
  BY <1>0 DEF dataVars, timeVars
<1>b. /\ sent[s] < MaxChunks => sent[s] + 1 \in 0..MaxChunks
      /\ taken[s] <= sent[s] + 1
  <2>1. sent[s] \in 0..MaxChunks /\ taken[s] \in Nat /\ taken[s] <= sent[s]
    BY DEF IInv, TypeOK, CopyOK
  <2>. QED  BY <2>1, RelayAssumption, SMTT(30)
<1>1. TypeOK'
  <2>1. sent \in [Sides -> 0..MaxChunks] /\ fin \in [Sides -> BOOLEAN] /\ broken \in [Sides -> BOOLEAN]
    BY DEF IInv, TypeOK
  <2>2. sent' \in [Sides -> 0..MaxChunks]
    BY <1>0, <1>b, <2>1
  <2>3. fin' \in [Sides -> BOOLEAN]
    BY <1>0, <2>1
  <2>4. broken' \in [Sides -> BOOLEAN]
    BY <1>0, <2>1
  <2>. QED  BY <1>a, <2>2, <2>3, <2>4 DEF IInv, TypeOK
<1>2. ASSUME NEW t \in Sides PROVE CopyOK(t)'
  <2>1. CASE UNCHANGED <<sent, fin>> \/ t # s
    <3>1. sent'[t] = sent[t] /\ fin'[t] = fin[t]
      BY <1>0, <2>1 DEF IInv, TypeOK
    <3>. QED  BY <1>a, <3>1, KeepsCopy DEF IInv
  <2>2. CASE ~fin[s] /\ t = s
    <3>1. copy[s] # "closeWrite" /\ ~eof[Other(s)]
      BY <2>2 DEF IInv, CopyOK
    <3>2. taken[s] <= sent'[s]
      BY <1>0, <1>b DEF IInv, TypeOK, CopyOK
    <3>. QED  BY <1>a, <2>2, <3>1, <3>2 DEF IInv, CopyOK
  <2>. QED  BY <1>0, <2>1, <2>2
<1>3. ReportsOK' /\ HalfCloseLasts'
  BY <1>a DEF IInv, ReportsOK, HalfCloseLasts, InChannel
<1>4. DeadlinesOK'
  BY <1>a DEF IInv, DeadlinesOK, Quiet
<1>. QED  BY <1>1, <1>2, <1>3, <1>4 DEF IInv

(* While Transport waits for a report, some goroutine is still copying.     *)
LEMMA SomeoneCopies ==
  ASSUME IInv, main \in {"first", "second"}, errc = <<>>
  PROVE  \E s \in Sides : copy[s] # "done"
<1>1. CASE main = "first"
  <2>1. PICK s \in Sides : errc = InChannel(s) \o InChannel(Other(s))
    BY <1>1 DEF IInv, ReportsOK
  <2>2. copy[s] # "done" \/ copy[Other(s)] # "done"
    <3>. SUFFICES ASSUME copy[s] = "done", copy[Other(s)] = "done" PROVE FALSE
      OBVIOUS
    <3>1. errc = <<err[s]>> \o <<err[Other(s)]>>
      BY <2>1 DEF InChannel
    <3>. QED  BY <3>1, TwoReports
  <2>. QED  BY <2>2, TwoSides
<1>2. CASE main = "second"
  <2>1. PICK s \in Sides : errc = InChannel(Other(s))
    BY <1>2 DEF IInv, ReportsOK
  <2>2. copy[Other(s)] # "done"
    BY <2>1, OneReport DEF InChannel
  <2>. QED  BY <2>2, TwoSides
<1>. QED  BY <1>1, <1>2

(* Time passes only up to the first deadline of a goroutine that copies.    *)
LEMMA TickInv ==
  ASSUME IInv, Tick
  PROVE  IInv'
<1>0. /\ main \in {"first", "second"} /\ errc = <<>>
      /\ armed' = [s \in Sides |-> Less(armed[s])]
      /\ seen' = [s \in Sides |-> Less(seen[s])]
      /\ idle' = Quiet + 1 /\ Quiet' = Quiet + 1
      /\ moved' = FALSE
      /\ UNCHANGED <<sent, fin, broken, taken, pieces, got, eof, closed, copy, err, errc, main>>
  <2>1. idle' = IF moved THEN 1 ELSE idle + 1
    BY DEF Tick
  <2>2. idle \in Nat /\ moved' = FALSE
    BY DEF IInv, TypeOK, Tick
  <2>3. idle' = Quiet + 1 /\ Quiet' = Quiet + 1
    BY <2>1, <2>2, SMTT(30) DEF Quiet
  <2>. QED  BY <2>3 DEF Tick, peerVars, dataVars
<1>a. /\ Timeout \in Nat /\ Quiet \in Nat
      /\ armed \in [Sides -> 0..Timeout] /\ seen \in [Sides -> 0..Timeout]
      /\ \A s \in Sides : Quiet + armed[s] <= Timeout /\ Quiet + seen[s] <= Timeout
  <2>1. Quiet \in Nat
    BY SMTT(30) DEF IInv, TypeOK, Quiet
  <2>. QED  BY <2>1, RelayAssumption DEF IInv, TypeOK, DeadlinesOK
<1>1. PICK s \in Sides : copy[s] # "done"
  BY <1>0, SomeoneCopies
<1>2. seen[s] > 0 \/ armed[s] > 0 \/ armed[Other(s)] > 0
  BY <1>1 DEF Tick, Waits, Left
<1>3. Quiet + 1 <= Timeout
  <2>1. Other(s) \in Sides
    BY TwoSides
  <2>. QED  BY <1>a, <1>2, <2>1, SMTT(30)
<1>4. \A t \in Sides : /\ armed'[t] \in 0..Timeout /\ seen'[t] \in 0..Timeout
                       /\ Quiet' + armed'[t] <= Timeout /\ Quiet' + seen'[t] <= Timeout
  <2>1. \A n \in 0..Timeout : Quiet + n <= Timeout =>
          Less(n) \in 0..Timeout /\ Quiet + 1 + Less(n) <= Timeout
    BY <1>a, <1>3, SMTT(30) DEF Less
  <2>2. \A t \in Sides : /\ armed[t] \in 0..Timeout /\ armed'[t] = Less(armed[t])
                         /\ seen[t] \in 0..Timeout /\ seen'[t] = Less(seen[t])
    BY <1>0, <1>a
  <2>. QED  BY <1>0, <1>a, <2>1, <2>2
<1>5. TypeOK'
  <2>1. idle' \in Nat
    BY <1>0, <1>a, SMTT(30)
  <2>2. armed' \in [Sides -> 0..Timeout] /\ seen' \in [Sides -> 0..Timeout]
    BY <1>0, <1>4
  <2>. QED  BY <1>0, <2>1, <2>2 DEF IInv, TypeOK
<1>6. \A t \in Sides : CopyOK(t)'
  BY <1>0, KeepsCopy DEF IInv
<1>7. ReportsOK' /\ HalfCloseLasts'
  BY <1>0 DEF IInv, ReportsOK, HalfCloseLasts, InChannel
<1>8. DeadlinesOK'
  <2>1. \A t \in Sides : copy[t] \notin {"arm", "write"}
    BY DEF Tick, Waits
  <2>. QED  BY <1>0, <1>3, <1>4, <2>1 DEF DeadlinesOK
<1>. QED  BY <1>5, <1>6, <1>7, <1>8 DEF IInv

(* The invariant holds in every state of the relay.                         *)
LEMMA InductiveInv == Spec => []IInv
<1>1. Init => IInv
  <2>. SUFFICES ASSUME Init PROVE IInv
    OBVIOUS
  <2>1. Timeout \in Nat /\ 0 \in 0..MaxChunks /\ 0 \in 0..Pieces /\ Timeout \in 0..Timeout /\ 0 \in Nat
    BY RelayAssumption, SMTT(30)
  <2>2. errc \in Seq(Results) /\ Len(errc) <= 2
    BY SMTT(30) DEF Init
  <2>3. TypeOK
    BY <2>1, <2>2 DEF Init, TypeOK
  <2>4. ASSUME NEW s \in Sides PROVE CopyOK(s)
    <3>1. 0 <= 0
      BY SMTT(30)
    <3>. QED  BY <3>1, TwoSides DEF Init, CopyOK
  <2>5. ReportsOK
    <3>1. "local" \in Sides /\ Other("local") \in Sides
      BY TwoSides DEF Sides
    <3>2. errc = InChannel("local") \o InChannel(Other("local"))
      BY <3>1, OneReport DEF Init, InChannel
    <3>. QED  BY <3>1, <3>2 DEF Init, ReportsOK
  <2>6. HalfCloseLasts
    BY DEF Init, HalfCloseLasts
  <2>7. DeadlinesOK
    <3>1. 0 <= Timeout /\ 0 + Timeout <= Timeout
      BY <2>1, SMTT(30)
    <3>. QED  BY <3>1 DEF Init, DeadlinesOK, Quiet
  <2>. QED  BY <2>3, <2>4, <2>5, <2>6, <2>7 DEF IInv
<1>2. IInv /\ [Next]_vars => IInv'
  <2>. SUFFICES ASSUME IInv, [Next]_vars PROVE IInv'
    OBVIOUS
  <2>1. ASSUME NEW s \in Sides, Copy(s) PROVE IInv'
    BY <2>1, ArmInv, ReadChunkInv, ReadEOFInv, FailsInv, StartWriteInv, WritePieceInv,
       CloseWriteInv, ReportInv DEF Copy
  <2>2. CASE UNCHANGED vars
    <3>1. UNCHANGED <<sent, fin, broken, taken, pieces, got, eof, closed, copy, err, errc, main,
                      armed, seen, idle, moved>>
      BY <2>2 DEF vars, peerVars, dataVars, timeVars
    <3>2. \A s \in Sides : CopyOK(s)'
      BY <3>1, KeepsCopy DEF IInv
    <3>3. TypeOK' /\ HalfCloseLasts'
      BY <3>1 DEF IInv, TypeOK, HalfCloseLasts
    <3>4. ReportsOK' /\ DeadlinesOK'
      BY <3>1 DEF IInv, ReportsOK, InChannel, DeadlinesOK, Quiet
    <3>. QED  BY <3>2, <3>3, <3>4 DEF IInv
  <2>. QED  BY <2>1, <2>2, PeerInv, CloseInv, FirstReportInv, SecondReportInv, TickInv DEF Next
<1>. QED  BY <1>1, <1>2, PTL DEF Spec
-----------------------------------------------------------------------------
(* The deadlines of a relay whose Writes do not wait, and whose Reads see a *)
(* deadline that is set while they wait.                                    *)

(* The deadline of a pending Read is at least the idle timeout after the    *)
(* last move of data.                                                       *)
LEMMA FreshStep ==
  ASSUME IInv, [Next]_vars, Snapshotting = {}, SlowPeers = {}, \A s \in Sides : Fresh(s)
  PROVE  \A s \in Sides : Fresh(s)'
<1>t. /\ Timeout \in Nat /\ idle \in Nat /\ armed \in [Sides -> 0..Timeout]
      /\ copy \in [Sides -> Labels] /\ Timeout + idle >= Timeout
  <2>1. Timeout \in Nat /\ idle \in Nat
    BY RelayAssumption DEF IInv, TypeOK
  <2>2. Timeout + idle >= Timeout
    BY <2>1, SMTT(30)
  <2>. QED  BY <2>1, <2>2 DEF IInv, TypeOK, Labels
<1>1. ASSUME NEW s \in Sides, Arm(s) PROVE \A t \in Sides : Fresh(t)'
  BY <1>1, <1>t, TwoSides DEF Arm, Goto, Fresh
<1>2. ASSUME NEW s \in Sides, ReadChunk(s) PROVE \A t \in Sides : Fresh(t)'
  BY <1>2, <1>t, TwoSides DEF ReadChunk, Goto, Fresh
<1>3. ASSUME NEW s \in Sides, StartWrite(s) PROVE \A t \in Sides : Fresh(t)'
  BY <1>3, <1>t, TwoSides DEF StartWrite, Goto, Fresh
<1>4. ASSUME NEW s \in Sides, WritePiece(s) PROVE \A t \in Sides : Fresh(t)'
  <2>1. /\ moved /\ moved' /\ UNCHANGED <<armed, idle>> /\ copy[s] = "writing"
        /\ copy' = copy \/ copy' = [copy EXCEPT ![s] = "arm"]
    BY <1>4 DEF WritePiece, Goto, Fresh
  <2>2. copy'[Other(s)] = copy[Other(s)] /\ copy'[s] \in {"writing", "arm"}
    BY <1>t, <2>1, TwoSides
  <2>3. Fresh(s)'
    BY <2>1, <2>2 DEF Fresh
  <2>4. Fresh(Other(s))'
    BY <2>1, <2>2, TwoSides DEF Fresh
  <2>. QED  BY <2>3, <2>4, TwoSides
<1>5. ASSUME NEW s \in Sides,
             \/ ReadEOF(s) \/ ReadFails(s) \/ ReadTimesOut(s) \/ WriteFails(s) \/ WriteTimesOut(s)
             \/ CloseWrite(s) \/ Report(s)
      PROVE  \A t \in Sides : Fresh(t)'
  <2>1. /\ copy[s] # "write" /\ \E l \in {"closeWrite", "report", "done"} : copy' = [copy EXCEPT ![s] = l]
        /\ UNCHANGED timeVars
    BY <1>5 DEF ReadEOF, SeesEOF, ReadFails, ReadTimesOut, WriteFails, WriteTimesOut, CloseWrite,
                Report, SendReport, Ends, Goto
  <2>2. copy'[Other(s)] = copy[Other(s)] /\ copy'[s] \in {"closeWrite", "report", "done"}
    BY <1>t, <2>1, TwoSides
  <2>3. Fresh(s)'
    BY <2>2 DEF Fresh
  <2>4. Fresh(Other(s))'
    BY <2>1, <2>2, TwoSides DEF Fresh, timeVars
  <2>. QED  BY <2>3, <2>4, TwoSides
<1>6. CASE UNCHANGED <<copy, timeVars>>
  BY <1>6, TwoSides DEF Fresh, timeVars
<1>7. CASE Tick
  <2>0. /\ \A t \in Sides : copy[t] \in {"done", "read"}
        /\ \A t \in Sides : copy[t] = "read" => armed[t] > 0
    BY <1>7, TwoSides DEF Tick, Waits, Left
  <2>1. /\ armed' = [t \in Sides |-> Less(armed[t])] /\ ~moved' /\ UNCHANGED copy
        /\ idle' = IF moved THEN 1 ELSE idle + 1
    BY <1>7 DEF Tick
  <2>2. ASSUME NEW t \in Sides, copy[t] = "read"
        PROVE  armed'[t] + idle' >= Timeout
    <3>1. armed[t] + idle >= Timeout /\ (moved => armed[t] = Timeout) /\ armed[t] > 0
      BY <2>0, <2>2, TwoSides DEF Fresh
    <3>2. armed'[t] = Less(armed[t]) /\ armed[t] \in 0..Timeout
      BY <1>t, <2>1
    <3>. QED  BY <1>t, <2>1, <3>1, <3>2, SMTT(30) DEF Less
  <2>. QED  BY <2>0, <2>1, <2>2 DEF Fresh
<1>8. ASSUME NEW s \in Sides, Peer(s) \/ Close(s) PROVE \A t \in Sides : Fresh(t)'
  BY <1>6, <1>8 DEF Peer, PeerSends, PeerFinishes, PeerBreaks, Close
<1>9. CASE FirstReport \/ SecondReport
  BY <1>6, <1>9 DEF FirstReport, SecondReport, Receive
<1>10. CASE UNCHANGED vars
  BY <1>6, <1>10 DEF vars
<1>. QED  BY <1>1, <1>2, <1>3, <1>4, <1>5, <1>7, <1>8, <1>9, <1>10 DEF Next, Copy
-----------------------------------------------------------------------------
(* Nobody is left behind.                                                   *)

(* A goroutine that reports finds room in the channel, whoever still reads  *)
(* it; Transport waits only for a goroutine that has yet to report; and the *)
(* handler that is done has closed both connections, one that is not still  *)
(* has one to close.                                                        *)
NobodyBlocks ==
  /\ \A s \in Sides : copy[s] = "report" => Len(errc) < 2
  /\ main \in {"first", "second"} /\ errc = <<>> => \E s \in Sides : copy[s] # "done"
  /\ main = "close" => \E s \in Sides : ~closed[s]
  /\ main = "closed" => \A s \in Sides : closed[s]

(* Each goroutine that has yet to report has its place in the channel.      *)
Room ==
  \A s \in Sides : copy[s] # "done" =>
    /\ Len(errc) <= 1
    /\ copy[Other(s)] # "done" => Len(errc) = 0

ClosesOK ==
  /\ main \in {"first", "second"} => \A s \in Sides : ~closed[s]
  /\ main = "close" => \E s \in Sides : ~closed[s]
  /\ main = "closed" => \A s \in Sides : closed[s]

(* A report takes the place of its goroutine, a receive makes room.         *)
LEMMA RoomStep == ASSUME IInv, Room, [Next]_vars PROVE Room'
<1>1. errc \in Seq(Results) /\ Len(errc) \in Nat
  <2>1. errc \in Seq(Results)
    BY DEF IInv, TypeOK
  <2>. QED  BY <2>1, SMTT(30)
<1>2. ASSUME UNCHANGED errc, \A s \in Sides : copy'[s] # "done" => copy[s] # "done" PROVE Room'
  <2>1. \A s \in Sides : Other(s) \in Sides
    BY TwoSides
  <2>. QED  BY <1>2, <2>1 DEF Room
<1>3. ASSUME NEW s \in Sides, Report(s) PROVE Room'
  <2>1. /\ copy[s] = "report" /\ copy'[s] = "done" /\ copy'[Other(s)] = copy[Other(s)]
        /\ errc' = Append(errc, err[s])
    BY <1>3, TwoSides DEF Report, SendReport, Goto, IInv, TypeOK
  <2>2. copy[Other(s)] # "done" => Len(errc) = 0
    BY <2>1 DEF Room
  <2>3. Len(errc') = Len(errc) + 1
    BY <1>1, <2>1, SMTT(30)
  <2>4. copy[Other(s)] # "done" => Len(errc') <= 1
    BY <2>2, <2>3, SMTT(30)
  <2>5. \A t \in Sides : copy'[t] # "done" => t = Other(s) /\ Other(t) = s
    BY <2>1, TwoSides
  <2>. QED  BY <2>1, <2>4, <2>5 DEF Room
<1>4. CASE FirstReport \/ SecondReport
  <2>1. errc # <<>> /\ errc' = Tail(errc) /\ UNCHANGED copy
    BY <1>4 DEF FirstReport, SecondReport, Receive
  <2>2. Len(errc') = Len(errc) - 1 /\ Len(errc) > 0
    BY <1>1, <2>1, SMTT(30)
  <2>3. (Len(errc) <= 1 => Len(errc') <= 1) /\ Len(errc) # 0
    BY <1>1, <2>2, SMTT(30)
  <2>. QED  BY <2>1, <2>3 DEF Room
<1>5. ASSUME NEW s \in Sides, Copy(s), ~Report(s) PROVE Room'
  <2>1. UNCHANGED errc /\ copy[s] # "done" /\ \A t \in Sides : t # s => copy'[t] = copy[t]
    BY <1>5 DEF Copy, Arm, ReadChunk, ReadEOF, SeesEOF, ReadFails, ReadTimesOut, StartWrite,
       WritePiece, WriteFails, WriteTimesOut, CloseWrite, Ends, Goto, IInv, TypeOK
  <2>. QED  BY <1>2, <2>1
<1>6. ASSUME NEW s \in Sides, Peer(s) \/ Close(s) PROVE Room'
  <2>1. UNCHANGED <<errc, copy>>
    BY <1>6 DEF Peer, PeerSends, PeerFinishes, PeerBreaks, Close
  <2>. QED  BY <1>2, <2>1
<1>7. CASE Tick \/ UNCHANGED vars
  <2>1. UNCHANGED <<errc, copy>>
    BY <1>7 DEF Tick, vars
  <2>. QED  BY <1>2, <2>1
<1>. QED  BY <1>3, <1>4, <1>5, <1>6, <1>7 DEF Next

(* Only the handler closes connections, after Transport has returned.       *)
LEMMA ClosesStep == ASSUME IInv, ClosesOK, [Next]_vars PROVE ClosesOK'
<1>1. ASSUME NEW s \in Sides, Close(s) PROVE ClosesOK'
  <2>1. /\ closed'[s] = TRUE /\ closed'[Other(s)] = closed[Other(s)]
        /\ main' = IF closed[Other(s)] THEN "closed" ELSE "close"
        /\ Other(s) \in Sides /\ \A t \in Sides : t = s \/ t = Other(s)
    BY <1>1, TwoSides DEF Close, IInv, TypeOK
  <2>. QED  BY <2>1 DEF ClosesOK
<1>2. CASE FirstReport \/ SecondReport
  <2>1. main \in {"first", "second"} /\ main' \in {"second", "close"} /\ UNCHANGED closed
    BY <1>2 DEF FirstReport, SecondReport, Receive
  <2>2. "local" \in Sides
    BY DEF Sides
  <2>. QED  BY <2>1, <2>2 DEF ClosesOK
<1>3. ASSUME NEW s \in Sides, Copy(s) \/ Peer(s) PROVE UNCHANGED <<main, closed>>
  BY <1>3 DEF Copy, Arm, ReadChunk, ReadEOF, SeesEOF, ReadFails, ReadTimesOut, StartWrite,
     WritePiece, WriteFails, WriteTimesOut, CloseWrite, Report, SendReport, Peer, PeerSends,
     PeerFinishes, PeerBreaks
<1>4. CASE Tick \/ UNCHANGED vars
  BY <1>4 DEF Tick, vars, ClosesOK
<1>5. UNCHANGED <<main, closed>> => ClosesOK'
  BY DEF ClosesOK
<1>. QED  BY <1>1, <1>2, <1>3, <1>4, <1>5 DEF Next
-----------------------------------------------------------------------------
(* The theorems.                                                            *)

(* All variables keep their types; no deadline is further away than the     *)
(* idle timeout (transport.go, TimeoutConn).                                *)
THEOREM TypesHold == Spec => []TypeOK
<1>1. IInv => TypeOK
  BY DEF IInv
<1>. QED  BY <1>1, InductiveInv, PTL

(* The relay half-closes a side only when the other peer has finished and   *)
(* everything it sent has been written (transport.go, relay).               *)
THEOREM HalfCloseIsTrue == Spec => []CleanEOF
<1>1. IInv => CleanEOF
  BY DEF IInv, CopyOK, CleanEOF
<1>. QED  BY <1>1, InductiveInv, PTL

(* Transport returns only when both directions were half-closed, or one of  *)
(* them failed (transport.go, Transport).                                   *)
THEOREM RelayOutlastsHalfClose == Spec => []HalfCloseLasts
<1>1. IInv => HalfCloseLasts
  BY DEF IInv
<1>. QED  BY <1>1, InductiveInv, PTL

(* A relay that carries no data ends at the idle timeout (network_stack.go, *)
(* TCPIdleTimeout; transport.go, TimeoutConn).                              *)
THEOREM IdleRelayEnds == Spec => []IdleEnds
<1>1. IInv => IdleEnds
  BY DEF IInv, DeadlinesOK, IdleEnds
<1>. QED  BY <1>1, InductiveInv, PTL

(* No goroutine of the relay blocks for ever: the channel of two reports    *)
(* has room for both, also when Transport returns after the first and       *)
(* nobody receives any more, Transport never waits for a report that cannot *)
(* come, and the deferred closes are complete.  GoroutinesEnd rests on this *)
(* (transport.go, Transport and its errc).                                  *)
THEOREM NobodyIsLeftBehind == Spec => []NobodyBlocks
<1>1. Init => Room /\ ClosesOK
  <2>. SUFFICES ASSUME Init PROVE Room /\ ClosesOK
    OBVIOUS
  <2>1. Len(errc) = 0 /\ Len(errc) <= 1
    BY SMTT(30) DEF Init
  <2>. QED  BY <2>1 DEF Init, Room, ClosesOK
<1>2. IInv /\ Room /\ ClosesOK => NobodyBlocks
  <2>. SUFFICES ASSUME IInv, Room, ClosesOK PROVE NobodyBlocks
    OBVIOUS
  <2>1. Len(errc) <= 1 => Len(errc) < 2
    <3>1. errc \in Seq(Results)
      BY DEF IInv, TypeOK
    <3>. QED  BY <3>1, SMTT(30)
  <2>2. \A s \in Sides : copy[s] = "report" => Len(errc) < 2
    BY <2>1 DEF Room
  <2>. QED  BY <2>2, SomeoneCopies DEF ClosesOK, NobodyBlocks
<1>. QED  BY <1>1, <1>2, RoomStep, ClosesStep, InductiveInv, PTL DEF Spec

(* Where a Read sees a deadline set while it waits and no Write waits, only *)
(* a relay that carried no data for the idle timeout runs into one: traffic *)
(* in one direction keeps the other one open (transport.go, TimeoutConn).   *)
(* With a udpFlow on one side this fails, as the run relay_udp_flow shows.  *)
THEOREM OnlyIdleRelaysEnd ==
  ASSUME Snapshotting = {}, SlowPeers = {}
  PROVE  Spec => OnlyIdleEnds
<1>1. Init => \A s \in Sides : Fresh(s)
  BY DEF Init, Fresh
<1>2. IInv /\ (\A s \in Sides : Fresh(s)) /\ [Next]_vars => (\A s \in Sides : Fresh(s))'
  BY FreshStep
<1>3. IInv /\ (\A s \in Sides : Fresh(s)) /\ [Next]_vars =>
        [\A s \in Sides : err[s] # "timeout" /\ err'[s] = "timeout" => idle >= Timeout]_vars
  <2>. SUFFICES ASSUME IInv, \A s \in Sides : Fresh(s), [Next]_vars,
                       NEW s \in Sides, err[s] # "timeout", err'[s] = "timeout"
                PROVE  idle >= Timeout
    OBVIOUS
  <2>. err \in [Sides -> Results \cup {"none"}]
    BY DEF IInv, TypeOK
  <2>1. ReadTimesOut(s) \/ WriteTimesOut(s)
    <3>1. ASSUME err' # err PROVE \E t \in Sides : \/ ReadFails(t) \/ ReadTimesOut(t) \/ WriteFails(t)
                                                  \/ WriteTimesOut(t) \/ CloseWrite(t)
      <4>1. CASE Tick
        BY <3>1, <4>1 DEF Tick
      <4>2. CASE FirstReport \/ SecondReport
        BY <3>1, <4>2 DEF FirstReport, SecondReport, Receive
      <4>3. ASSUME NEW t \in Sides, Peer(t) \/ Close(t) PROVE FALSE
        BY <3>1, <4>3 DEF Peer, PeerSends, PeerFinishes, PeerBreaks, Close
      <4>4. ASSUME NEW t \in Sides, Arm(t) \/ ReadChunk(t) \/ ReadEOF(t) \/ StartWrite(t) \/ WritePiece(t) \/ Report(t)
            PROVE  FALSE
        BY <3>1, <4>4 DEF Arm, ReadChunk, ReadEOF, SeesEOF, StartWrite, WritePiece, Report, SendReport
      <4>5. CASE UNCHANGED vars
        BY <3>1, <4>5 DEF vars
      <4>. QED  BY <4>1, <4>2, <4>3, <4>4, <4>5 DEF Next, Copy
    <3>2. PICK t \in Sides : \/ ReadFails(t) \/ ReadTimesOut(t) \/ WriteFails(t)
                             \/ WriteTimesOut(t) \/ CloseWrite(t)
      BY <3>1
    <3>3. t = s
      BY <3>2 DEF ReadFails, ReadTimesOut, WriteFails, WriteTimesOut, CloseWrite, Ends
    <3>4. ~(ReadFails(s) \/ WriteFails(s) \/ CloseWrite(s))
      BY DEF ReadFails, WriteFails, CloseWrite, Ends
    <3>. QED  BY <3>2, <3>3, <3>4
  <2>2. CASE ReadTimesOut(s)
    <3>1. armed[s] = 0 /\ armed[s] + idle >= Timeout
      BY <2>2 DEF ReadTimesOut, Left, Fresh
    <3>2. idle \in Nat
      BY DEF IInv, TypeOK
    <3>. QED  BY <3>1, <3>2, SMTT(30)
  <2>3. CASE WriteTimesOut(s)
    <3>1. armed[Other(s)] = 0 /\ armed[Other(s)] = Timeout /\ Timeout > 0 /\ Timeout \in Nat
      BY <2>3, RelayAssumption DEF WriteTimesOut, Fresh
    <3>. QED  BY <3>1, SMTT(30)
  <2>. QED  BY <2>1, <2>2, <2>3
<1>. QED  BY <1>1, <1>2, <1>3, InductiveInv, PTL DEF Spec, OnlyIdleEnds
=============================================================================
