--------------------------- MODULE StartupProofs ---------------------------
(***************************************************************************)
(* What a program finds when it starts, what it inherits, what stays on    *)
(* the host and what status comes out hold for any host files, exit codes  *)
(* and signals, whatever fails and whoever is killed.                      *)
(***************************************************************************)
EXTENDS Startup, SequenceTheorems, FiniteSetTheorems, WellFoundedInduction, TLAPS

USE SMTT(30)

\* Where the container's first process is once it has read the ACK, ...
Acked == {"setupIP", "private", "stage", "fill", "bind", "unstage", "exec", "wait"}

\* ... and once its mounts are private.
Mounting == {"stage", "fill", "bind", "unstage", "exec", "wait"}

Descriptors == {"parentEnd", "childEnd", "tun", "dns"}

Typed ==
    /\ pc \in [Processes -> {"none", "start", "close", "recvFds", "recvMTU", "stack",
                             "resolver", "ack", "tun", "sockets", "sendFds", "sendMTU",
                             "recvACK", "running", "exited"} \cup Acked]
    /\ holds \in [Processes -> SUBSET Descriptors]
    /\ pc["wirez"] # "none"

\* The ACK is on its way or has arrived.
AckSent == toRunc # <<>> \/ pc["runc"] \in Acked \/ pc["prog"] # "none"

\* Nothing past the ACK happens before the network is served, and the program
\* is not there before the container's first process waits for it.
OrderOK ==
    /\ pc["wirez"] = "start" => pc["runc"] = "none"
    /\ AckSent => pc["wirez"] \in {"wait", "exited"}
    /\ pc["prog"] # "none" => pc["runc"] \in {"wait", "exited"}
    /\ pc["wirez"] \in {"resolver", "ack", "wait"} \/ AckSent => "stack" \in net
    /\ pc["wirez"] \in {"ack", "wait"} \/ AckSent => (dns => "resolver" \in net)
    /\ pc["runc"] \in Acked \ {"setupIP"} \/ pc["prog"] # "none" => "routes" \in net

\* Every descriptor that the container holds is closed by an exec.
FdsOK ==
    /\ holds["prog"] = {}
    /\ pc["runc"] = "tun" => holds["runc"] \subseteq {"childEnd"}
    /\ pc["runc"] \notin {"none", "tun", "exited"} => holds["runc"] \subseteq cloexec

\* The files in fs are shadowed, resolv.conf by wirez's own.
Shadows(fs) ==
    /\ DOMAIN shadowed = fs
    /\ "resolv.conf" \in fs => shadowed["resolv.conf"] = resolvConfContent(files.resolv)

\* The two files are shadowed one after the other, on private mounts, and the
\* staging directory is there only in between.
MountsOK ==
    /\ target \in {"resolv.conf", "hosts"}
    /\ onHost \subseteq {"staging"}
    /\ pc["runc"] \in Mounting => private
    /\ pc["runc"] \notin {"fill", "bind", "unstage", "exited"} => onHost = {}
    /\ pc["prog"] # "none" => onHost = {}
    /\ pc["runc"] \notin {"unstage", "exec", "wait", "exited"} =>
         Shadows(IF target = "hosts" THEN {"resolv.conf"} ELSE {})
    /\ pc["runc"] = "unstage" =>
         Shadows(IF target = "hosts" THEN {"resolv.conf", "hosts"} ELSE {"resolv.conf"})
    /\ pc["runc"] \in {"exec", "wait"} \/ pc["prog"] # "none" =>
         Shadows({"resolv.conf", "hosts"})

IInv == Typed /\ OrderOK /\ FdsOK /\ MountsOK

\* The invariant holds when wirez starts.
LEMMA InitIInv == Init => IInv
<1>. SUFFICES ASSUME Init PROVE IInv
  OBVIOUS
<1>. USE DEF Init, Processes, Acked
<1>1. Typed /\ OrderOK /\ FdsOK
  BY DEF Typed, OrderOK, FdsOK, AckSent, Descriptors
<1>2. DOMAIN shadowed = {}
  OBVIOUS
<1>3. MountsOK
  BY <1>2 DEF MountsOK, Shadows, Mounting
<1>. QED BY <1>1, <1>3 DEF IInv

\* The death of a process, in whatever way, breaks nothing of this.
LEMMA ExitStep ==
  ASSUME IInv, NEW p \in Processes, NEW how, Alive(p), Exit(p, how) PROVE IInv'
<1>. USE DEF IInv, Typed, Processes, Alive, Exit, args, socket, mounts, Acked
<1>1. Typed'
  BY DEF Descriptors
<1>2. OrderOK'
  BY DEF OrderOK, AckSent
<1>3. FdsOK'
  BY DEF FdsOK
<1>4. MountsOK'
  BY DEF MountsOK, Shadows, Mounting, resolvConfContent
<1>. QED BY <1>1, <1>2, <1>3, <1>4

\* Every way out is an Exit.
LEMMA ExitActions ==
  ASSUME IInv,
         \/ Reap("wirez", "runc") \/ Reap("runc", "prog") \/ Kernel \/ ProgramEnds
         \/ ReceiveEOF \/ ReceiveACKFails
         \/ \E p \in Processes : Throws(p) \/ \E s \in Signals : Kill(p, s)
  PROVE  IInv'
<1>1. \E p \in Processes : Alive(p) /\ \E how : Exit(p, how)
  BY DEF Reap, Kernel, DeathSignal, ProgramEnds, ReceiveEOF, ReceiveACKFails, Throws,
     Kill, Alive, Processes
<1>. QED BY <1>1, ExitStep

\* wirez's steps up to the ACK: it is sent last.
LEMMA WirezStep ==
  ASSUME IInv,
         \/ Start \/ CloseChildFile \/ ReceiveFds \/ ReceiveMTU \/ BuildStack \/ StartResolver \/ SendACK
  PROVE  IInv'
<1>. USE DEF IInv, Typed, OrderOK, FdsOK, MountsOK, AckSent, Shadows, Goto, Processes,
       Acked, Mounting, Descriptors, args, socket, fds, mounts, resolvConfContent
<1>1. CASE Start
  BY <1>1 DEF Start, Rights
<1>2. CASE CloseChildFile
  BY <1>2 DEF CloseChildFile, Rights
<1>3. CASE ReceiveFds
  BY <1>3 DEF ReceiveFds, Rights
<1>4. CASE ReceiveMTU
  BY <1>4 DEF ReceiveMTU, Rights
<1>5. CASE BuildStack
  BY <1>5 DEF BuildStack, Rights
<1>6. CASE StartResolver
  BY <1>6 DEF StartResolver, Rights
<1>7. CASE SendACK
  BY <1>7 DEF SendACK, Rights
<1>. HIDE DEF IInv
<1>. QED BY <1>1, <1>2, <1>3, <1>4, <1>5, <1>6, <1>7

\* The container's steps up to its network.
LEMMA NetworkStep ==
  ASSUME IInv,
         \/ OpenTUN \/ CreateResolverSockets \/ SendFds \/ SendMTU \/ ReceiveACK \/ SetupIPNetwork
  PROVE  IInv'
<1>. USE DEF IInv, Typed, OrderOK, FdsOK, MountsOK, AckSent, Shadows, Goto, Processes,
       Acked, Mounting, Descriptors, args, socket, fds, mounts, resolvConfContent
<1>1. CASE OpenTUN
  BY <1>1 DEF OpenTUN
<1>2. CASE CreateResolverSockets
  BY <1>2 DEF CreateResolverSockets
<1>3. CASE SendFds
  BY <1>3 DEF SendFds
<1>4. CASE SendMTU
  BY <1>4 DEF SendMTU
<1>5. CASE ReceiveACK
  BY <1>5 DEF ReceiveACK
<1>6. CASE SetupIPNetwork
  BY <1>6 DEF SetupIPNetwork
<1>. HIDE DEF IInv
<1>. QED BY <1>1, <1>2, <1>3, <1>4, <1>5, <1>6

\* The container's mounts, and the program.
LEMMA MountsStep ==
  ASSUME IInv,
         \/ MakeMountsPrivate \/ MkdirTemp \/ FillStaging \/ BindMount \/ RemoveStaging \/ RunProgram
  PROVE  IInv'
<1>. USE DEF IInv, Typed, OrderOK, FdsOK, MountsOK, AckSent, Shadows, Goto, Processes,
       Acked, Mounting, Descriptors, args, socket, fds, mounts, resolvConfContent
<1>1. CASE MakeMountsPrivate
  BY <1>1 DEF MakeMountsPrivate, Content
<1>2. CASE MkdirTemp
  BY <1>2 DEF MkdirTemp, Content
<1>3. CASE FillStaging
  BY <1>3 DEF FillStaging, Content
<1>4. CASE BindMount
  BY <1>4 DEF BindMount, Content
<1>5. CASE RemoveStaging
  BY <1>5 DEF RemoveStaging, Content
<1>6. CASE RunProgram
  BY <1>6 DEF RunProgram, Content
<1>. HIDE DEF IInv
<1>. QED BY <1>1, <1>2, <1>3, <1>4, <1>5, <1>6

\* IInv is an inductive invariant of a run of wirez.
THEOREM Invariance == Spec => []IInv
<1>1. IInv /\ [Next]_vars => IInv'
  <2>. SUFFICES ASSUME IInv, [Next]_vars PROVE IInv'
    OBVIOUS
  <2>1. CASE UNCHANGED vars
    BY <2>1 DEF vars, args, procs, socket, fds, mounts, IInv, Typed, OrderOK, FdsOK,
       MountsOK, AckSent, Shadows, resolvConfContent
  <2>2. CASE Next
    BY <2>1, <2>2, ExitActions, WirezStep, NetworkStep, MountsStep DEF Next, Wirez, Runc
  <2>. QED BY <2>1, <2>2
<1>. QED BY <1>1, InitIInv, PTL DEF Spec

\* A program starts only with the network driven, the routes set up and both
\* files in place, and is told of no nameserver but wirez's.
THEOREM ReadyTheorem == Spec => []ReadyBeforeRun
<1>1. IInv => ReadyBeforeRun
  <2>. SUFFICES ASSUME IInv, pc["prog"] # "none"
       PROVE  /\ {"stack", "routes"} \subseteq net /\ (dns => "resolver" \in net)
              /\ DOMAIN shadowed = {"resolv.conf", "hosts"}
              /\ \A line \in shadowed["resolv.conf"] : line[1] = "nameserver" =>
                   line[2] = IF dns THEN "127.0.0.1" ELSE "10.1.1.2"
    BY DEF ReadyBeforeRun
  <2>1. {"stack", "routes"} \subseteq net /\ (dns => "resolver" \in net)
    BY DEF IInv, OrderOK, AckSent
  <2>2. Shadows({"resolv.conf", "hosts"})
    BY DEF IInv, MountsOK
  <2>. QED BY <2>1, <2>2 DEF Shadows, resolvConfContent
<1>. QED BY <1>1, Invariance, PTL

\* The program inherits no descriptor (CloseOnExec, SOCK_CLOEXEC).
THEOREM InheritTheorem == Spec => []NothingInherited
<1>1. IInv => NothingInherited
  BY DEF IInv, FdsOK, NothingInherited
<1>. QED BY <1>1, Invariance, PTL

\* bindMountFile leaves nothing on the host once the program runs, and never a
\* shadowed file.
THEOREM HostTheorem == Spec => []HostUntouched
<1>1. IInv => HostUntouched
  BY DEF IInv, MountsOK, HostUntouched
<1>. QED BY <1>1, Invariance, PTL
----------------------------------------------------------------------------
(* The exit status                                                         *)

\* n is what a shell would say of how.
Says(n, how) == n = IF how.signaled THEN 128 + how.n ELSE how.n

StatusOK ==
    /\ status \in [Processes -> [signaled : BOOLEAN, n : Nat]]
    /\ pc["wirez"] = "exited" /\ ~status["wirez"].signaled /\ AckSent =>
         pc["runc"] = "exited" /\ Says(status["wirez"].n, status["runc"])
    /\ pc["runc"] = "exited" /\ ~status["runc"].signaled /\ pc["prog"] # "none" =>
         pc["prog"] = "exited" /\ Says(status["runc"].n, status["prog"])
    /\ \A p \in {"wirez", "runc"} :
         pc[p] = "exited" /\ ~status[p].signaled /\ pc["prog"] = "none" => status[p].n # 0

\* A step that is no Exit: nobody's status changes and nobody ends, an ACK is
\* sent only by a wirez that lives on, and only a container that lives on
\* starts a program.
Continues ==
    /\ UNCHANGED status
    /\ \A p \in Processes : pc'[p] = "exited" <=> pc[p] = "exited"
    /\ AckSent' => AckSent \/ pc'["wirez"] # "exited"
    /\ pc["prog"] # "none" => pc'["prog"] # "none"
    /\ pc'["prog"] # "none" => pc["prog"] # "none" \/ pc'["runc"] # "exited"

\* Every step of wirez and of the container that is no Exit is one of these.
LEMMA WirezContinues ==
  ASSUME IInv,
         \/ Start \/ CloseChildFile \/ ReceiveFds \/ ReceiveMTU \/ BuildStack
         \/ StartResolver \/ SendACK
  PROVE  Continues
<1>. USE DEF IInv, Typed, Goto, Processes, Acked, Continues, AckSent, socket
<1>1. CASE Start
  BY <1>1 DEF Start, OrderOK
<1>2. CASE CloseChildFile
  BY <1>2 DEF CloseChildFile
<1>3. CASE ReceiveFds
  BY <1>3 DEF ReceiveFds
<1>4. CASE ReceiveMTU
  BY <1>4 DEF ReceiveMTU
<1>5. CASE BuildStack
  BY <1>5 DEF BuildStack
<1>6. CASE StartResolver
  BY <1>6 DEF StartResolver
<1>7. CASE SendACK
  BY <1>7 DEF SendACK
<1>. HIDE DEF Continues
<1>. QED BY <1>1, <1>2, <1>3, <1>4, <1>5, <1>6, <1>7

\* The same for the container's first process.
LEMMA RuncContinues ==
  ASSUME IInv,
         \/ OpenTUN \/ CreateResolverSockets \/ SendFds \/ SendMTU \/ ReceiveACK
         \/ SetupIPNetwork \/ MakeMountsPrivate \/ MkdirTemp \/ FillStaging \/ BindMount
         \/ RemoveStaging \/ RunProgram
  PROVE  Continues
<1>. USE DEF IInv, Typed, Goto, Processes, Acked, Continues, AckSent, socket
<1>1. CASE OpenTUN
  BY <1>1 DEF OpenTUN
<1>2. CASE CreateResolverSockets
  BY <1>2 DEF CreateResolverSockets
<1>3. CASE SendFds
  BY <1>3 DEF SendFds
<1>4. CASE SendMTU
  BY <1>4 DEF SendMTU
<1>5. CASE ReceiveACK
  BY <1>5 DEF ReceiveACK
<1>6. CASE SetupIPNetwork
  BY <1>6 DEF SetupIPNetwork
<1>7. CASE MakeMountsPrivate
  BY <1>7 DEF MakeMountsPrivate
<1>8. CASE MkdirTemp
  BY <1>8 DEF MkdirTemp
<1>9. CASE FillStaging
  BY <1>9 DEF FillStaging
<1>10. CASE BindMount
  BY <1>10 DEF BindMount
<1>11. CASE RemoveStaging
  BY <1>11 DEF RemoveStaging
<1>12. CASE RunProgram
  BY <1>12 DEF RunProgram, OrderOK
<1>. HIDE DEF Continues
<1>. QED BY <1>1, <1>2, <1>3, <1>4, <1>5, <1>6, <1>7, <1>8, <1>9, <1>10, <1>11, <1>12

\* A step that is no Exit keeps what is known of the statuses.
LEMMA ContinuesStatus == ASSUME StatusOK, Continues PROVE StatusOK'
BY DEF StatusOK, Continues, Says, Processes

\* A process that is killed leaves no status of its own.
LEMMA KilledStatus ==
  ASSUME IInv, StatusOK, NEW p \in Processes, Alive(p), NEW s \in Nat, Exit(p, Killed(s))
  PROVE  StatusOK'
<1>. USE DEF IInv, Typed, OrderOK, StatusOK, Says, Alive, Exit, Killed, Processes, AckSent,
       Acked, socket
<1>1. CASE p = "wirez"
  BY <1>1
<1>2. CASE p = "runc"
  BY <1>2
<1>3. CASE p = "prog"
  BY <1>3
<1>. QED BY <1>1, <1>2, <1>3 DEF Processes

\* A call of wirez or of the container that fails, or an end of file, before
\* the program runs: status 1.
LEMMA ThrowStatus ==
  ASSUME IInv, StatusOK, NEW p \in {"wirez", "runc"}, Alive(p), pc[p] # "wait",
         Exit(p, Code(1))
  PROVE  StatusOK'
<1>. USE DEF IInv, Typed, OrderOK, StatusOK, Says, Alive, Exit, Code, Processes, AckSent,
       Acked, socket
<1>1. CASE p = "wirez"
  BY <1>1
<1>2. CASE p = "runc"
  BY <1>2
<1>. QED BY <1>1, <1>2

\* The program ends by itself.
LEMMA ProgramStatus == ASSUME IInv, StatusOK, ProgramEnds PROVE StatusOK'
<1>1. PICK n \in Codes : Exit("prog", Code(n))
  BY DEF ProgramEnds
<1>2. n \in Nat
  BY StatusAssumption
<1>3. pc["prog"] = "running"
  BY DEF ProgramEnds
<1>. QED BY <1>1, <1>2, <1>3 DEF IInv, Typed, StatusOK, Says, Exit, Code, Processes,
       AckSent, Acked, socket

\* The container's first process leaves with the program's status.
LEMMA RuncReaps == ASSUME IInv, StatusOK, Reap("runc", "prog") PROVE StatusOK'
<1>1. exitCode(status["prog"]) \in Nat
  BY DEF StatusOK, exitCode, Processes
<1>. QED BY <1>1 DEF Reap, exitCode, IInv, Typed, OrderOK, StatusOK, Says, Exit, Code,
       Processes, AckSent, Acked, socket

\* wirez leaves with the status of the container's first process.
LEMMA WirezReaps == ASSUME IInv, StatusOK, Reap("wirez", "runc") PROVE StatusOK'
<1>1. exitCode(status["runc"]) \in Nat
  BY DEF StatusOK, exitCode, Processes
<1>. QED BY <1>1 DEF Reap, exitCode, IInv, Typed, OrderOK, StatusOK, Says, Exit, Code,
       Processes, AckSent, Acked, socket

\* Before anybody ended, every status is that of a running process.
LEMMA InitStatus == Init => StatusOK
BY DEF Init, StatusOK, Running, AckSent, Acked, Processes

\* No step breaks what is known of the statuses.
LEMMA NextStatus == IInv /\ StatusOK /\ [Next]_vars => StatusOK'
<1>. SUFFICES ASSUME IInv, StatusOK, [Next]_vars PROVE StatusOK'
  OBVIOUS
<1>1. CASE UNCHANGED vars
  BY <1>1 DEF vars, args, procs, socket, fds, mounts, StatusOK, AckSent
<1>2. CASE Wirez
  <2>1. CASE ReceiveEOF
    <3>1. Alive("wirez") /\ pc["wirez"] # "wait" /\ Exit("wirez", Code(1))
      BY <2>1 DEF ReceiveEOF, Alive
    <3>. QED BY <3>1, ThrowStatus
  <2>. QED BY <1>2, <2>1, WirezContinues, ContinuesStatus, WirezReaps DEF Wirez
<1>3. CASE Runc
  <2>1. CASE ReceiveACKFails
    <3>1. Alive("runc") /\ pc["runc"] # "wait" /\ Exit("runc", Code(1))
      BY <2>1 DEF ReceiveACKFails, Alive
    <3>. QED BY <3>1, ThrowStatus
  <2>. QED BY <1>3, <2>1, RuncContinues, ContinuesStatus, RuncReaps DEF Runc
<1>4. CASE Kernel
  <2>1. \E p \in Processes : Alive(p) /\ Exit(p, Killed(9))
    BY <1>4 DEF Kernel, DeathSignal, Processes, SIGKILL
  <2>. QED BY <2>1, KilledStatus
<1>5. ASSUME NEW p \in Processes, Throws(p) PROVE StatusOK'
  <2>1. p \in {"wirez", "runc"} /\ Alive(p) /\ pc[p] # "wait" /\ Exit(p, Code(1))
    BY <1>5 DEF Throws, Processes
  <2>. QED BY <2>1, ThrowStatus
<1>6. ASSUME NEW p \in Processes, NEW s \in Signals, Kill(p, s) PROVE StatusOK'
  <2>1. s \in Nat /\ Alive(p) /\ Exit(p, Killed(s))
    BY <1>6, StatusAssumption DEF Kill
  <2>. QED BY <2>1, KilledStatus
<1>. QED BY <1>1, <1>2, <1>3, <1>4, <1>5, <1>6, ProgramStatus DEF Next

\* wirez leaves with its program's status, and with a failure when there was
\* no program (main, exitCode).
THEOREM StatusTheorem == Spec => []StatusPassedOn
<1>1. StatusOK /\ IInv => StatusPassedOn
  BY DEF StatusOK, StatusPassedOn, Says, AckSent, Processes
<1>. QED BY <1>1, InitStatus, NextStatus, Invariance, PTL DEF Spec

----------------------------------------------------------------------------
(* /etc/hosts                                                              *)

\* A set of line numbers that is not empty has a least one.
LEMMA LeastOf ==
  ASSUME NEW S \in SUBSET Nat, S # {} PROVE \E j \in S : \A i \in S : j <= i
<1>. DEFINE T == {0 .. m : m \in S}
            R == StrictSubsetOrdering(Nat)
<1>1. T \subseteq FiniteSubsetsOf(Nat)
  <2>. SUFFICES ASSUME NEW m \in S PROVE 0 .. m \in SUBSET Nat /\ IsFiniteSet(0 .. m)
    BY Zenon DEF FiniteSubsetsOf
  <2>1. 0 \in Int /\ m \in Int /\ 0 .. m \in SUBSET Nat
    OBVIOUS
  <2>. QED BY <2>1, FS_Interval, Zenon
<1>2. T # {}
  BY Zenon
<1>3. PICK x \in T : \A y \in T : ~(<<y, x>> \in R)
  <2>. HIDE DEF T, R
  <2>1. IsWellFoundedOn(R, FiniteSubsetsOf(Nat))
    BY FS_StrictSubsetOrderingWellFounded, Zenon DEF R
  <2>. QED BY <1>1, <1>2, <2>1, WFMin, Zenon
<1>4. PICK j \in S : x = 0 .. j
  BY Zenon
<1>5. ASSUME NEW i \in S, ~(j <= i) PROVE FALSE
  <2>1. 0 .. i \in T /\ 0 .. j \in T
    BY Zenon
  <2>2. 0 .. i \subseteq 0 .. j /\ j \in 0 .. j /\ j \notin 0 .. i
    BY <1>5
  <2>3. 0 .. i # 0 .. j
    BY <2>2, Zenon
  <2>4. 0 .. i \in FiniteSubsetsOf(Nat) /\ 0 .. j \in FiniteSubsetsOf(Nat)
    BY <1>1, <2>1, Zenon
  <2>5. 0 .. i \in SUBSET Nat /\ 0 .. j \in SUBSET Nat
    OBVIOUS
  <2>6. <<0 .. i, 0 .. j>> \in R
    BY <2>2, <2>3, <2>4, <2>5, Zenon DEF StrictSubsetOrdering
  <2>. QED BY <1>3, <1>4, <2>1, <2>6, Zenon
<1>. QED BY <1>4, <1>5, Zenon

\* First finds the only line of its name that has none before it.
LEMMA FirstIs ==
  ASSUME NEW L, NEW lines \in Seq(L), NEW name, NEW i \in 1 .. Len(lines), lines[i][1] = name,
         \A j \in 1 .. i - 1 : lines[j][1] # name
  PROVE  First(lines, name) = i
<1>1. DOMAIN lines = 1 .. Len(lines)
  OBVIOUS
<1>2. ASSUME NEW k \in DOMAIN lines, lines[k][1] = name,
             \A j \in 1 .. k - 1 : lines[j][1] # name
      PROVE  k = i
  <2>1. i \in Nat /\ k \in Nat /\ 1 <= i /\ 1 <= k
    BY <1>1
  <2>2. ~(i < k) /\ ~(k < i)
    <3>1. i < k => i \in 1 .. k - 1
      BY <2>1
    <3>2. k < i => k \in 1 .. i - 1
      BY <2>1
    <3>. QED BY <1>2, <3>1, <3>2, Zenon
  <2>. QED BY <2>1, <2>2
<1>. QED BY <1>1, <1>2, Zenon DEF First

\* A name has a first line in every file that has a line for it.
LEMMA HasFirst ==
  ASSUME NEW L, NEW lines \in Seq(L), NEW k \in 1 .. Len(lines)
  PROVE  \E i \in 1 .. Len(lines) :
            lines[i][1] = lines[k][1] /\ \A j \in 1 .. i - 1 : lines[j][1] # lines[k][1]
<1>. DEFINE S == {i \in 1 .. Len(lines) : lines[i][1] = lines[k][1]}
<1>1. S \in SUBSET Nat /\ S # {}
  OBVIOUS
<1>2. PICK i \in S : \A j \in S : i <= j
  <2>. HIDE DEF S
  <2>. QED BY <1>1, LeastOf, Zenon
<1>3. ASSUME NEW j \in 1 .. i - 1 PROVE lines[j][1] # lines[k][1]
  <2>1. j \in 1 .. Len(lines) /\ ~(i <= j)
    BY <1>2
  <2>. QED BY <1>2, <2>1, Zenon
<1>. QED BY <1>2, <1>3, Zenon

\* hostsContent puts wirez's own lines last, so they hide none of the host's.
LEMMA OwnLast ==
  ASSUME NEW L, NEW host \in Seq(L), NEW k \in DOMAIN host
  PROVE  hostsContent(host)[First(hostsContent(host), host[k][1])]
           = host[First(host, host[k][1])]
<1>. DEFINE M == L \cup {Own[i] : i \in 1 .. 5}
            all == host \o Own
            name == host[k][1]
<1>1. k \in 1 .. Len(host) /\ Len(host) \in Nat
  OBVIOUS
<1>2. PICK i \in 1 .. Len(host) :
         host[i][1] = host[k][1] /\ \A j \in 1 .. i - 1 : host[j][1] # host[k][1]
  BY <1>1, HasFirst, Zenon
<1>3. host \in Seq(M) /\ Own \in Seq(M) /\ Len(Own) = 5
  <2>1. Len(Own) = 5 /\ Own \in Seq({Own[j] : j \in 1 .. 5})
    BY DEF Own
  <2>. HIDE DEF Own
  <2>. QED BY <2>1
<1>4. /\ all \in Seq(M)
      /\ Len(all) = Len(host) + 5
      /\ \A j \in 1 .. Len(host) : all[j] = host[j]
  <2>. HIDE DEF M
  <2>1. /\ all \in Seq(M)
        /\ Len(all) = Len(host) + Len(Own)
        /\ \A j \in 1 .. Len(host) + Len(Own) :
             all[j] = IF j <= Len(host) THEN host[j] ELSE Own[j - Len(host)]
    BY <1>3, ConcatProperties, Zenon
  <2>. HIDE DEF all
  <2>2. ASSUME NEW j \in 1 .. Len(host) PROVE j \in 1 .. Len(host) + Len(Own) /\ j <= Len(host)
    BY <1>1, <1>3
  <2>. QED BY <1>3, <2>1, <2>2, Zenon
<1>5. i \in 1 .. Len(all) /\ \A j \in 1 .. i - 1 : j \in 1 .. Len(host)
  BY <1>1, <1>4
<1>6. First(host, name) = i
  BY <1>2, FirstIs, Zenon
<1>7. First(all, name) = i
  <2>1. all[i][1] = name /\ \A j \in 1 .. i - 1 : all[j][1] # name
    BY <1>2, <1>4, <1>5, Zenon
  <2>2. all \in Seq(M) /\ i \in 1 .. Len(all)
    BY <1>4, <1>5, Zenon
  <2>. HIDE DEF M, all, name
  <2>. QED BY <2>1, <2>2, FirstIs, ZenonT(40)
<1>8. all[i] = host[i]
  BY <1>2, <1>4, Zenon
<1>. QED BY <1>6, <1>7, <1>8, Zenon DEF hostsContent

\* The lines mounted over /etc/hosts.
HostsOK ==
    /\ files \in HostFiles
    /\ "hosts" \in DOMAIN shadowed => shadowed["hosts"] = hostsContent(files.hosts)

\* Only bindMountFile writes it.
LEMMA HostsStep == HostsOK /\ [Next]_vars => HostsOK'
<1>. SUFFICES ASSUME HostsOK, [Next]_vars PROVE HostsOK'
  OBVIOUS
<1>1. CASE BindMount
  <2>1. UNCHANGED files
    BY <1>1, Zenon DEF BindMount, Goto, args
  <2>2. shadowed' = [f \in DOMAIN shadowed \cup {target} |->
                       IF f = target THEN Content ELSE shadowed[f]]
    BY <1>1, Zenon DEF BindMount
  <2>. QED BY <2>1, <2>2 DEF HostsOK, Content, hostsContent
<1>2. CASE UNCHANGED vars
  BY <1>2, Zenon DEF vars, args, mounts, HostsOK, hostsContent
<1>3. CASE Next /\ ~BindMount
  <2>1. UNCHANGED <<files, shadowed>>
    BY <1>2, <1>3, Zenon DEF Next, Wirez, Runc, Kernel, ProgramEnds, Throws, Kill, Exit, Goto,
       Start, CloseChildFile, ReceiveFds, ReceiveMTU, ReceiveEOF, BuildStack, StartResolver,
       SendACK, Reap, OpenTUN, CreateResolverSockets, SendFds, SendMTU, ReceiveACK,
       ReceiveACKFails, SetupIPNetwork, MakeMountsPrivate, MkdirTemp, FillStaging,
       RemoveStaging, RunProgram, DeathSignal, args, mounts, vars
  <2>. QED BY <2>1 DEF HostsOK, hostsContent
<1>. QED BY <1>1, <1>2, <1>3, Zenon

\* The names of the host's /etc/hosts keep their addresses inside
\* (hostsContent), for every host file.
THEOREM HostsTheorem == Spec => []HostEntriesStay
<1>1. Init => HostsOK
  <2>. SUFFICES ASSUME Init PROVE HostsOK
    OBVIOUS
  <2>1. DOMAIN shadowed = {}
    BY DEF Init
  <2>. QED BY <2>1, Zenon DEF Init, HostsOK
<1>2. IInv /\ HostsOK => HostEntriesStay
  <2>. SUFFICES ASSUME IInv, HostsOK, pc["prog"] # "none", NEW k \in DOMAIN files.hosts
       PROVE  shadowed["hosts"][First(shadowed["hosts"], files.hosts[k][1])]
                = files.hosts[First(files.hosts, files.hosts[k][1])]
    BY Zenon DEF HostEntriesStay
  <2>1. shadowed["hosts"] = hostsContent(files.hosts)
    BY Zenon DEF IInv, MountsOK, Shadows, HostsOK
  <2>2. PICK L : files.hosts \in Seq(L)
    BY FilesAssumption, Zenon DEF HostsOK
  <2>. QED BY <2>1, <2>2, OwnLast, Zenon
<1>. QED BY <1>1, <1>2, HostsStep, Invariance, PTL DEF Spec

----------------------------------------------------------------------------
(* Types                                                                   *)

\* Where each process may be.
Places ==
    /\ pc["wirez"] \in {"start", "close", "recvFds", "recvMTU", "stack", "resolver",
                        "ack", "wait", "exited"}
    /\ pc["runc"] \in {"none", "tun", "sockets", "sendFds", "sendMTU", "recvACK",
                       "setupIP", "private", "stage", "fill", "bind", "unstage",
                       "exec", "wait", "exited"}
    /\ pc["prog"] \in {"none", "running", "exited"}

\* The status of a process that ended: a code fits a byte, and so does what
\* exitCode makes of a signal.
Ends == {how \in [signaled : BOOLEAN, n : 0 .. 255] : how.signaled => how.n <= 64}

Ended ==
    /\ status \in [Processes -> Ends \cup {Running}]
    /\ \A p \in Processes : status[p] = Running <=> pc[p] # "exited"

\* The control socket holds what the container has sent and wirez has not
\* read, at most the descriptors and the MTU, and at most one ACK.
Messages ==
    /\ toWirez \in Seq(SUBSET {"tun", "dns", "mtu"}) /\ toRunc \in Seq({"ack"})
    /\ pc["runc"] \in {"none", "tun", "sockets", "sendFds"} => Len(toWirez) = 0
    /\ pc["runc"] = "sendMTU" => Len(toWirez) <= 1
    /\ Len(toWirez) <= 2 /\ Len(toRunc) <= 1

\* What is served and what is shadowed.
Named ==
    /\ net \subseteq {"stack", "resolver", "routes"}
    /\ DOMAIN shadowed \subseteq {"resolv.conf", "hosts"}

Types == Places /\ Ended /\ Messages /\ Named

\* exitCode makes a status of a status.
LEMMA ExitCodeEnds == ASSUME NEW how \in Ends PROVE Code(exitCode(how)) \in Ends
BY DEF Ends, Code, exitCode

\* A process that ends, in whatever way, is there to stay.
LEMMA ExitTypes ==
  ASSUME IInv, Types, NEW p \in Processes, NEW how \in Ends, Exit(p, how) PROVE Types'
<1>1. how # Running
  BY DEF Ends, Running
<1>2. pc' = [pc EXCEPT ![p] = "exited"] /\ status' = [status EXCEPT ![p] = how]
  BY Zenon DEF Exit
<1>3. UNCHANGED <<toWirez, toRunc, net, shadowed>>
  BY Zenon DEF Exit, socket, mounts
<1>4. DOMAIN pc = Processes
  BY DEF IInv, Typed
<1>5. \A q \in Processes : pc'[q] = IF q = p THEN "exited" ELSE pc[q]
  BY <1>2, <1>4
<1>6. "wirez" \in Processes /\ "runc" \in Processes /\ "prog" \in Processes
  BY DEF Processes
<1>7. Places'
  BY <1>5, <1>6 DEF Types, Places
<1>8. Ended'
  BY <1>1, <1>2, <1>5 DEF Types, Ended
<1>9. Messages'
  <2>1. pc'["runc"] # "exited" => pc'["runc"] = pc["runc"]
    BY <1>5, <1>6
  <2>2. Messages
    BY DEF Types
  <2>. QED BY <1>3, <2>1, <2>2, Zenon DEF Messages
<1>. QED BY <1>3, <1>7, <1>8, <1>9 DEF Types, Named

\* Every way out leaves a status that fits.
LEMMA ExitActionsTypes ==
  ASSUME IInv, Types,
         \/ Reap("wirez", "runc") \/ Reap("runc", "prog") \/ Kernel \/ ProgramEnds
         \/ ReceiveEOF \/ ReceiveACKFails
         \/ \E p \in Processes : Throws(p) \/ \E s \in Signals : Kill(p, s)
  PROVE  Types'
<1>1. \E p \in Processes : \E how \in Ends : Exit(p, how)
  <2>1. /\ "wirez" \in Processes /\ "runc" \in Processes /\ "prog" \in Processes
        /\ Code(1) \in Ends /\ Killed(SIGKILL) \in Ends
        /\ \A n \in Codes : Code(n) \in Ends
        /\ \A s \in Signals : Killed(s) \in Ends
    BY StatusAssumption DEF Processes, Ends, Code, Killed, SIGKILL
  <2>2. \A p \in Processes : pc[p] = "exited" => status[p] \in Ends
    BY Zenon DEF Types, Ended
  <2>3. ASSUME NEW p \in Processes, NEW other \in Processes, Reap(p, other)
        PROVE  \E how \in Ends : Exit(p, how)
    <3>1. status[other] \in Ends /\ Exit(p, Code(exitCode(status[other])))
      BY <2>2, <2>3, Zenon DEF Reap
    <3>. QED BY <3>1, ExitCodeEnds, Zenon
  <2>. QED BY <2>1, <2>3, Zenon DEF Kernel, DeathSignal, ProgramEnds, ReceiveEOF,
                ReceiveACKFails, Throws, Kill
<1>. QED BY <1>1, ExitTypes, Zenon

\* One process goes on to a place that is not its end: its messages are what
\* is left to type.
LEMMA GotoTypes ==
  ASSUME IInv, Types, NEW p \in Processes, NEW from, NEW to, Goto(p, from, to),
         from # "exited", to # "exited"
  PROVE  Ended' /\ pc'[p] = to /\ \A q \in Processes : q # p => pc'[q] = pc[q]
<1>1. pc' = [pc EXCEPT ![p] = to] /\ UNCHANGED status /\ pc[p] = from
  BY Zenon DEF Goto
<1>2. pc'[p] = to /\ \A q \in Processes : q # p => pc'[q] = pc[q]
  BY <1>1 DEF IInv, Typed
<1>. QED BY <1>1, <1>2 DEF Types, Ended

\* The steps of wirez that go on.
LEMMA WirezTypes ==
  ASSUME IInv, Types,
         \/ CloseChildFile \/ ReceiveFds \/ ReceiveMTU \/ BuildStack \/ StartResolver \/ SendACK
  PROVE  Types'
<1>1. "wirez" \in Processes /\ "runc" \in Processes /\ "prog" \in Processes
  BY DEF Processes
<1>2. PICK from \in {"close", "recvFds", "recvMTU", "stack", "resolver", "ack"},
           to \in {"recvFds", "recvMTU", "stack", "resolver", "ack", "wait"} :
        Goto("wirez", from, to)
  BY Zenon DEF CloseChildFile, ReceiveFds, ReceiveMTU, BuildStack, StartResolver, SendACK
<1>3. Ended' /\ pc'["wirez"] = to /\ \A q \in Processes : q # "wirez" => pc'[q] = pc[q]
  <2>1. from # "exited" /\ to # "exited"
    OBVIOUS
  <2>. QED BY <1>1, <1>2, <2>1, GotoTypes, Zenon
<1>4. pc'["runc"] = pc["runc"] /\ pc'["prog"] = pc["prog"]
  BY <1>1, <1>3
<1>5. Places'
  BY <1>3, <1>4 DEF Types, Places
<1>6. UNCHANGED shadowed /\ (net' = net \/ net' = net \cup {"stack"} \/ net' = net \cup {"resolver"})
  BY Zenon DEF CloseChildFile, ReceiveFds, ReceiveMTU, BuildStack, StartResolver, SendACK,
       mounts
<1>7. Named'
  <2>1. net \subseteq {"stack", "resolver", "routes"}
    BY Zenon DEF Types, Named
  <2>2. net' \subseteq {"stack", "resolver", "routes"}
    BY <1>6, <2>1, Zenon
  <2>. QED BY <1>6, <2>2, Zenon DEF Types, Named
<1>8. Messages'
  <2>. DEFINE F == SUBSET {"tun", "dns", "mtu"}
  <2>1. CASE CloseChildFile \/ BuildStack \/ StartResolver
    <3>1. UNCHANGED <<toWirez, toRunc>>
      BY <2>1, Zenon DEF CloseChildFile, BuildStack, StartResolver, socket
    <3>. QED BY <1>4, <3>1, Zenon DEF Types, Messages
  <2>2. CASE ReceiveFds \/ ReceiveMTU
    <3>1. toWirez # <<>> /\ toWirez' = Tail(toWirez) /\ UNCHANGED toRunc
      BY <2>2, Zenon DEF ReceiveFds, ReceiveMTU
    <3>2. toWirez \in Seq(F) /\ Len(toWirez) <= 2
      BY Zenon DEF Types, Messages
    <3>3. toWirez' \in Seq(F) /\ Len(toWirez') = Len(toWirez) - 1 /\ Len(toWirez) \in Nat
      <4>. HIDE DEF F
      <4>. QED BY <3>1, <3>2
    <3>4. Len(toWirez) # 0
      <4>. HIDE DEF F
      <4>. QED BY <3>1, <3>2
    <3>5. /\ pc["runc"] \in {"none", "tun", "sockets", "sendFds"} => Len(toWirez) = 0
          /\ pc["runc"] = "sendMTU" => Len(toWirez) <= 1
          /\ toRunc \in Seq({"ack"}) /\ Len(toRunc) <= 1
      BY Zenon DEF Types, Messages
    <3>6. /\ pc'["runc"] \in {"none", "tun", "sockets", "sendFds"} => Len(toWirez') = 0
          /\ pc'["runc"] = "sendMTU" => Len(toWirez') <= 1
          /\ Len(toWirez') <= 2
      BY <1>4, <3>2, <3>3, <3>4, <3>5
    <3>. QED BY <3>1, <3>3, <3>5, <3>6, Zenon DEF Messages
  <2>3. CASE SendACK
    <3>1. pc["wirez"] = "ack" /\ toRunc' = Append(toRunc, "ack") /\ UNCHANGED toWirez
      BY <2>3, Zenon DEF SendACK, Goto
    <3>2. toRunc = <<>>
      BY <3>1 DEF IInv, OrderOK, AckSent
    <3>3. toRunc' \in Seq({"ack"}) /\ Len(toRunc') <= 1
      BY <3>1, <3>2
    <3>. QED BY <1>4, <3>1, <3>3, Zenon DEF Types, Messages
  <2>. QED BY <2>1, <2>2, <2>3
<1>. QED BY <1>3, <1>5, <1>7, <1>8, Zenon DEF Types

\* The steps of the container's first process that go on.
LEMMA RuncTypes ==
  ASSUME IInv, Types,
         \/ OpenTUN \/ CreateResolverSockets \/ SendFds \/ SendMTU \/ ReceiveACK
         \/ SetupIPNetwork \/ MakeMountsPrivate \/ MkdirTemp \/ FillStaging \/ BindMount
         \/ RemoveStaging
  PROVE  Types'
<1>. DEFINE At == {"tun", "sockets", "sendFds", "sendMTU", "recvACK", "setupIP", "private",
                   "stage", "fill", "bind", "unstage", "exec"}
            F == SUBSET {"tun", "dns", "mtu"}
<1>1. "wirez" \in Processes /\ "runc" \in Processes /\ "prog" \in Processes
  BY DEF Processes
<1>2. PICK from \in At, to \in At : Goto("runc", from, to)
  BY Zenon DEF OpenTUN, CreateResolverSockets, SendFds, SendMTU, ReceiveACK,
       SetupIPNetwork, MakeMountsPrivate, MkdirTemp, FillStaging, BindMount, RemoveStaging
<1>3. Ended' /\ pc'["runc"] = to /\ \A q \in Processes : q # "runc" => pc'[q] = pc[q]
  <2>1. from # "exited" /\ to # "exited"
    OBVIOUS
  <2>. QED BY <1>1, <1>2, <2>1, GotoTypes, Zenon
<1>4. Places'
  <2>1. pc'["wirez"] = pc["wirez"] /\ pc'["prog"] = pc["prog"]
    BY <1>1, <1>3
  <2>. QED BY <1>3, <2>1 DEF Types, Places
<1>5. Named'
  <2>1. net' = net \/ net' = net \cup {"routes"}
    BY Zenon DEF OpenTUN, CreateResolverSockets, SendFds, SendMTU, ReceiveACK,
       SetupIPNetwork, MakeMountsPrivate, MkdirTemp, FillStaging, BindMount, RemoveStaging
  <2>2. DOMAIN shadowed' \subseteq DOMAIN shadowed \cup {target}
    <3>1. CASE BindMount
      BY <3>1 DEF BindMount
    <3>2. CASE ~BindMount
      <4>1. UNCHANGED shadowed
        BY <3>2, Zenon DEF OpenTUN, CreateResolverSockets, SendFds, SendMTU, ReceiveACK,
             SetupIPNetwork, MakeMountsPrivate, MkdirTemp, FillStaging, RemoveStaging, mounts
      <4>. QED BY <4>1
    <3>. QED BY <3>1, <3>2
  <2>3. target \in {"resolv.conf", "hosts"}
    BY Zenon DEF IInv, MountsOK
  <2>4. net \subseteq {"stack", "resolver", "routes"} /\ DOMAIN shadowed \subseteq {"resolv.conf", "hosts"}
    BY Zenon DEF Types, Named
  <2>5. net' \subseteq {"stack", "resolver", "routes"}
    BY <2>1, <2>4, Zenon
  <2>6. DOMAIN shadowed' \subseteq {"resolv.conf", "hosts"}
    BY <2>2, <2>3, <2>4, Zenon
  <2>. QED BY <2>5, <2>6, Zenon DEF Named
<1>6. /\ toWirez \in Seq(F) /\ toRunc \in Seq({"ack"})
      /\ pc["runc"] \in {"none", "tun", "sockets", "sendFds"} => Len(toWirez) = 0
      /\ pc["runc"] = "sendMTU" => Len(toWirez) <= 1
      /\ Len(toWirez) <= 2 /\ Len(toRunc) <= 1
  BY Zenon DEF Types, Messages
<1>7. Messages'
  <2>1. CASE OpenTUN \/ CreateResolverSockets
    <3>1. UNCHANGED <<toWirez, toRunc>> /\ pc["runc"] \in {"tun", "sockets"}
      BY <2>1, Zenon DEF OpenTUN, CreateResolverSockets, socket, Goto
    <3>2. Len(toWirez) = 0 /\ Len(toWirez) <= 1
      BY <1>6, <3>1
    <3>. QED BY <1>6, <3>1, <3>2, Zenon DEF Messages
  <2>2. CASE SendFds \/ SendMTU
    <3>1. PICK m \in F : toWirez' = Append(toWirez, m)
      <4>1. Rights \in F /\ {"mtu"} \in F
        BY DEF Rights
      <4>. QED BY <2>2, <4>1, Zenon DEF SendFds, SendMTU
    <3>2. UNCHANGED toRunc
      BY <2>2, Zenon DEF SendFds, SendMTU
    <3>3. toWirez' \in Seq(F) /\ Len(toWirez') = Len(toWirez) + 1 /\ Len(toWirez) \in Nat
      <4>. HIDE DEF F
      <4>. QED BY <1>6, <3>1
    <3>4. \/ pc["runc"] = "sendFds" /\ pc' = [pc EXCEPT !["runc"] = "sendMTU"]
          \/ pc["runc"] = "sendMTU" /\ pc' = [pc EXCEPT !["runc"] = "recvACK"]
      BY <2>2, Zenon DEF SendFds, SendMTU, Goto
    <3>5. \/ pc["runc"] = "sendFds" /\ pc'["runc"] = "sendMTU"
          \/ pc["runc"] = "sendMTU" /\ pc'["runc"] = "recvACK"
      BY <1>1, <3>4 DEF IInv, Typed
    <3>6. /\ pc'["runc"] \in {"none", "tun", "sockets", "sendFds"} => Len(toWirez') = 0
          /\ pc'["runc"] = "sendMTU" => Len(toWirez') <= 1
          /\ Len(toWirez') <= 2
      BY <1>6, <3>3, <3>5
    <3>. QED BY <1>6, <3>2, <3>3, <3>6, Zenon DEF Messages
  <2>3. CASE \/ ReceiveACK \/ SetupIPNetwork \/ MakeMountsPrivate \/ MkdirTemp
             \/ FillStaging \/ BindMount \/ RemoveStaging
    <3>1. UNCHANGED toWirez
      BY <2>3, Zenon DEF ReceiveACK, SetupIPNetwork, MakeMountsPrivate, MkdirTemp,
           FillStaging, BindMount, RemoveStaging, socket
    <3>2. toRunc' = toRunc \/ (toRunc # <<>> /\ toRunc' = Tail(toRunc))
      BY <2>3, Zenon DEF ReceiveACK, SetupIPNetwork, MakeMountsPrivate, MkdirTemp,
           FillStaging, BindMount, RemoveStaging, socket
    <3>3. toRunc' \in Seq({"ack"}) /\ Len(toRunc') <= 1
      BY <1>6, <3>2
    <3>4. pc'["runc"] \in {"setupIP", "private", "stage", "fill", "bind", "unstage", "exec"}
      <4>1. \E t \in {"setupIP", "private", "stage", "fill", "bind", "unstage", "exec"} :
               pc' = [pc EXCEPT !["runc"] = t]
        BY <2>3, Zenon DEF ReceiveACK, SetupIPNetwork, MakeMountsPrivate, MkdirTemp,
             FillStaging, BindMount, RemoveStaging, Goto
      <4>. QED BY <1>1, <4>1 DEF IInv, Typed
    <3>5. pc'["runc"] \notin {"none", "tun", "sockets", "sendFds", "sendMTU"}
      BY <3>4
    <3>. QED BY <1>6, <3>1, <3>3, <3>5, Zenon DEF Messages
  <2>. QED BY <2>1, <2>2, <2>3, Zenon
<1>. QED BY <1>3, <1>4, <1>5, <1>7, Zenon DEF Types

\* Start and RunProgram each move two processes.
LEMMA ForkTypes == ASSUME IInv, Types, Start \/ RunProgram PROVE Types'
<1>1. UNCHANGED <<status, toWirez, toRunc, net, shadowed>>
  BY Zenon DEF Start, RunProgram, socket, mounts
<1>2. \/ /\ pc["wirez"] = "start" /\ pc["runc"] = "none"
         /\ pc' = [pc EXCEPT !["wirez"] = "close", !["runc"] = "tun"]
      \/ /\ pc["runc"] = "exec" /\ pc["prog"] = "none"
         /\ pc' = [pc EXCEPT !["runc"] = "wait", !["prog"] = "running"]
  BY DEF Start, RunProgram, IInv, OrderOK
<1>3. \/ /\ pc["wirez"] = "start" /\ pc["runc"] = "none" /\ pc'["wirez"] = "close"
         /\ pc'["runc"] = "tun" /\ pc'["prog"] = pc["prog"]
      \/ /\ pc["runc"] = "exec" /\ pc["prog"] = "none" /\ pc'["wirez"] = pc["wirez"]
         /\ pc'["runc"] = "wait" /\ pc'["prog"] = "running"
  BY <1>2 DEF IInv, Typed, Processes
<1>4. Places'
  BY <1>3 DEF Types, Places
<1>5. Ended'
  BY <1>1, <1>3 DEF Types, Ended, Processes
<1>6. Messages'
  BY <1>1, <1>3, Zenon DEF Types, Messages
<1>. QED BY <1>1, <1>4, <1>5, <1>6 DEF Types, Named

\* Every step of a run keeps the types.
LEMMA TypesInvariance == Spec => []Types
<1>1. Init => Types
  <2>. SUFFICES ASSUME Init PROVE Types
    OBVIOUS
  <2>1. DOMAIN shadowed = {}
    BY DEF Init
  <2>2. Places /\ Ended
    BY DEF Init, Places, Ended, Processes
  <2>3. Messages
    BY DEF Init, Messages
  <2>. QED BY <2>1, <2>2, <2>3 DEF Init, Types, Named
<1>2. IInv /\ Types /\ [Next]_vars => Types'
  <2>. SUFFICES ASSUME IInv, Types, [Next]_vars PROVE Types'
    OBVIOUS
  <2>1. CASE UNCHANGED vars
    BY <2>1, Zenon DEF vars, procs, socket, mounts, Types, Places, Ended, Messages, Named
  <2>. QED BY <2>1, ExitActionsTypes, WirezTypes, RuncTypes, ForkTypes, Zenon
           DEF Next, Wirez, Runc
<1>. QED BY <1>1, <1>2, Invariance, PTL DEF Spec

\* The types of a run: no process takes a step of another, a status always
\* fits a byte and is never taken for that of a process that runs, and the
\* control socket never holds more than the container's two messages and one
\* ACK (exitCode, runRun, runContainer).
THEOREM TypesTheorem == Spec => []TypeOK
<1>1. IInv /\ Types => TypeOK
  <2>1. IInv => \A p \in Processes : holds[p] \subseteq {"parentEnd", "childEnd", "tun", "dns"}
    BY DEF IInv, Typed, Descriptors
  <2>. QED BY <2>1, Zenon DEF Types, Places, Ended, Messages, Named, TypeOK
<1>. QED BY <1>1, TypesInvariance, Invariance, PTL

----------------------------------------------------------------------------
(* Who waits for whom                                                      *)

\* The messages on the control socket that wirez may have yet to read.
Empty == <<>>
Descs == <<Rights>>
Both == <<Rights, {"mtu"}>>
OnlyMTU == <<{"mtu"}>>

\* Where the container is before it sends the first, and after the second.
NotSent == {"none", "tun", "sockets", "sendFds"}
SentAll == {"recvACK"} \cup Acked

\* What wirez has read and what is left to read is what the container sent.
Handshake ==
    /\ pc["wirez"] \in {"start", "close", "recvFds"} =>
         /\ toWirez \in {Empty, Descs, Both}
         /\ pc["runc"] \in NotSent => toWirez = Empty
         /\ pc["runc"] = "sendMTU" => toWirez = Descs
         /\ pc["runc"] \in SentAll => toWirez = Both
    /\ pc["wirez"] = "recvMTU" =>
         /\ toWirez \in {Empty, OnlyMTU}
         /\ pc["runc"] \notin NotSent
         /\ pc["runc"] = "sendMTU" => toWirez = Empty
         /\ pc["runc"] \in SentAll => toWirez = OnlyMTU
    /\ pc["wirez"] \in {"stack", "resolver", "ack", "wait"} =>
         pc["runc"] \in SentAll \cup {"exited"}
    /\ pc["wirez"] = "wait" /\ pc["runc"] = "recvACK" => toRunc # Empty
    /\ pc["wirez"] \notin {"start", "exited"} => pc["runc"] # "none"
    /\ pc["runc"] = "wait" => pc["prog"] # "none"

\* Who holds the ends of the control socket.
EndsOK ==
    /\ pc["wirez"] \notin {"start", "close"} => "childEnd" \notin holds["wirez"]
    /\ "parentEnd" \notin holds["runc"]
    /\ \A p \in Processes : pc[p] = "exited" => holds[p] = {}

\* A process blocks in a read of the control socket: nothing is there to be
\* read, not even the end of file.
Blocked(p) ==
    \/ /\ p = "wirez" /\ pc[p] \in {"recvFds", "recvMTU"}
       /\ toWirez = <<>> /\ IsOpen("childEnd")
    \/ p = "runc" /\ pc[p] = "recvACK" /\ toRunc = <<>> /\ IsOpen("parentEnd")

\* A process that blocks waits for one that is alive and on its way to the
\* write: the two never wait for each other, and neither waits for one that
\* is gone.  What wirez reads is what it waits for, and whoever waits for a
\* process has started it.
NoVainWait ==
    /\ Blocked("wirez") =>
         pc["runc"] \in {"tun", "sockets", "sendFds", "sendMTU"} /\ ~Blocked("runc")
    /\ Blocked("runc") =>
         pc["wirez"] \in {"close", "recvFds", "recvMTU", "stack", "resolver", "ack"}
    /\ pc["wirez"] = "recvFds" /\ toWirez # <<>> => Head(toWirez) = Rights
    /\ pc["wirez"] = "recvMTU" /\ toWirez # <<>> => Head(toWirez) = {"mtu"}
    /\ pc["wirez"] = "wait" => pc["runc"] # "none"
    /\ pc["runc"] = "wait" => pc["prog"] # "none"

\* The messages, one written or read at a time.
LEMMA Letters ==
  /\ Append(Empty, Rights) = Descs /\ Append(Descs, {"mtu"}) = Both
  /\ Append(Empty, {"mtu"}) = OnlyMTU
  /\ Tail(Descs) = Empty /\ Tail(Both) = OnlyMTU
  /\ Descs # Empty /\ Both # Empty /\ OnlyMTU # Empty
  /\ Head(Descs) = Rights /\ Head(Both) = Rights /\ Head(OnlyMTU) = {"mtu"}
<1>. SUFFICES ASSUME NEW r, NEW m
     PROVE  /\ Append(<<>>, r) = <<r>> /\ Append(<<r>>, m) = <<r, m>>
            /\ Tail(<<r>>) = <<>> /\ Tail(<<r, m>>) = <<m>>
            /\ <<r>> # <<>> /\ <<r, m>> # <<>>
            /\ Head(<<r>>) = r /\ Head(<<r, m>>) = r
  BY Zenon DEF Empty, Descs, Both, OnlyMTU
<1>1. Append(<<>>, r) = <<r>>
  OBVIOUS
<1>2. Append(<<r>>, m) = <<r, m>>
  <2>. DEFINE a == Append(<<r>>, m)
              b == <<r, m>>
  <2>1. <<r>> \in Seq({r, m}) /\ Len(<<r>>) = 1 /\ <<r>>[1] = r
    OBVIOUS
  <2>2. a \in Seq({r, m}) /\ Len(a) = 2 /\ a[1] = r /\ a[2] = m
    BY <2>1
  <2>3. b \in Seq({r, m}) /\ Len(b) = 2 /\ b[1] = r /\ b[2] = m
    OBVIOUS
  <2>. HIDE DEF a, b
  <2>4. \A i \in 1 .. Len(a) : a[i] = b[i]
    BY <2>2, <2>3
  <2>5. a = b
    BY <2>2, <2>3, <2>4, SeqEqual, Zenon
  <2>. QED BY <2>5, Zenon DEF a, b
<1>3. Tail(<<r>>) = <<>>
  OBVIOUS
<1>4. Tail(<<r, m>>) = <<m>>
  OBVIOUS
<1>5. <<r>> # <<>> /\ <<r, m>> # <<>>
  OBVIOUS
<1>6. Head(<<r>>) = r /\ Head(<<r, m>>) = r
  OBVIOUS
<1>. QED BY <1>1, <1>2, <1>3, <1>4, <1>5, <1>6, Zenon

\* The flags of a run do not change, nor do the messages they make.
LEMMA SameMessages ==
  ASSUME UNCHANGED dns PROVE Empty' = Empty /\ Descs' = Descs /\ Both' = Both /\ OnlyMTU' = OnlyMTU
BY Zenon DEF Empty, Descs, Both, OnlyMTU, Rights

\* A process that ends says no more, and lets go of its end.
LEMMA ExitHandshake ==
  ASSUME IInv, Handshake, EndsOK, NEW p \in Processes, NEW how, Alive(p), Exit(p, how)
  PROVE  Handshake' /\ EndsOK'
<1>1. UNCHANGED <<dns, toWirez, toRunc>>
  BY Zenon DEF Exit, args, socket
<1>2. /\ \A q \in Processes : pc'[q] = IF q = p THEN "exited" ELSE pc[q]
      /\ \A q \in Processes : holds'[q] = IF q = p THEN {} ELSE holds[q]
      /\ pc[p] # "none"
  BY DEF Exit, Alive, IInv, Typed
<1>3. "wirez" \in Processes /\ "runc" \in Processes /\ "prog" \in Processes
  BY DEF Processes
<1>4. EndsOK'
  BY <1>2, <1>3 DEF EndsOK
<1>5. Empty' = Empty /\ Descs' = Descs /\ Both' = Both /\ OnlyMTU' = OnlyMTU
  BY <1>1, SameMessages, Zenon
<1>. HIDE DEF Empty, Descs, Both, OnlyMTU
<1>6. Handshake'
  BY <1>1, <1>2, <1>3, <1>5 DEF Handshake, NotSent, SentAll, Acked
<1>. QED BY <1>4, <1>6

\* wirez goes from one message to the next, and closes the container's end
\* before it reads the first.
LEMMA WirezHandshake ==
  ASSUME IInv, Types, Handshake, EndsOK,
         \/ CloseChildFile \/ ReceiveFds \/ ReceiveMTU \/ BuildStack \/ StartResolver \/ SendACK
  PROVE  Handshake' /\ EndsOK'
<1>. DEFINE Step(from, to) ==
       /\ pc["wirez"] = from /\ pc'["wirez"] = to
       /\ pc'["runc"] = pc["runc"] /\ pc'["prog"] = pc["prog"]
<1>1. UNCHANGED dns
  BY Zenon DEF CloseChildFile, ReceiveFds, ReceiveMTU, BuildStack, StartResolver, SendACK,
       Goto, args
<1>2. \A from, to : Goto("wirez", from, to) => Step(from, to)
  BY DEF Goto, IInv, Typed, Processes
<1>3. Empty' = Empty /\ Descs' = Descs /\ Both' = Both /\ OnlyMTU' = OnlyMTU
  BY <1>1, SameMessages, Zenon
<1>. HIDE DEF Empty, Descs, Both, OnlyMTU
<1>4. EndsOK'
  <2>1. \/ UNCHANGED holds /\ pc["wirez"] \notin {"start", "close"} /\ pc'["wirez"] # "exited"
        \/ holds' = [holds EXCEPT !["wirez"] = @ \ {"childEnd"}] /\ pc'["wirez"] # "exited"
        \/ /\ holds' = [holds EXCEPT !["wirez"] = @ \cup Rights]
           /\ pc["wirez"] \notin {"start", "close"} /\ pc'["wirez"] # "exited"
    <3>1. CASE CloseChildFile
      BY <1>2, <3>1 DEF CloseChildFile
    <3>2. CASE ReceiveFds
      BY <1>2, <3>2 DEF ReceiveFds
    <3>3. CASE ReceiveMTU \/ BuildStack \/ StartResolver \/ SendACK
      BY <1>2, <3>3 DEF ReceiveMTU, BuildStack, StartResolver, SendACK, fds
    <3>. QED BY <3>1, <3>2, <3>3
  <2>2. "childEnd" \notin Rights
    BY DEF Rights
  <2>3. pc'["runc"] = pc["runc"] /\ pc'["prog"] = pc["prog"]
    BY <1>2, Zenon DEF CloseChildFile, ReceiveFds, ReceiveMTU, BuildStack, StartResolver, SendACK
  <2>. QED BY <2>1, <2>2, <2>3 DEF EndsOK, IInv, Typed, Processes
<1>5. pc["runc"] \in NotSent \cup {"sendMTU", "exited"} \cup SentAll
  BY DEF Types, Places, NotSent, SentAll, Acked
<1>6. CASE CloseChildFile
  <2>1. Step("close", "recvFds") /\ UNCHANGED <<toWirez, toRunc>>
    BY <1>2, <1>6, Zenon DEF CloseChildFile, socket
  <2>. QED BY <1>3, <1>4, <2>1 DEF Handshake
<1>7. CASE ReceiveFds
  <2>1. Step("recvFds", "recvMTU") /\ toWirez # Empty /\ toWirez' = Tail(toWirez) /\ UNCHANGED toRunc
    BY <1>2, <1>7, Zenon DEF ReceiveFds, Empty
  <2>2. /\ toWirez \in {Descs, Both} /\ pc["runc"] \notin NotSent
        /\ pc["runc"] = "sendMTU" => toWirez = Descs
        /\ pc["runc"] \in SentAll => toWirez = Both
    BY <2>1 DEF Handshake
  <2>3. (toWirez = Descs => toWirez' = Empty) /\ (toWirez = Both => toWirez' = OnlyMTU)
    BY <2>1, Letters, Zenon
  <2>4. pc["runc"] # "none"
    BY <2>2 DEF NotSent
  <2>. QED BY <1>3, <1>4, <2>1, <2>2, <2>3, <2>4 DEF Handshake
<1>8. CASE ReceiveMTU
  <2>1. Step("recvMTU", "stack") /\ toWirez # Empty
    BY <1>2, <1>8, Zenon DEF ReceiveMTU, Empty
  <2>2. pc["runc"] \in SentAll \cup {"exited"} /\ pc["runc"] # "none"
    BY <1>5, <2>1 DEF Handshake
  <2>. QED BY <1>4, <2>1, <2>2 DEF Handshake
<1>9. CASE BuildStack \/ StartResolver
  <2>1. PICK to \in {"resolver", "ack"} : \E from \in {"stack", "resolver"} : Step(from, to)
    BY <1>2, <1>9, Zenon DEF BuildStack, StartResolver
  <2>. QED BY <1>4, <2>1 DEF Handshake
<1>10. CASE SendACK
  <2>1. Step("ack", "wait") /\ toRunc' = Append(toRunc, "ack")
    BY <1>2, <1>10, Zenon DEF SendACK
  <2>2. toRunc \in Seq({"ack"})
    BY Zenon DEF Types, Messages
  <2>3. toRunc' # Empty
    BY <2>1, <2>2 DEF Empty
  <2>. QED BY <1>3, <1>4, <2>1, <2>3 DEF Handshake
<1>. QED BY <1>6, <1>7, <1>8, <1>9, <1>10

\* The container sends its two messages in this order, and reads the ACK
\* only when both are sent.
LEMMA RuncHandshake ==
  ASSUME IInv, Types, Handshake, EndsOK,
         \/ OpenTUN \/ CreateResolverSockets \/ SendFds \/ SendMTU \/ ReceiveACK
         \/ SetupIPNetwork \/ MakeMountsPrivate \/ MkdirTemp \/ FillStaging \/ BindMount
         \/ RemoveStaging
  PROVE  Handshake' /\ EndsOK'
<1>. DEFINE Step(from, to) ==
       /\ pc["runc"] = from /\ pc'["runc"] = to
       /\ pc'["wirez"] = pc["wirez"] /\ pc'["prog"] = pc["prog"]
<1>1. UNCHANGED dns
  BY Zenon DEF OpenTUN, CreateResolverSockets, SendFds, SendMTU, ReceiveACK, SetupIPNetwork,
       MakeMountsPrivate, MkdirTemp, FillStaging, BindMount, RemoveStaging, Goto, args
<1>2. \A from, to : Goto("runc", from, to) => Step(from, to)
  BY DEF Goto, IInv, Typed, Processes
<1>3. Empty' = Empty /\ Descs' = Descs /\ Both' = Both /\ OnlyMTU' = OnlyMTU
  BY <1>1, SameMessages, Zenon
<1>. HIDE DEF Empty, Descs, Both, OnlyMTU
<1>4. CASE OpenTUN \/ CreateResolverSockets
  <2>1. /\ \E from \in {"tun", "sockets"} : \E to \in {"sockets", "sendFds"} : Step(from, to)
        /\ UNCHANGED <<toWirez, toRunc>>
        /\ \E fd \in {"tun", "dns"} : holds' = [holds EXCEPT !["runc"] = @ \cup {fd}]
    BY <1>2, <1>4, Zenon DEF OpenTUN, CreateResolverSockets, socket
  <2>2. Handshake'
    BY <1>3, <2>1 DEF Handshake, NotSent, SentAll, Acked
  <2>3. EndsOK'
    BY <2>1 DEF EndsOK, IInv, Typed, Processes
  <2>. QED BY <2>2, <2>3
<1>5. CASE SendFds
  <2>1. Step("sendFds", "sendMTU") /\ toWirez' = Append(toWirez, Rights) /\ UNCHANGED <<toRunc, holds>>
    BY <1>2, <1>5, Zenon DEF SendFds, fds
  <2>2. toWirez = Empty => toWirez' = Descs
    BY <2>1, Letters, Zenon
  <2>3. Handshake'
    BY <1>3, <2>1, <2>2 DEF Handshake, NotSent, SentAll, Acked
  <2>4. EndsOK'
    BY <2>1 DEF EndsOK, Processes
  <2>. QED BY <2>3, <2>4
<1>6. CASE SendMTU
  <2>1. Step("sendMTU", "recvACK") /\ toWirez' = Append(toWirez, {"mtu"}) /\ UNCHANGED <<toRunc, holds>>
    BY <1>2, <1>6, Zenon DEF SendMTU, fds
  <2>2. (toWirez = Descs => toWirez' = Both) /\ (toWirez = Empty => toWirez' = OnlyMTU)
    BY <2>1, Letters, Zenon
  <2>3. Handshake'
    BY <1>3, <2>1, <2>2 DEF Handshake, NotSent, SentAll, Acked
  <2>4. EndsOK'
    BY <2>1 DEF EndsOK, Processes
  <2>. QED BY <2>3, <2>4
<1>7. CASE \/ ReceiveACK \/ SetupIPNetwork \/ MakeMountsPrivate \/ MkdirTemp \/ FillStaging
           \/ BindMount \/ RemoveStaging
  <2>1. /\ \E from \in SentAll \ {"wait"} : \E to \in Acked \ {"wait"} : Step(from, to)
        /\ UNCHANGED <<toWirez, holds>>
    BY <1>2, <1>7 DEF ReceiveACK, SetupIPNetwork, MakeMountsPrivate, MkdirTemp, FillStaging,
         BindMount, RemoveStaging, SentAll, Acked, socket, fds
  <2>2. Handshake'
    BY <1>3, <2>1 DEF Handshake, NotSent, SentAll, Acked
  <2>3. EndsOK'
    BY <2>1 DEF EndsOK, SentAll, Acked, Processes
  <2>. QED BY <2>2, <2>3
<1>. QED BY <1>4, <1>5, <1>6, <1>7

\* A process that is started holds what it is given: the container its own
\* end, the program neither.
LEMMA ForkHandshake ==
  ASSUME IInv, Types, Handshake, EndsOK, Start \/ RunProgram PROVE Handshake' /\ EndsOK'
<1>1. UNCHANGED <<dns, toWirez, toRunc>>
  BY Zenon DEF Start, RunProgram, args, socket
<1>2. Empty' = Empty /\ Descs' = Descs /\ Both' = Both /\ OnlyMTU' = OnlyMTU
  BY <1>1, SameMessages, Zenon
<1>. HIDE DEF Empty, Descs, Both, OnlyMTU
<1>3. CASE Start
  <2>1. /\ pc["wirez"] = "start" /\ pc["runc"] = "none" /\ pc'["wirez"] = "close"
        /\ pc'["runc"] = "tun" /\ pc'["prog"] = pc["prog"]
        /\ holds'["wirez"] = holds["wirez"] /\ holds'["runc"] = {"childEnd"}
        /\ holds'["prog"] = holds["prog"]
    BY <1>3 DEF Start, IInv, OrderOK, Typed, Processes
  <2>2. Handshake'
    BY <1>1, <1>2, <2>1 DEF Handshake, NotSent, SentAll, Acked
  <2>3. EndsOK'
    BY <2>1 DEF EndsOK, Processes
  <2>. QED BY <2>2, <2>3
<1>4. CASE RunProgram
  <2>1. /\ pc["runc"] = "exec" /\ pc'["wirez"] = pc["wirez"]
        /\ pc'["runc"] = "wait" /\ pc'["prog"] = "running"
        /\ holds'["wirez"] = holds["wirez"] /\ holds'["runc"] = holds["runc"]
    BY <1>4 DEF RunProgram, IInv, Typed, Processes
  <2>2. Handshake'
    BY <1>1, <1>2, <2>1 DEF Handshake, NotSent, SentAll, Acked
  <2>3. EndsOK'
    BY <2>1 DEF EndsOK, Processes
  <2>. QED BY <2>2, <2>3
<1>. QED BY <1>3, <1>4

\* No state of a run is one of a wait in vain.
LEMMA WaitsInVain == IInv /\ Types /\ Handshake /\ EndsOK => NoVainWait
<1>. SUFFICES ASSUME IInv, Types, Handshake, EndsOK PROVE NoVainWait
  OBVIOUS
<1>1. Empty = <<>>
  BY DEF Empty
<1>2. /\ "childEnd" \notin holds["prog"] /\ "parentEnd" \notin holds["prog"]
      /\ pc["runc"] \in NotSent \cup {"sendMTU", "exited"} \cup SentAll
      /\ pc["wirez"] \in {"start", "close", "recvFds", "recvMTU", "stack", "resolver",
                          "ack", "wait", "exited"}
  BY DEF IInv, FdsOK, Types, Places, NotSent, SentAll, Acked
<1>3. /\ IsOpen("childEnd") <=> "childEnd" \in holds["wirez"] \cup holds["runc"]
      /\ IsOpen("parentEnd") <=> "parentEnd" \in holds["wirez"] \cup holds["runc"]
  BY <1>2 DEF IsOpen, Processes
<1>4. /\ pc["wirez"] = "exited" => holds["wirez"] = {}
      /\ pc["runc"] = "exited" => holds["runc"] = {}
  BY DEF EndsOK, Processes
<1>. HIDE DEF Empty, Descs, Both, OnlyMTU
<1>5. Blocked("wirez") =>
        pc["runc"] \in {"tun", "sockets", "sendFds", "sendMTU"} /\ ~Blocked("runc")
  BY <1>1, <1>2, <1>3, <1>4, Letters DEF Blocked, Handshake, EndsOK, NotSent, SentAll, Acked
<1>6. Blocked("runc") =>
        pc["wirez"] \in {"close", "recvFds", "recvMTU", "stack", "resolver", "ack"}
  BY <1>1, <1>2, <1>3, <1>4 DEF Blocked, Handshake, EndsOK, IInv, OrderOK
<1>7. /\ pc["wirez"] = "recvFds" /\ toWirez # <<>> => Head(toWirez) = Rights
      /\ pc["wirez"] = "recvMTU" /\ toWirez # <<>> => Head(toWirez) = {"mtu"}
  BY <1>1, Letters, Zenon DEF Handshake
<1>8. /\ pc["wirez"] = "wait" => pc["runc"] # "none"
      /\ pc["runc"] = "wait" => pc["prog"] # "none"
  BY DEF Handshake
<1>. QED BY <1>5, <1>6, <1>7, <1>8, Zenon DEF NoVainWait

\* The start-up never hangs on a read: wirez blocks only while a live
\* container is still on its way to the message, the container only while a
\* live wirez is on its way to the ACK, and neither for one that has exited,
\* killed or thrown, at whatever point of the handshake.  This is what
\* closing childFile in runRun, the close-on-exec descriptors of runContainer
\* and the order of the messages are for, and the safety that StartUpEnds
\* rests on.
THEOREM WaitsTheorem == Spec => []NoVainWait
<1>1. Init => Handshake /\ EndsOK
  <2>. SUFFICES ASSUME Init PROVE Handshake /\ EndsOK
    OBVIOUS
  <2>1. /\ pc["wirez"] = "start" /\ pc["runc"] = "none" /\ pc["prog"] = "none"
        /\ holds["runc"] = {} /\ toWirez = Empty
    BY DEF Init, Processes, Empty
  <2>2. Handshake
    BY <2>1 DEF Handshake, SentAll, Acked
  <2>3. EndsOK
    BY <2>1 DEF EndsOK, Processes
  <2>. QED BY <2>2, <2>3
<1>2. IInv /\ Types /\ Handshake /\ EndsOK /\ [Next]_vars => Handshake' /\ EndsOK'
  <2>. SUFFICES ASSUME IInv, Types, Handshake, EndsOK, [Next]_vars PROVE Handshake' /\ EndsOK'
    OBVIOUS
  <2>1. CASE UNCHANGED vars
    BY <2>1, Zenon DEF vars, args, procs, socket, fds, Handshake, EndsOK, Empty, Descs, Both,
         OnlyMTU, Rights
  <2>2. CASE \/ Reap("wirez", "runc") \/ Reap("runc", "prog") \/ Kernel \/ ProgramEnds
             \/ ReceiveEOF \/ ReceiveACKFails
             \/ \E p \in Processes : Throws(p) \/ \E s \in Signals : Kill(p, s)
    <3>1. \E p \in Processes : Alive(p) /\ \E how : Exit(p, how)
      BY <2>2 DEF Reap, Kernel, DeathSignal, ProgramEnds, ReceiveEOF, ReceiveACKFails, Throws,
         Kill, Alive, Processes
    <3>. QED BY <3>1, ExitHandshake, Zenon
  <2>. QED BY <2>1, <2>2, WirezHandshake, RuncHandshake, ForkHandshake, Zenon
           DEF Next, Wirez, Runc
<1>. QED BY <1>1, <1>2, WaitsInVain, Invariance, TypesInvariance, PTL DEF Spec

============================================================================
