------------------------------ MODULE Startup ------------------------------
(***************************************************************************)
(* A run of wirez from start to exit: the process that drives the network  *)
(* (runRun), the container's first process (runContainer) and the program  *)
(* it runs, the control socket between the first two and who holds its     *)
(* ends, the death signals, the files mounted over the host's and the exit *)
(* status (main, exitCode).                                                *)
(*                                                                         *)
(* A call that fails throws: the process leaves through main with status   *)
(* 1.  Any process may also be killed from outside, at any moment.         *)
(***************************************************************************)
EXTENDS Naturals, Sequences

CONSTANTS Codes,           \* exit codes of the program
          Signals,         \* signals that may kill a process from outside
          HostFiles        \* what the host's two files may hold: see files

ASSUME StatusAssumption == Codes \subseteq 0 .. 255 /\ Signals \subseteq 1 .. 64

\* A hosts file is a list of lines.
ASSUME FilesAssumption ==
    \A f \in HostFiles : f.hosts \in Seq({f.hosts[i] : i \in DOMAIN f.hosts})

VARIABLES
    dns,         \* -D is given
    files,       \* the host's resolv.conf and hosts, as lines <<key, value>>
    pc,          \* process -> where it is
    status,      \* process -> how it ended
    toWirez,     \* the control socket, read by wirez
    toRunc,      \* the control socket, read by the container
    holds,       \* process -> descriptors it has open
    cloexec,     \* descriptors of the container that an exec closes
    net,         \* what serves or configures the container's network
    private,     \* the container's mounts no longer propagate to the host
    target,      \* the file bindMountFile is shadowing
    shadowed,    \* file shadowed in the container -> its lines
    onHost       \* what the host sees of that: "staging", shadowed files

args == <<dns, files>>
procs == <<pc, status>>
socket == <<toWirez, toRunc>>
fds == <<holds, cloexec>>
mounts == <<private, target, shadowed, onHost>>
vars == <<args, procs, socket, fds, net, mounts>>

Processes == {"wirez", "runc", "prog"}

SIGKILL == 9

Code(n) == [signaled |-> FALSE, n |-> n]

Killed(s) == [signaled |-> TRUE, n |-> s]

Running == [signaled |-> FALSE, n |-> 256]

Alive(p) == pc[p] \notin {"none", "exited"}

IsOpen(fd) == \E p \in Processes : fd \in holds[p]

Goto(p, from, to) ==
    /\ pc[p] = from
    /\ pc' = [pc EXCEPT ![p] = to]
    /\ UNCHANGED <<args, status>>

\* A process that ends, in whatever way, leaves no descriptor open.
Exit(p, how) ==
    /\ pc' = [pc EXCEPT ![p] = "exited"]
    /\ status' = [status EXCEPT ![p] = how]
    /\ holds' = [holds EXCEPT ![p] = {}]
    /\ UNCHANGED <<args, socket, cloexec, net, mounts>>

Init ==
    /\ dns \in BOOLEAN
    /\ files \in HostFiles
    /\ pc = [p \in Processes |-> IF p = "wirez" THEN "start" ELSE "none"]
    /\ status = [p \in Processes |-> Running]
    /\ toWirez = <<>> /\ toRunc = <<>>
    /\ holds = [p \in Processes |-> IF p = "wirez" THEN {"parentEnd", "childEnd"} ELSE {}]
    /\ cloexec = {}
    /\ net = {}
    /\ private = FALSE
    /\ target = "resolv.conf"
    /\ shadowed = <<>>
    /\ onHost = {}

----------------------------------------------------------------------------
(* main and exitCode                                                       *)
exitCodeRaw(how) == IF how.signaled THEN 255 ELSE how.n

exitCode(how) == IF how.signaled THEN 128 + how.n ELSE how.n

\* proc.Wait or proc.Run returns: main leaves with the other's exit status.
Reap(p, other) ==
    /\ pc[p] = "wait" /\ pc[other] = "exited"
    /\ Exit(p, Code(exitCode(status[other])))

\* A call that is not a wait for another process failed.
Throws(p) ==
    /\ p # "prog" /\ Alive(p) /\ pc[p] \notin {"recvFds", "recvMTU", "recvACK", "wait"}
    /\ Exit(p, Code(1))

Kill(p, s) == Alive(p) /\ Exit(p, Killed(s))

DeathSignalOfRuncOnly(p, parent) ==
    /\ p = "runc" /\ Alive(p) /\ pc[parent] = "exited"
    /\ Exit(p, Killed(SIGKILL))

\* Pdeathsig: the kernel kills a process whose parent is gone.
DeathSignal(p, parent) ==
    /\ Alive(p) /\ pc[parent] = "exited"
    /\ Exit(p, Killed(SIGKILL))

ProgramEnds ==
    /\ pc["prog"] = "running"
    /\ \E n \in Codes : Exit("prog", Code(n))

----------------------------------------------------------------------------
(* runRun                                                                  *)
\* Both ends are close-on-exec: the container gets its own, and no other.
Start ==
    /\ pc["wirez"] = "start"
    /\ pc' = [pc EXCEPT !["wirez"] = "close", !["runc"] = "tun"]
    /\ holds' = [holds EXCEPT !["runc"] = {"childEnd"}]
    /\ UNCHANGED <<args, status, socket, cloexec, net, mounts>>

KeepChildFile ==
    /\ Goto("wirez", "close", "recvFds")
    /\ UNCHANGED <<socket, fds, net, mounts>>

\* childFile.Close: from here on the container's exit shows up as EOF.
CloseChildFile ==
    /\ Goto("wirez", "close", "recvFds")
    /\ holds' = [holds EXCEPT !["wirez"] = @ \ {"childEnd"}]
    /\ UNCHANGED <<socket, cloexec, net, mounts>>

Rights == IF dns THEN {"tun", "dns"} ELSE {"tun"}

\* The descriptors and the MTU arrive in the order they were sent, ...
ReceiveFds ==
    /\ toWirez # <<>> /\ Head(toWirez) = Rights
    /\ Goto("wirez", "recvFds", "recvMTU")
    /\ toWirez' = Tail(toWirez)
    /\ holds' = [holds EXCEPT !["wirez"] = @ \cup Rights]
    /\ UNCHANGED <<toRunc, cloexec, net, mounts>>

ReceiveMTU ==
    /\ toWirez # <<>> /\ Head(toWirez) = {"mtu"}
    /\ Goto("wirez", "recvMTU", "stack")
    /\ toWirez' = Tail(toWirez)
    /\ UNCHANGED <<toRunc, fds, net, mounts>>

\* ... or end of file, when nobody holds the container's end any more.
ReceiveEOF ==
    /\ pc["wirez"] \in {"recvFds", "recvMTU"}
    /\ toWirez = <<>> /\ ~IsOpen("childEnd")
    /\ Exit("wirez", Code(1))

BuildStack ==
    /\ Goto("wirez", "stack", IF dns THEN "resolver" ELSE "ack")
    /\ net' = net \cup {"stack"}
    /\ UNCHANGED <<socket, fds, mounts>>

StartResolver ==
    /\ Goto("wirez", "resolver", "ack")
    /\ net' = net \cup {"resolver"}
    /\ UNCHANGED <<socket, fds, mounts>>

SendACKAgain ==
    /\ Goto("wirez", "ack", "ack") /\ IsOpen("childEnd") /\ Len(toRunc) < 2
    /\ toRunc' = Append(toRunc, "ack")
    /\ UNCHANGED <<toWirez, fds, net, mounts>>

\* The write fails once the container is gone; that is Throws("wirez").
SendACK ==
    /\ Goto("wirez", "ack", "wait") /\ IsOpen("childEnd")
    /\ toRunc' = Append(toRunc, "ack")
    /\ UNCHANGED <<toWirez, fds, net, mounts>>

----------------------------------------------------------------------------
(* runContainer                                                            *)
OpenTUNInherited ==
    /\ Goto("runc", "tun", IF dns THEN "sockets" ELSE "sendFds")
    /\ holds' = [holds EXCEPT !["runc"] = @ \cup {"tun"}]
    /\ cloexec' = {"childEnd"}
    /\ UNCHANGED <<socket, net, mounts>>

\* The control socket and the TUN are marked close-on-exec, ...
OpenTUN ==
    /\ Goto("runc", "tun", IF dns THEN "sockets" ELSE "sendFds")
    /\ holds' = [holds EXCEPT !["runc"] = @ \cup {"tun"}]
    /\ cloexec' = {"childEnd", "tun"}
    /\ UNCHANGED <<socket, net, mounts>>

\* ... and the resolver's sockets are created so.
CreateResolverSockets ==
    /\ Goto("runc", "sockets", "sendFds")
    /\ holds' = [holds EXCEPT !["runc"] = @ \cup {"dns"}]
    /\ cloexec' = cloexec \cup {"dns"}
    /\ UNCHANGED <<socket, net, mounts>>

SendFds ==
    /\ Goto("runc", "sendFds", "sendMTU") /\ IsOpen("parentEnd")
    /\ toWirez' = Append(toWirez, Rights)
    /\ UNCHANGED <<toRunc, fds, net, mounts>>

SendMTUOnly ==
    /\ Goto("runc", "sendMTU", "setupIP") /\ IsOpen("parentEnd")
    /\ toWirez' = Append(toWirez, {"mtu"})
    /\ UNCHANGED <<toRunc, fds, net, mounts>>

SendMTU ==
    /\ Goto("runc", "sendMTU", "recvACK") /\ IsOpen("parentEnd")
    /\ toWirez' = Append(toWirez, {"mtu"})
    /\ UNCHANGED <<toRunc, fds, net, mounts>>

ReceiveACK ==
    /\ toRunc # <<>>
    /\ Goto("runc", "recvACK", "setupIP")
    /\ toRunc' = Tail(toRunc)
    /\ UNCHANGED <<toWirez, fds, net, mounts>>

ReceiveACKFails ==
    /\ pc["runc"] = "recvACK" /\ toRunc = <<>> /\ ~IsOpen("parentEnd")
    /\ Exit("runc", Code(1))

SetupIPNetwork ==
    /\ Goto("runc", "setupIP", "private")
    /\ net' = net \cup {"routes"}
    /\ UNCHANGED <<socket, fds, mounts>>

KeepMountsShared ==
    /\ Goto("runc", "private", "stage")
    /\ UNCHANGED <<socket, fds, net, mounts>>

MakeMountsPrivate ==
    /\ Goto("runc", "private", "stage")
    /\ private' = TRUE
    /\ UNCHANGED <<socket, fds, net, target, shadowed, onHost>>

----------------------------------------------------------------------------
(* The two files: the host's lines that stay, and wirez's own.  Lines that *)
(* are looked up by key make a set, lines searched in order a sequence.    *)
resolvConfContent(host) ==
    {<<"nameserver", IF dns THEN "127.0.0.1" ELSE "10.1.1.2">>}
    \cup {line \in host : line[1] \in {"search", "domain", "options", "sortlist"}}

Own == <<<<"localhost", "127.0.0.1">>, <<"localhost", "::1">>,
         <<"localhost", "10.1.1.2">>, <<"wirez", "127.0.0.1">>, <<"wirez", "::1">>>>

hostsContentOwnFirst(host) == Own \o host

hostsContent(host) == host \o Own

Content ==
    IF target = "hosts" THEN hostsContent(files.hosts)
    ELSE resolvConfContent(files.resolv)

\* bindMountFile: a staging directory on the host, ...
MkdirTemp ==
    /\ Goto("runc", "stage", "fill")
    /\ onHost' = onHost \cup {"staging"}
    /\ UNCHANGED <<socket, fds, net, private, target, shadowed>>

\* ... a tmpfs mounted there and the file written, ...
FillStaging ==
    /\ Goto("runc", "fill", "bind")
    /\ UNCHANGED <<socket, fds, net, mounts>>

\* ... the bind mount, which a host with shared mounts would see too, ...
BindMount ==
    /\ Goto("runc", "bind", "unstage")
    /\ shadowed' = [f \in DOMAIN shadowed \cup {target} |->
                      IF f = target THEN Content ELSE shadowed[f]]
    /\ onHost' = IF private THEN onHost ELSE onHost \cup {target}
    /\ UNCHANGED <<socket, fds, net, private, target>>

\* ... and the staging directory unmounted and removed.
RemoveStaging ==
    /\ Goto("runc", "unstage", IF target = "hosts" THEN "exec" ELSE "stage")
    /\ target' = "hosts"
    /\ onHost' = onHost \ {"staging"}
    /\ UNCHANGED <<socket, fds, net, private, shadowed>>

RunProgram ==
    /\ pc["runc"] = "exec"
    /\ pc' = [pc EXCEPT !["runc"] = "wait", !["prog"] = "running"]
    /\ holds' = [holds EXCEPT !["prog"] = holds["runc"] \ cloexec]
    /\ UNCHANGED <<args, status, socket, cloexec, net, mounts>>

----------------------------------------------------------------------------
Wirez ==
    \/ Start \/ CloseChildFile \/ ReceiveFds \/ ReceiveMTU \/ ReceiveEOF
    \/ BuildStack \/ StartResolver \/ SendACK \/ Reap("wirez", "runc")

Runc ==
    \/ OpenTUN \/ CreateResolverSockets \/ SendFds \/ SendMTU \/ ReceiveACK
    \/ ReceiveACKFails \/ SetupIPNetwork \/ MakeMountsPrivate \/ MkdirTemp
    \/ FillStaging \/ BindMount \/ RemoveStaging \/ RunProgram
    \/ Reap("runc", "prog")

Kernel == DeathSignal("runc", "wirez") \/ DeathSignal("prog", "runc")

AllEnded == \A p \in Processes : ~Alive(p)

Next ==
    \/ Wirez \/ Runc \/ Kernel \/ ProgramEnds
    \/ \E p \in Processes : Throws(p) \/ \E s \in Signals : Kill(p, s)
    \/ AllEnded /\ UNCHANGED vars

Spec == Init /\ [][Next]_vars

\* Both processes run on, or throw where a call keeps failing (a write to a
\* socket whose reader is gone); the kernel delivers the death signals.  The
\* program may run for ever.
FairSpec ==
    /\ Spec
    /\ WF_vars(Wirez \/ Throws("wirez")) /\ WF_vars(Runc \/ Throws("runc"))
    /\ WF_vars(Kernel)

----------------------------------------------------------------------------
TypeOK ==
    /\ pc["wirez"] \in {"start", "close", "recvFds", "recvMTU", "stack", "resolver",
                        "ack", "wait", "exited"}
    /\ pc["runc"] \in {"none", "tun", "sockets", "sendFds", "sendMTU", "recvACK",
                       "setupIP", "private", "stage", "fill", "bind", "unstage",
                       "exec", "wait", "exited"}
    /\ pc["prog"] \in {"none", "running", "exited"}
    /\ \A p \in Processes : status[p] = Running <=> pc[p] # "exited"
    /\ Len(toWirez) <= 2 /\ Len(toRunc) <= 1
    /\ \A p \in Processes : holds[p] \subseteq {"parentEnd", "childEnd", "tun", "dns"}
    /\ net \subseteq {"stack", "resolver", "routes"}
    /\ DOMAIN shadowed \subseteq {"resolv.conf", "hosts"}

\* SendACK comes after the stack and the resolver, ReceiveACK before the
\* routes and the mounts: a program never runs in a container whose network
\* nobody drives, and the only nameserver it is told of is one that is served
\* (resolvConfContent drops the host's own).
ReadyBeforeRun ==
    pc["prog"] # "none" =>
       /\ {"stack", "routes"} \subseteq net /\ (dns => "resolver" \in net)
       /\ DOMAIN shadowed = {"resolv.conf", "hosts"}
       /\ \A line \in shadowed["resolv.conf"] : line[1] = "nameserver" =>
            line[2] = IF dns THEN "127.0.0.1" ELSE "10.1.1.2"

First(lines, name) ==
    CHOOSE i \in DOMAIN lines :
       lines[i][1] = name /\ \A j \in 1 .. i - 1 : lines[j][1] # name

\* A name of the host's hosts file has its first address of the host inside
\* too (README: "/etc/hosts entries stay in effect inside").
HostEntriesStay ==
    pc["prog"] # "none" =>
       \A k \in DOMAIN files.hosts :
          LET name == files.hosts[k][1]
              inside == shadowed["hosts"]
          IN  inside[First(inside, name)] = files.hosts[First(files.hosts, name)]

\* The program gets neither end of the control socket nor a descriptor of
\* the network (CloseOnExec, SOCK_CLOEXEC).
NothingInherited == holds["prog"] = {}

\* What bindMountFile does stays in the container: the host never sees a
\* shadowed file, and no staging directory once the program runs.
HostUntouched ==
    /\ onHost \subseteq {"staging"}
    /\ pc["prog"] # "none" => onHost = {}

\* A wirez that was not killed leaves with the status of its program, whose
\* code goes through both waits unchanged and whose signal s comes out as
\* 128 + s; a start-up that failed never looks like a success.
StatusPassedOn ==
    pc["wirez"] = "exited" /\ ~status["wirez"].signaled =>
       IF pc["prog"] = "none" THEN status["wirez"].n # 0
       ELSE LET PassesOn(how) ==
                  status["wirez"].n = IF how.signaled THEN 128 + how.n ELSE how.n
            IN  /\ PassesOn(status["runc"])
                /\ ~status["runc"].signaled => pc["prog"] = "exited" /\ PassesOn(status["prog"])

\* Neither half waits for one that is gone (the EOF on the control socket,
\* which needs childFile closed): the program starts or wirez exits.
StartUpEnds == <>(pc["prog"] # "none" \/ pc["wirez"] = "exited")

\* However wirez ends, killed included, the container and the program follow
\* (Pdeathsig, at both levels); however the container ends, wirez exits.
EndTogether ==
    /\ pc["wirez"] = "exited" ~> ~Alive("runc") /\ ~Alive("prog")
    /\ pc["runc"] = "exited" ~> pc["wirez"] = "exited"
============================================================================
