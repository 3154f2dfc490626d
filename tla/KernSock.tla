------------------------------ MODULE KernSock ------------------------------
(***************************************************************************)
(* The socket tracer of l7probe (kern_sock.bpf.c): the kprobe/kretprobe    *)
(* pairs of the socket syscalls, run by several threads of one traced      *)
(* process at once.  A syscall entry stashes its arguments in a map keyed  *)
(* by pid_tgid (sys_connect_args, sys_accept_args, sock_data_args); its    *)
(* return probe takes them, finds or creates the connection in conn_tbl    *)
(* (keyed by tgid and fd), reports it OPEN once (is_reported) and submits   *)
(* the DATA.  close reports CLOSE and removes the connection.              *)
(*                                                                         *)
(* A return probe is not atomic: each map operation is a step, and the     *)
(* fields of a looked-up element are read and written through a pointer,  *)
(* so other threads, on other CPUs, run between them.  An element replaced *)
(* by bpf_map_update_elem(BPF_ANY) stays readable through an old pointer,  *)
(* so elements are kept by identity (elems) and conn_tbl maps a key to the *)
(* identity of its current element.                                        *)
(*                                                                         *)
(* The kernel's fd table (sock, gen) is the environment: gen counts the    *)
(* sockets an fd has held, so events can be matched to the connection they *)
(* belong to.  emitted is the events in timestamp order.                   *)
(***************************************************************************)
EXTENDS Integers, Sequences, FiniteSets, TLC, Functions

CONSTANTS
    Threads,     \* threads of the traced process (the pid_tgid keys)
    Fds,         \* file descriptor numbers the process uses
    Syscalls,    \* the syscalls the threads call
    TracingUdp,  \* is_tracing_udp(): L7PROBE_TRACING_DNS is set
    MaxGen,      \* bound: sockets opened on one fd
    MaxCalls     \* bound: traced syscalls entered

ConnectCalls   == {"connect"}
AcceptCalls    == {"accept", "accept4"}
SocketOpCalls  == {"write", "read"}        \* exit requires is_socket_op
PlainDataCalls == {"send", "recv"}
UdpCalls       == {"sendto", "recvfrom", "sendmsg", "recvmsg"}
DataCalls      == SocketOpCalls \cup PlainDataCalls \cup UdpCalls
TracedCalls    == ConnectCalls \cup AcceptCalls \cup DataCalls \cup {"close"}

ASSUME Syscalls \subseteq TracedCalls
ASSUME Fds \subseteq Nat \ {0} /\ Threads \cap Fds = {}
ASSUME MaxGen \in Nat /\ MaxCalls \in Nat /\ TracingUdp \in BOOLEAN

Free   == "free"
Stages == {"idle", "in", "create", "relookup", "check", "emit", "data"}

VARIABLES
    sock,         \* kernel: what each fd holds (Free, "tcp" or "udp")
    gen,          \* kernel: sockets an fd has held (ghost)
    connected,    \* kernel: the stream socket on fd is connected
    connTbl,      \* conn_tbl: key -> identity of its sock_conn_s element
    elems,        \* every sock_conn_s element allocated: fd, gen, is_reported
    connectArgs,  \* sys_connect_args: pid_tgid -> fd
    acceptArgs,   \* sys_accept_args: pid_tgid -> (addr # NULL)
    dataArgs,     \* sock_data_args: pid_tgid -> [fd, socketOp]
    th,           \* per thread: the handler step it is at and its locals
    emitted,      \* OPEN, DATA and CLOSE events in timestamp order
    calls         \* traced syscalls entered so far

vars == <<sock, gen, connected, connTbl, elems, connectArgs, acceptArgs, dataArgs, th, emitted, calls>>
stashes == <<connectArgs, acceptArgs, dataArgs>>

(* bpf_map_update_elem(BPF_ANY) and bpf_map_delete_elem on a hash map. *)
MapUpdate(m, k, v) == (k :> v) @@ m
MapDelete(m, k) == Restrict(m, DOMAIN m \ {k})

Idle == [stage |-> "idle", sc |-> "none", fd |-> 0, gen |-> 0, ptr |-> 0, udp |-> FALSE]

(* The kernel gives a new socket the lowest free descriptor. *)
HasFree == \E fd \in Fds : sock[fd] = Free
LowestFree == CHOOSE fd \in Fds : sock[fd] = Free /\ \A g \in Fds : sock[g] = Free => fd <= g

(* A syscall can always fail.  Bytes move only through a datagram socket or
   a connected stream socket; connect succeeds (0 or -EINPROGRESS) on a
   datagram socket or a stream socket not yet connected (else EISCONN or
   EALREADY). *)
Returns(fd) == IF sock[fd] = "udp" \/ (sock[fd] = "tcp" /\ connected[fd]) THEN BOOLEAN ELSE {FALSE}
ConnectReturns(fd) == IF sock[fd] = "udp" \/ (sock[fd] = "tcp" /\ ~connected[fd]) THEN BOOLEAN ELSE {FALSE}

Init ==
    /\ sock \in [Fds -> {Free, "tcp", "udp"}]    \* sockets open before tracing
    /\ gen = [fd \in Fds |-> IF sock[fd] = Free THEN 0 ELSE 1]
    /\ connected = [fd \in Fds |-> sock[fd] = "tcp"]
    /\ connTbl = <<>>
    /\ elems = <<>>
    /\ connectArgs = <<>> /\ acceptArgs = <<>> /\ dataArgs = <<>>
    /\ th = [t \in Threads |-> Idle]
    /\ emitted = <<>>
    /\ calls = 0

-----------------------------------------------------------------------------
(* The traced process itself: socket(2), which is not traced. *)
OpenSocket(t, kind) ==
    /\ th[t].stage = "idle"
    /\ HasFree /\ gen[LowestFree] < MaxGen
    /\ sock' = [sock EXCEPT ![LowestFree] = kind]
    /\ gen' = [gen EXCEPT ![LowestFree] = @ + 1]
    /\ connected' = [connected EXCEPT ![LowestFree] = FALSE]
    /\ UNCHANGED <<connTbl, elems, connectArgs, acceptArgs, dataArgs, th, emitted, calls>>

(* Variant: the UDP return probes leave sys_connect_args behind. *)
FinishKeepingConnectArgs(t) ==
    LET sc == th[t].sc IN
    /\ connectArgs' = IF sc \in ConnectCalls THEN MapDelete(connectArgs, t) ELSE connectArgs
    /\ acceptArgs' = IF sc \in AcceptCalls THEN MapDelete(acceptArgs, t) ELSE acceptArgs
    /\ dataArgs' = IF sc \in DataCalls THEN MapDelete(dataArgs, t) ELSE dataArgs
    /\ th' = [th EXCEPT ![t] = Idle]

(* A return probe ends at its "end:" label: the stashes of its syscall are
   deleted and the thread leaves the syscall. *)
Finish(t) ==
    LET sc == th[t].sc IN
    /\ connectArgs' = IF sc \in ConnectCalls \cup UdpCalls THEN MapDelete(connectArgs, t) ELSE connectArgs
    /\ acceptArgs' = IF sc \in AcceptCalls THEN MapDelete(acceptArgs, t) ELSE acceptArgs
    /\ dataArgs' = IF sc \in DataCalls THEN MapDelete(dataArgs, t) ELSE dataArgs
    /\ th' = [th EXCEPT ![t] = Idle]

(* lkup_sock_conn(tgid, fd): a found connection goes to step `found`, a
   missing one to its creation.  g is the socket the syscall ran on. *)
Lookup(t, fd, g, udp, found) ==
    th' = [th EXCEPT ![t] = [@ EXCEPT !.fd = fd, !.gen = g, !.udp = udp,
                               !.ptr = IF fd \in DOMAIN connTbl THEN connTbl[fd] ELSE 0,
                               !.stage = IF fd \in DOMAIN connTbl THEN found ELSE "create"]]

-----------------------------------------------------------------------------
(* The entry kprobes.  connect stashes (fd, addr) in sys_connect_args;
   accept and accept4 stash addr in sys_accept_args (the listening fd is not
   kept); read, write, send and recv stash (fd, direction) in sock_data_args
   with is_socket_op clear; sendto, recvfrom, sendmsg and recvmsg stash the
   data arguments and, when UDP tracing is on and the call names a peer
   address, also (fd, addr) in sys_connect_args.  Every stash overwrites
   (BPF_ANY). *)
SysEnter(t, sc, fd) ==
    /\ th[t].stage = "idle"
    /\ calls < MaxCalls
    /\ \E hasAddr \in BOOLEAN :
         /\ connectArgs' = IF sc \in ConnectCalls \/ (sc \in UdpCalls /\ TracingUdp /\ hasAddr)
                           THEN MapUpdate(connectArgs, t, fd) ELSE connectArgs
         /\ acceptArgs' = IF sc \in AcceptCalls THEN MapUpdate(acceptArgs, t, hasAddr) ELSE acceptArgs
    /\ dataArgs' = IF sc \in DataCalls THEN MapUpdate(dataArgs, t, [fd |-> fd, socketOp |-> FALSE])
                   ELSE dataArgs
    /\ th' = [th EXCEPT ![t] = [Idle EXCEPT !.stage = "in", !.sc = sc,
                                             !.fd = IF sc \in AcceptCalls THEN 0 ELSE fd]]
    /\ calls' = calls + 1
    /\ UNCHANGED <<sock, gen, connected, connTbl, elems, emitted>>

(* security_socket_sendmsg / security_socket_recvmsg: the kernel is moving
   data through a socket for a thread with a stash; is_socket_op is set. *)
SecuritySocketMsg(t) ==
    /\ th[t].stage = "in"
    /\ t \in DOMAIN dataArgs
    /\ ~dataArgs[t].socketOp
    /\ sock[dataArgs[t].fd] # Free
    /\ dataArgs' = [dataArgs EXCEPT ![t].socketOp = TRUE]
    /\ UNCHANGED <<sock, gen, connected, connTbl, elems, connectArgs, acceptArgs, th, emitted, calls>>

-----------------------------------------------------------------------------
(* The return probes, up to their lookup in conn_tbl.  Each takes the
   syscall's result: ok is a return value the probe accepts (a connect that
   succeeded or is EINPROGRESS, a new fd, a positive byte count). *)

(* kretprobe connect: args->fd < 0 cannot occur (fds are positive here). *)
ConnectExit(t) ==
    /\ th[t].stage = "in" /\ th[t].sc \in ConnectCalls
    /\ \E ok \in ConnectReturns(th[t].fd) :
         /\ connected' = [connected EXCEPT ![th[t].fd] = @ \/ (ok /\ sock[th[t].fd] = "tcp")]
         /\ IF t \in DOMAIN connectArgs /\ ok
            THEN Lookup(t, connectArgs[t], gen[connectArgs[t]], FALSE, "check") /\ UNCHANGED stashes
            ELSE Finish(t)
    /\ UNCHANGED <<sock, gen, connTbl, elems, emitted, calls>>

(* kretprobe accept / accept4: the kernel has installed the accepted socket
   on the lowest free fd (or failed); a NULL addr ends the probe. *)
AcceptExit(t) ==
    /\ th[t].stage = "in" /\ th[t].sc \in AcceptCalls
    /\ \/ /\ Finish(t)
          /\ UNCHANGED <<sock, gen, connected>>
       \/ /\ HasFree /\ gen[LowestFree] < MaxGen
          /\ sock' = [sock EXCEPT ![LowestFree] = "tcp"]
          /\ gen' = [gen EXCEPT ![LowestFree] = @ + 1]
          /\ connected' = [connected EXCEPT ![LowestFree] = TRUE]
          /\ IF t \in DOMAIN acceptArgs /\ acceptArgs[t]
             THEN Lookup(t, LowestFree, gen[LowestFree] + 1, FALSE, "check") /\ UNCHANGED stashes
             ELSE Finish(t)
    /\ UNCHANGED <<connTbl, elems, emitted, calls>>

(* kretprobe write / read: only a call that went through a socket
   (is_socket_op) and moved bytes counts.  A connection already in conn_tbl
   goes straight to submit_sock_data, without submit_conn_open. *)
SocketOpExit(t) ==
    /\ th[t].stage = "in" /\ th[t].sc \in SocketOpCalls
    /\ \E ok \in Returns(th[t].fd) :
         IF t \in DOMAIN dataArgs /\ dataArgs[t].socketOp /\ ok
         THEN Lookup(t, dataArgs[t].fd, gen[dataArgs[t].fd], FALSE, "data") /\ UNCHANGED stashes
         ELSE Finish(t)
    /\ UNCHANGED <<sock, gen, connected, connTbl, elems, emitted, calls>>

(* kretprobe send / recv: as write / read, without the is_socket_op test. *)
PlainDataExit(t) ==
    /\ th[t].stage = "in" /\ th[t].sc \in PlainDataCalls
    /\ \E ok \in Returns(th[t].fd) :
         IF t \in DOMAIN dataArgs /\ ok
         THEN Lookup(t, dataArgs[t].fd, gen[dataArgs[t].fd], FALSE, "data") /\ UNCHANGED stashes
         ELSE Finish(t)
    /\ UNCHANGED <<sock, gen, connected, connTbl, elems, emitted, calls>>

(* kretprobe sendto / recvfrom / sendmsg / recvmsg: with UDP tracing on and
   a stashed peer address, the connection of args->fd is found or created
   from the address (is_udp); otherwise that of the data arguments' fd.
   Either way submit_conn_open is called before the data. *)
UdpDataExit(t) ==
    /\ th[t].stage = "in" /\ th[t].sc \in UdpCalls
    /\ \E ok \in Returns(th[t].fd) :
         CASE TracingUdp /\ t \in DOMAIN connectArgs /\ ok ->
                Lookup(t, connectArgs[t], gen[connectArgs[t]], TRUE, "check") /\ UNCHANGED stashes
           [] t \in DOMAIN dataArgs /\ ok ->
                Lookup(t, dataArgs[t].fd, gen[dataArgs[t].fd], FALSE, "check") /\ UNCHANGED stashes
           [] OTHER -> Finish(t)
    /\ UNCHANGED <<sock, gen, connected, connTbl, elems, emitted, calls>>

-----------------------------------------------------------------------------
(* The rest of a return probe, one map operation per step.  A connection
   made from an address (connect, accept, the UDP branch) is created by
   new_sock_conn directly; one found by fd goes through get_sock_conn, which
   fails when fd no longer holds a socket, gives a datagram socket the role
   L4_UNKNOW, and for a stream socket needs its role from lkup_l7_tcp, which
   has none for a socket the TCP probe did not see. *)
(* Variant: the new element's identity is off by one. *)
CreateConnOffByOne(t) ==
    LET fd     == th[t].fd
        byAddr == th[t].sc \in ConnectCalls \cup AcceptCalls \/ th[t].udp
        id     == Len(elems)
        create == /\ elems' = Append(elems, [fd |-> fd, gen |-> th[t].gen, reported |-> FALSE])
                  /\ connTbl' = MapUpdate(connTbl, fd, id)
                  /\ th' = [th EXCEPT ![t].stage = "relookup"]
                  /\ UNCHANGED stashes
    IN
    /\ th[t].stage = "create"
    /\ \/ byAddr /\ create
       \/ ~byAddr /\ sock[fd] = "udp" /\ create
       \/ ~byAddr /\ sock[fd] = "tcp" /\ \E inL7Tcp \in BOOLEAN :
             IF inL7Tcp THEN create ELSE Finish(t) /\ UNCHANGED <<elems, connTbl>>
       \/ ~byAddr /\ sock[fd] = Free /\ Finish(t) /\ UNCHANGED <<elems, connTbl>>
    /\ UNCHANGED <<sock, gen, connected, emitted, calls>>

CreateConn(t) ==
    LET fd     == th[t].fd
        byAddr == th[t].sc \in ConnectCalls \cup AcceptCalls \/ th[t].udp
        id     == Len(elems) + 1
        create == /\ elems' = Append(elems, [fd |-> fd, gen |-> th[t].gen, reported |-> FALSE])
                  /\ connTbl' = MapUpdate(connTbl, fd, id)
                  /\ th' = [th EXCEPT ![t].stage = "relookup"]
                  /\ UNCHANGED stashes
    IN
    /\ th[t].stage = "create"
    /\ \/ byAddr /\ create
       \/ ~byAddr /\ sock[fd] = "udp" /\ create
       \/ ~byAddr /\ sock[fd] = "tcp" /\ \E inL7Tcp \in BOOLEAN :
             IF inL7Tcp THEN create ELSE Finish(t) /\ UNCHANGED <<elems, connTbl>>
       \/ ~byAddr /\ sock[fd] = Free /\ Finish(t) /\ UNCHANGED <<elems, connTbl>>
    /\ UNCHANGED <<sock, gen, connected, emitted, calls>>

(* The lkup_sock_conn that ends new_sock_conn: the pointer is to whatever
   element conn_tbl holds now.  None (NULL) ends the probe. *)
RelookupConn(t) ==
    /\ th[t].stage = "relookup"
    /\ IF th[t].fd \in DOMAIN connTbl
       THEN th' = [th EXCEPT ![t].ptr = connTbl[th[t].fd], ![t].stage = "check"] /\ UNCHANGED stashes
       ELSE Finish(t)
    /\ UNCHANGED <<sock, gen, connected, connTbl, elems, emitted, calls>>

(* After submit_conn_open the probe goes on to the data, or ends. *)
AfterOpen(t) ==
    IF th[t].sc \in DataCalls
    THEN th' = [th EXCEPT ![t].stage = "data"] /\ UNCHANGED stashes
    ELSE Finish(t)

(* submit_conn_open, up to its test of is_reported. *)
SubmitConnOpenCheck(t) ==
    /\ th[t].stage = "check"
    /\ IF elems[th[t].ptr].reported
       THEN AfterOpen(t)
       ELSE th' = [th EXCEPT ![t].stage = "emit"] /\ UNCHANGED stashes
    /\ UNCHANGED <<sock, gen, connected, connTbl, elems, emitted, calls>>

(* Variant: the event is sent but is_reported is never set. *)
SubmitConnOpenEmitNoMark(t) ==
    LET e == elems[th[t].ptr] IN
    /\ th[t].stage = "emit"
    /\ emitted' = Append(emitted, [type |-> "OPEN", fd |-> e.fd, gen |-> e.gen])
    /\ elems' = elems
    /\ AfterOpen(t)
    /\ UNCHANGED <<sock, gen, connected, connTbl, calls>>

(* submit_conn_open, the rest: the OPEN event (perf output, whose result is
   ignored), then is_reported = 1 through the pointer. *)
SubmitConnOpenEmit(t) ==
    LET e == elems[th[t].ptr] IN
    /\ th[t].stage = "emit"
    /\ emitted' = Append(emitted, [type |-> "OPEN", fd |-> e.fd, gen |-> e.gen])
    /\ elems' = [elems EXCEPT ![th[t].ptr].reported = TRUE]
    /\ AfterOpen(t)
    /\ UNCHANGED <<sock, gen, connected, connTbl, calls>>

(* submit_sock_data, and the end of the probe.  The event names the
   connection by (tgid, fd); gen records which socket the bytes went through. *)
SubmitSockData(t) ==
    /\ th[t].stage = "data"
    /\ emitted' = Append(emitted, [type |-> "DATA", fd |-> th[t].fd, gen |-> th[t].gen])
    /\ Finish(t)
    /\ UNCHANGED <<sock, gen, connected, connTbl, elems, calls>>

(* The key submit_conn_close deletes: &id, the pid_tgid of the caller, read
   as a conn_id_s.  It names no (tgid, fd) the process uses. *)
CloseDeleteKey(t, fd) == t

(* submit_conn_close: a connection of (tgid, fd) in conn_tbl is reported
   CLOSE; then the entry keyed by CloseDeleteKey is deleted. *)
SubmitConnClose(t, fd) ==
    /\ emitted' = IF fd \in DOMAIN connTbl
                  THEN Append(emitted, [type |-> "CLOSE", fd |-> fd, gen |-> gen[fd]])
                  ELSE emitted
    /\ connTbl' = MapDelete(connTbl, CloseDeleteKey(t, fd))

(* kprobe close (fd >= 0 always here), then the kernel frees fd. *)
SysClose(t, fd) ==
    /\ th[t].stage = "idle"
    /\ calls < MaxCalls
    /\ "close" \in Syscalls
    /\ SubmitConnClose(t, fd)
    /\ sock' = [sock EXCEPT ![fd] = Free]
    /\ connected' = [connected EXCEPT ![fd] = FALSE]
    /\ calls' = calls + 1
    /\ UNCHANGED <<gen, elems, connectArgs, acceptArgs, dataArgs, th>>

(* The steps of a probe handler that has started: it runs to completion. *)
HandlerStep(t) ==
    \/ CreateConn(t) \/ RelookupConn(t) \/ SubmitConnOpenCheck(t)
    \/ SubmitConnOpenEmit(t) \/ SubmitSockData(t)

Next ==
    \E t \in Threads :
        \/ \E kind \in {"tcp", "udp"} : OpenSocket(t, kind)
        \/ \E sc \in Syscalls \ {"close"}, fd \in Fds : SysEnter(t, sc, fd)
        \/ \E fd \in Fds : SysClose(t, fd)
        \/ SecuritySocketMsg(t)
        \/ ConnectExit(t) \/ AcceptExit(t) \/ SocketOpExit(t)
        \/ PlainDataExit(t) \/ UdpDataExit(t)
        \/ HandlerStep(t)

Spec == Init /\ [][Next]_vars /\ \A t \in Threads : WF_vars(HandlerStep(t))

-----------------------------------------------------------------------------
Events == [type : {"OPEN", "DATA", "CLOSE"}, fd : Fds, gen : 0..MaxGen]

TypeOK ==
    /\ sock \in [Fds -> {Free, "tcp", "udp"}]
    /\ gen \in [Fds -> 0..MaxGen]
    /\ connected \in [Fds -> BOOLEAN]
    /\ DOMAIN connTbl \subseteq Fds /\ \A k \in DOMAIN connTbl : connTbl[k] \in 1..Len(elems)
    /\ \A i \in 1..Len(elems) : elems[i] \in [fd : Fds, gen : 0..MaxGen, reported : BOOLEAN]
    /\ DOMAIN connectArgs \subseteq Threads /\ \A k \in DOMAIN connectArgs : connectArgs[k] \in Fds
    /\ DOMAIN acceptArgs \subseteq Threads /\ \A k \in DOMAIN acceptArgs : acceptArgs[k] \in BOOLEAN
    /\ DOMAIN dataArgs \subseteq Threads
    /\ \A k \in DOMAIN dataArgs : dataArgs[k] \in [fd : Fds, socketOp : BOOLEAN]
    /\ \A t \in Threads : th[t].stage \in Stages
    /\ \A i \in 1..Len(emitted) : emitted[i] \in Events
    /\ calls \in 0..MaxCalls

(* The argument maps are shared by all the probes and keyed only by
   pid_tgid.  A stash a thread holds belongs to the syscall the thread is in
   (one of the calls whose entry makes that stash, on the same fd), so no
   return probe, of this call or a later one, consumes another call's
   arguments. *)
StashBelongsToCall ==
    \A t \in Threads :
        /\ t \in DOMAIN connectArgs =>
              th[t].sc \in ConnectCalls \cup UdpCalls /\ th[t].stage # "idle"
              /\ (th[t].stage = "in" => connectArgs[t] = th[t].fd)
        /\ t \in DOMAIN acceptArgs => th[t].sc \in AcceptCalls /\ th[t].stage # "idle"
        /\ t \in DOMAIN dataArgs =>
              th[t].sc \in DataCalls /\ th[t].stage # "idle"
              /\ (th[t].stage = "in" => dataArgs[t].fd = th[t].fd)

(* A connection put in conn_tbl is eventually reported: while the current
   element of a key has is_reported clear, a probe is on its way to report
   it (submit_conn_open follows every creation), so the key is eventually
   reported or replaced. *)
Unreported(fd) == fd \in DOMAIN connTbl /\ ~elems[connTbl[fd]].reported
ConnEventuallyReported == \A fd \in Fds : Unreported(fd) ~> ~Unreported(fd)

(* user space attributes an event to the last OPEN of its (tgid, fd).  Every
   DATA event follows an OPEN of the connection its bytes went through. *)
DataFollowsItsOpen ==
    \A i \in 1..Len(emitted) :
        emitted[i].type = "DATA" =>
            \E j \in 1..(i - 1) : emitted[j] = [emitted[i] EXCEPT !.type = "OPEN"]

(* submit_conn_open: "avoid report redundant events".  No connection is
   reported OPEN twice. *)
NoDuplicateOpen ==
    \A i, j \in 1..Len(emitted) :
        /\ i < j /\ emitted[i].type = "OPEN" /\ emitted[j].type = "OPEN"
        => emitted[i] # emitted[j]
=============================================================================
