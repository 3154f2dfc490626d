---------------------------- MODULE L7ProbeMain ----------------------------
(***************************************************************************)
(* The configuration loop of l7probe (l7probe.c main).  Each ipc message    *)
(* from the probe manager carries the snooper objects to trace; on one the  *)
(* loop unloads every BPF program, loads the kernel socket program and one *)
(* libssl program per distinct library path of the snooper objects         *)
(* (load_l7_prog), moves proc_obj_map from the old objects to the new ones *)
(* (unload_l7_snoopers / load_l7_snoopers), reloads the JSSE probe and then *)
(* polls.  Any failure ends the loop; the err label releases what is held.  *)
(* The loaders l7_load_probe_kern_sock, l7_load_probe_libssl and the JSSE  *)
(* probe are not among the sources: whether they succeed is a choice.     *)
(* An ipc body is a set of snooper objects (order only decides which path *)
(* is the one that finds the table full).                                  *)
(***************************************************************************)
EXTENDS Integers, FiniteSets

CONSTANTS
    Procs,          \* process ids a SNOOPER_OBJ_PROC can name
    Libs,           \* library paths
    NoLib,          \* no path: get_elf_path failed or libssl_path is NULL
    ElfLib,         \* pid -> what get_elf_path(pid, ..., "libc\\.so") finds
    Bodies,         \* the ipc bodies the manager may send
    LibsslMax,      \* LIBSSL_EBPF_PROG_MAX
    MaxMsgs,        \* bound on ipc messages received
    LoadFailures,   \* whether the external loaders may fail
    ProcMapPinned   \* proc_obj_map outlives a reload (pinned) or comes fresh

ASSUME NoLib \notin Libs
ASSUME ElfLib \in [Procs -> Libs \cup {NoLib}]

Objs == [type : {"proc"}, pid : Procs] \cup [type : {"con"}, lib : Libs \cup {NoLib}]

ASSUME Bodies \subseteq SUBSET Objs

VARIABLES
    body,       \* l7_mng->ipc_body.snooper_objs
    kernSock,   \* l7_mng->bpf_progs.kern_sock_prog is loaded
    libssl,     \* libssl_path of the occupied libssl_progs slots
    procMap,    \* the pids in proc_obj_map
    jsse,       \* the JSSE probe is loaded
    isLoad,     \* is_load_prog
    stop,       \* g_stop
    pc,         \* "loop", "cleanup" (at err:) or "exited"
    msgs        \* messages received so far

vars == <<body, kernSock, libssl, procMap, jsse, isLoad, stop, pc, msgs>>

(* The path load_l7_prog attaches a libssl program for: libssl_path of a
   container, the library get_elf_path finds for a process. *)
ObjLib(o) == IF o.type = "con" THEN o.lib ELSE ElfLib[o.pid]

(* The distinct paths of a body: __is_exist_libssl_prog skips a path that
   already has a program, and objects without a path are skipped. *)
LibPaths(b) == {ObjLib(o) : o \in b} \ {NoLib}

(* The pids load_l7_snoopers / unload_l7_snoopers write: SNOOPER_OBJ_PROC. *)
Pids(b) == {o.pid : o \in {x \in b : x.type = "proc"}}

(* Variant: __add_libssl_prog never finds the table full. *)
LoadFitsAlways(paths) == TRUE

(* __add_libssl_prog takes the first free slot of LIBSSL_EBPF_PROG_MAX and
   returns -1 when there is none. *)
LoadFits(paths) == Cardinality(paths) <= LibsslMax

(* The outcomes of load_l7_prog on body b: the programs left loaded and
   whether it returned 0.  Its err path unloads only the program in hand,
   so what was loaded before the failure stays. *)
LoadL7Prog(b) ==
    LET paths   == LibPaths(b)
        Partial == {s \in SUBSET paths : Cardinality(s) <= LibsslMax}
        Full    == {[ok |-> TRUE, kern |-> TRUE, libs |-> paths]}
        NoSlot  == {[ok |-> FALSE, kern |-> TRUE, libs |-> s] :
                        s \in {x \in Partial : Cardinality(x) = LibsslMax}}
        Failed  == {[ok |-> FALSE, kern |-> FALSE, libs |-> {}]}
                   \cup {[ok |-> FALSE, kern |-> TRUE, libs |-> s] :
                            s \in {x \in Partial : x # paths}}
    IN  (IF LoadFits(paths) THEN Full ELSE NoSlot)
        \cup (IF LoadFailures THEN Failed ELSE {})

(* The proc_obj_map the reloaded kernel socket program uses: the pinned
   map keeps its entries, an unpinned one is created empty. *)
ReloadedMap == IF ProcMapPinned THEN procMap ELSE {}

Init ==
    /\ body = {}                 \* memset(l7_mng, 0, ...)
    /\ kernSock = FALSE
    /\ libssl = {}
    /\ procMap = {}
    /\ jsse = FALSE
    /\ isLoad = FALSE
    /\ stop = FALSE
    /\ pc = "loop"
    /\ msgs = 0

-----------------------------------------------------------------------------
(* Variant: the old objects are removed after the new body is copied in. *)
RecvIpcMsgUnloadNew(nb) ==
    /\ pc = "loop" /\ ~stop /\ msgs < MaxMsgs
    /\ msgs' = msgs + 1
    /\ \E r \in LoadL7Prog(body) :
         /\ kernSock' = r.kern
         /\ libssl' = r.libs
         /\ IF ~r.ok
            THEN /\ pc' = "cleanup"
                 /\ UNCHANGED <<body, procMap, jsse, isLoad>>
            ELSE /\ body' = nb
                 /\ procMap' = (ReloadedMap \ Pids(nb)) \cup Pids(nb)
                 /\ \E jsseOk \in IF LoadFailures THEN BOOLEAN ELSE {TRUE} :
                      /\ jsse' = jsseOk
                      /\ isLoad' = (isLoad \/ jsseOk)
                      /\ pc' = IF jsseOk THEN "loop" ELSE "cleanup"
    /\ UNCHANGED stop

(* One iteration with a message (main): unload_l7_prog, load_l7_prog on
   l7_mng->ipc_body (on failure the message is destroyed and the loop
   left), unload_l7_snoopers of the old body on the reloaded map, the new
   body copied in and its pids loaded, the JSSE probe unloaded and loaded
   (a failure leaves the loop), is_load_prog = 1. *)
RecvIpcMsg(nb) ==
    /\ pc = "loop" /\ ~stop /\ msgs < MaxMsgs
    /\ msgs' = msgs + 1
    /\ \E r \in LoadL7Prog(body) :
         /\ kernSock' = r.kern
         /\ libssl' = r.libs
         /\ IF ~r.ok
            THEN /\ pc' = "cleanup"
                 /\ UNCHANGED <<body, procMap, jsse, isLoad>>
            ELSE /\ body' = nb
                 /\ procMap' = (ReloadedMap \ Pids(body)) \cup Pids(nb)
                 /\ \E jsseOk \in IF LoadFailures THEN BOOLEAN ELSE {TRUE} :
                      /\ jsse' = jsseOk
                      /\ isLoad' = (isLoad \/ jsseOk)
                      /\ pc' = IF jsseOk THEN "loop" ELSE "cleanup"
    /\ UNCHANGED stop

(* An iteration without a message once loaded: poll_l7_pb over the kernel
   socket and every libssl program; an error leaves the loop. *)
PollL7 ==
    /\ pc = "loop" /\ ~stop /\ isLoad
    /\ \E ok \in IF LoadFailures THEN BOOLEAN ELSE {TRUE} :
         pc' = IF ok THEN "loop" ELSE "cleanup"
    /\ UNCHANGED <<body, kernSock, libssl, procMap, jsse, isLoad, stop, msgs>>

(* Environment: SIGINT, sig_int sets g_stop. *)
SigInt ==
    /\ ~stop
    /\ stop' = TRUE
    /\ UNCHANGED <<body, kernSock, libssl, procMap, jsse, isLoad, pc, msgs>>

(* while (!g_stop) finds g_stop set. *)
LoopExit ==
    /\ pc = "loop" /\ stop
    /\ pc' = "cleanup"
    /\ UNCHANGED <<body, kernSock, libssl, procMap, jsse, isLoad, stop, msgs>>

(* err: l7_unload_probe_jsse, unload_l7_prog, destroy_ipc_body; the pids
   are not removed from proc_obj_map. *)
Cleanup ==
    /\ pc = "cleanup"
    /\ jsse' = FALSE /\ kernSock' = FALSE /\ libssl' = {} /\ body' = {}
    /\ pc' = "exited"
    /\ UNCHANGED <<procMap, isLoad, stop, msgs>>

Next ==
    \/ \E nb \in Bodies : RecvIpcMsg(nb)
    \/ PollL7 \/ SigInt \/ LoopExit \/ Cleanup

Spec == Init /\ [][Next]_vars

-----------------------------------------------------------------------------
TypeOK ==
    /\ body \in Bodies \cup {{}}
    /\ kernSock \in BOOLEAN /\ jsse \in BOOLEAN /\ isLoad \in BOOLEAN
    /\ libssl \in SUBSET Libs /\ Cardinality(libssl) <= LibsslMax
    /\ procMap \in SUBSET Procs
    /\ pc \in {"loop", "cleanup", "exited"}
    /\ msgs \in 0..MaxMsgs

(* While the loop runs loaded, proc_obj_map holds exactly the processes of
   the body in force: main removes the previous body's pids before it
   copies in and adds the new ones, so a process dropped by the manager is
   no longer traced. *)
ProcMapMatchesBody ==
    (pc = "loop" /\ isLoad) => procMap = Pids(body)

(* While the loop runs loaded, a libssl program is attached for exactly
   the library paths of the body in force. *)
LibsslFollowsBody ==
    (pc = "loop" /\ isLoad) => libssl = LibPaths(body)
====
