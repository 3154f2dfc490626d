------------------------------ MODULE Snooper ------------------------------
(***************************************************************************)
(* The snooper of one probe (lib/probe/snooper.c): its configuration       *)
(* (probe->snooper_confs), the object table derived from it                *)
(* (probe->snooper_objs, SNOOPER_MAX slots guarded by probe->rwlock), and  *)
(* the two threads that write the table:                                   *)
(*   - the configuration thread runs parse_snooper: it frees the old       *)
(*     configuration, parses the new one (returning early on a malformed   *)
(*     item) and calls refresh_snooper_obj, which empties the table under  *)
(*     the lock and then regenerates it conf by conf, scanning /proc for   *)
(*     process-name confs;                                                 *)
(*   - the event thread runs rcv_snooper_proc_evt for each record of the   *)
(*     snooper_proc_channel perf buffer: an exec adds the process for      *)
(*     every matching process-name conf, an exit removes its objects.      *)
(* The processes of the host are the environment: they start (the exec    *)
(* tracepoint emits an exec record) and exit (an exit record).  Records   *)
(* of different CPUs reach the poller in any order.                        *)
(* A section the code runs under probe->rwlock is one step; the reads of  *)
(* the configuration, which the code does without the lock, are steps of  *)
(* their own.  Pod and container confs produce cgroup objects of the      *)
(* running containers (get_container_cpucg_inode and get_all_container are *)
(* not in the sources: a container's cgroup is found exactly when it       *)
(* runs), gaussdb confs a database object; containers start and stop, and *)
(* no handler reacts (rcv_snooper_cgrp_evt is a TODO).                     *)
(***************************************************************************)
EXTENDS Integers, Sequences, FiniteSets

CONSTANTS
    Procs,       \* process ids
    Comms,       \* process names (the basename of the exec'd file)
    Patterns,    \* the comm patterns a process-name conf may carry
    Matches,     \* <<pattern, comm>> pairs the regex of __chk_snooper_pattern accepts
    Configs,     \* the snooper JSON documents parse_snooper may be given, as
                 \* their items in parse order; an item of type "invalid" is
                 \* one the parser rejects
    NoProc,      \* an idle slot (NULL in probe->snooper_objs)
    SnooperMax,  \* SNOOPER_MAX: slots of the object and conf tables
    MaxStarts,   \* bound on process starts
    MaxParses,   \* bound on configuration updates
    PidReuse,    \* whether a pid that has run may be given to a new process
    Containers,  \* container ids (a cgroup object is named by its container)
    Pods,        \* pod names
    PodOf,       \* the pod of each container
    DBs          \* the gaussdb confs a document may carry

ConfItems == [type : {"procid"}, pid : Procs] \cup [type : {"app"}, comm : Patterns]
             \cup [type : {"pod"}, pod : Pods] \cup [type : {"container"}, con : Containers]
             \cup [type : {"gaussdb"}, db : DBs]

(* parse_snooper parses the process ids, then the process names, the pods,
   the container ids and the gaussdb items: a document's items come in this
   order. *)
ParseRank == [procid |-> 1, app |-> 2, pod |-> 3, container |-> 4, gaussdb |-> 5]
InParseOrder(json) ==
    \A k1, k2 \in 1..Len(json) :
        (k1 < k2 /\ json[k1].type # "invalid" /\ json[k2].type # "invalid")
            => ParseRank[json[k1].type] <= ParseRank[json[k2].type]

ASSUME NoProc \notin Procs \cup Containers \cup DBs
ASSUME Procs \cap Containers = {} /\ Procs \cap DBs = {} /\ Containers \cap DBs = {}
ASSUME PodOf \in [Containers -> Pods]
ASSUME Matches \subseteq Patterns \X Comms
ASSUME \A json \in Configs : json \in Seq(ConfItems \cup [type : {"invalid"}]) /\ InParseOrder(json)
ASSUME SnooperMax \in Nat \ {0}

VARIABLES
    live,      \* processes that are running
    comm,      \* the comm of each process's current image
    pending,   \* perf records emitted and not yet consumed
    starts,    \* process starts so far
    confs,     \* probe->snooper_confs[0 .. snooper_conf_num - 1]
    objs,      \* probe->snooper_objs: slot -> process id or NoProc
    cfg,       \* configuration thread: its stage, conf index and /proc entries left
    evt,       \* event thread: its stage, the exec record and conf index
    parses,    \* parse_snooper calls so far
    parseOk,   \* whether the last parse_snooper parsed the whole document
    born,      \* pids that have run (for the pid-reuse bound)
    running    \* containers that are running

vars == <<live, comm, pending, starts, confs, objs, cfg, evt, parses, parseOk, born, running>>

Slots == 1..SnooperMax

CfgIdle == [stage |-> "idle", i |-> 0, todo |-> {}]
EvtIdle == [stage |-> "idle", pid |-> NoProc, comm |-> CHOOSE c \in Comms : TRUE, j |-> 0]

(* __chk_snooper_pattern: regcomp/regexec of the conf's pattern on the comm. *)
ChkSnooperPattern(pat, c) == <<pat, c>> \in Matches

Tracked(p) == \E s \in Slots : objs[s] = p

(* __get_snooper_obj_idle and add_snooper_obj_procid: the lowest idle slot
   takes the process; with none idle the table is unchanged and the call
   fails.  No slot is checked for the process already being there. *)
IdleSlots(o) == {s \in Slots : o[s] = NoProc}
AddObjProcid(o, p) ==
    IF IdleSlots(o) = {} THEN o
    ELSE [o EXCEPT ![CHOOSE s \in IdleSlots(o) : \A s2 \in IdleSlots(o) : s <= s2] = p]

(* add_snooper_obj_cgrp and add_snooper_obj_gaussdb: the same slot search
   and failure as add_snooper_obj_procid, for a cgroup (named here by its
   container) or a database object. *)
AddObjCgrp(o, knid) == AddObjProcid(o, knid)
AddObjGaussdb(o, db) == AddObjProcid(o, db)

(* The cgroup objects of the running containers in S, added one by one
   (each add's failure ignored). *)
RECURSIVE AddObjCgrps(_, _)
AddObjCgrps(o, S) ==
    IF S = {} THEN o
    ELSE LET c == CHOOSE x \in S : TRUE IN AddObjCgrps(AddObjCgrp(o, c), S \ {c})

(* Variant: the pod name is not compared. *)
GenSnooperByPodAnyPod(o, pod) == AddObjCgrps(o, running)

(* gen_snooper_by_pod: get_all_container lists the running containers; one
   of the pod gets its cgroup object (a failed add is ignored, and the
   generator always returns 0). *)
GenSnooperByPod(o, pod) == AddObjCgrps(o, {c \in running : PodOf[c] = pod})

(* gen_snooper_by_container: the container's cgroup inode is found only
   while it runs; a failed lookup, or a failed add, is the generator's
   error. *)
GenSnooperByContainerFails(o, c) == c \notin running \/ IdleSlots(o) = {}
GenSnooperByContainer(o, c) == IF c \in running THEN AddObjCgrp(o, c) ELSE o

(* The parse of a document stops at its first rejected item, or at the item
   that would be conf number SNOOPER_MAX + 1 (add_snooper_conf_* returns -1). *)
Rejected(json, k) == json[k].type = "invalid" \/ k > SnooperMax
(* Variant: the rejected item itself is kept. *)
ParsedLenPastReject(json) ==
    IF \E k \in 1..Len(json) : Rejected(json, k)
    THEN CHOOSE k \in 1..Len(json) : Rejected(json, k) /\ \A k2 \in 1..k-1 : ~Rejected(json, k2)
    ELSE Len(json)
ParsedLen(json) ==
    IF \E k \in 1..Len(json) : Rejected(json, k)
    THEN (CHOOSE k \in 1..Len(json) : Rejected(json, k) /\ \A k2 \in 1..k-1 : ~Rejected(json, k2)) - 1
    ELSE Len(json)

Init ==
    /\ live \in SUBSET Procs
    /\ comm \in [Procs -> Comms]
    /\ pending = {}
    /\ starts = 0
    /\ confs = <<>>
    /\ objs = [s \in Slots |-> NoProc]
    /\ cfg = CfgIdle
    /\ evt = EvtIdle
    /\ parses = 0
    /\ parseOk = TRUE
    /\ born = live
    /\ running \in SUBSET Containers

-----------------------------------------------------------------------------
(* Environment: a process is exec'd, and the sched_process_exec tracepoint
   of snooper.bpf.c emits a record of its pid and file name. *)
ProcStart(p, c) ==
    /\ p \notin live
    /\ PidReuse \/ p \notin born
    /\ starts < MaxStarts
    /\ live' = live \cup {p}
    /\ born' = born \cup {p}
    /\ comm' = [comm EXCEPT ![p] = c]
    /\ pending' = pending \cup {[ev |-> "exec", pid |-> p, comm |-> c, n |-> starts]}
    /\ starts' = starts + 1
    /\ UNCHANGED <<confs, objs, cfg, evt, parses, parseOk, running>>

(* Environment: the process exits and sched_process_exit emits its pid. *)
ProcExit(p) ==
    /\ p \in live
    /\ live' = live \ {p}
    /\ pending' = pending \cup {[ev |-> "exit", pid |-> p, comm |-> comm[p], n |-> starts]}
    /\ UNCHANGED <<comm, starts, confs, objs, cfg, evt, parses, parseOk, born, running>>

(* Environment: a container starts or stops. *)
ContainerStart(c) ==
    /\ c \notin running
    /\ running' = running \cup {c}
    /\ UNCHANGED <<live, comm, pending, starts, confs, objs, cfg, evt, parses, parseOk, born>>

ContainerStop(c) ==
    /\ c \in running
    /\ running' = running \ {c}
    /\ UNCHANGED <<live, comm, pending, starts, confs, objs, cfg, evt, parses, parseOk, born>>

-----------------------------------------------------------------------------
(* parse_snooper, first part: every conf is freed and snooper_conf_num is
   set to 0, without the lock. *)
ParseSnooperFree ==
    /\ cfg.stage = "idle"
    /\ parses < MaxParses
    /\ confs' = <<>>
    /\ cfg' = [cfg EXCEPT !.stage = "parse"]
    /\ parses' = parses + 1
    /\ UNCHANGED <<live, comm, pending, starts, objs, evt, parseOk, born, running>>

(* parse_snooper, second part: parse_snooper_procid, _procname, ... append
   the items in order; the first rejected item makes parse_snooper return -1
   with the items before it installed and the object table left as it was.
   Otherwise refresh_snooper_obj follows. *)
ParseSnooperConfs ==
    /\ cfg.stage = "parse"
    /\ \E json \in Configs :
         LET k == ParsedLen(json) IN
         /\ confs' = SubSeq(json, 1, k)
         /\ parseOk' = (k = Len(json))
         /\ cfg' = IF k = Len(json) THEN [cfg EXCEPT !.stage = "clear"] ELSE CfgIdle
    /\ UNCHANGED <<live, comm, pending, starts, objs, evt, parses, born, running>>

(* refresh_snooper_obj: under the write lock every object is freed. *)
RefreshClear ==
    /\ cfg.stage = "clear"
    /\ objs' = [s \in Slots |-> NoProc]
    /\ cfg' = [stage |-> "gen", i |-> 1, todo |-> {}]
    /\ UNCHANGED <<live, comm, pending, starts, confs, evt, parses, parseOk, born, running>>

(* refresh_snooper_obj, one round of its conf loop (lock released): a
   process-id conf adds its process whether it runs or not, and a failed add
   returns from the refresh, skipping the remaining confs; a process-name
   conf opens /proc; a pod, container or gaussdb conf runs its generator,
   whose error also returns from the refresh; after the last conf
   parse_snooper returns. *)
RefreshGen ==
    /\ cfg.stage = "gen"
    /\ \/ /\ cfg.i > Len(confs)
          /\ cfg' = CfgIdle
          /\ UNCHANGED objs
       \/ /\ cfg.i <= Len(confs) /\ confs[cfg.i].type = "procid"
          /\ objs' = AddObjProcid(objs, confs[cfg.i].pid)
          /\ cfg' = IF IdleSlots(objs) = {} THEN CfgIdle ELSE [cfg EXCEPT !.i = @ + 1]
       \/ /\ cfg.i <= Len(confs) /\ confs[cfg.i].type = "app"
          /\ cfg' = [cfg EXCEPT !.stage = "scan", !.todo = Procs]
          /\ UNCHANGED objs
       \/ /\ cfg.i <= Len(confs) /\ confs[cfg.i].type = "pod"
          /\ objs' = GenSnooperByPod(objs, confs[cfg.i].pod)
          /\ cfg' = [cfg EXCEPT !.i = @ + 1]
       \/ /\ cfg.i <= Len(confs) /\ confs[cfg.i].type = "container"
          /\ objs' = GenSnooperByContainer(objs, confs[cfg.i].con)
          /\ cfg' = IF GenSnooperByContainerFails(objs, confs[cfg.i].con)
                    THEN CfgIdle ELSE [cfg EXCEPT !.i = @ + 1]
       \/ /\ cfg.i <= Len(confs) /\ confs[cfg.i].type = "gaussdb"
          /\ objs' = AddObjGaussdb(objs, confs[cfg.i].db)
          /\ cfg' = IF IdleSlots(objs) = {} THEN CfgIdle ELSE [cfg EXCEPT !.i = @ + 1]
    /\ UNCHANGED <<live, comm, pending, starts, confs, evt, parses, parseOk, born, running>>

(* gen_snooper_by_procname, one readdir of /proc: an entry whose comm can
   be read and matches the pattern is added (the result is ignored).  A
   process that is not running has no entry, or its comm cannot be read. *)
GenSnooperByProcname ==
    /\ cfg.stage = "scan"
    /\ \E p \in cfg.todo :
         /\ objs' = IF p \in live /\ ChkSnooperPattern(confs[cfg.i].comm, comm[p])
                    THEN AddObjProcid(objs, p) ELSE objs
         /\ cfg' = [cfg EXCEPT !.todo = @ \ {p}]
    /\ UNCHANGED <<live, comm, pending, starts, confs, evt, parses, parseOk, born, running>>

(* gen_snooper_by_procname: readdir returns NULL, closedir, next conf. *)
GenSnooperByProcnameDone ==
    /\ cfg.stage = "scan"
    /\ cfg.todo = {}
    /\ cfg' = [stage |-> "gen", i |-> cfg.i + 1, todo |-> {}]
    /\ UNCHANGED <<live, comm, pending, starts, confs, objs, evt, parses, parseOk, born, running>>

-----------------------------------------------------------------------------
(* Variant: the conf loop starts at the second conf. *)
RcvSnooperProcExecSkipFirst ==
    /\ evt.stage = "idle"
    /\ \E e \in pending :
         /\ e.ev = "exec"
         /\ pending' = pending \ {e}
         /\ evt' = [stage |-> "exec", pid |-> e.pid, comm |-> e.comm, j |-> 2]
    /\ UNCHANGED <<live, comm, starts, confs, objs, cfg, parses, parseOk, born, running>>

(* perf_buffer poll delivers one exec record to rcv_snooper_proc_evt, which
   calls __rcv_snooper_proc_exec. *)
RcvSnooperProcExec ==
    /\ evt.stage = "idle"
    /\ \E e \in pending :
         /\ e.ev = "exec"
         /\ pending' = pending \ {e}
         /\ evt' = [stage |-> "exec", pid |-> e.pid, comm |-> e.comm, j |-> 1]
    /\ UNCHANGED <<live, comm, starts, confs, objs, cfg, parses, parseOk, born, running>>

(* __rcv_snooper_proc_exec, one round of its conf loop: snooper_conf_num and
   the conf are read without the lock; a matching process-name conf adds the
   process (result ignored). *)
RcvSnooperProcExecConf ==
    /\ evt.stage = "exec"
    /\ \/ /\ evt.j > Len(confs)
          /\ evt' = EvtIdle
          /\ UNCHANGED objs
       \/ /\ evt.j <= Len(confs)
          /\ objs' = IF confs[evt.j].type = "app" /\ ChkSnooperPattern(confs[evt.j].comm, evt.comm)
                     THEN AddObjProcid(objs, evt.pid) ELSE objs
          /\ evt' = [evt EXCEPT !.j = @ + 1]
    /\ UNCHANGED <<live, comm, pending, starts, confs, cfg, parses, parseOk, born, running>>

(* An exit record: __rcv_snooper_proc_exit frees, under the write lock, every
   process object of the pid. *)
RcvSnooperProcExit ==
    /\ evt.stage = "idle"
    /\ \E e \in pending :
         /\ e.ev = "exit"
         /\ pending' = pending \ {e}
         /\ objs' = [s \in Slots |-> IF objs[s] = e.pid THEN NoProc ELSE objs[s]]
    /\ UNCHANGED <<live, comm, starts, confs, cfg, evt, parses, parseOk, born, running>>

-----------------------------------------------------------------------------
ConfigThread ==
    \/ ParseSnooperFree \/ ParseSnooperConfs \/ RefreshClear
    \/ RefreshGen \/ GenSnooperByProcname \/ GenSnooperByProcnameDone

EventThread == RcvSnooperProcExec \/ RcvSnooperProcExecConf \/ RcvSnooperProcExit

Next ==
    \/ \E p \in Procs, c \in Comms : ProcStart(p, c)
    \/ \E p \in Procs : ProcExit(p)
    \/ \E c \in Containers : ContainerStart(c) \/ ContainerStop(c)
    \/ ConfigThread
    \/ EventThread

(* Both threads run whenever they have work; the next configuration update
   is the operator's choice and is not assumed to come. *)
Spec == Init /\ [][Next]_vars
        /\ WF_vars(RefreshClear \/ RefreshGen \/ GenSnooperByProcname \/ GenSnooperByProcnameDone \/ ParseSnooperConfs)
        /\ WF_vars(EventThread)

-----------------------------------------------------------------------------
TypeOK ==
    /\ live \subseteq Procs
    /\ comm \in [Procs -> Comms]
    /\ confs \in Seq(ConfItems)
    /\ objs \in [Slots -> Procs \cup Containers \cup DBs \cup {NoProc}]
    /\ cfg.stage \in {"idle", "parse", "clear", "gen", "scan"}
    /\ cfg.todo \subseteq Procs
    /\ evt.stage \in {"idle", "exec"}
    /\ parseOk \in BOOLEAN
    /\ born \subseteq Procs
    /\ running \subseteq Containers

(* Nothing is in flight: both threads are idle and every record consumed. *)
Quiescent == cfg.stage = "idle" /\ evt.stage = "idle" /\ pending = {}

(* A running process the current configuration selects, by pid or by name. *)
Selected(p) ==
    /\ p \in live
    /\ \E k \in 1..Len(confs) :
         \/ confs[k].type = "procid" /\ confs[k].pid = p
         \/ confs[k].type = "app" /\ ChkSnooperPattern(confs[k].comm, comm[p])

(* After parse_snooper has installed a whole configuration and every exec
   and exit record has been handled, each running process that a
   process-name conf or a process-id conf selects has an
   object: whichever way the refresh of parse_snooper and the perf handlers
   (__rcv_snooper_proc_exec reading the confs without the lock) interleave
   with processes starting and exiting, none is lost. *)
QuiescentComplete ==
    (Quiescent /\ parseOk) => \A p \in Procs : Selected(p) => Tracked(p)

(* The same, whether or not the last parse_snooper failed part way. *)
QuiescentCompleteAfterAnyParse ==
    Quiescent => \A p \in Procs : Selected(p) => Tracked(p)

(* The same for a configuration that selects no more processes than there
   are slots (SNOOPER_MAX): add_snooper_obj_procid never checks for the
   process already holding a slot, so a process added twice, by two confs or
   by the refresh and an exec record, takes a slot another one needs. *)
QuiescentCompleteWithinCapacity ==
    (Quiescent /\ parseOk /\ Cardinality({p \in Procs : Selected(p)}) <= SnooperMax)
        => \A p \in Procs : Selected(p) => Tracked(p)

(* When nothing is in flight, every process object in probe->snooper_objs
   is a process the current configuration selects: an exited process, or one no
   conf matches any more, holds no slot. *)
QuiescentSound ==
    Quiescent => \A s \in Slots : objs[s] \in Procs => Selected(objs[s])

(* A cgroup or database object belongs to a conf of the configuration now
   installed: once a parse_snooper has installed a whole document and the
   event thread is idle, every cgroup object is of a container the
   document names, or of a container of a pod it names, and every database
   object is of one of its gaussdb items; none survives from the previous
   document, whichever way containers start and stop and the refresh's
   generators succeed or fail. *)
Configured(x) ==
    \E k \in 1..Len(confs) :
        \/ confs[k].type = "container" /\ confs[k].con = x
        \/ confs[k].type = "pod" /\ x \in Containers /\ confs[k].pod = PodOf[x]
        \/ confs[k].type = "gaussdb" /\ confs[k].db = x
QuiescentObjectsConfigured ==
    (Quiescent /\ parseOk) => \A s \in Slots : objs[s] \in Containers \cup DBs => Configured(objs[s])

(* After a whole document is installed and nothing is in flight, every
   gaussdb item of it has its database object (add_snooper_obj_gaussdb
   never fails while slots are free). *)
GaussdbTracked ==
    (Quiescent /\ parseOk) =>
        \A k \in 1..Len(confs) : confs[k].type = "gaussdb" => \E s \in Slots : objs[s] = confs[k].db
====
