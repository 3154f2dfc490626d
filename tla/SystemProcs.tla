----------------------------- MODULE SystemProcs -----------------------------
(***************************************************************************)
(* The process metrics of the system_infos probe (system_procs.c).  An     *)
(* ipc body names the processes to watch; refresh_proc_filter_map empties  *)
(* g_procmap and adds one entry per process, keyed by pid and the start    *)
(* time read from /proc/<pid>/stat.  Each period system_proc_probe walks  *)
(* /proc, and for a pid whose (pid, start time) is in g_procmap updates   *)
(* its counters and prints them as the difference from the values before  *)
(* the update, kept in the single global g_pre_proc_info; at the end it   *)
(* drops the entries whose /proc/<pid> is gone.                           *)
(* The processes are the environment: a pid can exit and be taken by a    *)
(* new process with a later start time.  One counter (the /proc io and    *)
(* stat counters alike) stands for the values read; it is u64 in the code *)
(* and taken modulo Wrap here.  comm, cmdline, container id and the other *)
(* fields are formatting.  The probe's caller is not in the sources:      *)
(* refresh and probe are taken to run on one thread, never overlapping.   *)
(***************************************************************************)
EXTENDS Integers, FiniteSets

CONSTANTS
    Pids,      \* pid numbers
    MaxStart,  \* bound: processes one pid can hold over a behaviour
    MaxCtr,    \* bound on a process's counter
    Wrap       \* 2^64 for u64, scaled down

VARIABLES
    alive,    \* /proc/<pid> exists
    born,     \* the start time of the latest process of pid (0: never)
    ctr,      \* the counter of the process pid holds
    procmap,  \* g_procmap: records [pid, start, info]
    pre,      \* g_pre_proc_info (its counter)
    scanning, \* system_proc_probe is walking /proc
    todo,     \* the /proc entries it has not read yet
    sel,      \* ghost: the (pid, start) of the processes the last body selected
    out       \* the lines printed since the last probe start or refresh:
              \* [pid, start (ghost), now, delta]

vars == <<alive, born, ctr, procmap, pre, scanning, todo, sel, out>>

Init ==
    /\ alive \in [Pids -> BOOLEAN]
    /\ born = [p \in Pids |-> IF alive[p] THEN 1 ELSE 0]
    /\ ctr = [p \in Pids |-> 0]
    /\ procmap = {} /\ pre = 0 /\ scanning = FALSE /\ todo = {} /\ sel = {} /\ out = {}

(* get_proc_start_time: access /proc/<pid>/stat, then field 22; a failure
   leaves stime empty, which atoll reads as 0. *)
StartTime(p) == IF alive[p] THEN born[p] ELSE 0

(* update_proc_infos: the counters are read only from a live /proc entry
   (access_check_read_line fails otherwise, leaving the old values). *)
ReadCounter(p, old) == IF alive[p] THEN ctr[p] ELSE old

(* init_one_proc: a zeroed entry keyed by pid and start time, its counters
   read by update_proc_infos. *)
InitOneProc(p) == [pid |-> p, start |-> StartTime(p), info |-> ReadCounter(p, 0)]

(* output_proc_infos: a counter is printed as its u64 difference from
   g_pre_proc_info. *)
OutputDelta(new, old) == (new - old) % Wrap

-----------------------------------------------------------------------------
(* Environment: the process of pid runs, exits, or pid is taken again. *)
Run(p) ==
    /\ alive[p] /\ ctr[p] < MaxCtr
    /\ ctr' = [ctr EXCEPT ![p] = @ + 1]
    /\ UNCHANGED <<alive, born, procmap, pre, scanning, todo, sel, out>>

Exit(p) ==
    /\ alive[p]
    /\ alive' = [alive EXCEPT ![p] = FALSE]
    /\ UNCHANGED <<born, ctr, procmap, pre, scanning, todo, sel, out>>

Spawn(p) ==
    /\ ~alive[p] /\ born[p] < MaxStart
    /\ alive' = [alive EXCEPT ![p] = TRUE]
    /\ born' = [born EXCEPT ![p] = @ + 1]
    /\ ctr' = [ctr EXCEPT ![p] = 0]
    /\ UNCHANGED <<procmap, pre, scanning, todo, sel, out>>

-----------------------------------------------------------------------------
(* Variant: the old entries are kept (no hash_clear_all_proc). *)
RefreshProcFilterMapNoClear(objs) ==
    /\ ~scanning
    /\ procmap' = procmap \cup
           {InitOneProc(p) :
               p \in {q \in objs : \A r \in procmap : <<r.pid, r.start>> # <<q, StartTime(q)>>}}
    /\ pre' = IF objs = {} THEN pre ELSE 0
    /\ sel' = {<<p, StartTime(p)>> : p \in objs}
    /\ out' = {}
    /\ UNCHANGED <<alive, born, ctr, scanning, todo>>

(* refresh_proc_filter_map: hash_clear_all_proc, then for every
   SNOOPER_OBJ_PROC of the body an entry made by init_one_proc (unless one
   with that key is there already), whose update_proc_infos starts from a
   zeroed proc_info_t: g_pre_proc_info ends up zero. *)
RefreshProcFilterMap(objs) ==
    /\ ~scanning
    /\ procmap' = {InitOneProc(p) : p \in objs}
    /\ pre' = IF objs = {} THEN pre ELSE 0
    /\ sel' = {<<p, StartTime(p)>> : p \in objs}
    /\ out' = {}
    /\ UNCHANGED <<alive, born, ctr, scanning, todo>>

(* system_proc_probe: opendir("/proc"). *)
ProbeStart ==
    /\ ~scanning
    /\ scanning' = TRUE /\ todo' = {p \in Pids : alive[p]}
    /\ out' = {}
    /\ UNCHANGED <<alive, born, ctr, procmap, pre, sel>>

(* Variant: the entry is looked up by pid alone. *)
HashFindProcAnyStart(p, s) == {r \in procmap : r.pid = p}

(* hash_find_proc: the entry of key (pid, start time). *)
HashFindProc(p, s) == {r \in procmap : r.pid = p /\ r.start = s}

(* One readdir entry of system_proc_probe: the start time of the pid is
   read (0 when the process exited since opendir, which finds an entry made
   for a dead pid at refresh); an entry found under (pid, start time) is
   updated (g_pre_proc_info = its old values, then the new ones read)
   and printed by output_proc_infos as new - g_pre_proc_info. *)
ProbeEntry(p) ==
    /\ scanning /\ p \in todo
    /\ todo' = todo \ {p}
    /\ IF HashFindProc(p, StartTime(p)) # {}
       THEN LET r == CHOOSE x \in HashFindProc(p, StartTime(p)) : TRUE
                new == ReadCounter(p, r.info)
            IN  /\ pre' = r.info
                /\ procmap' = (procmap \ {r}) \cup {[r EXCEPT !.info = new]}
                /\ out' = out \cup {[pid |-> p, start |-> StartTime(p), now |-> new,
                                     delta |-> OutputDelta(new, r.info)]}
       ELSE UNCHANGED <<procmap, pre, out>>
    /\ UNCHANGED <<alive, born, ctr, scanning, sel>>

(* closedir, then hash_clear_invalid_proc: entries whose /proc/<pid> no
   longer exists are deleted. *)
ProbeEnd ==
    /\ scanning /\ todo = {}
    /\ procmap' = {r \in procmap : alive[r.pid]}
    /\ scanning' = FALSE
    /\ UNCHANGED <<alive, born, ctr, pre, todo, sel, out>>

Next ==
    \/ \E p \in Pids : Run(p) \/ Exit(p) \/ Spawn(p) \/ ProbeEntry(p)
    \/ \E objs \in SUBSET Pids : RefreshProcFilterMap(objs)
    \/ ProbeStart \/ ProbeEnd

Spec == Init /\ [][Next]_vars

-----------------------------------------------------------------------------
TypeOK ==
    /\ alive \in [Pids -> BOOLEAN]
    /\ born \in [Pids -> 0..MaxStart] /\ ctr \in [Pids -> 0..MaxCtr]
    /\ procmap \subseteq [pid : Pids, start : 0..MaxStart, info : 0..MaxCtr]
    /\ pre \in 0..MaxCtr
    /\ scanning \in BOOLEAN /\ todo \subseteq Pids
    /\ out \subseteq [pid : Pids, start : 0..MaxStart, now : 0..MaxCtr, delta : 0..(Wrap - 1)]

(* A line system_proc_probe prints for a pid is about the process the last
   ipc body selected, never a later process that took the same pid. *)
OutputOnlySelected ==
    \A o \in out : <<o.pid, o.start>> \in sel

(* Every printed difference is the growth of the printed process's own
   counters since its previous sample: never a wrapped u64 from a base
   taken from another process, so it is at most the counter now. *)
DeltaWithinProcess ==
    \A o \in out : o.delta <= o.now
=============================================================================
