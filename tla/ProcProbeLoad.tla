---------------------------- MODULE ProcProbeLoad ----------------------------
(***************************************************************************)
(* load_proc_bpf_prog of taskprobe (proc_probe.c): from the probe_range    *)
(* flags of an ipc body and the kernel modules present it decides which of *)
(* ten BPF sub-programs to load, loads them in a fixed order into one      *)
(* bpf_prog_s, creates the shared output perf buffer with the first one,  *)
(* and on any failure unloads the whole program.                          *)
(* The flag arithmetic is kept bit for bit (Bitwise): the decision is the *)
(* code's expression, not its intent.  Opening, loading and attaching a   *)
(* skeleton (the skeleton headers are generated) succeed or fail by a     *)
(* choice.                                                                 *)
(***************************************************************************)
EXTENDS Integers, FiniteSets, Sequences, Bitwise

CONSTANTS
    RangeBits,      \* the probe_range_flags bits a body may set
    NetBit,         \* PROBE_RANGE_PROC_NET (not defined in ipc.h)
    LoadFailures    \* whether skeleton loads and perf buffer creation may fail

(* ipc.h *)
PROBE_RANGE_PROC_SYSCALL   == 1
PROBE_RANGE_PROC_FS        == 2
PROBE_RANGE_PROC_DNS       == 4
PROBE_RANGE_PROC_IO        == 8
PROBE_RANGE_PROC_PAGECACHE == 16

(* The loaders in the order load_proc_bpf_prog calls them. *)
Order == <<"syscall", "syscall_io", "syscall_net", "syscall_sched", "syscall_fork",
           "ext4", "overlay", "tmpfs", "page", "proc_io">>
SubProbes == {Order[k] : k \in 1..Len(Order)}
Mods == {"overlay", "ext4"}
NoFd == "none"

(* The sum of a set of distinct bits. *)
RECURSIVE BitSum(_)
BitSum(S) == IF S = {} THEN 0 ELSE LET b == CHOOSE x \in S : TRUE IN b + BitSum(S \ {b})

VARIABLES
    flags,      \* ipc_body->probe_range_flags
    mods,       \* the modules is_exist_mod finds
    i,          \* the next loader
    skels,      \* skeletons registered in prog->skels
    attached,   \* skeletons loaded and attached in the kernel
    pb,         \* prog->pb
    mapFd,      \* the skeleton task_probe->proc_map_fd belongs to
    st          \* "idle", "loading", "err", "ok", "none" (nothing to load), "failed"

vars == <<flags, mods, i, skels, attached, pb, mapFd, st>>

(* is_exist_mod: (char)(cnt > 0). *)
IsExistMod(m) == IF m \in mods THEN 1 ELSE 0

(* Variant: the module test is dropped. *)
IsLoadNoModTest(sp) ==
    CASE sp = "ext4" \/ sp = "overlay" -> flags & PROBE_RANGE_PROC_FS
      [] sp = "syscall" \/ sp = "syscall_fork" \/ sp = "syscall_sched" -> flags & PROBE_RANGE_PROC_SYSCALL
      [] sp = "syscall_io" \/ sp = "proc_io" -> flags & PROBE_RANGE_PROC_IO
      [] sp = "syscall_net" -> flags & NetBit
      [] sp = "tmpfs" -> flags & PROBE_RANGE_PROC_FS
      [] sp = "page" -> flags & PROBE_RANGE_PROC_PAGECACHE

(* The is_load_<x> of load_proc_bpf_prog, as written: the file-system
   programs and-ing the masked flag with is_exist_mod's 0 or 1. *)
IsLoad(sp) ==
    CASE sp = "ext4" -> (flags & PROBE_RANGE_PROC_FS) & IsExistMod("ext4")
      [] sp = "overlay" -> (flags & PROBE_RANGE_PROC_FS) & IsExistMod("overlay")
      [] sp = "syscall" \/ sp = "syscall_fork" \/ sp = "syscall_sched" -> flags & PROBE_RANGE_PROC_SYSCALL
      [] sp = "syscall_io" \/ sp = "proc_io" -> flags & PROBE_RANGE_PROC_IO
      [] sp = "syscall_net" -> flags & NetBit
      [] sp = "tmpfs" -> flags & PROBE_RANGE_PROC_FS
      [] sp = "page" -> flags & PROBE_RANGE_PROC_PAGECACHE

Init ==
    /\ flags \in {BitSum(S) : S \in SUBSET RangeBits}
    /\ mods \in SUBSET Mods
    /\ i = 0 /\ skels = {} /\ attached = {} /\ pb = FALSE /\ mapFd = NoFd
    /\ st = "idle"

-----------------------------------------------------------------------------
(* load_proc_bpf_prog up to alloc_bpf_prog: nothing to load returns 0 with
   no program; a failed allocation returns -1. *)
Start ==
    /\ st = "idle"
    /\ IF \A sp \in SubProbes : IsLoad(sp) = 0
       THEN st' = "none" /\ UNCHANGED i
       ELSE \E ok \in IF LoadFailures THEN BOOLEAN ELSE {TRUE} :
              /\ st' = IF ok THEN "loading" ELSE "failed"
              /\ i' = 1
    /\ UNCHANGED <<flags, mods, skels, attached, pb, mapFd>>

(* Variant: the skeleton is registered before its load is checked. *)
LoadSubProbeRegisterEarly ==
    /\ st = "loading" /\ i <= Len(Order)
    /\ LET sp == Order[i] IN
       IF IsLoad(sp) = 0
       THEN i' = i + 1 /\ UNCHANGED <<skels, attached, pb, mapFd, st>>
       ELSE \E r \in IF LoadFailures THEN {"ok", "loadfail", "pbfail"} ELSE {"ok"} :
              /\ (r = "pbfail" => ~pb)
              /\ CASE r = "ok" ->
                        /\ skels' = skels \cup {sp} /\ attached' = attached \cup {sp}
                        /\ mapFd' = sp /\ pb' = TRUE /\ i' = i + 1 /\ UNCHANGED st
                   [] r = "loadfail" -> skels' = skels \cup {sp} /\ st' = "err"
                                         /\ UNCHANGED <<attached, pb, mapFd, i>>
                   [] r = "pbfail" ->
                        /\ skels' = skels \cup {sp} /\ attached' = attached \cup {sp}
                        /\ mapFd' = sp /\ st' = "err" /\ UNCHANGED <<pb, i>>
    /\ UNCHANGED <<flags, mods>>

(* Variant: the skeleton is registered only once its perf buffer is made. *)
LoadSubProbeLateRegister ==
    /\ st = "loading" /\ i <= Len(Order)
    /\ LET sp == Order[i] IN
       IF IsLoad(sp) = 0
       THEN i' = i + 1 /\ UNCHANGED <<skels, attached, pb, mapFd, st>>
       ELSE \E r \in IF LoadFailures THEN {"ok", "loadfail", "pbfail"} ELSE {"ok"} :
              /\ (r = "pbfail" => ~pb)
              /\ CASE r = "ok" ->
                        /\ skels' = skels \cup {sp} /\ attached' = attached \cup {sp}
                        /\ mapFd' = sp /\ pb' = TRUE /\ i' = i + 1 /\ UNCHANGED st
                   [] r = "loadfail" -> st' = "err" /\ UNCHANGED <<skels, attached, pb, mapFd, i>>
                   [] r = "pbfail" ->
                        /\ attached' = attached \cup {sp} /\ mapFd' = sp
                        /\ st' = "err" /\ UNCHANGED <<skels, pb, i>>
    /\ UNCHANGED <<flags, mods>>

(* load_proc_<x>_prog: with is_load 0 nothing happens.  Otherwise
   __LOAD_PROBE opens, pins and loads the skeleton (a failure UNLOADs it
   and returns -1); the skeleton is registered in prog->skels,
   proc_map_fd and args_fd are taken from it, and load_proc_create_pb
   makes the perf buffer if prog->pb is still NULL (a failure returns -1
   with the skeleton registered). *)
LoadSubProbe ==
    /\ st = "loading" /\ i <= Len(Order)
    /\ LET sp == Order[i] IN
       IF IsLoad(sp) = 0
       THEN i' = i + 1 /\ UNCHANGED <<skels, attached, pb, mapFd, st>>
       ELSE \E r \in IF LoadFailures THEN {"ok", "loadfail", "pbfail"} ELSE {"ok"} :
              /\ (r = "pbfail" => ~pb)
              /\ CASE r = "ok" ->
                        /\ skels' = skels \cup {sp} /\ attached' = attached \cup {sp}
                        /\ mapFd' = sp /\ pb' = TRUE /\ i' = i + 1 /\ UNCHANGED st
                   [] r = "loadfail" -> st' = "err" /\ UNCHANGED <<skels, attached, pb, mapFd, i>>
                   [] r = "pbfail" ->
                        /\ skels' = skels \cup {sp} /\ attached' = attached \cup {sp}
                        /\ mapFd' = sp /\ st' = "err" /\ UNCHANGED <<pb, i>>
    /\ UNCHANGED <<flags, mods>>

(* Every loader has run: *new_prog = prog, return 0. *)
Finish ==
    /\ st = "loading" /\ i > Len(Order)
    /\ st' = "ok"
    /\ UNCHANGED <<flags, mods, i, skels, attached, pb, mapFd>>

(* err: unload_bpf_prog destroys every registered skeleton and the perf
   buffer; __ipc_body = NULL.  proc_map_fd is left as it was. *)
Err ==
    /\ st = "err"
    /\ attached' = attached \ skels
    /\ skels' = {} /\ pb' = FALSE
    /\ st' = "failed"
    /\ UNCHANGED <<flags, mods, i, mapFd>>

Next == Start \/ LoadSubProbe \/ Finish \/ Err

Spec == Init /\ [][Next]_vars

-----------------------------------------------------------------------------
TypeOK ==
    /\ flags \in Nat /\ mods \subseteq Mods
    /\ i \in 0..(Len(Order) + 1)
    /\ skels \subseteq SubProbes /\ attached \subseteq SubProbes
    /\ skels \subseteq attached
    /\ pb \in BOOLEAN /\ mapFd \in SubProbes \cup {NoFd}
    /\ st \in {"idle", "loading", "err", "ok", "none", "failed"}

(* The sub-programs each probe range of the snooper's probe_range_define
   stands for: proc_syscall the syscall, fork and sched programs, proc_fs
   tmpfs and, where the kernel has the module, ext4 and overlay, proc_io
   the syscall_io and proc_io programs, proc_pagecache page. *)
Wanted ==
    LET set(b) == (flags \div b) % 2 = 1 IN
    {sp \in SubProbes :
        \/ sp \in {"syscall", "syscall_fork", "syscall_sched"} /\ set(PROBE_RANGE_PROC_SYSCALL)
        \/ sp = "tmpfs" /\ set(PROBE_RANGE_PROC_FS)
        \/ sp \in Mods /\ set(PROBE_RANGE_PROC_FS) /\ sp \in mods
        \/ sp \in {"syscall_io", "proc_io"} /\ set(PROBE_RANGE_PROC_IO)
        \/ sp = "syscall_net" /\ set(NetBit)
        \/ sp = "page" /\ set(PROBE_RANGE_PROC_PAGECACHE)}

(* A successful load attaches no program the configuration did not ask
   for, and no file-system program for a module the kernel lacks. *)
LoadedOnlyWanted ==
    st = "ok" => attached \subseteq Wanted

(* A failed load_proc_bpf_prog leaves nothing attached and no perf buffer,
   whichever loader failed and at which step. *)
FailureLeavesNothing ==
    st = "failed" => (attached = {} /\ ~pb)

(* A successful load attaches every program the enabled ranges stand for. *)
EnabledRangesLoaded ==
    st = "ok" => Wanted \subseteq attached
====
