------------------------------ MODULE ProcCache ------------------------------
(***************************************************************************)
(* The proc cache of stackprobe (stackprobe.c, "Proc cache"): the symbol   *)
(* tables of the processes whose user stacks are being resolved, kept in a *)
(* hash keyed by stack_pid_s (st->proc_cache) and, for aging, in the array *)
(* st->proc_cache_mirro of PROC_CACHE_MAX_COUNT pointers in creation       *)
(* order.  The main loop resolves every user address of a stack through   *)
(* search_user_addr_symb, which creates a missing entry and ages the      *)
(* oldest one out when the array is full.                                 *)
(* An entry is an allocation: items[i] is the key of the i-th entry ever  *)
(* created, and pointers are these indices (0 is NULL).  Loading the      *)
(* symbols (proc_load_all_symbs, not in the sources) and malloc succeed or *)
(* fail by a choice.                                                      *)
(***************************************************************************)
EXTENDS Naturals, Sequences, SequencesExt, FiniteSets

CONSTANTS
    Pids,                  \* the stack_pid_s keys stacks carry
    PROC_CACHE_MAX_COUNT,  \* slots of proc_cache_mirro
    MaxItems,              \* bound on entries created
    LoadFailures           \* whether proc_load_all_symbs or malloc may fail

Slots == 0..(PROC_CACHE_MAX_COUNT - 1)

VARIABLES
    items,       \* key of each entry ever created
    hash,        \* the entries in st->proc_cache
    mirro,       \* st->proc_cache_mirro: Slots -> entry or 0
    mirroCount,  \* st->proc_cache_mirro_count
    last,        \* <<key, "hit" or "miss">> of the latest search, or <<>>
    destroyed    \* destroy_proc_cache_tbl has run (teardown)

vars == <<items, hash, mirro, mirroCount, last, destroyed>>

Init ==
    /\ items = <<>> /\ hash = {}
    /\ mirro = [s \in Slots |-> 0] /\ mirroCount = 0
    /\ last = <<>> /\ destroyed = FALSE

(* H_FIND on the key: the entries of the hash with key k. *)
Find(h, k) == {i \in h : items[i] = k}

(* __aging_proc_cache: the entry found under the aged item's key is
   deleted from the hash (and its symbols and memory freed).  It runs
   after the new entry is created, so the keys are those of items'. *)
AgingProcCache(h, aging) == {i \in h : items'[i] # items'[aging]}

(* Variant: the array is treated as full one slot late. *)
AddProcCacheMirroLate(new, h) ==
    IF mirroCount <= PROC_CACHE_MAX_COUNT
    THEN /\ mirro' = [mirro EXCEPT ![mirroCount] = new]
         /\ mirroCount' = mirroCount + 1 /\ hash' = h
    ELSE /\ mirro' = [s \in Slots |-> IF s < PROC_CACHE_MAX_COUNT - 1 THEN mirro[s + 1] ELSE new]
         /\ hash' = AgingProcCache(h, mirro[0]) /\ UNCHANGED mirroCount

(* Variant: the shift forgets to put the new entry in the last slot. *)
AddProcCacheMirroNoTail(new, h) ==
    IF mirroCount < PROC_CACHE_MAX_COUNT
    THEN /\ mirro' = [mirro EXCEPT ![mirroCount] = new]
         /\ mirroCount' = mirroCount + 1 /\ hash' = h
    ELSE /\ mirro' = [s \in Slots |-> IF s < PROC_CACHE_MAX_COUNT - 1 THEN mirro[s + 1] ELSE mirro[s]]
         /\ hash' = AgingProcCache(h, mirro[0]) /\ UNCHANGED mirroCount

(* __add_proc_cache_mirro: a free slot takes the new entry; with none, the
   oldest is taken from slot 0, the rest shift down, the new entry goes in
   the last slot and the oldest is aged out of the hash. *)
AddProcCacheMirro(new, h) ==
    IF mirroCount < PROC_CACHE_MAX_COUNT
    THEN /\ mirro' = [mirro EXCEPT ![mirroCount] = new]
         /\ mirroCount' = mirroCount + 1 /\ hash' = h
    ELSE /\ mirro' = [s \in Slots |-> IF s < PROC_CACHE_MAX_COUNT - 1 THEN mirro[s + 1] ELSE new]
         /\ hash' = AgingProcCache(h, mirro[0]) /\ UNCHANGED mirroCount

(* __create_proc_cache: the symbols are loaded and an entry allocated (a
   failure of either returns NULL and changes nothing), the entry is added
   to the hash and then to the array. *)
CreateProcCache(k) ==
    \/ LoadFailures /\ last' = <<k, "miss">> /\ UNCHANGED <<items, hash, mirro, mirroCount>>
    \/ /\ Len(items) < MaxItems
       /\ items' = Append(items, k)
       /\ AddProcCacheMirro(Len(items) + 1, hash \cup {Len(items) + 1})
       /\ last' = <<k, "miss">>

(* search_user_addr_symb for one user address of a stack of key k:
   __search_proc_cache, and __create_proc_cache on a miss. *)
SearchUserAddrSymb(k) ==
    /\ ~destroyed
    /\ IF Find(hash, k) # {}
       THEN last' = <<k, "hit">> /\ UNCHANGED <<items, hash, mirro, mirroCount>>
       ELSE CreateProcCache(k)
    /\ UNCHANGED destroyed

(* destroy_proc_cache_tbl, from destroy_stack_trace: every entry deleted,
   the array zeroed (its count is left as it is; st is freed next). *)
DestroyProcCacheTbl ==
    /\ ~destroyed
    /\ hash' = {} /\ mirro' = [s \in Slots |-> 0] /\ destroyed' = TRUE
    /\ UNCHANGED <<items, mirroCount, last>>

Next == DestroyProcCacheTbl \/ \E k \in Pids : SearchUserAddrSymb(k)

Spec == Init /\ [][Next]_vars

-----------------------------------------------------------------------------
TypeOK ==
    /\ items \in Seq(Pids) /\ Len(items) <= MaxItems
    /\ hash \subseteq 1..Len(items)
    /\ mirro \in [Slots -> 0..Len(items)]
    /\ mirroCount \in 0..PROC_CACHE_MAX_COUNT
    /\ destroyed \in BOOLEAN

(* The keys of the entries the array holds, oldest first. *)
MirroKeys ==
    LET held == SelectSeq([j \in 1..PROC_CACHE_MAX_COUNT |-> mirro[j - 1]], LAMBDA e : e # 0)
    IN  [j \in 1..Len(held) |-> items[held[j]]]

Abstract == INSTANCE FifoCache WITH Keys <- Pids, Capacity <- PROC_CACHE_MAX_COUNT,
                                    cache <- MirroKeys, last <- last

(* The hash and the aging array together behave as one first-in first-out
   cache of PROC_CACHE_MAX_COUNT processes: a search hits exactly when the
   process is among the last PROC_CACHE_MAX_COUNT created, and creating one
   more drops the oldest, from the hash as well, so no entry outlives its
   aging and the cache's memory stays bounded. *)
CacheRefinesFifo == Abstract!Spec
=============================================================================
