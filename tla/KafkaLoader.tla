---------------------------- MODULE KafkaLoader ----------------------------
(***************************************************************************)
(* The XDP loader of kafkaprobe (kafkaprobe/loader.c).  load_link_pin     *)
(* loads the object, attaches its program to the interface (link_xdp),    *)
(* asking the operator when another program is there (-EBUSY) and falling *)
(* back to socket mode when native mode is refused, then pins the maps    *)
(* under pin_path/ifname (pin); unpin_unlink_unload undoes the three.     *)
(* What outlives the process is kernel state: the program attached to the *)
(* interface and the pinned map files.  The process may die between any   *)
(* two library calls (Crash); what it attached or pinned then belongs to  *)
(* an earlier run ("old") for the next one.                               *)
(* The library calls are modelled by their effect on that state:          *)
(* bpf_object__pin_maps and __unpin_maps walk the maps in order, one map  *)
(* a step, and stop at the first that fails.  Which of the kernel's       *)
(* attach checks (mode supported, other mode in use) comes first depends  *)
(* on its version, so either error may be returned.                       *)
(***************************************************************************)
EXTENDS Naturals

CONSTANTS
    NMaps,       \* maps of the object, in bpf_object order
    XdpMode,     \* the mode of cfg->xdp_flag given by the caller: "drv" or "skb"
    NativeXdp,   \* whether the driver may support native ("drv") mode: a set of booleans
    Answers,     \* what the operator may answer to the -EBUSY question
    MaxCrashes   \* bound on the process dying

ASSUME NMaps \in Nat \ {0} /\ XdpMode \in {"drv", "skb"} /\ NativeXdp \subseteq BOOLEAN
ASSUME Answers \subseteq {"y", "n"} /\ MaxCrashes \in Nat

Maps == 1..NMaps
Modes == {"drv", "skb"}
Other(m) == IF m = "drv" THEN "skb" ELSE "drv"
NoXdp == [mode |-> "none", prog |-> "none"]

VARIABLES
    xdp,      \* the program on cfg->ifindex: its mode and whose it is
    pins,     \* map -> "none", "old" or "cur": the file pin_path/ifname/<map>
    pc,       \* where the process is ("down": not running)
    flag,     \* the mode of cfg->xdp_flag (set_socket_mode changes it)
    ret,      \* the last result of link_xdp
    k,        \* the map bpf_object__pin_maps / __unpin_maps is at
    crashes,
    native    \* the interface's driver supports native mode

vars == <<xdp, pins, pc, flag, ret, k, crashes, native>>

Init ==
    /\ xdp = NoXdp /\ pins = [i \in Maps |-> "none"]
    /\ pc = "down" /\ flag = XdpMode /\ ret = "ok" /\ k = 0 /\ crashes = 0
    /\ native \in NativeXdp

(* The results link_xdp may get from bpf_xdp_attach with
   XDP_FLAGS_UPDATE_IF_NOEXIST in mode m. *)
LinkResults(m) ==
    LET errs == (IF xdp.mode = Other(m) THEN {"EEXIST"} ELSE {})
                \cup (IF m = "drv" /\ ~native THEN {"EOPNOTSUPP"} ELSE {})
    IN IF errs # {} THEN errs ELSE IF xdp.mode = m THEN {"EBUSY"} ELSE {"ok"}

Attach(m, r) == IF r = "ok" THEN [mode |-> m, prog |-> "cur"] ELSE xdp

(* Variant: the program is detached in the mode the caller configured. *)
UnlinkXdpConfigured(x) == IF x.mode = XdpMode THEN NoXdp ELSE x

(* unlink_xdp: bpf_xdp_query_id in the mode of cfg->xdp_flag; no program
   there is success, otherwise bpf_xdp_detach in that mode. *)
UnlinkXdp(x) == IF x.mode = flag THEN NoXdp ELSE x

Orphan(o) == IF o = "cur" THEN "old" ELSE o

(* The process ends (load_link_pin returned NULL, unpin_unlink_unload
   returned, or it died): the object goes, the attachment and the pinned
   files stay. *)
Exit(x, p) ==
    /\ pc' = "down" /\ ret' = "ok" /\ k' = 0
    /\ xdp' = [x EXCEPT !.prog = Orphan(@)]
    /\ pins' = [i \in Maps |-> Orphan(p[i])]

-----------------------------------------------------------------------------
(* The caller starts the probe: load() opens and loads the object. *)
Start ==
    /\ pc = "down"
    /\ pc' = "link" /\ flag' = XdpMode
    /\ UNCHANGED <<xdp, pins, ret, k, crashes, native>>

(* load_link_pin: the first link_xdp. *)
LinkXdp ==
    /\ pc = "link"
    /\ \E r \in LinkResults(flag) :
         /\ ret' = r /\ xdp' = Attach(flag, r)
         /\ pc' = IF r = "EBUSY" THEN "ask" ELSE "mode"
    /\ UNCHANGED <<pins, flag, k, crashes, native>>

(* -EBUSY: the operator is asked; "y" runs unlink_xdp, "n" unloads and
   returns NULL. *)
AskUnlink ==
    /\ pc = "ask"
    /\ \E a \in Answers :
         IF a = "y"
         THEN /\ xdp' = UnlinkXdp(xdp) /\ pc' = "relink"
              /\ UNCHANGED <<pins, ret, k>>
         ELSE Exit(xdp, pins)
    /\ UNCHANGED <<flag, crashes, native>>

(* "y": link_xdp again. *)
Relink ==
    /\ pc = "relink"
    /\ \E r \in LinkResults(flag) :
         ret' = r /\ xdp' = Attach(flag, r) /\ pc' = "mode"
    /\ UNCHANGED <<pins, flag, k, crashes, native>>

(* -EOPNOTSUPP: set_socket_mode and link_xdp once more. *)
LinkSocketMode ==
    /\ pc = "mode" /\ ret = "EOPNOTSUPP"
    /\ flag' = "skb"
    /\ \E r \in LinkResults("skb") :
         ret' = r /\ xdp' = Attach("skb", r) /\ pc' = "check"
    /\ UNCHANGED <<pins, k, crashes, native>>

(* The link result is final: an error unloads and returns NULL. *)
LinkFailed ==
    /\ \/ pc = "check"
       \/ pc = "mode" /\ ret # "EOPNOTSUPP"
    /\ ret # "ok"
    /\ Exit(xdp, pins)
    /\ UNCHANGED <<flag, crashes, native>>

(* The program is attached; pin() checks whether any map file exists and,
   if one does, calls unpin first (its result ignored). *)
PinCheck ==
    /\ \/ pc = "check"
       \/ pc = "mode" /\ ret # "EOPNOTSUPP"
    /\ ret = "ok"
    /\ pc' = IF \E i \in Maps : pins[i] # "none" THEN "pin_unpin" ELSE "pinning"
    /\ k' = 1
    /\ UNCHANGED <<xdp, pins, flag, ret, crashes, native>>

(* bpf_object__unpin_maps, one map: its file is unlinked. *)
UnpinMap ==
    /\ pc \in {"pin_unpin", "unpin"} /\ k <= NMaps /\ pins[k] # "none"
    /\ pins' = [pins EXCEPT ![k] = "none"] /\ k' = k + 1
    /\ UNCHANGED <<xdp, pc, flag, ret, crashes, native>>

(* The file of the k-th map is not there: bpf_object__unpin_maps returns
   the error and leaves the maps after it.  pin() ignores it and goes on;
   unpin_unlink_unload returns 1 before unlink and unload, and the caller
   ends. *)
UnpinFailed ==
    /\ pc \in {"pin_unpin", "unpin"} /\ k <= NMaps /\ pins[k] = "none"
    /\ IF pc = "pin_unpin"
       THEN pc' = "pinning" /\ k' = 1 /\ UNCHANGED <<xdp, pins, ret>>
       ELSE Exit(xdp, pins)
    /\ UNCHANGED <<flag, crashes, native>>

(* Variant: the unpin loop stops one map early. *)
UnpinDoneEarly ==
    /\ pc \in {"pin_unpin", "unpin"} /\ k >= NMaps
    /\ pc' = IF pc = "pin_unpin" THEN "pinning" ELSE "unlink"
    /\ k' = 1
    /\ UNCHANGED <<xdp, pins, flag, ret, crashes, native>>

(* bpf_object__unpin_maps returns 0: pin() goes on to pin the maps,
   unpin_unlink_unload to unlink_xdp. *)
UnpinDone ==
    /\ pc \in {"pin_unpin", "unpin"} /\ k > NMaps
    /\ pc' = IF pc = "pin_unpin" THEN "pinning" ELSE "unlink"
    /\ k' = 1
    /\ UNCHANGED <<xdp, pins, flag, ret, crashes, native>>

(* Variant: a map whose file is already there counts as pinned. *)
PinMapOverExisting ==
    /\ pc = "pinning" /\ k <= NMaps
    /\ pins' = [pins EXCEPT ![k] = IF @ = "none" THEN "cur" ELSE @]
    /\ k' = k + 1
    /\ UNCHANGED <<xdp, pc, flag, ret, crashes, native>>

(* bpf_object__pin_maps, one map: bpf_obj_pin creates its file. *)
PinMap ==
    /\ pc = "pinning" /\ k <= NMaps /\ pins[k] = "none"
    /\ pins' = [pins EXCEPT ![k] = "cur"] /\ k' = k + 1
    /\ UNCHANGED <<xdp, pc, flag, ret, crashes, native>>

(* The file exists (-EEXIST): bpf_object__pin_maps unpins the maps it
   pinned and fails; load_link_pin calls unlink_xdp and unload and returns
   NULL. *)
PinFailed ==
    /\ pc = "pinning" /\ k <= NMaps /\ pins[k] # "none"
    /\ Exit(UnlinkXdp(xdp), [i \in Maps |-> IF i < k THEN "none" ELSE pins[i]])
    /\ UNCHANGED <<flag, crashes, native>>

(* Every map pinned: load_link_pin returns the object. *)
PinDone ==
    /\ pc = "pinning" /\ k > NMaps
    /\ pc' = "up"
    /\ UNCHANGED <<xdp, pins, flag, ret, k, crashes, native>>

(* The caller stops the probe: unpin_unlink_unload, first unpin. *)
Stop ==
    /\ pc = "up"
    /\ pc' = "unpin" /\ k' = 1
    /\ UNCHANGED <<xdp, pins, flag, ret, crashes, native>>

(* unpin_unlink_unload: unlink_xdp, then unload. *)
Unlink ==
    /\ pc = "unlink"
    /\ Exit(UnlinkXdp(xdp), pins)
    /\ UNCHANGED <<flag, crashes, native>>

(* The process dies between two calls. *)
Crash ==
    /\ pc # "down" /\ crashes < MaxCrashes
    /\ Exit(xdp, pins)
    /\ crashes' = crashes + 1
    /\ UNCHANGED <<flag, native>>

LoaderStep ==
    \/ LinkXdp \/ AskUnlink \/ Relink \/ LinkSocketMode \/ LinkFailed \/ PinCheck
    \/ UnpinMap \/ UnpinFailed \/ UnpinDone \/ PinMap \/ PinFailed \/ PinDone \/ Unlink

Next == Start \/ Stop \/ Crash \/ LoaderStep

(* A live process keeps running; starting, stopping and dying are the
   caller's and the system's, and not assumed to happen. *)
Spec == Init /\ [][Next]_vars /\ WF_vars(LoaderStep)

-----------------------------------------------------------------------------
TypeOK ==
    /\ xdp \in {NoXdp} \cup [mode : Modes, prog : {"old", "cur"}]
    /\ pins \in [Maps -> {"none", "old", "cur"}] /\ flag \in Modes
    /\ k \in 0..NMaps + 1 /\ crashes \in 0..MaxCrashes

(* Once load_link_pin has returned the object, the program on the
   interface is this run's, in the mode cfg->xdp_flag records, and every
   pinned map file is this run's map: user space, which opens the maps by
   their pinned paths (open_bpf_map_file), reads the maps the attached
   program writes, whatever an earlier run that died left attached or
   pinned. *)
UpServing ==
    pc = "up" =>
        /\ xdp = [mode |-> flag, prog |-> "cur"]
        /\ \A i \in Maps : pins[i] = "cur"

(* A stop that runs to the end (unpin_unlink_unload returning 0) leaves no
   program on the interface and no pinned file, also after link_xdp fell
   back to socket mode. *)
CleanStopLeavesNothing ==
    [][pc = "unlink" /\ pc' = "down" /\ crashes' = crashes
          => xdp' = NoXdp /\ \A i \in Maps : pins'[i] = "none"]_vars

(* A start made after c deaths of the process ends with the probe up,
   unless the process dies again. *)
StartSucceedsAfter(c) == (pc = "link" /\ crashes = c) ~> (pc = "up" \/ crashes > c)

(* Every start made while no run has died succeeds: each stop and failed
   start cleans up what the next start needs. *)
CleanStartSucceeds == StartSucceedsAfter(0)

(* Every start succeeds, also after a run died between two calls: what the
   dead run left attached or pinned does not keep the probe down. *)
StartSucceeds == \A c \in 0..MaxCrashes : StartSucceedsAfter(c)
====
