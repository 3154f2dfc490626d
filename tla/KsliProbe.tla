----------------------------- MODULE KsliProbe -----------------------------
(***************************************************************************)
(* The main loop of ksliprobe (ksliprobe.c) and its event thread.  Each    *)
(* ipc message carries the probe parameters; main reloads the tc program   *)
(* when the netcard list changed (reload_tc_bpf), on the first message     *)
(* loads the BPF program and starts msg_event_receiver, writes the args   *)
(* map from the message (load_args) and then stores the message in        *)
(* g_ksli_probe.ipc_body.  The receiver thread creates its perf buffer    *)
(* and polls with a timeout of the period it reads from                  *)
(* g_ksli_probe.ipc_body, and sets stop when polling ends.                *)
(* A parameter set is a model value with its period and netcard list;     *)
(* the zeroed global body has period 0 and no netcard.  The BPF program,  *)
(* the tc loader and poll_pb are not among the sources: their success is  *)
(* a choice (a failed load_tc_bpf leaves no tc program attached).         *)
(* KERNEL_SUPPORT_TSTAMP is assumed defined.                              *)
(***************************************************************************)
EXTENDS Integers

CONSTANTS
    Params,       \* the probe_params the manager may send
    Period,       \* Params -> its period (> 0)
    Nics,         \* Params -> its netcard_list
    Zero,         \* the zeroed g_ksli_probe.ipc_body
    NoNic,        \* the netcard list of the zeroed body
    MaxMsgs,      \* bound on ipc messages
    LoadFailures  \* whether loading and thread or perf buffer creation may fail

ASSUME Zero \notin Params
ASSUME \A p \in Params : Period[p] > 0

(* The period and netcard list of a stored body. *)
PeriodOf(b) == IF b = Zero THEN 0 ELSE Period[b]
NicOf(b) == IF b = Zero THEN NoNic ELSE Nics[b]

VARIABLES
    body,       \* g_ksli_probe.ipc_body.probe_param
    msg,        \* the message main is handling (Zero: none)
    args,       \* the parameters in args_map
    tc,         \* the netcard list the tc program is attached for
    firstLoad,  \* is_first_load
    prog,       \* g_ksli_probe.ksli_bpf_prog is loaded
    thread,     \* the receiver: "none", "starting", "polling", "done"
    timeout,    \* the poll timeout the receiver uses (period * 1000)
    stop,       \* stop (SIGINT or the receiver ending)
    pc,         \* main: "loop", "args" (a message in hand), "err", "exited"
    msgs

vars == <<body, msg, args, tc, firstLoad, prog, thread, timeout, stop, pc, msgs>>

Init ==
    /\ body = Zero /\ msg = Zero /\ args = Zero /\ tc = NoNic
    /\ firstLoad = TRUE /\ prog = FALSE
    /\ thread = "none" /\ timeout = 0
    /\ stop = FALSE /\ pc = "loop" /\ msgs = 0

Choice == IF LoadFailures THEN BOOLEAN ELSE {TRUE}

-----------------------------------------------------------------------------
(* reload_tc_bpf: when the new netcard list differs from the stored
   body's, offload_tc_bpf and then load_tc_bpf, whose result is ignored;
   a failed load leaves no tc program. *)
ReloadTc(nb) ==
    tc' \in IF NicOf(body) # Nics[nb]
             THEN {Nics[nb]} \cup (IF LoadFailures THEN {NoNic} ELSE {})
             ELSE {tc}

(* A message received: reload_tc_bpf offloads and reloads the tc program
   when the list differs from the stored body's; init_probe_first_load on
   the first message loads the BPF program (load_ksli_bpf_prog unloads it
   on failure) and creates the receiver thread; a failure goes to err. *)
RecvIpcMsg(nb) ==
    /\ pc = "loop" /\ ~stop /\ msgs < MaxMsgs
    /\ msgs' = msgs + 1 /\ msg' = nb
    /\ ReloadTc(nb)
    /\ IF ~firstLoad
       THEN pc' = "args" /\ UNCHANGED <<firstLoad, prog, thread>>
       ELSE \E loadOk, threadOk \in Choice :
              /\ prog' = loadOk
              /\ thread' = IF loadOk /\ threadOk THEN "starting" ELSE "none"
              /\ pc' = IF loadOk /\ threadOk THEN "args" ELSE "err"
              /\ firstLoad' = ~(loadOk /\ threadOk)
    /\ UNCHANGED <<body, args, timeout, stop>>

(* Variant: the args are written from the stored body. *)
StoreBodyOldArgs ==
    /\ pc = "args"
    /\ args' = body
    /\ body' = msg /\ msg' = Zero /\ pc' = "loop"
    /\ UNCHANGED <<tc, firstLoad, prog, thread, timeout, stop, msgs>>

(* load_args writes the message's period and
   sampling flag to args_map; the old body is destroyed and the message
   copied into g_ksli_probe.ipc_body. *)
StoreBody ==
    /\ pc = "args"
    /\ args' = msg
    /\ body' = msg /\ msg' = Zero /\ pc' = "loop"
    /\ UNCHANGED <<tc, firstLoad, prog, thread, timeout, stop, msgs>>

(* msg_event_receiver: create_pref_buffer (a failure sets stop), then
   poll_pb with the period of g_ksli_probe.ipc_body as it is now. *)
ReceiverStart ==
    /\ thread = "starting"
    /\ \E ok \in Choice :
         IF ok THEN thread' = "polling" /\ timeout' = PeriodOf(body) * 1000 /\ UNCHANGED stop
         ELSE thread' = "done" /\ stop' = TRUE /\ UNCHANGED timeout
    /\ UNCHANGED <<body, msg, args, tc, firstLoad, prog, pc, msgs>>

(* poll_pb returns: the receiver sets stop. *)
ReceiverEnd ==
    /\ thread = "polling"
    /\ thread' = "done" /\ stop' = TRUE
    /\ UNCHANGED <<body, msg, args, tc, firstLoad, prog, timeout, pc, msgs>>

(* Environment: SIGINT. *)
SigInt ==
    /\ ~stop /\ stop' = TRUE
    /\ UNCHANGED <<body, msg, args, tc, firstLoad, prog, thread, timeout, pc, msgs>>

(* while (!stop) finds stop set. *)
LoopExit ==
    /\ pc = "loop" /\ stop
    /\ pc' = "err"
    /\ UNCHANGED <<body, msg, args, tc, firstLoad, prog, thread, timeout, stop, msgs>>

(* err: unload_bpf_prog, offload_tc_bpf, destroy_ipc_body; main returns. *)
Cleanup ==
    /\ pc = "err"
    /\ prog' = FALSE /\ tc' = NoNic /\ body' = Zero
    /\ pc' = "exited"
    /\ UNCHANGED <<msg, args, firstLoad, thread, timeout, stop, msgs>>

Next ==
    \/ \E nb \in Params : RecvIpcMsg(nb)
    \/ StoreBody \/ ReceiverStart \/ ReceiverEnd \/ SigInt \/ LoopExit \/ Cleanup

Spec == Init /\ [][Next]_vars

-----------------------------------------------------------------------------
(* Between messages, the BPF side runs with the parameters of the body in
   force: main writes args_map (load_args) from the message it then stores
   in g_ksli_probe.ipc_body. *)
ConfigInForce ==
    (pc = "loop" /\ body # Zero) => args = body

(* Between messages, the tc program is attached for the netcard list of
   the stored body: reload_tc_bpf reloads it whenever the list changes. *)
TcAttached ==
    (pc = "loop" /\ body # Zero) => tc = NicOf(body)

(* The receiver polls with the configured period of the probe: the
   timeout it passes to poll_pb is period * 1000 of a received body. *)
PollTimeoutConfigured ==
    thread = "polling" => timeout > 0
====
