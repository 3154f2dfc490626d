---------------------------- MODULE StackSwitch ----------------------------
(***************************************************************************)
(* The A/B channel switch of stackprobe (stackprobe.c).  The BPF sampling  *)
(* programs write each sampled stack into one of two stack maps            *)
(* (stackmap_a, stackmap_b) and its id into the matching perf channel of   *)
(* their flame type (stackmap_perf_a, _b), choosing by the parity of the   *)
(* counter in convert_map.  One poller thread per enabled flame type       *)
(* (__running) polls the channel that is_stackmap_a selects and appends    *)
(* the ids to the shared raw_stack_traces with add_raw_stack_id.  The main *)
(* thread (switch_stackmap, once a second) recomputes is_stackmap_a and,   *)
(* once a period has passed, bumps the counter so the BPF side moves to    *)
(* the other map, resolves every raw id in the map it left               *)
(* (stack_id2histogram), writes the flame graphs and clears the raw ids   *)
(* and that map (clear_running_ctx).                                       *)
(* The BPF programs (oncpu/offcpu/io .bpf.c) are not among the sources:    *)
(* their side is the environment action Sample, as the user side expects *)
(* it ("Notify BPF to switch to another channel"); the flame types share *)
(* convert_map and the two stack maps, whose fds the user side keeps once. *)
(* A sample is given a fresh id, so ids never collide.                     *)
(***************************************************************************)
EXTENDS Integers, FiniteSets

CONSTANTS
    Flames,       \* the enabled flame types (oncpu, offcpu, io), one poller each
    StackSize,    \* raw_stack_traces->stack_size (cpus_num * PERCPU_SAMPLE_COUNT)
    MaxSamples,   \* bound on samples taken
    MaxSwitches   \* bound on completed periods (convert_stack_count)

ASSUME StackSize \in Nat \ {0}

Parities == {0, 1}                     \* 0: the "a" map and channel, 1: "b"
Samples == 1..MaxSamples
NoSample == 0
(* add_raw_stack_id can be entered by every poller at once, so the array
   can be written up to one slot per poller past its end. *)
RawSlots == 1..(StackSize + Cardinality(Flames))

VARIABLES
    cmap,       \* the counter in convert_map, as the BPF side reads it
    count,      \* st->convert_stack_count
    isA,        \* st->is_stackmap_a
    stackmap,   \* parity -> the stack ids in that stack map
    chan,       \* flame -> parity -> ids in that perf channel, not yet polled
    raw,        \* raw_stack_traces->raw_traces
    rawCount,   \* raw_stack_traces->raw_trace_count
    poller,     \* flame -> its thread: channel polled, stage, record in hand
    main,       \* the main thread: its stage and histogram index
    samples     \* samples taken so far

vars == <<cmap, count, isA, stackmap, chan, raw, rawCount, poller, main, samples>>

(* get_stack_map_fd / get_pb: the parity is_stackmap_a selects. *)
CurParity == IF isA THEN 0 ELSE 1

Init ==
    /\ cmap = 0                              \* update_convert_counter at start-up
    /\ count = 0
    /\ isA = TRUE                            \* create_stack_trace: count % 2 == 0
    /\ stackmap = [p \in Parities |-> {}]
    /\ chan = [f \in Flames |-> [p \in Parities |-> {}]]
    /\ raw = [i \in RawSlots |-> NoSample]
    /\ rawCount = 0
    /\ poller = [f \in Flames |-> [pb |-> 0, stage |-> "poll", rec |-> NoSample]]
    /\ main = [stage |-> "idle", i |-> 0]
    /\ samples = 0

-----------------------------------------------------------------------------
(* Environment: a BPF sampling program of flame f reads convert_map, stores
   the stack in the map of that parity and outputs its id on the channel of
   that parity. *)
Sample(f) ==
    /\ samples < MaxSamples
    /\ LET n == samples + 1
           p == cmap % 2
       IN  /\ stackmap' = [stackmap EXCEPT ![p] = @ \cup {n}]
           /\ chan' = [chan EXCEPT ![f][p] = @ \cup {n}]
    /\ samples' = samples + 1
    /\ UNCHANGED <<cmap, count, isA, raw, rawCount, poller, main>>

-----------------------------------------------------------------------------
(* Variant: the stack_size test is missing. *)
PollRecordNoBound(f) ==
    /\ poller[f].stage = "poll"
    /\ \E n \in chan[f][poller[f].pb] :
         /\ chan' = [chan EXCEPT ![f][poller[f].pb] = @ \ {n}]
         /\ poller' = [poller EXCEPT ![f].stage = "copy", ![f].rec = n]
    /\ UNCHANGED <<cmap, count, isA, stackmap, raw, rawCount, main, samples>>

(* __running: perf_buffer__poll on the channel in hand hands a record to
   process_raw_stack_trace, whose add_raw_stack_id tests
   raw_trace_count >= stack_size (a full array counts a loss). *)
PollRecord(f) ==
    /\ poller[f].stage = "poll"
    /\ \E n \in chan[f][poller[f].pb] :
         /\ chan' = [chan EXCEPT ![f][poller[f].pb] = @ \ {n}]
         /\ poller' = [poller EXCEPT ![f].stage = IF rawCount >= StackSize THEN "poll" ELSE "copy",
                                     ![f].rec = IF rawCount >= StackSize THEN NoSample ELSE n]
    /\ UNCHANGED <<cmap, count, isA, stackmap, raw, rawCount, main, samples>>

(* add_raw_stack_id: memcpy to raw_traces[raw_trace_count], which another
   poller may have moved since the test (no lock). *)
AddRawCopy(f) ==
    /\ poller[f].stage = "copy"
    /\ raw' = [raw EXCEPT ![rawCount + 1] = poller[f].rec]
    /\ poller' = [poller EXCEPT ![f].stage = "inc"]
    /\ UNCHANGED <<cmap, count, isA, stackmap, chan, rawCount, main, samples>>

(* add_raw_stack_id: raw_trace_count++. *)
AddRawInc(f) ==
    /\ poller[f].stage = "inc"
    /\ rawCount' = rawCount + 1
    /\ poller' = [poller EXCEPT ![f].stage = "poll", ![f].rec = NoSample]
    /\ UNCHANGED <<cmap, count, isA, stackmap, chan, raw, main, samples>>

(* __running: after a poll, pb = get_pb(g_st, svg_st). *)
PollNext(f) ==
    /\ poller[f].stage = "poll"
    /\ poller' = [poller EXCEPT ![f].pb = CurParity]
    /\ UNCHANGED <<cmap, count, isA, stackmap, chan, raw, rawCount, main, samples>>

-----------------------------------------------------------------------------
(* Variant: is_stackmap_a is computed after the counter is bumped. *)
SwitchStackmapLateParity ==
    /\ main.stage = "idle"
    /\ \/ /\ isA' = (count % 2 = 0)
          /\ UNCHANGED <<count, cmap, main>>
       \/ /\ count < MaxSwitches
          /\ isA' = ((count + 1) % 2 = 0)
          /\ count' = count + 1
          /\ cmap' = count + 1
          /\ main' = [stage |-> "histo", i |-> 1]
    /\ UNCHANGED <<stackmap, chan, raw, rawCount, poller, samples>>

(* switch_stackmap: is_stackmap_a is recomputed; if is_tmout, the counter
   is bumped and written to convert_map (update_convert_counter) and the
   histogram starts.  is_tmout depends on the clock: either outcome. *)
SwitchStackmap ==
    /\ main.stage = "idle"
    /\ isA' = (count % 2 = 0)
    /\ \/ /\ UNCHANGED <<count, cmap, main>>
       \/ /\ count < MaxSwitches
          /\ count' = count + 1
          /\ cmap' = count + 1
          /\ main' = [stage |-> "histo", i |-> 1]
    /\ UNCHANGED <<stackmap, chan, raw, rawCount, poller, samples>>

(* stack_id2histogram, one round: raw_trace_count is re-read, the id is
   looked up in the map get_stack_map_fd selects; a failed lookup makes
   stack_id2symbs, and so the whole histogram, return -1. *)
StackId2Histogram ==
    /\ main.stage = "histo"
    /\ \/ /\ main.i > rawCount
          /\ main' = [stage |-> "clear", i |-> 0]
       \/ /\ main.i <= rawCount
          /\ main' = IF raw[main.i] \in stackmap[CurParity]
                     THEN [main EXCEPT !.i = @ + 1]
                     ELSE [stage |-> "clear", i |-> 0]
    /\ UNCHANGED <<cmap, count, isA, stackmap, chan, raw, rawCount, poller, samples>>

(* wr_flamegraph, then clear_running_ctx: raw_trace_count = 0 and every id
   of the map get_stack_map_fd selects is deleted. *)
ClearRunningCtx ==
    /\ main.stage = "clear"
    /\ rawCount' = 0
    /\ stackmap' = [stackmap EXCEPT ![CurParity] = {}]
    /\ main' = [stage |-> "idle", i |-> 0]
    /\ UNCHANGED <<cmap, count, isA, chan, raw, poller, samples>>

-----------------------------------------------------------------------------
Poller(f) == PollRecord(f) \/ AddRawCopy(f) \/ AddRawInc(f) \/ PollNext(f)

MainThread == SwitchStackmap \/ StackId2Histogram \/ ClearRunningCtx

Next ==
    \/ \E f \in Flames : Sample(f) \/ Poller(f)
    \/ MainThread

Spec == Init /\ [][Next]_vars

-----------------------------------------------------------------------------
TypeOK ==
    /\ cmap \in 0..MaxSwitches /\ count \in 0..MaxSwitches
    /\ isA \in BOOLEAN
    /\ stackmap \in [Parities -> SUBSET Samples]
    /\ chan \in [Flames -> [Parities -> SUBSET Samples]]
    /\ raw \in [RawSlots -> Samples \cup {NoSample}]
    /\ rawCount \in 0..Cardinality(RawSlots)
    /\ \A f \in Flames : poller[f].pb \in Parities
                         /\ poller[f].stage \in {"poll", "copy", "inc"}
    /\ main.stage \in {"idle", "histo", "clear"}

(* While the main thread resolves and clears a stack map, the BPF side
   writes to the other one: switch_stackmap computes is_stackmap_a from
   convert_stack_count before bumping it, so the map it reads is the one
   update_convert_counter has just moved the BPF programs off. *)
ReadMapNotWritten ==
    main.stage \in {"histo", "clear"} => CurParity # cmap % 2

(* Every id stack_id2histogram reaches is found in the map it looks in, so
   no period's flame graph is cut short by a failed lookup. *)
RawIdsResolvable ==
    (main.stage = "histo" /\ main.i <= rawCount) => raw[main.i] \in stackmap[CurParity]

(* add_raw_stack_id keeps raw_trace_count within stack_size, so neither the
   memcpy nor the histogram loop touches raw_traces past its end. *)
RawCountWithinStackSize == rawCount <= StackSize
====
