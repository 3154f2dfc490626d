----------------------------- MODULE StackHisto -----------------------------
(***************************************************************************)
(* The histogram of one stackprobe period (stackprobe.c): when a period   *)
(* ends, switch_stackmap runs stack_id2histogram over the raw stack ids    *)
(* the pollers collected, resolves each (stack_id2symbs: kernel stack,     *)
(* then user stack, through the stack map), folds the symbol string into  *)
(* the histogram of every enabled flame graph (add_stack_histo), writes    *)
(* the flame graphs and clears the histograms (clear_running_ctx).        *)
(* A raw id stands for a stack_id_s: whether its kernel and user stacks   *)
(* are there, found in the map, or (kernel) end in do_idle, and the       *)
(* string its symbols print as (StrOf).  Which ids the pollers collect is *)
(* the environment; their interleaving is the subject of StackSwitch.     *)
(***************************************************************************)
EXTENDS Integers, Sequences

CONSTANTS
    Ids,      \* raw stack ids
    Kern,     \* id -> "none" (kern_stack_id < 0), "ok", "missing" (lookup fails), "idle"
    User,     \* id -> "none" (user_stack_id < 0), "ok", "missing"
    StrOf,    \* id -> the string __stack_symbs2string makes of its symbols
    Strs,     \* the strings, "" among them
    NSvg,     \* enabled flame graphs, in the order of svg_stack_traces
    MaxRaw    \* bound on the raw ids of a period (stack_size)

ASSUME Kern \in [Ids -> {"none", "ok", "missing", "idle"}]
ASSUME User \in [Ids -> {"none", "ok", "missing"}]
ASSUME StrOf \in [Ids -> Strs] /\ "" \in Strs
ASSUME \A id \in Ids : (StrOf[id] = "") <=> (Kern[id] \in {"none", "idle"} /\ User[id] = "none")

Svgs == 1..NSvg

VARIABLES
    raw,    \* raw_stack_traces->raw_traces[0 .. raw_trace_count - 1]
    i,      \* stack_id2histogram's loop index
    histo,  \* svg -> string -> count in its histo_tbl (0: no item)
    stage,  \* "collect" (pollers filling raw), "histo", "write"
    ref     \* ghost: string -> samples of the period resolved to it

vars == <<raw, i, histo, stage, ref>>

NoHisto == [k \in Svgs |-> [s \in Strs |-> 0]]

Init ==
    /\ raw = <<>> /\ i = 1 /\ histo = NoHisto /\ stage = "collect"
    /\ ref = [s \in Strs |-> 0]

(* stack_id2symbs: the kernel stack is resolved first (a failed lookup
   returns -1, a stack through do_idle returns 1 and is skipped), then the
   user stack (a failed lookup returns -1). *)
StackId2Symbs(id) ==
    IF Kern[id] = "missing" THEN -1
    ELSE IF Kern[id] = "idle" THEN 1
    ELSE IF User[id] = "missing" THEN -1
    ELSE 0

(* Variant: a new item starts at count 0. *)
RECURSIVE AddStackHistoFromZero(_, _, _)
AddStackHistoFromZero(h, str, k) ==
    IF k > NSvg THEN h
    ELSE IF h[k][str] > 0 THEN [h EXCEPT ![k][str] = @ + 1]
    ELSE AddStackHistoFromZero([h EXCEPT ![k][str] = 0], str, k + 1)

(* Variant: the loop stops after the first table a new item is added to. *)
RECURSIVE AddStackHistoFirstOnly(_, _, _)
AddStackHistoFirstOnly(h, str, k) ==
    IF k > NSvg THEN h
    ELSE IF h[k][str] > 0 THEN [h EXCEPT ![k][str] = @ + 1]
    ELSE [h EXCEPT ![k][str] = 1]

(* add_stack_histo's loop over the enabled flame graphs from the k-th: the
   first table that has the string counts it and the function returns;
   a table without it gets a new item of count 1 and the loop goes on. *)
RECURSIVE AddStackHisto(_, _, _)
AddStackHisto(h, str, k) ==
    IF k > NSvg THEN h
    ELSE IF h[k][str] > 0 THEN [h EXCEPT ![k][str] = @ + 1]
    ELSE AddStackHisto([h EXCEPT ![k][str] = 1], str, k + 1)

-----------------------------------------------------------------------------
(* The pollers' add_raw_stack_id over the period, then is_tmout: the
   histogram starts on the ids collected (at most stack_size). *)
Collect ==
    /\ stage = "collect"
    /\ \E n \in 0..MaxRaw : \E ids \in [1..n -> Ids] : raw' = ids
    /\ stage' = "histo" /\ i' = 1
    /\ UNCHANGED <<histo, ref>>

(* stack_id2histogram, one id: -1 ends the histogram, 1 skips the id, and a
   resolved id goes to add_stack_histo, which ignores an empty string. *)
StackId2Histogram ==
    /\ stage = "histo" /\ i <= Len(raw)
    /\ LET id == raw[i] IN
       CASE StackId2Symbs(id) = -1 ->
              stage' = "write" /\ UNCHANGED <<i, histo, ref>>
         [] StackId2Symbs(id) = 1 ->
              i' = i + 1 /\ UNCHANGED <<stage, histo, ref>>
         [] OTHER ->
              /\ i' = i + 1
              /\ histo' = IF StrOf[id] = "" THEN histo ELSE AddStackHisto(histo, StrOf[id], 1)
              /\ ref' = IF StrOf[id] = "" THEN ref ELSE [ref EXCEPT ![StrOf[id]] = @ + 1]
              /\ UNCHANGED stage
    /\ UNCHANGED raw

(* stack_id2histogram: the loop ends. *)
StackId2HistogramDone ==
    /\ stage = "histo" /\ i > Len(raw)
    /\ stage' = "write"
    /\ UNCHANGED <<raw, i, histo, ref>>

(* switch_stackmap: wr_flamegraph of every graph, then clear_running_ctx:
   the raw ids and (clear_stack_histo) every histogram are emptied. *)
ClearRunningCtx ==
    /\ stage = "write"
    /\ raw' = <<>> /\ i' = 1 /\ histo' = NoHisto /\ stage' = "collect"
    /\ ref' = [s \in Strs |-> 0]

Next == Collect \/ StackId2Histogram \/ StackId2HistogramDone \/ ClearRunningCtx

Spec == Init /\ [][Next]_vars

-----------------------------------------------------------------------------
TypeOK ==
    /\ raw \in Seq(Ids) /\ Len(raw) <= MaxRaw
    /\ histo \in [Svgs -> [Strs -> 0..MaxRaw]]
    /\ stage \in {"collect", "histo", "write"}

(* The first enabled flame graph counts every sample of the period that
   resolved to a non-empty stack, each once: the folding of equal strings
   (H_FIND_S, item->count++) neither drops nor doubles a sample. *)
FirstGraphCountsAll ==
    \A s \in Strs \ {""} : histo[1][s] = ref[s]

(* Every enabled flame graph shows every stack some sample of the period
   resolved to: add_stack_histo's loop reaches each table a new stack is
   missing from. *)
EveryGraphShowsAll ==
    \A k \in Svgs, s \in Strs \ {""} : (histo[k][s] > 0) <=> (ref[s] > 0)

(* Every enabled flame graph counts every sample of the period: a flame
   graph's widths are the sample counts of its stacks. *)
EveryGraphCountsAll ==
    \A k \in Svgs, s \in Strs \ {""} : histo[k][s] = ref[s]
=============================================================================
