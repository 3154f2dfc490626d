------------------------------ MODULE FifoCache ------------------------------
(***************************************************************************)
(* What a bounded cache with first-in first-out aging promises its user,   *)
(* independently of how it is stored: it holds at most Capacity keys; a    *)
(* lookup of a held key hits; a miss may bring the key in (or fail to, and *)
(* change nothing), and bringing a key into a full cache drops the key     *)
(* that came in first.  Clearing empties it.  last is the answer of the    *)
(* latest lookup.                                                          *)
(***************************************************************************)
EXTENDS Naturals, Sequences, SequencesExt

CONSTANTS Keys, Capacity

VARIABLES cache,  \* the held keys, the first one brought in first
          last    \* <<key, "hit" or "miss">> of the latest lookup, or <<>>

Init == cache = <<>> /\ last = <<>>

Hit(k) ==
    /\ k \in ToSet(cache)
    /\ last' = <<k, "hit">> /\ UNCHANGED cache

MissKept(k) ==
    /\ k \notin ToSet(cache)
    /\ last' = <<k, "miss">> /\ UNCHANGED cache

MissAdded(k) ==
    /\ k \notin ToSet(cache)
    /\ cache' = IF Len(cache) < Capacity THEN Append(cache, k) ELSE Append(Tail(cache), k)
    /\ last' = <<k, "miss">>

Clear == cache' = <<>> /\ UNCHANGED last

Next == Clear \/ \E k \in Keys : Hit(k) \/ MissKept(k) \/ MissAdded(k)

Spec == Init /\ [][Next]_<<cache, last>>
=============================================================================
