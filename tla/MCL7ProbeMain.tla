--------------------------- MODULE MCL7ProbeMain ---------------------------
EXTENDS L7ProbeMain

CONSTANTS p1, p2, libA, libB, nolib

MCProcs == {p1, p2}
MCLibs == {libA, libB}
MCElfLib == [p \in MCProcs |-> IF p = p1 THEN libA ELSE libB]

Proc(p) == [type |-> "proc", pid |-> p]
Con(l) == [type |-> "con", lib |-> l]

(* one process, two processes on different libraries, a container without
   a libssl path next to one process *)
MCBodies == {{Proc(p1)}, {Proc(p1), Proc(p2)}, {Con(nolib), Proc(p2)}}
====
