---------------------------- MODULE MCKsliProbe ----------------------------
EXTENDS KsliProbe

CONSTANTS p1, p2, p3, zero, eth0, eth1, nonic

(* p3 differs from p1 only in its period, so its netcard list is unchanged *)
MCParams == {p1, p2, p3}
MCPeriod == [p \in MCParams |-> IF p = p3 THEN 2 ELSE 1]
MCNics == [p \in MCParams |-> IF p = p2 THEN eth1 ELSE eth0]
====
