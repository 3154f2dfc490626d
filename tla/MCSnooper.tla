----------------------------- MODULE MCSnooper -----------------------------
EXTENDS Snooper

CONSTANTS p1, p2, nginx, bash, noproc, c1, c2, db1

MCProcs == {p1, p2}
MCComms == {nginx, bash}
(* One pattern, "nginx", that the regex matches on the comm nginx only. *)
MCPatterns == {"nginx"}
MCMatches == {<<"nginx", nginx>>}
AppNginx == [type |-> "app", comm |-> "nginx"]
(* A document selecting nginx processes; one selecting pid p2 and nginx
   processes; one whose second item is malformed. *)
MCConfigs == {<<AppNginx>>,
              <<[type |-> "procid", pid |-> p2], AppNginx>>,
              <<AppNginx, [type |-> "invalid"]>>}
MCAppConfigs == {<<AppNginx>>}
(* Two containers, in pods podA and podB, and one gaussdb item. *)
MCContainers == {c1, c2}
MCPods == {"podA", "podB"}
MCPodOf == [c \in MCContainers |-> IF c = c1 THEN "podA" ELSE "podB"]
MCDBs == {db1}
PodA == [type |-> "pod", pod |-> "podA"]
ConC2 == [type |-> "container", con |-> c2]
Gauss == [type |-> "gaussdb", db |-> db1]
(* Documents selecting nginx processes; pid p2, nginx processes and
   container c2; nginx processes, pod podA and the database; and one whose
   second item is malformed. *)
MCCgrpConfigs == {<<AppNginx>>,
                  <<[type |-> "procid", pid |-> p2], AppNginx, ConC2>>,
                  <<AppNginx, PodA, Gauss>>,
                  <<AppNginx, [type |-> "invalid"]>>}
(* A document naming container c2 and the database. *)
MCGaussConfigs == {<<ConC2, Gauss>>}
(* The configurations without containers or databases. *)
MCNoContainers == {}
MCNoPodOf == [c \in MCNoContainers |-> "podA"]
====
