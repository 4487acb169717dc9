---------------------------- MODULE MCServerPool ----------------------------
(***************************************************************************)
(* Small instances of ServerPool.                                          *)
(***************************************************************************)
EXTENDS ServerPool, TLC

CONSTANTS t1, t2, t3, s1, s2, local, named, wild, root, api

ThreeInstances == {t1, t2, t3}
TwoServers == {s1, s2}

\* http://localhost:p, a host of this machine with a port, and http://*:p (or,
\* if that port is 0, the port the kernel chose).
ThreeAddrs == {local, named, wild}
ObservedAt == [a \in ThreeAddrs |-> IF a = named THEN {named, wild} ELSE {a}]
LocalAndNamed == {local, named}
NamedAndWild == {named, wild}

TwoRoutes == {root, api}
Nobody == {}
Symmetry == Permutations(Instances) \cup Permutations(Servers)
=============================================================================
