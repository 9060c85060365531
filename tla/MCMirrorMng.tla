---------------------------- MODULE MCMirrorMng ----------------------------
(* Instance of MirrorMng for TLC: master lcore 0 and two worker lcores,   *)
(* two component slots, two names, two ring ports.                        *)
EXTENDS MirrorMng, TLC

CONSTANTS n1, n2, none, r0, r1

MCNames == {n1, n2}
MCPorts == {r0, r1}
MCSymmetry == Permutations(MCNames) \cup Permutations(MCPorts)
====
