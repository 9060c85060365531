---------------------------- MODULE MCMirRunner ----------------------------
(* Instance of MirRunner for TLC: two component slots and names, two      *)
(* ports, one VLAN id.                                                    *)
EXTENDS MirRunner, TLC

CONSTANTS n1, n2, none, r0, r1

MCNames == {n1, n2}
MCPorts == {r0, r1}
MCSymmetry == Permutations(MCNames) \cup Permutations(MCPorts)
====
