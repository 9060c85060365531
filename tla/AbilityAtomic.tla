---------------------------- MODULE AbilityAtomic ----------------------------
(***************************************************************************)
(* What the port-ability double buffer promises (spec 4.3, 4.6): for each *)
(* port and direction, workers see one published ability list, which only *)
(* ever changes, in one step, to the abilities currently configured on    *)
(* the port for that direction.  Configuration changes are free and are   *)
(* not visible until published.                                            *)
(***************************************************************************)
EXTENDS Naturals, Sequences

CONSTANTS Ports, Dirs

VARIABLES cfg,   \* per port: its ability slots as the control thread set them
          pub    \* per port and direction: the list workers read

(* The abilities of slots s that apply to direction d, in slot order.      *)
ForDir(s, d) ==
    SelectSeq([k \in 1 .. Len(s) |-> s[k]], LAMBDA a : a.dir = d)

Init == pub = [p \in Ports |-> [d \in Dirs |-> <<>>]]

Configure == cfg' # cfg /\ pub' = pub

(* Any set of port/direction pairs is published at once.                   *)
Publish ==
    /\ cfg' = cfg
    /\ \A p \in Ports, d \in Dirs :
          pub'[p][d] \in {pub[p][d], ForDir(cfg[p], d)}

Next == Configure \/ Publish

Spec == Init /\ [][Next]_<<cfg, pub>>
=============================================================================
