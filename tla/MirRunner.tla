----------------------------- MODULE MirRunner -----------------------------
(***************************************************************************)
(* Port abilities of spp_mirror from the command to the workers:          *)
(*  - the port decoders of src/vf/common/command_parse.c, whose 8-token  *)
(*    form sets allow_override and skips the port-in-use checks (the      *)
(*    parser of the mirror process itself is not under src, so these     *)
(*    decoders stand for it);                                             *)
(*  - update_comp / update_port / exec_one_cmd / update_comp_info         *)
(*    (src/mirror/mir_cmd_runner.c);                                      *)
(*  - the per-port, per-direction ability double buffer of                *)
(*    src/mirror/spp_port.c, read by the workers.                         *)
(* A request is one atomic control step up to the flush; the flush then   *)
(* runs port_ability_set_ability once per (port, direction) of every       *)
(* changed component, each as a memset step and a copy step, and ends with *)
(* the REF flip of every listed port.                                      *)
(***************************************************************************)
EXTENDS Integers, Sequences, FiniteSets, SequencesExt

CONSTANTS
    CompIds,       \* component slots 0..N-1
    Names,         \* component names
    NoName,        \* zeroed name
    Ports,         \* interfaces
    Vids,          \* VLAN ids used in add_vlantag
    PortAblMax,    \* PORT_ABL_MAX, ability slots per port
    MaxEthPorts,   \* RTE_MAX_ETHPORTS
    Forms          \* "port add" forms used: "plain" (5 tokens), "del_vlantag"
                   \* (6), "add_vlantag" (7, with vid), "override" (8, vid
                   \* and pcp: allow_override = 1)

Lcores == {0, 1}                    \* 0 is the master lcore (UNUSE)
Dirs == {"rx", "tx"}
Areas == {0, 1}
Ops == {"NONE", "ADD_VLANTAG", "DEL_VLANTAG"}

ASSUME CompIds = 0 .. Cardinality(CompIds) - 1
ASSUME Forms \subseteq {"plain", "del_vlantag", "add_vlantag", "override"}

VARIABLES
    comp,         \* sppwk_comp_info per slot
    ability,      \* port_info->ability[PORT_ABL_MAX] per port
    mng,          \* g_port_mng_info: per port and direction ref, upd, areas
    upd_list,     \* static rx_list / tx_list of spp_port_ability_change_index
    change_comp,  \* change_component flags
    core_ids,     \* core[upd_index].id of each lcore
    ctl,          \* control thread: "idle" or "flush"
    todo,         \* set_ability calls left in update_comp_info
    writing       \* areas the control thread is writing <<p, d, area>>

vars == <<comp, ability, mng, upd_list, change_comp, core_ids, ctl, todo,
          writing>>

NoAbility == [ops |-> "NONE", dir |-> "none", vid |-> 0]
Ability == [ops : Ops, dir : Dirs \cup {"none"}, vid : Vids \cup {0}]
EmptyComp == [name |-> NoName, type |-> "NONE", lcore |-> 0,
              rx |-> <<>>, tx |-> <<>>]
CoreStatus(l) == IF l = 0 THEN "UNUSE" ELSE "RUNNING"

(* sppwk_get_lcore_id: slot of the component in use with name n, or -1.   *)
GetCompId(n) ==
    LET ids == {i \in CompIds : comp[i].type # "NONE" /\ comp[i].name = n}
    IN  IF ids = {} THEN -1 ELSE CHOOSE i \in ids : TRUE

(* get_free_lcore_id: lowest slot of type NONE, or -1.                    *)
GetFreeId ==
    LET free == {i \in CompIds : comp[i].type = "NONE"}
    IN  IF free = {} THEN -1 ELSE CHOOSE i \in free : \A j \in free : i <= j

(* spp_check_used_port.                                                    *)
UsedPort(p, d) ==
    \E i \in CompIds : comp[i].type # "NONE" /\ p \in ToSet(comp[i][d])

(* First slot index of ability[] whose ops is o, or 0 (the while and for *)
(* searches of update_port).                                              *)
FirstSlot(s, o) ==
    LET ks == {k \in 1 .. PortAblMax : s[k].ops = o}
    IN  IF ks = {} THEN 0 ELSE CHOOSE k \in ks : \A j \in ks : k <= j

(* The ability a "port add" form carries, as decode_port_vlan_operation,   *)
(* decode_port_vid and decode_port_pcp leave it (dir is the port's rxtx).  *)
FormAbility(f, d, v) ==
    CASE f = "plain"       -> NoAbility
      [] f = "del_vlantag" -> [ops |-> "DEL_VLANTAG", dir |-> d, vid |-> 0]
      [] OTHER             -> [ops |-> "ADD_VLANTAG", dir |-> d, vid |-> v]

(* Mutant: the copy ignores the direction of the slots.                  *)
ForDirAll(s, d) == [k \in 1 .. Len(s) |-> s[k]]

(* port_ability_set_ability's copy: the slots for direction d, compacted.  *)
ForDir(s, d) ==
    SelectSeq([k \in 1 .. Len(s) |-> s[k]], LAMBDA a : a.dir = d)

(* spp_port_ability_get_info: the area workers read.                       *)
Published(p, d) == mng[p][d].area[mng[p][d].ref]

(* update_comp_info: for each changed slot in order, spp_port_ability_     *)
(* update calls set_ability for each rx port, then each tx port.           *)
AbilityCalls(cm, cc) ==
    FlattenSeq([k \in 1 .. Cardinality(CompIds) |->
        IF (k - 1) \notin cc THEN <<>>
        ELSE [j \in 1 .. Len(cm[k - 1].rx) |-> <<cm[k - 1].rx[j], "rx">>]
             \o [j \in 1 .. Len(cm[k - 1].tx) |-> <<cm[k - 1].tx[j], "tx">>]])

(* exec_one_cmd: an update returning OK is followed by flush_cmd, whose    *)
(* ability part is update_comp_info over the changed slots.               *)
Flush(cm, cc) ==
    /\ comp' = cm /\ change_comp' = cc
    /\ todo' = AbilityCalls(cm, cc)
    /\ ctl' = "flush"

Refuse == UNCHANGED vars

-----------------------------------------------------------------------------
(* update_comp START: the core must not be UNUSE, the name unused, a slot *)
(* free; the slot is zeroed and filled, appended to the core's update list *)
(* and flagged changed.  STOP of an unknown name returns OK without a flag; *)
(* otherwise the slot is zeroed, removed from its core and unflagged.      *)
UpdateCompStart(n, c) ==
    LET id == GetFreeId
    IN  IF CoreStatus(c) = "UNUSE" \/ GetCompId(n) >= 0 \/ id < 0 THEN Refuse
        ELSE /\ core_ids' = [core_ids EXCEPT ![c] = Append(@, id)]
             /\ Flush([comp EXCEPT ![id] = [name |-> n, type |-> "MIR",
                          lcore |-> c, rx |-> <<>>, tx |-> <<>>]],
                      change_comp \cup {id})
             /\ UNCHANGED <<ability, mng, upd_list, writing>>

CompStart(n, c) ==
    /\ ctl = "idle"
    /\ IF GetCompId(n) >= 0 THEN Refuse ELSE UpdateCompStart(n, c)

UpdateCompStop(n) ==
    LET id == GetCompId(n)
        l  == comp[id].lcore
    IN  IF id < 0
        THEN /\ Flush(comp, change_comp)
             /\ UNCHANGED <<ability, mng, upd_list, core_ids, writing>>
        ELSE /\ core_ids' = [core_ids EXCEPT ![l] = SelectSeq(@, LAMBDA e : e # id)]
             /\ Flush([comp EXCEPT ![id] = EmptyComp], change_comp \ {id})
             /\ UNCHANGED <<ability, mng, upd_list, writing>>

CompStop(n) == ctl = "idle" /\ UpdateCompStop(n)

(* check_mir_port_count: rx > 1 or tx > 2 after counting the new port.    *)
CheckMirPortCount(d, nrx, ntx) ==
    (IF d = "rx" THEN nrx + 1 ELSE nrx) <= 1 /\ (IF d = "rx" THEN ntx ELSE ntx + 1) <= 2

(* decode_port_port_value / decode_port_rxtx_value for "port add": with    *)
(* allow_override (8 tokens) neither port-in-use check runs.              *)
DecodePortAdd(p, d, n, f) ==
    /\ f = "override" \/ ~(UsedPort(p, "rx") /\ UsedPort(p, "tx"))
    /\ f = "override" \/ ~UsedPort(p, d)
    /\ GetCompId(n) >= 0

(* update_port ADD.  A port already listed: an add_vlantag ability        *)
(* overwrites the first ADD_VLANTAG slot (none: NG), anything else is OK   *)
(* with no change and no flush flag.  A new port: the RTE_MAX_ETHPORTS cap, *)
(* an ability goes to the first NONE slot (none: NG), then it is appended. *)
UpdatePortAdd(p, d, n, a) ==
    LET id == GetCompId(n)
        c  == comp[id]
        ov == FirstSlot(ability[p], "ADD_VLANTAG")
        fr == FirstSlot(ability[p], "NONE")
    IN  CASE ~CheckMirPortCount(d, Len(c.rx), Len(c.tx)) -> Refuse
          [] p \in ToSet(c[d]) /\ a.ops = "ADD_VLANTAG" ->
                IF ov = 0 THEN Refuse
                ELSE /\ ability' = [ability EXCEPT ![p][ov] = a]
                     /\ Flush(comp, change_comp \cup {id})
                     /\ UNCHANGED <<mng, upd_list, core_ids, writing>>
          [] p \in ToSet(c[d]) ->
                /\ Flush(comp, change_comp)
                /\ UNCHANGED <<ability, mng, upd_list, core_ids, writing>>
          [] Len(c[d]) >= MaxEthPorts -> Refuse
          [] a.ops # "NONE" /\ fr = 0 -> Refuse
          [] OTHER ->
                /\ ability' = IF a.ops = "NONE" THEN ability
                              ELSE [ability EXCEPT ![p][fr] = a]
                /\ Flush([comp EXCEPT ![id][d] = Append(@, p)],
                         change_comp \cup {id})
                /\ UNCHANGED <<mng, upd_list, core_ids, writing>>

PortAdd(p, d, n, f, v) ==
    /\ ctl = "idle"
    /\ IF DecodePortAdd(p, d, n, f) THEN UpdatePortAdd(p, d, n, FormAbility(f, d, v))
       ELSE Refuse

(* update_port DEL: clear every used slot of direction d, drop the port.  *)
UpdatePortDel(p, d, n) ==
    LET id == GetCompId(n)
    IN  /\ ability' = [ability EXCEPT ![p] =
               [k \in 1 .. PortAblMax |->
                   IF @[k].ops # "NONE" /\ @[k].dir = d THEN NoAbility ELSE @[k]]]
        /\ Flush([comp EXCEPT ![id][d] = SelectSeq(@, LAMBDA e : e # p)],
                 change_comp \cup {id})
        /\ UNCHANGED <<mng, upd_list, core_ids, writing>>

PortDel(p, d, n) ==
    /\ ctl = "idle"
    /\ IF GetCompId(n) >= 0 THEN UpdatePortDel(p, d, n) ELSE Refuse

-----------------------------------------------------------------------------
(* port_ability_set_ability, first half: out = ability[upd_index] is      *)
(* memset while workers may be reading.                                    *)
SetAbilityBegin ==
    /\ ctl = "flush" /\ todo # <<>> /\ writing = {}
    /\ LET p == Head(todo)[1]
           d == Head(todo)[2]
           h == mng[p][d].upd
       IN  /\ writing' = {<<p, d, h>>}
           /\ mng' = [mng EXCEPT ![p][d].area[h] = <<>>]
    /\ UNCHANGED <<comp, ability, upd_list, change_comp, core_ids, ctl, todo>>

(* Mutant: the copy without the change_index UPD call.                   *)
SetAbilityEndNoUpd ==
    /\ writing # {}
    /\ \E w \in writing :
          LET p == w[1]
              d == w[2]
          IN  mng' = [mng EXCEPT ![p][d].area[w[3]] = ForDir(ability[p], d)]
    /\ writing' = {} /\ todo' = Tail(todo)
    /\ UNCHANGED <<comp, ability, upd_list, change_comp, core_ids, ctl>>

(* Second half: copy the slots of this direction, then change_index UPD:  *)
(* upd_index := ref_index and the port is appended to the static list.    *)
SetAbilityEnd ==
    /\ writing # {}
    /\ \E w \in writing :
          LET p == w[1]
              d == w[2]
          IN  /\ mng' = [mng EXCEPT ![p][d].area[w[3]] = ForDir(ability[p], d),
                                    ![p][d].upd = mng[p][d].ref]
              /\ upd_list' = [upd_list EXCEPT ![d] = Append(@, p)]
    /\ writing' = {} /\ todo' = Tail(todo)
    /\ UNCHANGED <<comp, ability, change_comp, core_ids, ctl>>

(* Mutants: the flip without the modulo, and without the + 1.            *)
ChangeIndexRefNoMod(m, ul) ==
    [p \in Ports |-> [d \in Dirs |->
        IF p \in ToSet(ul[d]) THEN [m[p][d] EXCEPT !.ref = m[p][d].upd + 1]
        ELSE m[p][d]]]

ChangeIndexRefSame(m, ul) ==
    [p \in Ports |-> [d \in Dirs |->
        IF p \in ToSet(ul[d]) THEN [m[p][d] EXCEPT !.ref = m[p][d].upd]
        ELSE m[p][d]]]

(* change_index REF at the end of the flush: every listed port of each     *)
(* direction gets ref_index := (upd_index + 1) % 2; the lists are emptied.  *)
ChangeIndexRef(m, ul) ==
    [p \in Ports |-> [d \in Dirs |->
        IF p \in ToSet(ul[d])
        THEN [m[p][d] EXCEPT !.ref = (m[p][d].upd + 1) % 2]
        ELSE m[p][d]]]

(* End of flush_cmd: the REF flip of every listed port with the lists    *)
(* emptied, then backup_mng_info, which clears the change flags.          *)
FlushRef ==
    /\ ctl = "flush" /\ todo = <<>> /\ writing = {}
    /\ mng' = ChangeIndexRef(mng, upd_list)
    /\ upd_list' = [d \in Dirs |-> <<>>]
    /\ change_comp' = {}
    /\ ctl' = "idle"
    /\ UNCHANGED <<comp, ability, core_ids, todo, writing>>

Init ==
    /\ comp = [i \in CompIds |-> EmptyComp]
    /\ ability = [p \in Ports |-> [k \in 1 .. PortAblMax |-> NoAbility]]
    /\ mng = [p \in Ports |-> [d \in Dirs |->
                [ref |-> 0, upd |-> 1, area |-> [h \in Areas |-> <<>>]]]]
    /\ upd_list = [d \in Dirs |-> <<>>]
    /\ change_comp = {}
    /\ core_ids = [l \in Lcores |-> <<>>]
    /\ ctl = "idle" /\ todo = <<>>
    /\ writing = {}

Next ==
    \/ \E n \in Names, c \in Lcores : CompStart(n, c)
    \/ \E n \in Names : CompStop(n)
    \/ \E p \in Ports, d \in Dirs, n \in Names :
          \/ \E f \in Forms, v \in Vids : PortAdd(p, d, n, f, v)
          \/ PortDel(p, d, n)
    \/ SetAbilityBegin \/ SetAbilityEnd \/ FlushRef

Spec == Init /\ [][Next]_vars

-----------------------------------------------------------------------------
TypeOK ==
    /\ \A p \in Ports : ability[p] \in [1 .. PortAblMax -> Ability]
    /\ \A p \in Ports, d \in Dirs :
          /\ mng[p][d].ref \in Areas /\ mng[p][d].upd \in Areas
          /\ \A h \in Areas : mng[p][d].area[h] \in Seq(Ability)
    /\ \A d \in Dirs : upd_list[d] \in Seq(Ports)
    /\ change_comp \subseteq CompIds /\ ctl \in {"idle", "flush"}

(* set_ability only writes the half that is not ref_index: the memset and *)
(* the copy of a flush never touch the area workers are directed to.      *)
NoLiveWrite ==
    \A w \in writing : w[3] # mng[w[1]][w[2]].ref

(* Once a flush has completed, every port of a component in use publishes *)
(* exactly the abilities configured on it for that direction.             *)
AbilityPublished ==
    ctl = "idle" =>
        \A i \in CompIds, d \in Dirs :
            comp[i].type # "NONE" =>
                \A p \in ToSet(comp[i][d]) : Published(p, d) = ForDir(ability[p], d)

(* Every configured ability belongs to a port that a component in use has *)
(* in that direction: stopping a component or detaching a port leaves no  *)
(* ability behind for the next component that takes the port.            *)
AbilityOwned ==
    \A p \in Ports, k \in 1 .. PortAblMax :
        ability[p][k].ops # "NONE" => UsedPort(p, ability[p][k].dir)

(* The double buffer implements AbilityAtomic: what workers read changes  *)
(* only by publishing, in one step, the currently configured abilities.   *)
Atomic == INSTANCE AbilityAtomic WITH
    cfg <- ability,
    pub <- [p \in Ports |-> [d \in Dirs |-> Published(p, d)]]

AbilityAtomicSpec == Atomic!Spec
====
