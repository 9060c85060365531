----------------------------- MODULE MirrorMng -----------------------------
(***************************************************************************)
(* Management plane of spp_mirror: the control thread's request handler   *)
(* (process_request, src/mirror/command_proc.c) running one parsed command *)
(* against the component table, the per-lcore double-buffered component   *)
(* lists, then flushing (spp_flush).  One action is one whole request:   *)
(* parse checks, update and flush_port; flush_core then swaps one dirty   *)
(* lcore per step, and a last step runs flush_component and sends the     *)
(* response.  Workers only read the reference half of their lcore's list; *)
(* the control thread never writes it, so the published state           *)
(* Published(l) is what the worker on lcore l runs.                       *)
(***************************************************************************)
EXTENDS Integers, Sequences, FiniteSets, SequencesExt

CONSTANTS
    NumLcores,      \* lcores 0..NumLcores-1; lcore 0 is the master
    SlaveLcores,    \* lcores launched as workers (status not UNUSE)
    CompIds,        \* component table slots 0..RTE_MAX_LCORE-1
    Names,          \* component names the controller uses
    NoName,         \* the zeroed name of an unused slot
    Ports,          \* interfaces "ring:N", "phy:N" as model values
    MaxEthPorts,    \* RTE_MAX_ETHPORTS, cap of a component's port list
    TypeTokens,     \* forms of "component start": "mirror" (5 tokens) or
                    \* "omitted" (4 tokens, the type is never decoded)
    FlushMayFail,   \* flush_port / flush_component may report failure
    ResponseMayFail \* a strbuf allocation of the response may fail

Lcores == 0 .. NumLcores - 1
Dirs == {"rx", "tx"}
Areas == {0, 1}                         \* SPP_INFO_AREA_MAX = 2

ASSUME SlaveLcores \subseteq Lcores \ {0}
ASSUME CompIds = 0 .. Cardinality(CompIds) - 1
ASSUME TypeTokens \subseteq {"mirror", "omitted"} /\ FlushMayFail \in BOOLEAN
ASSUME ResponseMayFail \in BOOLEAN

VARIABLES
    comp,         \* g_component_info: spp_component_info per slot
    core,         \* g_core_info: ref_index, upd_index, core[2] id lists
    change_core,  \* g_change_core: lcores whose list awaits flush_core
    result,       \* result of the last request (set_command_results)
    running,      \* the command loop has not processed "exit"
    response,     \* the last response the controller received
    flushing,     \* spp_flush is past flush_port, in flush_core
    answer_to     \* the request the flush in progress will answer

vars == <<comp, core, change_core, result, running, response, flushing,
          answer_to>>

(* spp_core_status: the master lcore and lcores not launched are UNUSE.   *)
CoreStatus(l) == IF l \in SlaveLcores THEN "FORWARD" ELSE "UNUSE"

(* memset(comp_info, 0, ...): type UNUSE, lcore 0, no ports.              *)
EmptyComp == [name |-> NoName, type |-> "UNUSE", lcore |-> 0,
              rx |-> <<>>, tx |-> <<>>]

CompRec == [name : Names \cup {NoName}, type : {"UNUSE", "MIRROR"},
            lcore : Lcores, rx : Seq(Ports), tx : Seq(Ports)]

(* spp_get_component_id: the first slot whose name is n, whatever its    *)
(* type, or -1.                                                            *)
GetComponentId(n) ==
    LET ids == {i \in CompIds : comp[i].name = n}
    IN  IF ids = {} THEN -1 ELSE Min(ids)

(* get_free_component: the lowest slot whose type is UNUSE, or -1.        *)
GetFreeComponent ==
    LET free == {i \in CompIds : comp[i].type = "UNUSE"}
    IN  IF free = {} THEN -1 ELSE CHOOSE i \in free : \A j \in free : i <= j

(* spp_check_used_port: some component in use lists p in direction d.     *)
CheckUsedPort(p, d) ==
    \E i \in CompIds : comp[i].type # "UNUSE" /\ p \in ToSet(comp[i][d])

(* del_component_info / get_del_port_element: drop x from a list.         *)
DelElement(s, x) == SelectSeq(s, LAMBDA e : e # x)

(* The list the worker on lcore l runs: core[ref_index].                  *)
Published(l) == core[l].list[core[l].ref]

(* spp_iterate_core_info: per lcore not UNUSE, the components it lists.   *)
StatusView ==
    [l \in {k \in Lcores : CoreStatus(k) # "UNUSE"} |->
        [k \in 1 .. Len(Published(l)) |->
            LET c == comp[Published(l)[k]]
            IN  [name |-> c.name, type |-> c.type, rx |-> c.rx, tx |-> c.tx]]]

-----------------------------------------------------------------------------
SwapCore(cr, l) ==
    LET ref == (cr[l].ref + 1) % 2
    IN  [cr EXCEPT ![l] = [ref |-> ref, upd |-> cr[l].ref,
                           list |-> [h \in Areas |-> cr[l].list[ref]]]]

(* set_command_results: the result word and, for a failure, the error     *)
(* details message.                                                        *)
Success == [result |-> "success", message |-> ""]
Failure(msg) == [result |-> "error", message |-> msg]

(* parse_error_message for the two codes the mirror parser sets:          *)
(* WRONG_FORMAT, and WRONG_VALUE with the refusing decoder's name.         *)
ParseErrorMessage(code, name) ==
    IF code = "WRONG_FORMAT" THEN "wrong message format"
    ELSE "wrong value(" \o name \o ")"

(* send_parse_error_response / send_command_result_response: the results  *)
(* array, client_id and process_type when _get_client_id was requested,  *)
(* info (the lcores' reference lists) when status was.  Any strbuf        *)
(* allocation or append may fail, and then nothing is sent.  "to" is the  *)
(* request the response answers.                                          *)
NoResponse == [to |-> "none", results |-> <<>>, client_id |-> FALSE, info |-> "none"]
Answer(to, results, cid, info) ==
    response' \in {[to |-> to, results |-> results, client_id |-> cid, info |-> info]}
                  \cup (IF ResponseMayFail THEN {NoResponse} ELSE {})

(* process_request's loop over the one command: results[0] is success,   *)
(* or "error occur" when execute_command failed.                          *)
ExecAnswer(to) ==
    Answer(to, <<IF result' = "success" THEN Success ELSE Failure("error occur")>>,
           FALSE, "none")

(* The control thread takes a request: the loop runs and no flush is in  *)
(* progress.                                                              *)
Idle == running /\ ~flushing

(* A request refused before the registry is touched: the parser's checks  *)
(* or an early "return SPP_RET_NG" of the update function.                *)
Refuse ==
    /\ result' = "error"
    /\ UNCHANGED <<comp, core, change_core, running, flushing, answer_to>>

Reject(to) == Refuse /\ ExecAnswer(to)

(* process_request when spp_parse_command_request refused the request:    *)
(* set_parse_error_to_results makes results[0] a failure with the parse   *)
(* error's message, and nothing is executed.                              *)
ParseRefuse(to, code, name) ==
    /\ Refuse
    /\ Answer(to, <<Failure(ParseErrorMessage(code, name))>>, FALSE, "none")

(* Faulty variant: a failed flush_port also forgets the pending lcores.  *)
SppFlushDropPending(cm, cr, cc, to) ==
    /\ comp' = cm /\ core' = cr
    /\ \/ /\ FlushMayFail
          /\ change_core' = {} /\ result' = "error" /\ ExecAnswer(to)
          /\ UNCHANGED <<flushing, answer_to>>
       \/ /\ change_core' = cc /\ result' = "pending"
          /\ flushing' = TRUE /\ answer_to' = to
          /\ UNCHANGED response

(* spp_flush, first step, on the registry state cm/cr/cc the update left: *)
(* flush_port may fail, and the request is answered "error" at once with  *)
(* the dirty lcores left for a later flush; otherwise flush_core starts.  *)
(* backup_mng_info copies the tables into a snapshot that no code path    *)
(* reads back (there is no restore), so the snapshot is left out.         *)
SppFlush(cm, cr, cc, to) ==
    /\ comp' = cm /\ core' = cr /\ change_core' = cc
    /\ \/ /\ FlushMayFail
          /\ result' = "error" /\ ExecAnswer(to)
          /\ UNCHANGED <<flushing, answer_to>>
       \/ /\ result' = "pending"
          /\ flushing' = TRUE /\ answer_to' = to
          /\ UNCHANGED response

(* One iteration of flush_core's loop over the lcores: a dirty lcore is   *)
(* swapped and its flag cleared.  Workers run between two iterations.     *)
FlushCore(l) ==
    /\ flushing /\ l \in change_core
    /\ core' = SwapCore(core, l) /\ change_core' = change_core \ {l}
    /\ UNCHANGED <<comp, result, running, response, flushing, answer_to>>

(* After flush_core: flush_component, whose result spp_flush returns, and *)
(* the response to the request.                                           *)
FlushComponent ==
    /\ flushing /\ change_core = {}
    /\ result' \in IF FlushMayFail THEN {"success", "error"} ELSE {"success"}
    /\ ExecAnswer(answer_to)
    /\ flushing' = FALSE
    /\ UNCHANGED <<comp, core, change_core, running, answer_to>>

-----------------------------------------------------------------------------
(* "component start n c t": decode_component_name_value refuses a name in *)
(* use; a 4-token command never reaches decode_component_type_value and    *)
(* leaves the type UNUSE; spp_update_component then checks the core, the   *)
(* name and a free slot, stages the slot id on core[upd_index], flushes.  *)
UpdateComponentStart(n, c, tok) ==
    LET type == IF tok = "mirror" THEN "MIRROR" ELSE "UNUSE"
        id   == GetFreeComponent
        u    == core[c].upd
    IN  IF CoreStatus(c) = "UNUSE" \/ GetComponentId(n) >= 0 \/ id < 0
        THEN Reject("component")
        ELSE SppFlush([comp EXCEPT ![id] = [name |-> n, type |-> type,
                                  lcore |-> c, rx |-> <<>>, tx |-> <<>>]],
                      [core EXCEPT ![c].list[u] = Append(@, id)],
                      change_core \cup {c}, "component")

ComponentStart(n, c, tok) ==
    /\ Idle
    /\ IF GetComponentId(n) >= 0
       THEN ParseRefuse("component", "WRONG_VALUE", "component name")
       ELSE UpdateComponentStart(n, c, tok)
    /\ UNCHANGED running

(* Faulty variant of the stop path: the lcore is read after the memset   *)
(* of the slot.                                                            *)
UpdateComponentStopAfterMemset(n) ==
    LET id == GetComponentId(n)
        l  == EmptyComp.lcore
    IN  IF id < 0 THEN SppFlush(comp, core, change_core, "component")
        ELSE SppFlush([comp EXCEPT ![id] = EmptyComp],
                      [core EXCEPT ![l].list[core[l].upd] = DelElement(@, id)],
                      change_core \cup {l}, "component")

(* "component stop n": an unknown name returns OK at once and still       *)
(* flushes; otherwise the slot is zeroed and removed from its lcore's      *)
(* update list, and that lcore is marked changed.                         *)
UpdateComponentStop(n) ==
    LET id == GetComponentId(n)
        l  == comp[id].lcore
    IN  IF id < 0 THEN SppFlush(comp, core, change_core, "component")
        ELSE SppFlush([comp EXCEPT ![id] = EmptyComp],
                      [core EXCEPT ![l].list[core[l].upd] = DelElement(@, id)],
                      change_core \cup {l}, "component")

ComponentStop(n) ==
    /\ Idle
    /\ UpdateComponentStop(n)
    /\ UNCHANGED running

-----------------------------------------------------------------------------
(* check_port_count: only a MIRROR component takes ports, at most 1 rx    *)
(* and 2 tx after counting the one being added.                           *)
CheckPortCount(type, d, nrx, ntx) ==
    LET rx == IF d = "rx" THEN nrx + 1 ELSE nrx
        tx == IF d = "rx" THEN ntx ELSE ntx + 1
    IN  type = "MIRROR" /\ rx <= 1 /\ tx <= 2

(* Faulty variant: only decode_port_port_value's both-directions check.  *)
DecodePortAddNoDirCheck(p, d, n) ==
    /\ ~(CheckUsedPort(p, "rx") /\ CheckUsedPort(p, "tx"))
    /\ GetComponentId(n) >= 0

(* The parser's port checks for "port add": decode_port_port_value refuses *)
(* a port used in both directions, decode_port_rxtx_value one used in the  *)
(* requested direction, decode_port_name_value an unknown component.      *)
DecodePortAdd(p, d, n) ==
    /\ ~(CheckUsedPort(p, "rx") /\ CheckUsedPort(p, "tx"))
    /\ ~CheckUsedPort(p, d)
    /\ GetComponentId(n) >= 0

(* spp_update_port, ADD: count check, an already listed port is OK with   *)
(* no change, the RTE_MAX_ETHPORTS cap, then append; each OK is flushed.  *)
UpdatePortAdd(p, d, n) ==
    LET id == GetComponentId(n)
        c  == comp[id]
    IN  IF ~CheckPortCount(c.type, d, Len(c.rx), Len(c.tx)) THEN Reject("port")
        ELSE IF p \in ToSet(c[d]) THEN SppFlush(comp, core, change_core, "port")
        ELSE IF Len(c[d]) >= MaxEthPorts THEN Reject("port")
        ELSE SppFlush([comp EXCEPT ![id][d] = Append(@, p)], core, change_core,
                      "port")

(* The decoder of parameter_list that refuses a "port add", in the order  *)
(* parse_command_parameter_port runs them.                                *)
PortAddRefusedBy(p, d, n) ==
    CASE CheckUsedPort(p, "rx") /\ CheckUsedPort(p, "tx") -> "port"
      [] CheckUsedPort(p, d)                               -> "port rxtx"
      [] OTHER                                             -> "component name"

PortAdd(p, d, n) ==
    /\ Idle
    /\ IF DecodePortAdd(p, d, n)
       THEN UpdatePortAdd(p, d, n)
       ELSE ParseRefuse("port", "WRONG_VALUE", PortAddRefusedBy(p, d, n))
    /\ UNCHANGED running

(* "port del": the component must exist; the port is dropped if listed    *)
(* and the request is flushed either way.                                 *)
PortDel(p, d, n) ==
    /\ Idle
    /\ IF GetComponentId(n) < 0
       THEN ParseRefuse("port", "WRONG_VALUE", "component name")
       ELSE LET id == GetComponentId(n)
            IN  SppFlush([comp EXCEPT ![id][d] = DelElement(@, p)],
                         core, change_core, "port")
    /\ UNCHANGED running

(* "status": nothing is executed; the response carries info, built by   *)
(* append_info_value from spp_iterate_core_info over the reference lists. *)
Status ==
    /\ Idle
    /\ result' = "success" /\ Answer("status", <<Success>>, FALSE, StatusView)
    /\ UNCHANGED <<comp, core, change_core, running, flushing, answer_to>>

(* "_get_client_id": the response carries client_id and process_type.    *)
GetClientId ==
    /\ Idle
    /\ result' = "success" /\ Answer("client_id", <<Success>>, TRUE, "none")
    /\ UNCHANGED <<comp, core, change_core, running, flushing, answer_to>>

(* A request the parser refuses for its form (WRONG_FORMAT: a token      *)
(* count no command_list entry admits).                                   *)
BadRequest ==
    /\ Idle
    /\ ParseRefuse("other", "WRONG_FORMAT", "")

(* "exit": results[0] is success, the response is sent and the command    *)
(* loop ends.                                                              *)
Exit ==
    /\ Idle
    /\ result' = "success" /\ running' = FALSE
    /\ Answer("exit", <<Success>>, FALSE, "none")
    /\ UNCHANGED <<comp, core, change_core, flushing, answer_to>>

(* After "exit", process_request's NG is returned by spp_command_proc_do *)
(* and the process takes no more requests.                               *)
Terminated ==
    /\ ~running
    /\ UNCHANGED vars

Init ==
    /\ comp = [i \in CompIds |-> EmptyComp]
    /\ core = [l \in Lcores |-> [ref |-> 0, upd |-> 1,
                                 list |-> [h \in Areas |-> <<>>]]]
    /\ change_core = {}
    /\ result = "none"
    /\ running = TRUE
    /\ response = NoResponse
    /\ flushing = FALSE /\ answer_to = "none"

Next ==
    \/ \E n \in Names, c \in Lcores, tok \in TypeTokens : ComponentStart(n, c, tok)
    \/ \E n \in Names : ComponentStop(n)
    \/ \E p \in Ports, d \in Dirs, n \in Names : PortAdd(p, d, n) \/ PortDel(p, d, n)
    \/ Status
    \/ GetClientId
    \/ BadRequest
    \/ Exit
    \/ \E l \in Lcores : FlushCore(l)
    \/ FlushComponent
    \/ Terminated

Spec == Init /\ [][Next]_vars

-----------------------------------------------------------------------------
Used(i) == comp[i].type # "UNUSE"

TypeOK ==
    /\ comp \in [CompIds -> CompRec]
    /\ \A l \in Lcores :
          /\ core[l].ref \in Areas /\ core[l].upd \in Areas
          /\ \A h \in Areas : core[l].list[h] \in Seq(CompIds)
                              /\ Len(core[l].list[h]) <= Cardinality(CompIds)
    /\ change_core \subseteq Lcores
    /\ result \in {"none", "pending", "success", "error"} /\ running \in BOOLEAN
    /\ Len(response.results) <= 1

(* Between requests no component slot is run by two lcores: once a flush  *)
(* has swapped every dirty lcore, the reference lists that the workers    *)
(* read (core[ref_index]) share no component id, even when an earlier     *)
(* flush_port failed and a freed slot was reused on another lcore.  While *)
(* flush_core is between two lcores a slot may be listed on both.         *)
PublishedDisjoint ==
    ~flushing =>
    \A l, m \in Lcores :
        l # m => ToSet(Published(l)) \cap ToSet(Published(m)) = {}

(* Whenever no lcore is left waiting for flush_core (every flush so far   *)
(* reached it, or a later one did), every component in use is listed      *)
(* exactly once, on its own lcore's reference list, and the reference     *)
(* lists hold nothing else: what status and the workers see is the        *)
(* registry of start/stop, even after failed flushes.                     *)
ComponentPlacement ==
    change_core = {} =>
        \A l \in Lcores :
            /\ IsInjective(Published(l))
            /\ ToSet(Published(l)) = {i \in CompIds : Used(i) /\ comp[i].lcore = l}

(* Ports obey the mirror policy and are never shared in one direction:    *)
(* each component has at most 1 rx and 2 tx ports, none listed twice, and *)
(* no port is received from (or sent to) by two components.               *)
PortExclusive ==
    \A i \in CompIds :
        /\ Len(comp[i].rx) <= 1 /\ Len(comp[i].tx) <= 2
        /\ \A d \in Dirs :
              /\ IsInjective(comp[i][d])
              /\ \A j \in CompIds \ {i} :
                    Used(i) /\ Used(j) => ToSet(comp[i][d]) \cap ToSet(comp[j][d]) = {}

(* A request reported as failed leaves the registry as it was (spec 4.3,  *)
(* 7, 8): the component table and the staged and published lists.        *)
RollbackOnFailure ==
    [][result' = "error" => (comp' = comp /\ core' = core)]_vars

=============================================================================
