---------------------------- MODULE VfCmdParser ----------------------------
(***************************************************************************)
(* The request parser of spp_vf (src/vf/common/command_parse.c).  As the  *)
(* mirror's parser (CmdParser), it splits the request into tokens, picks  *)
(* a command_list descriptor by name and token count and runs the         *)
(* per-position decoders of parameter_list, stopping at the first         *)
(* refusal.  What differs: "classifier_table" is overloaded (5 tokens:    *)
(* mac form, 6 tokens: vlan form), "port" takes a vlan operation, vid and *)
(* pcp, and an 8-token port command (argc == param_max) passes            *)
(* allow_override, which skips the port-in-use checks.                    *)
(*                                                                         *)
(* The registries are read through get_iface_info and                     *)
(* spp_get_component_id (not under src/): UsedNames, UsedPort,            *)
(* AddedPorts (ports whose iface_type is not UNDEF) and ClassId (the      *)
(* <<vid, mac>> class id of a port) are constants.                        *)
(*                                                                         *)
(* Lex[t] is what the C library sees in token t: pre / colon / after as   *)
(* in CmdParser (after: strtol of the text after the ':', as a long),     *)
(* whole: strtol / strtoul of the whole token as a long, len: strlen, and *)
(* mac: what spp_change_mac_str_to_int64 returns for it (-1: not a MAC).  *)
(* A long is kept as [q, r], the value q * 2^30 + r with 0 <= r < 2^30,   *)
(* so that values past 32 bits, which the code narrows, can be written.   *)
(***************************************************************************)
EXTENDS Integers, Sequences, SequencesExt

CONSTANTS
    Tokens,       \* the token strings requests are made of
    Lex,          \* Lex[t]: the lexical view of token t (and of DummyAddr)
    UsedNames,    \* names spp_get_component_id finds
    UsedPort,     \* <<iface type, iface no, dir>> spp_check_used_port finds
    AddedPorts,   \* <<iface type, iface no>> whose port_info is not UNDEF
    ClassId,      \* ClassId[<<type, no>>]: port_info->class_id as <<vid, mac>>
    MaxLcore,     \* RTE_MAX_LCORE
    ValueBufSz,   \* CMD_VALUE_BUFSZ
    MaxParams,    \* CMD_MAX_PARAMETERS
    MaxArgc,      \* longest request (in tokens) the controller sends
    DefaultSpec,  \* SPP_DEFAULT_CLASSIFIED_SPEC_STR
    DummyAddr     \* SPP_DEFAULT_CLASSIFIED_DMY_ADDR_STR

ASSUME MaxArgc > MaxParams

ETH_VLAN_ID_MAX == 4095
SPP_VLAN_PCP_MAX == 7

(* The string tables of command_parse.c, in enum order.                    *)
CLASSIFILER_TYPE == <<"none", "mac", "vlan">>
COMMAND_ACTION == <<"none", "start", "stop", "add", "del">>
PORT_RXTX_STR == <<"none", "rx", "tx">>
PORT_ABILITY_STRINGS == <<"none", "add_vlantag", "del_vlantag">>

(* command_list: name, param_min, param_max, whether a handler is set.     *)
CommandList ==
    << [name |-> "classifier_table", min |-> 5, max |-> 5, func |-> TRUE],
       [name |-> "classifier_table", min |-> 6, max |-> 6, func |-> TRUE],
       [name |-> "_get_client_id",   min |-> 1, max |-> 1, func |-> FALSE],
       [name |-> "status",           min |-> 1, max |-> 1, func |-> FALSE],
       [name |-> "exit",             min |-> 1, max |-> 1, func |-> FALSE],
       [name |-> "component",        min |-> 3, max |-> 5, func |-> TRUE],
       [name |-> "port",             min |-> 5, max |-> 8, func |-> TRUE] >>

(* parameter_list: the names of the decoders of each command, by position. *)
ParameterList ==
    << <<"action", "type", "mac address", "port">>,
       <<"action", "type", "vlan id", "mac address", "port">>,
       <<>>, <<>>, <<>>,
       <<"action", "component name", "core", "component type">>,
       <<"action", "port", "port rxtx", "component name",
         "port vlan operation", "port vid", "port pcp">> >>

(* The union spec of struct spp_command after memset(request, 0): the    *)
(* fields of the classifier_table, component and port variants, all zero. *)
ZeroCommand ==
    [action |-> 0, ctype |-> 0, vid |-> 0, mac |-> "", name |-> "",
     core |-> 0, type |-> "UNUSE", port |-> <<"UNDEF", 0>>, rxtx |-> 0,
     ope |-> 0, arxtx |-> 0, avid |-> 0, apcp |-> 0]

-----------------------------------------------------------------------------
(* The long strtol / strtoul returns narrowed to the int or unsigned int  *)
(* the code stores it in.                                                  *)
(* The low 32 bits are (q % 4) * 2^30 + r; as an int they are negative   *)
(* when q % 4 >= 2.  As an unsigned int they are then past 2^31, beyond   *)
(* any max this parser checks against.                                     *)
IntOf(l) == LET m == l.q % 4 IN IF m < 2 THEN m * 2^30 + l.r ELSE (m - 4) * 2^30 + l.r
UIntBelow2p31(l) == l.q % 4 < 2

ParseParameterValue(n) == n <= MaxParams

GetArrayIndex(t, list) == SelectInSeq(list, LAMBDA s : s = t) - 1

(* get_int_value: strtol into an int, whole token, min..max (min >= 0 in *)
(* every use); SPP_RET_NG (-1) otherwise.                                 *)
GetIntValue(t, min, max) ==
    LET v == IntOf(Lex[t].whole.val)
    IN  IF ~Lex[t].whole.ok \/ v < min \/ v > max THEN -1 ELSE v

(* get_uint_value: strtoul into an unsigned int, whole token, min..max.   *)
GetUintValue(t, min, max) ==
    LET l == Lex[t].whole.val
        v == IntOf(l)
    IN  IF ~Lex[t].whole.ok \/ ~UIntBelow2p31(l) \/ v < min \/ v > max THEN -1 ELSE v

ParseStrValue(t) == IF Lex[t].len >= ValueBufSz THEN "NG" ELSE t

IfaceType == [phy |-> "PHY", vhost |-> "VHOST", ring |-> "RING"]

(* spp_convert_port_to_iface: prefix, then strtol of the rest into an int. *)
ConvertPortToIface(t) ==
    IF ~Lex[t].colon \/ Lex[t].pre \notin DOMAIN IfaceType \/ ~Lex[t].after.ok
    THEN <<"UNDEF", 0>>
    ELSE <<IfaceType[Lex[t].pre], IntOf(Lex[t].after.val)>>

(* spp_convert_component_type in the spp_vf build (SPP_VF_MODULE).        *)
ConvertComponentType(t) ==
    CASE t = "classifier_mac" -> "CLASSIFIER_MAC"
      [] t = "merge"          -> "MERGE"
      [] t = "forward"        -> "FORWARD"
      [] OTHER                -> "UNUSE"

CheckUsedPort(port, d) == <<port[1], port[2], d>> \in UsedPort
SppCheckAddedPort(port) == port \in AddedPorts
SppCheckClassidUsedPort(vid, mac, port) == ClassId[port] = <<vid, mac>>

IsStart(cmd) == cmd.action = 1
IsAdd(cmd) == cmd.action = 3
IsDel(cmd) == cmd.action = 4

Ok(c) == [ret |-> 0, cmd |-> c]
NG == [ret |-> -1, cmd |-> ZeroCommand]

(* The decoders of parameter_list: each returns SPP_RET_OK with the       *)
(* command record its fields written in, or SPP_RET_NG.  ovr is the       *)
(* allow_override argument.                                               *)
DecodeActionIn(cmd, t, acts) ==
    LET i == GetArrayIndex(t, COMMAND_ACTION)
    IN  IF i <= 0 \/ i \notin acts THEN NG ELSE Ok([cmd EXCEPT !.action = i])

DecodeComponentAction(cmd, t) == DecodeActionIn(cmd, t, {1, 2})

DecodeComponentName(cmd, t) ==
    IF IsStart(cmd) /\ t \in UsedNames THEN NG
    ELSE IF ParseStrValue(t) = "NG" THEN NG
    ELSE Ok([cmd EXCEPT !.name = t])

DecodeComponentCore(cmd, t) ==
    LET v == GetUintValue(t, 0, MaxLcore - 1)
    IN  IF ~IsStart(cmd) THEN Ok(cmd)
        ELSE IF v < 0 THEN NG ELSE Ok([cmd EXCEPT !.core = v])

DecodeComponentType(cmd, t) ==
    IF ~IsStart(cmd) THEN Ok(cmd)
    ELSE IF ConvertComponentType(t) = "UNUSE" THEN NG
    ELSE Ok([cmd EXCEPT !.type = ConvertComponentType(t)])

DecodePortAction(cmd, t) == DecodeActionIn(cmd, t, {3, 4})

(* Mutant: the in-use check made whatever allow_override says.           *)
DecodePortPortNoOverride(cmd, t, ovr) ==
    LET p == ConvertPortToIface(t)
    IN  IF p[1] = "UNDEF" THEN NG
        ELSE IF IsAdd(cmd) /\ CheckUsedPort(p, 1) /\ CheckUsedPort(p, 2) THEN NG
        ELSE Ok([cmd EXCEPT !.port = p])

DecodePortPort(cmd, t, ovr) ==
    LET p == ConvertPortToIface(t)
    IN  IF p[1] = "UNDEF" THEN NG
        ELSE IF ~ovr /\ IsAdd(cmd) /\ CheckUsedPort(p, 1) /\ CheckUsedPort(p, 2)
        THEN NG
        ELSE Ok([cmd EXCEPT !.port = p])

DecodePortRxtx(cmd, t, ovr) ==
    LET i == GetArrayIndex(t, PORT_RXTX_STR)
    IN  IF i <= 0 THEN NG
        ELSE IF ~ovr /\ IsAdd(cmd) /\ CheckUsedPort(cmd.port, i) THEN NG
        ELSE Ok([cmd EXCEPT !.rxtx = i])

DecodePortName(cmd, t) ==
    IF t \notin UsedNames \/ ParseStrValue(t) = "NG" THEN NG
    ELSE Ok([cmd EXCEPT !.name = t])

(* decode_port_vlan_operation: only while ability->ope is still NONE.     *)
DecodePortVlanOperation(cmd, t) ==
    LET i == GetArrayIndex(t, PORT_ABILITY_STRINGS)
    IN  IF cmd.ope # 0 THEN Ok(cmd)
        ELSE IF i <= 0 THEN NG
        ELSE Ok([cmd EXCEPT !.ope = i, !.arxtx = cmd.rxtx])

(* decode_port_vid / decode_port_pcp: read only for add_vlantag; the vid  *)
(* decoder also marks the pcp as unset (-1).                              *)
DecodePortVid(cmd, t) ==
    LET v == GetIntValue(t, 0, ETH_VLAN_ID_MAX)
    IN  IF cmd.ope # 1 THEN Ok(cmd)
        ELSE IF v < 0 THEN NG
        ELSE Ok([cmd EXCEPT !.avid = v, !.apcp = -1])

DecodePortPcp(cmd, t) ==
    LET v == GetIntValue(t, 0, SPP_VLAN_PCP_MAX)
    IN  IF cmd.ope # 1 THEN Ok(cmd)
        ELSE IF v < 0 THEN NG
        ELSE Ok([cmd EXCEPT !.apcp = v])

(* decode_mac_addr_str_value: "default" stands for the dummy address.     *)
DecodeMacAddrStr(cmd, t) ==
    LET s == IF t = DefaultSpec THEN DummyAddr ELSE t
    IN  IF Lex[s].mac < 0 THEN NG ELSE Ok([cmd EXCEPT !.mac = s])

DecodeClassifierAction(cmd, t) == DecodeActionIn(cmd, t, {3, 4})

DecodeClassifierType(cmd, t) ==
    LET i == GetArrayIndex(t, CLASSIFILER_TYPE)
    IN  IF i <= 0 THEN NG ELSE Ok([cmd EXCEPT !.ctype = i])

DecodeClassifierVid(cmd, t) ==
    LET v == GetIntValue(t, 0, ETH_VLAN_ID_MAX)
    IN  IF v < 0 THEN NG ELSE Ok([cmd EXCEPT !.vid = v])

(* Mutant: the mac form keeps the vid it was given.                        *)
DecodeClassifierPortKeepVid(cmd, t) ==
    LET p   == ConvertPortToIface(t)
        mac == IF cmd.mac = "" THEN -1 ELSE Lex[cmd.mac].mac
    IN  CASE p[1] = "UNDEF" \/ ~SppCheckAddedPort(p) -> NG
          [] IsAdd(cmd) /\ ~SppCheckClassidUsedPort(ETH_VLAN_ID_MAX, 0, p) -> NG
          [] IsDel(cmd) /\ mac < 0 -> NG
          [] IsDel(cmd) /\ ~SppCheckClassidUsedPort(cmd.vid, mac, p) -> NG
          [] OTHER -> Ok([cmd EXCEPT !.port = p])

(* decode_classifier_port_value: the port must be added; the mac form    *)
(* stores vid ETH_VLAN_ID_MAX; add needs a port with no class id yet       *)
(* (ETH_VLAN_ID_MAX, 0), del the port's class id to be the one named.      *)
DecodeClassifierPort(cmd, t) ==
    LET p   == ConvertPortToIface(t)
        c   == IF cmd.ctype = 1 THEN [cmd EXCEPT !.vid = ETH_VLAN_ID_MAX] ELSE cmd
        mac == IF c.mac = "" THEN -1 ELSE Lex[c.mac].mac
    IN  CASE p[1] = "UNDEF" \/ ~SppCheckAddedPort(p) -> NG
          [] IsAdd(c) /\ ~SppCheckClassidUsedPort(ETH_VLAN_ID_MAX, 0, p) -> NG
          [] IsDel(c) /\ mac < 0 -> NG
          [] IsDel(c) /\ ~SppCheckClassidUsedPort(c.vid, mac, p) -> NG
          [] OTHER -> Ok([c EXCEPT !.port = p])

(* The func of parameter_list[c][pos] applied to token t.                 *)
Decode(c, pos, cmd, t, ovr) ==
    LET dec == ParameterList[c][pos]
    IN  CASE c \in {1, 2} /\ dec = "action"      -> DecodeClassifierAction(cmd, t)
          [] c \in {1, 2} /\ dec = "type"        -> DecodeClassifierType(cmd, t)
          [] dec = "vlan id"                     -> DecodeClassifierVid(cmd, t)
          [] dec = "mac address"                 -> DecodeMacAddrStr(cmd, t)
          [] c \in {1, 2} /\ dec = "port"        -> DecodeClassifierPort(cmd, t)
          [] c = 6 /\ dec = "action"             -> DecodeComponentAction(cmd, t)
          [] c = 6 /\ dec = "component name"     -> DecodeComponentName(cmd, t)
          [] dec = "core"                        -> DecodeComponentCore(cmd, t)
          [] dec = "component type"              -> DecodeComponentType(cmd, t)
          [] dec = "action"                      -> DecodePortAction(cmd, t)
          [] dec = "port"                        -> DecodePortPort(cmd, t, ovr)
          [] dec = "port rxtx"                   -> DecodePortRxtx(cmd, t, ovr)
          [] dec = "component name"              -> DecodePortName(cmd, t)
          [] dec = "port vlan operation"         -> DecodePortVlanOperation(cmd, t)
          [] dec = "port vid"                    -> DecodePortVid(cmd, t)
          [] dec = "port pcp"                    -> DecodePortPcp(cmd, t)

-----------------------------------------------------------------------------
VARIABLES
    phase,     \* "idle", "params" (decoder loop running), "done", "crashed"
    argc,      \* tokens parse_parameter_value found
    argv,      \* the tokens read so far (argv[0] first)
    ci,        \* request->commands[0].type: index into CommandList
    pi,        \* the parameter loop index
    cmd,       \* request->commands[0].spec: the typed command
    res,       \* the parse result: code, and value_name / value of error
    requested  \* the is_requested_* flag spp_parse_command_request set

vars == <<phase, argc, argv, ci, pi, cmd, res, requested>>

Result(code, name, value) == [code |-> code, name |-> name, value |-> value]
NoResult == Result("none", "", "")

(* spp_parse_command_request: after a successful parse, _get_client_id,  *)
(* status and exit raise their is_requested_* flag.                        *)
RequestedFlag(c) ==
    CASE c = 3 -> "client_id" [] c = 4 -> "status" [] c = 5 -> "exit"
      [] OTHER -> "none"

(* A request of n tokens starting with t0 arrives in the cleared request.  *)
(* parse_command_in_list scans command_list: a name match whose count    *)
(* does not fit sets command_name_check and the scan goes on (the        *)
(* overloaded classifier_table); the first fitting descriptor is taken.   *)
(* No fit: WRONG_FORMAT if the name matched, else WRONG_VALUE "command".  *)
ParseCommandInList(n, t0) ==
    /\ phase = "idle"
    /\ argc' = n /\ cmd' = ZeroCommand /\ pi' = 1
    /\ IF ~ParseParameterValue(n)
       THEN /\ argv' = <<>> /\ ci' = 0 /\ requested' = "none"
            /\ res' = Result("WRONG_FORMAT", "", "") /\ phase' = "done"
       ELSE IF n = 0
       THEN /\ argv' = <<>> /\ ci' = 0 /\ requested' = "none"
            /\ res' = Result("NULL_ARGV", "", "") /\ phase' = "crashed"
       ELSE LET fits == SelectInSeq(CommandList, LAMBDA d :
                            d.name = t0 /\ n >= d.min /\ n <= d.max)
                named == \E k \in 1 .. Len(CommandList) : CommandList[k].name = t0
            IN  /\ argv' = <<t0>> /\ ci' = fits
                /\ CASE fits = 0 /\ named ->
                          /\ res' = Result("WRONG_FORMAT", "", "")
                          /\ phase' = "done" /\ requested' = "none"
                     [] fits = 0 ->
                          /\ res' = Result("WRONG_VALUE", "command", t0)
                          /\ phase' = "done" /\ requested' = "none"
                     [] ~CommandList[fits].func ->
                          /\ res' = Result("OK", "", "") /\ phase' = "done"
                          /\ requested' = RequestedFlag(fits)
                     [] OTHER ->
                          /\ res' = NoResult /\ phase' = "params"
                          /\ requested' = "none"

(* allow_override of the loop: only parse_command_parameter_port passes  *)
(* it, set when argc equals the descriptor's param_max.                    *)
AllowOverride == ci = 7 /\ argc = CommandList[ci].max

(* One turn of the decoder loop of the command's handler: the decoder of *)
(* position pi reads argv[pi]; a refusal is reported with its name and   *)
(* the token and ends the parse.                                          *)
ParseCommandParameter(t) ==
    /\ phase = "params" /\ pi < argc
    /\ argv' = Append(argv, t) /\ UNCHANGED <<argc, ci, requested>>
    /\ LET out == Decode(ci, pi, cmd, t, AllowOverride)
       IN  IF out.ret < 0
           THEN /\ res' = Result("WRONG_VALUE", ParameterList[ci][pi], t)
                /\ phase' = "done" /\ UNCHANGED <<pi, cmd>>
           ELSE /\ cmd' = out.cmd /\ pi' = pi + 1
                /\ UNCHANGED <<res, phase>>

ParseEnd ==
    /\ phase = "params" /\ pi = argc
    /\ res' = Result("OK", "", "") /\ phase' = "done"
    /\ requested' = RequestedFlag(ci)
    /\ UNCHANGED <<argc, argv, ci, pi, cmd>>

(* The caller clears the request and the error (memset to 0) before it  *)
(* hands the next request to spp_parse_command_request.                    *)
ClearRequest ==
    /\ phase = "done"
    /\ phase' = "idle" /\ argc' = 0 /\ argv' = <<>> /\ ci' = 0 /\ pi' = 0
    /\ cmd' = ZeroCommand /\ res' = NoResult /\ requested' = "none"

Crashed ==
    /\ phase = "crashed"
    /\ UNCHANGED vars

Init ==
    /\ phase = "idle" /\ argc = 0 /\ argv = <<>> /\ ci = 0 /\ pi = 0
    /\ cmd = ZeroCommand /\ res = NoResult /\ requested = "none"

Next ==
    \/ \E n \in 0 .. MaxArgc, t \in Tokens : ParseCommandInList(n, t)
    \/ \E t \in Tokens : ParseCommandParameter(t)
    \/ ParseEnd
    \/ ClearRequest
    \/ Crashed

Spec == Init /\ [][Next]_vars
-----------------------------------------------------------------------------
Codes == {"none", "OK", "WRONG_FORMAT", "WRONG_VALUE", "NULL_ARGV"}

TypeOK ==
    /\ phase \in {"idle", "params", "done", "crashed"}
    /\ argc \in 0 .. MaxArgc /\ argv \in Seq(Tokens) /\ Len(argv) <= MaxParams
    /\ ci \in 0 .. Len(CommandList) /\ pi \in 0 .. MaxParams
    /\ cmd.action \in 0 .. Len(COMMAND_ACTION) - 1
    /\ cmd.ctype \in 0 .. Len(CLASSIFILER_TYPE) - 1
    /\ cmd.vid \in 0 .. ETH_VLAN_ID_MAX /\ cmd.core \in 0 .. MaxLcore - 1
    /\ cmd.ope \in 0 .. Len(PORT_ABILITY_STRINGS) - 1
    /\ cmd.avid \in 0 .. ETH_VLAN_ID_MAX /\ cmd.apcp \in -1 .. SPP_VLAN_PCP_MAX
    /\ res.code \in Codes
    /\ requested \in {"none", "client_id", "status", "exit"}

(* The values the protocol (spec 3, 4.4, 6) gives a token: a number read *)
(* whole with base prefix and within the range, an iface:index whose     *)
(* index is a non-negative int (PortRecord.interface_index), a MAC       *)
(* address or the word for the default class.                            *)
(* (lo .. hi within 0 .. 2^30 - 1)                                         *)
NumIn(t, lo, hi) == Lex[t].whole.ok /\ Lex[t].whole.val.q = 0 /\ Lex[t].whole.val.r \in lo .. hi
NumOf(t) == Lex[t].whole.val.r
PortTok(t) ==
    /\ Lex[t].colon /\ Lex[t].pre \in DOMAIN IfaceType /\ Lex[t].after.ok
    /\ Lex[t].after.val.q \in 0 .. 1
PortOf(t) == <<IfaceType[Lex[t].pre], Lex[t].after.val.q * 2^30 + Lex[t].after.val.r>>
MacStr(t) == IF t = DefaultSpec THEN DummyAddr ELSE t
MacTok(t) == Lex[MacStr(t)].mac >= 0

(* The grammar of spec 6 for the vf's commands, position k of a request  *)
(* av (av[1] the command) read with descriptor c: the classifier forms   *)
(* "add|del mac <mac> <port>" and "add|del vlan <vid> <mac> <port>" on   *)
(* a port that exists, add to a port with no class id (vid              *)
(* ETH_VLAN_ID_MAX, mac 0), del of the class id the port has; component  *)
(* "start <name> <core> <type>" or "stop <name>" with the vf's types;    *)
(* "port del" with no more than the component, "port add", a port and   *)
(* direction free for an add unless the request gives the whole vlan-tag *)
(* (argc = 8: the override of spec 4.4), a known component, then for an *)
(* add only a vlan operation, and for add_vlantag a vid and a pcp.        *)
GrammarAllows(c, k, t, av) ==
    LET a(i)    == av[i + 1]
        n       == Len(av)
        ovr     == argc = 8
        used(d) == PortTok(a(2)) /\ <<PortOf(a(2))[1], PortOf(a(2))[2], d>> \in UsedPort
        classOk(p, vid, macTok) ==
            /\ p \in AddedPorts
            /\ a(1) = "add" => ClassId[p] = <<ETH_VLAN_ID_MAX, 0>>
            /\ a(1) = "del" => ClassId[p] = <<vid, Lex[MacStr(macTok)].mac>>
    IN  CASE c \in {1, 2} /\ k = 1 -> t \in {"add", "del"}
          [] c = 1 /\ k = 2 -> t = "mac"
          [] c = 1 /\ k = 3 -> MacTok(t)
          [] c = 1 /\ k = 4 -> PortTok(t) /\ classOk(PortOf(t), ETH_VLAN_ID_MAX, a(3))
          [] c = 2 /\ k = 2 -> t = "vlan"
          [] c = 2 /\ k = 3 -> NumIn(t, 0, ETH_VLAN_ID_MAX)
          [] c = 2 /\ k = 4 -> MacTok(t)
          [] c = 2 /\ k = 5 -> PortTok(t) /\ classOk(PortOf(t), NumOf(a(3)), a(4))
          [] c = 6 /\ k = 1 -> \/ t = "start" /\ argc = 5
                               \/ t = "stop" /\ argc = 3
          [] c = 6 /\ k = 2 -> Lex[t].len < ValueBufSz /\ (a(1) = "start" => t \notin UsedNames)
          [] c = 6 /\ k = 3 -> a(1) = "start" => NumIn(t, 0, MaxLcore - 1)
          [] c = 6 /\ k = 4 -> a(1) = "start" => t \in {"classifier_mac", "merge", "forward"}
          [] k = 1 -> t = "add" \/ (t = "del" /\ argc = 5)
          [] k = 2 -> PortTok(t) /\ (a(1) = "add" /\ ~ovr => ~(used(1) /\ used(2)))
          [] k = 3 -> t \in {"rx", "tx"}
                      /\ (a(1) = "add" /\ ~ovr => ~used(IF t = "rx" THEN 1 ELSE 2))
          [] k = 4 -> t \in UsedNames /\ Lex[t].len < ValueBufSz
          [] k = 5 -> a(1) = "add" /\ t \in {"add_vlantag", "del_vlantag"}
          [] k = 6 -> a(5) = "add_vlantag" => NumIn(t, 0, ETH_VLAN_ID_MAX)
          [] k = 7 -> a(5) = "add_vlantag" => NumIn(t, 0, SPP_VLAN_PCP_MAX)

(* The descriptor the request's name and count select, 0 if none.          *)
Fitting(av, n) == SelectInSeq(CommandList, LAMBDA d : d.name = av[1] /\ n \in d.min .. d.max)

(* Every refusal of spp_parse_command_request is of a request the spec's *)
(* grammar refuses, and is classified as the spec says: more tokens than *)
(* CMD_MAX_PARAMETERS or a known name with a count no descriptor admits   *)
(* is WRONG_FORMAT (after scanning both classifier_table descriptors), an *)
(* unknown name is WRONG_VALUE "command", and a WRONG_VALUE of a decoder  *)
(* follows a token the grammar refuses.  So no valid request is turned   *)
(* away: not by the overload scan, the override of an 8-token port add,   *)
(* the vlan sub-grammar, the class-id checks, nor a number's base prefix. *)
VfRefusesOnlyInvalid ==
    phase = "done" /\ res.code # "OK" =>
        IF argc > MaxParams THEN res.code = "WRONG_FORMAT"
        ELSE LET c     == Fitting(argv, argc)
                 named == \E d \in ToSet(CommandList) : d.name = argv[1]
             IN  CASE ~named -> res = Result("WRONG_VALUE", "command", argv[1])
                   [] c = 0  -> res.code = "WRONG_FORMAT"
                   [] OTHER  -> /\ res.code = "WRONG_VALUE"
                                /\ \E k \in 1 .. Len(argv) - 1 :
                                       ~GrammarAllows(c, k, argv[k + 1], argv)

(* What a valid request says, field by field, in the typed command: the  *)
(* mac form's class id has vid ETH_VLAN_ID_MAX ("no vlan"), "default" is *)
(* the dummy address, a vlan operation is applied to the port's          *)
(* direction, and an add_vlantag without a pcp leaves it unset (-1).     *)
Want(c, av) ==
    LET a(i) == av[i + 1]
        n    == Len(av)
        act  == GetArrayIndex(a(1), COMMAND_ACTION)
    IN  CASE c = 1 -> [action |-> act, ctype |-> 1, vid |-> ETH_VLAN_ID_MAX,
                       mac |-> MacStr(a(3)), port |-> PortOf(a(4))]
          [] c = 2 -> [action |-> act, ctype |-> 2, vid |-> NumOf(a(3)),
                       mac |-> MacStr(a(4)), port |-> PortOf(a(5))]
          [] c = 6 /\ a(1) = "start" ->
                      [action |-> act, name |-> a(2), core |-> NumOf(a(3)),
                       type |-> ConvertComponentType(a(4))]
          [] c = 6 -> [action |-> act, name |-> a(2)]
          [] OTHER ->
              LET base == [action |-> act, port |-> PortOf(a(2)),
                           rxtx |-> GetArrayIndex(a(3), PORT_RXTX_STR), name |-> a(4)]
                  ope  == IF n >= 6 THEN GetArrayIndex(a(5), PORT_ABILITY_STRINGS) ELSE 0
              IN  CASE n >= 7 /\ ope = 1 ->
                         base @@ [ope |-> 1, arxtx |-> base.rxtx, avid |-> NumOf(a(6)),
                                  apcp |-> IF n = 8 THEN NumOf(a(7)) ELSE -1]
                    [] n >= 6 -> base @@ [ope |-> ope, arxtx |-> base.rxtx]
                    [] OTHER -> base

(* Every valid request spp_parse_command_request accepts is read as the  *)
(* spec says: each field the request gives (Want) holds in the command    *)
(* handed to the runner, whatever the decoders wrote on the way (the vid *)
(* the mac form's port decoder overwrites, the pcp the vid decoder       *)
(* resets, the ability direction taken from the rxtx decoded before).    *)
VfReadsValidRequests ==
    (/\ phase = "done" /\ res.code = "OK" /\ ci \in {1, 2, 6, 7}
     /\ \A k \in 1 .. argc - 1 : GrammarAllows(ci, k, argv[k + 1], argv))
    => LET w == Want(ci, argv) IN \A f \in DOMAIN w : cmd[f] = w[f]
====
