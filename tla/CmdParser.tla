----------------------------- MODULE CmdParser -----------------------------
(***************************************************************************)
(* The request parser of spp_mirror (src/mirror/command_parse.c): split   *)
(* the request into tokens, pick the command descriptor of command_list   *)
(* by name and token count, then run the per-position decoders of         *)
(* parameter_list over tokens 1..argc-1, stopping at the first refusal.   *)
(* The parser reads the component and port registries through            *)
(* spp_get_component_id and spp_check_used_port; here they are the       *)
(* constant sets UsedNames and UsedPort.                                  *)
(*                                                                         *)
(* A token is a model string; Lex[t] is what the C library functions see  *)
(* in it: pre is the text before the first ':' (colon says whether there  *)
(* is one), after is strtol of the text after it, whole is strtol of the *)
(* whole token, both as a long (ok is FALSE when strtol/strtoul stops     *)
(* before the end: no digits, or digits followed by other text), len is   *)
(* strlen.  A long is kept as [q, r], the value q * 2^30 + r with         *)
(* 0 <= r < 2^30, so that values past 32 bits, which the code narrows to  *)
(* int or unsigned int, can be written.                                   *)
(*                                                                         *)
(* The parser is a loop over the tokens; the model takes each token only  *)
(* when the loop reads it, so every request of up to MaxArgc tokens over  *)
(* Tokens is covered without enumerating the tokens the parser never      *)
(* reads after a refusal.                                                  *)
(***************************************************************************)
EXTENDS Integers, Sequences, SequencesExt

CONSTANTS
    Tokens,       \* the token strings requests are made of
    Lex,          \* Lex[t]: the lexical view of token t
    UsedNames,    \* names spp_get_component_id finds
    UsedPort,     \* <<iface type, iface no, dir>> spp_check_used_port finds
    MaxLcore,     \* RTE_MAX_LCORE
    ValueBufSz,   \* CMD_VALUE_BUFSZ
    MaxParams,    \* CMD_MAX_PARAMETERS
    MaxArgc       \* longest request (in tokens) the controller sends

ASSUME MaxArgc > MaxParams


(* The string tables of command_parse.c, in enum order.                    *)
COMMAND_ACTION == <<"none", "start", "stop", "add", "del">>
PORT_RXTX_STR == <<"none", "rx", "tx">>

(* command_list: name, param_min, param_max, whether a handler is set.     *)
CommandList ==
    << [name |-> "_get_client_id", min |-> 1, max |-> 1, func |-> FALSE],
       [name |-> "status",         min |-> 1, max |-> 1, func |-> FALSE],
       [name |-> "exit",           min |-> 1, max |-> 1, func |-> FALSE],
       [name |-> "component",      min |-> 3, max |-> 5, func |-> TRUE],
       [name |-> "port",           min |-> 5, max |-> 8, func |-> TRUE] >>

(* parameter_list: the decoders of each command, by position; an index   *)
(* past the end is PARSE_PARAMETER_LIST_EMPTY, whose func is NULL.         *)
ParameterList ==
    [c \in 1 .. Len(CommandList) |->
        CASE CommandList[c].name = "component" ->
                 <<"action", "component name", "core", "component type">>
          [] CommandList[c].name = "port" ->
                 <<"action", "port", "port rxtx", "component name">>
          [] OTHER -> <<>>]

(* The typed command after memset(&request, 0): every field zero.          *)
ZeroCommand == [action |-> 0, name |-> "", core |-> 0, type |-> "UNUSE",
                port |-> <<"UNDEF", 0>>, rxtx |-> 0]

-----------------------------------------------------------------------------
(* Mutant: the index counted from 1.                                      *)
GetArrayIndexOneBased(t, list) ==
    SelectInSeq(list, LAMBDA s : s = t)

(* parse_parameter_value: strtok_r splits at spaces and refuses more than *)
(* CMD_MAX_PARAMETERS tokens.                                              *)
ParseParameterValue(n) == n <= MaxParams

(* get_arrary_index: the 0-based index of t in the table, or -1.           *)
GetArrayIndex(t, list) ==
    SelectInSeq(list, LAMBDA s : s = t) - 1

(* The low 32 bits of a long l, which is what an int or unsigned int     *)
(* assigned from it holds: (q % 4) * 2^30 + r.  As an int they are        *)
(* negative when q % 4 >= 2; as an unsigned int they are then 2^31 or     *)
(* more, past every max this parser checks against.                       *)
IntOf(l) == LET m == l.q % 4 IN IF m < 2 THEN m * 2^30 + l.r ELSE (m - 4) * 2^30 + l.r
UIntBelow2p31(l) == l.q % 4 < 2

(* get_uint_value: strtoul must consume the whole token; its result is   *)
(* stored in the unsigned int ret (strtoul's negation of a "-" number and *)
(* the narrowing keep the low 32 bits), which must lie in min..max;       *)
(* SPP_RET_NG (-1) otherwise.                                             *)
GetUintValue(t, min, max) ==
    LET l == Lex[t].whole.val
    IN  IF ~Lex[t].whole.ok \/ ~UIntBelow2p31(l) THEN -1
        ELSE IF IntOf(l) < min \/ IntOf(l) > max THEN -1 ELSE IntOf(l)

(* parse_str_value: the value must fit CMD_VALUE_BUFSZ with its NUL.       *)
ParseStrValue(t) == IF Lex[t].len >= ValueBufSz THEN "NG" ELSE t

(* spp_convert_port_to_iface: "phy:", "vhost:" or "ring:" prefix, then a   *)
(* number strtol consumes entirely, stored in the int ret_no.              *)
IfaceType == [phy |-> "PHY", vhost |-> "VHOST", ring |-> "RING"]

ConvertPortToIface(t) ==
    IF ~Lex[t].colon \/ Lex[t].pre \notin DOMAIN IfaceType THEN <<"UNDEF", 0>>
    ELSE IF ~Lex[t].after.ok THEN <<"UNDEF", 0>>
    ELSE <<IfaceType[Lex[t].pre], IntOf(Lex[t].after.val)>>

(* spp_convert_component_type: only "mirror" names a type.                 *)
ConvertComponentType(t) == IF t = "mirror" THEN "MIRROR" ELSE "UNUSE"

CheckUsedPort(port, d) == <<port[1], port[2], d>> \in UsedPort

IsStart(cmd) == cmd.action = 1          \* CMD_ACTION_START
IsAdd(cmd) == cmd.action = 3            \* CMD_ACTION_ADD

(* The decoders of parameter_list: each returns SPP_RET_OK with the       *)
(* command record its field written in, or SPP_RET_NG.                     *)
Ok(c) == [ret |-> 0, cmd |-> c]
NG == [ret |-> -1, cmd |-> ZeroCommand]

DecodeComponentAction(cmd, t) ==
    LET i == GetArrayIndex(t, COMMAND_ACTION)
    IN  IF i <= 0 \/ i \notin {1, 2} THEN NG ELSE Ok([cmd EXCEPT !.action = i])

DecodeComponentName(cmd, t) ==
    IF IsStart(cmd) /\ t \in UsedNames THEN NG
    ELSE IF ParseStrValue(t) = "NG" THEN NG
    ELSE Ok([cmd EXCEPT !.name = t])

DecodeComponentCore(cmd, t) ==
    IF ~IsStart(cmd) THEN Ok(cmd)
    ELSE LET v == GetUintValue(t, 0, MaxLcore - 1)
         IN  IF v < 0 THEN NG ELSE Ok([cmd EXCEPT !.core = v])

DecodeComponentType(cmd, t) ==
    IF ~IsStart(cmd) THEN Ok(cmd)
    ELSE IF ConvertComponentType(t) = "UNUSE" THEN NG
    ELSE Ok([cmd EXCEPT !.type = ConvertComponentType(t)])

DecodePortAction(cmd, t) ==
    LET i == GetArrayIndex(t, COMMAND_ACTION)
    IN  IF i <= 0 \/ i \notin {3, 4} THEN NG ELSE Ok([cmd EXCEPT !.action = i])

DecodePortPort(cmd, t) ==
    LET p == ConvertPortToIface(t)
    IN  IF p[1] = "UNDEF" THEN NG
        ELSE IF IsAdd(cmd) /\ CheckUsedPort(p, 1) /\ CheckUsedPort(p, 2) THEN NG
        ELSE Ok([cmd EXCEPT !.port = p])

DecodePortRxtx(cmd, t) ==
    LET i == GetArrayIndex(t, PORT_RXTX_STR)
    IN  IF i <= 0 THEN NG
        ELSE IF IsAdd(cmd) /\ CheckUsedPort(cmd.port, i) THEN NG
        ELSE Ok([cmd EXCEPT !.rxtx = i])

DecodePortName(cmd, t) ==
    IF t \notin UsedNames \/ ParseStrValue(t) = "NG" THEN NG
    ELSE Ok([cmd EXCEPT !.name = t])

(* The func pointer of parameter_list[c][pos] applied to token t.          *)
Decode(c, pos, cmd, t) ==
    LET comp == CommandList[c].name = "component"
    IN  CASE pos = 1 /\ comp -> DecodeComponentAction(cmd, t)
          [] pos = 2 /\ comp -> DecodeComponentName(cmd, t)
          [] pos = 3 /\ comp -> DecodeComponentCore(cmd, t)
          [] pos = 4 /\ comp -> DecodeComponentType(cmd, t)
          [] pos = 1         -> DecodePortAction(cmd, t)
          [] pos = 2         -> DecodePortPort(cmd, t)
          [] pos = 3         -> DecodePortRxtx(cmd, t)
          [] pos = 4         -> DecodePortName(cmd, t)

-----------------------------------------------------------------------------
VARIABLES
    phase,   \* "idle", "params" (decoder loop running), "done", "crashed"
    argc,    \* tokens parse_parameter_value found
    argv,    \* the tokens read so far (argv[0] first)
    ci,      \* request->commands[0].type: index into CommandList
    pi,      \* the parameter loop index
    cmd,     \* request->commands[0].spec: the typed command
    res      \* the parse result: code, and value_name / value of error

vars == <<phase, argc, argv, ci, pi, cmd, res>>

Result(code, name, value) == [code |-> code, name |-> name, value |-> value]
NoResult == Result("none", "", "")

(* A request of n tokens starting with t0 arrives (process_request clears *)
(* request and error); parse_parameter_value refuses more than            *)
(* CMD_MAX_PARAMETERS tokens, then parse_command_in_list compares argv[0] *)
(* with each command_list name (strcmp of a NULL argv[0] when the request *)
(* held no token at all), takes the first whose token count fits, and     *)
(* either returns (no handler) or starts the parameter loop at pi = 1.     *)
ParseCommandInList(n, t0) ==
    /\ phase = "idle"
    /\ argc' = n /\ cmd' = ZeroCommand /\ pi' = 1
    /\ IF ~ParseParameterValue(n)
       THEN /\ argv' = <<>> /\ ci' = 0
            /\ res' = Result("WRONG_FORMAT", "", "") /\ phase' = "done"
       ELSE IF n = 0
       THEN /\ argv' = <<>> /\ ci' = 0
            /\ res' = Result("NULL_ARGV", "", "") /\ phase' = "crashed"
       ELSE LET fits == SelectInSeq(CommandList, LAMBDA d :
                            d.name = t0 /\ n >= d.min /\ n <= d.max)
                named == \E k \in 1 .. Len(CommandList) : CommandList[k].name = t0
            IN  /\ argv' = <<t0>> /\ ci' = fits
                /\ CASE fits = 0 /\ named ->
                          res' = Result("WRONG_FORMAT", "", "") /\ phase' = "done"
                     [] fits = 0 ->
                          res' = Result("WRONG_VALUE", "command", t0) /\ phase' = "done"
                     [] ~CommandList[fits].func ->
                          res' = Result("OK", "", "") /\ phase' = "done"
                     [] OTHER ->
                          res' = NoResult /\ phase' = "params"

(* One turn of parse_command_parameter_component / _port: the decoder of  *)
(* position pi reads argv[pi]; a refusal is reported with the decoder's   *)
(* name and the token (set_string_value_parse_error) and ends the parse.  *)
(* Past the decoders of the command the loop calls a NULL func.           *)
ParseCommandParameter(t) ==
    /\ phase = "params" /\ pi < argc
    /\ argv' = Append(argv, t) /\ UNCHANGED <<argc, ci>>
    /\ IF pi > Len(ParameterList[ci])
       THEN /\ res' = Result("NULL_FUNC", "", t) /\ phase' = "crashed"
            /\ UNCHANGED <<pi, cmd>>
       ELSE LET dec == ParameterList[ci][pi]
                out == Decode(ci, pi, cmd, t)
            IN  IF out.ret < 0
                THEN /\ res' = Result("WRONG_VALUE", dec, t) /\ phase' = "done"
                     /\ UNCHANGED <<pi, cmd>>
                ELSE /\ cmd' = out.cmd /\ pi' = pi + 1
                     /\ UNCHANGED <<res, phase>>

(* Every parameter decoded: spp_parse_command_request returns OK with one *)
(* valid command.                                                          *)
ParseEnd ==
    /\ phase = "params" /\ pi = argc
    /\ res' = Result("OK", "", "") /\ phase' = "done"
    /\ UNCHANGED <<argc, argv, ci, pi, cmd>>

(* process_request clears the request and the parse error (memset to 0) *)
(* before it parses the next request.                                      *)
ClearRequest ==
    /\ phase = "done"
    /\ phase' = "idle" /\ argc' = 0 /\ argv' = <<>> /\ ci' = 0 /\ pi' = 0
    /\ cmd' = ZeroCommand /\ res' = NoResult

(* A crashed control thread takes no more requests.                        *)
Crashed ==
    /\ phase = "crashed"
    /\ UNCHANGED vars

Init ==
    /\ phase = "idle" /\ argc = 0 /\ argv = <<>> /\ ci = 0 /\ pi = 0
    /\ cmd = ZeroCommand /\ res = NoResult

Next ==
    \/ \E n \in 0 .. MaxArgc, t \in Tokens : ParseCommandInList(n, t)
    \/ \E t \in Tokens : ParseCommandParameter(t)
    \/ ParseEnd
    \/ ClearRequest
    \/ Crashed

Spec == Init /\ [][Next]_vars
-----------------------------------------------------------------------------
Codes == {"none", "OK", "WRONG_FORMAT", "WRONG_VALUE", "NULL_ARGV", "NULL_FUNC"}

TypeOK ==
    /\ phase \in {"idle", "params", "done", "crashed"}
    /\ argc \in 0 .. MaxArgc /\ argv \in Seq(Tokens) /\ Len(argv) <= MaxParams
    /\ ci \in 0 .. Len(CommandList) /\ pi \in 0 .. MaxParams
    /\ cmd.action \in 0 .. Len(COMMAND_ACTION) - 1
    /\ cmd.rxtx \in 0 .. Len(PORT_RXTX_STR) - 1
    /\ cmd.core \in 0 .. MaxLcore - 1 /\ cmd.type \in {"UNUSE", "MIRROR"}
    /\ res.code \in Codes

(* The command grammar of the protocol (spec 6) as what each position of *)
(* a component or port command may hold, given the action at position 1 *)
(* and the port at position 2: a name is shorter than CMD_VALUE_BUFSZ, a *)
(* new component's name is free, a core is an lcore id, the type is      *)
(* "mirror", a port is iface:number of a known iface, a port is added in *)
(* a direction it is not used in, and a port command names a component.  *)
(* A number is taken at the width the code stores it (a core id as an    *)
(* unsigned int, an interface number as an int).                         *)
GrammarAllows(c, k, t, act, port) ==
    LET isPort    == Lex[port].colon /\ Lex[port].pre \in DOMAIN IfaceType
                     /\ Lex[port].after.ok
        used(d)   == isPort /\ <<IfaceType[Lex[port].pre], IntOf(Lex[port].after.val), d>>
                               \in UsedPort
        core      == Lex[t].whole.val
        dir       == IF t = "rx" THEN 1 ELSE 2
    IN  IF CommandList[c].name = "component"
        THEN CASE k = 1 -> t \in {"start", "stop"}
               [] k = 2 -> Lex[t].len < ValueBufSz /\ (act = "start" => t \notin UsedNames)
               [] k = 3 -> act = "start" => Lex[t].whole.ok /\ core.q % 4 < 2
                                        /\ (core.q % 4) * 2^30 + core.r < MaxLcore
               [] k = 4 -> act = "start" => t = "mirror"
        ELSE CASE k = 1 -> t \in {"add", "del"}
               [] k = 2 -> isPort /\ (act = "add" => ~(used(1) /\ used(2)))
               [] k = 3 -> t \in {"rx", "tx"} /\ (act = "add" => ~used(dir))
               [] k = 4 -> t \in UsedNames /\ Lex[t].len < ValueBufSz

DecoderDefined == res.code # "NULL_FUNC"
====
